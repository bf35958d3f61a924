---------------------------- MODULE SourceIntake ----------------------------
(***************************************************************************)
(* How a conversion comes by its source and by what is known about it:     *)
(* acquireSource and acquireURI (source.go) take a path, a URI, bytes or a *)
(* reader; what the source says of itself and what the caller says of it   *)
(* become facts, and enrichStreamInfo (sniff.go) fills in what is missing  *)
(* before the converters are asked.  Bytes are read as Acquisition allows, *)
(* which WatchedRead implements; http and https are RemoteFetch; dispatch  *)
(* and sealing are ContainerWalk and Seal, here one step.                  *)
(***************************************************************************)
EXTENDS Integers

CONSTANTS
    MaxSourceBytes, MaxHTTPBytes,
    Calls,              \* the conversions that may be asked for
    None,               \* the empty string
    Unsafe,             \* values NewFact rejects
    Suffix,             \* filepath.Ext: the extension of each file name
    TypeByExtension,    \* mime.TypeByExtension, where it knows one
    DetectContentType,  \* http.DetectContentType of the first 512 bytes
    ExtensionsByType    \* mime.ExtensionsByType, its first answer

Kind == {"path", "file", "data", "remote", "bytes", "seeker", "reader", "other"}
Ending == {"eof", "fault", "deadline", "stall", "rogue", "hang"}

\* A media type comes with its charset parameter, or None.
FactKind == {"media_type", "charset", "filename", "extension"}
InfoField == {"media", "param", "charset", "filename", "extension"}

(***************************************************************************)
(* usable  : the URI is well formed and os.Open succeeds; a data URI has a *)
(*           comma; for other kinds, TRUE                                  *)
(* seeks   : Seek(0, io.SeekStart) succeeds, as it does not on a pipe      *)
(* enabled : ConvertOptions.EnableHTTP                                     *)
(* own     : what the source says of itself: a file its name, a data URI   *)
(*           or a reply its type                                           *)
(* hints   : the caller's StreamInfo                                       *)
(* content : what the first bytes look like                                *)
(***************************************************************************)
Stream == [size : Nat, ending : Ending]
Presents(c) ==
    /\ c.kind = "bytes" => c.stream.ending = "eof"
    /\ c.kind = "data"  => c.stream.ending \in {"eof", "fault"}
    /\ c.kind # "seeker" => c.seeks
    /\ c.kind \in {"remote", "bytes", "seeker", "reader", "other"} => c.usable

ASSUME IntakeAssumption ==
    /\ MaxSourceBytes \in Nat /\ MaxHTTPBytes \in Nat
    /\ \A c \in Calls : /\ c.kind \in Kind /\ c.stream \in Stream /\ Presents(c)
                        /\ DOMAIN c.own = InfoField /\ DOMAIN c.hints = InfoField
                        /\ c.content \in DOMAIN DetectContentType
    /\ None \notin Unsafe
    \* The tables' own values are canonical.
    /\ \A t \in {TypeByExtension[e] : e \in DOMAIN TypeByExtension}
                \cup {DetectContentType[d] : d \in DOMAIN DetectContentType} :
            {t.media, t.charset} \cap Unsafe = {}
    /\ \A m \in DOMAIN ExtensionsByType : ExtensionsByType[m] \notin Unsafe

VARIABLES
    call,               \* the conversion that was asked for
    cancelled,          \* ctx.Done() is closed
    stage,              \* where the conversion is, at last "refused" or "done"
    facts,              \* resolved.facts
    info,               \* what is known of the stream, as the converters see it
    outcome             \* "pending", "ok" or the class of the error

intake == <<call, stage, facts, info, outcome>>

Blank == [f \in InfoField |-> None]

IntakeInit ==
    /\ call \in Calls
    /\ cancelled = FALSE
    /\ stage = "start"
    /\ facts = {}
    /\ info = Blank
    /\ outcome = "pending"

Proceed(s) == stage' = s /\ UNCHANGED <<facts, info, outcome>>
Fail(o) == stage' = "refused" /\ outcome' = o /\ UNCHANGED <<facts, info>>

-----------------------------------------------------------------------------
\* The first checkpoint; then the URI is parsed or the file opened.
Start ==
    /\ stage = "start"
    /\ IF cancelled THEN Fail("cancelled")
       ELSE IF call.kind = "other" THEN Fail("invalid")
       ELSE IF ~call.usable THEN Fail("integrity")
       ELSE Proceed(IF call.kind = "seeker" THEN "seek" ELSE "read")
    /\ UNCHANGED <<call, cancelled>>

\* Seek(0, io.SeekStart), and a second checkpoint.
Seek ==
    /\ stage = "seek"
    /\ IF ~call.seeks THEN Fail("integrity")
       ELSE IF cancelled THEN Fail("cancelled")
       ELSE Proceed("read")
    /\ UNCHANGED <<call, cancelled>>

-----------------------------------------------------------------------------
FirstNonempty(x, y) == IF x # None THEN x ELSE y

\* What appendSafeInfoFacts makes of i: the values NewFact accepts.
SafeFacts(i, origin) ==
    LET value == [media_type |-> i.media, charset |-> FirstNonempty(i.charset, i.param),
                  filename |-> i.filename, extension |-> i.extension]
    IN  {[kind |-> k, value |-> value[k], origin |-> origin] :
            k \in {j \in FactKind : value[j] \notin Unsafe \cup {None}}}

\* The value of a kind that the origins, strongest first, give it.
Given(fs, kind, origin) == {f.value : f \in {g \in fs : g.kind = kind /\ g.origin = origin}}
Strongest(fs, kind, first, second) ==
    CASE Given(fs, kind, first) # {}  -> CHOOSE v \in Given(fs, kind, first) : TRUE
      [] Given(fs, kind, first) = {} /\ Given(fs, kind, second) # {}
                                      -> CHOOSE v \in Given(fs, kind, second) : TRUE
      [] OTHER                        -> None

\* StreamInfo.normalize: a file name gives the extension that is missing.
Normalized(i) ==
    IF i.extension = None /\ i.filename # None THEN [i EXCEPT !.extension = Suffix[i.filename]] ELSE i

\* safeMergedInfo: later facts replace earlier ones, the caller's come last.
SafeMergedInfo(fs) ==
    Normalized([media     |-> Strongest(fs, "media_type", "caller", "source"),
                param     |-> None,
                charset   |-> Strongest(fs, "charset", "caller", "source"),
                filename  |-> Strongest(fs, "filename", "caller", "source"),
                extension |-> Strongest(fs, "extension", "caller", "source")])

\* sealResolvedSource.
SealResolved ==
    /\ facts' = SafeFacts(call.own, "source") \cup SafeFacts(call.hints, "caller")
    /\ info' = SafeMergedInfo(facts')
    /\ stage' = "sniff"
    /\ UNCHANGED outcome

\* Mutation: every source is read under the limit for replies.
SourceLimit_ofReplies == MaxHTTPBytes

SourceLimit == MaxSourceBytes

Reading == INSTANCE Acquisition WITH limit <- SourceLimit, stream <- call.stream

Read ==
    /\ stage = "read" /\ call.kind # "remote"
    /\ \E o \in {"ok", "policy", "limit", "integrity", "cancelled"} :
          /\ Reading!Justified(o)
          /\ IF o = "ok" THEN SealResolved ELSE Fail(o)
    /\ UNCHANGED <<call, cancelled>>

RemoteLimit == IF MaxHTTPBytes < MaxSourceBytes THEN MaxHTTPBytes ELSE MaxSourceBytes

\* AcquireRemote and publicRemoteError.
Fetch ==
    /\ stage = "read" /\ call.kind = "remote"
    /\ \/ ~call.enabled /\ Fail("disabled")
       \/ /\ call.enabled
          /\ \/ /\ call.stream.ending = "eof" /\ call.stream.size <= RemoteLimit
                /\ SealResolved
             \/ \E o \in {"policy", "limit", "cancelled", "integrity"} : Fail(o)
    /\ UNCHANGED <<call, cancelled>>

-----------------------------------------------------------------------------
\* StreamInfo.Merge of a media type and a charset, as mime and net/http give them.
Overlay(i, t) == [i EXCEPT !.media = t.media, !.charset = FirstNonempty(t.charset, @)]

ByExtension(i) ==
    IF i.media = None /\ i.extension \in DOMAIN TypeByExtension
    THEN Overlay(i, TypeByExtension[i.extension]) ELSE i

\* Mutation: the content always has the last word.
ByContent_always(i) ==
    LET t == DetectContentType[call.content]
    IN  IF call.stream.size > 0 /\ t.media # None THEN Overlay(i, t) ELSE i

\* application/octet-stream, here None, tells nothing.
ByContent(i) ==
    LET t == DetectContentType[call.content]
    IN  IF call.stream.size > 0 /\ t.media # None /\ i.media = None THEN Overlay(i, t) ELSE i

WithExtension(i) ==
    IF i.extension = None /\ i.media \in DOMAIN ExtensionsByType
    THEN [i EXCEPT !.extension = ExtensionsByType[i.media]] ELSE i

\* enrichStreamInfoWithFacts: what was empty and no longer is was sniffed.
Sniff ==
    LET enriched == WithExtension(ByContent(ByExtension(info)))
        sniffed  == [f \in InfoField |-> IF info[f] = None THEN enriched[f] ELSE None]
    IN  /\ stage = "sniff"
        /\ info' = enriched
        /\ facts' = facts \cup SafeFacts(sniffed, "sniff")
        /\ stage' = "dispatch"
        /\ UNCHANGED <<call, cancelled, outcome>>

\* dispatchIngestion and sealIngestionEnvelope, whose last checkpoint comes last.
Dispatch ==
    /\ stage = "dispatch"
    /\ \E o \in {"ok", "unsupported", "failed", "malformed", "limit", "policy", "integrity", "cancelled"} :
          /\ o = "ok" => ~cancelled
          /\ stage' = "done"
          /\ outcome' = o
    /\ UNCHANGED <<call, cancelled, facts, info>>

IntakeStep == Start \/ Seek \/ Read \/ Fetch \/ Sniff \/ Dispatch

-----------------------------------------------------------------------------
Sniffed == stage = "dispatch" \/ outcome = "ok"

(* What decides which converter runs is on record: once sniffing is done,  *)
(* the media type and the file name the converters see are the value of    *)
(* the strongest fact (caller, then source, then sniff), and the extension *)
(* is that or the file name's; no rejected value and no unrecorded one     *)
(* takes part (source.go:324-345, ingestion.go:712-733).                   *)
Best(kind) ==
    LET claimed == Strongest(facts, kind, "caller", "source")
    IN  IF claimed # None THEN claimed ELSE Strongest(facts, kind, "sniff", "sniff")

RoutingIsAccountedFor ==
    Sniffed =>
        /\ info.media = Best("media_type")
        /\ info.filename = Best("filename")
        /\ info.extension = IF Best("extension") = None /\ info.filename # None
                            THEN Suffix[info.filename] ELSE Best("extension")

(* "Keep caller hint precedence, source facts, and sniff-only-fill         *)
(* behavior while recording origin"                                        *)
(* (WP04-engine-envelope-legacy-projection.md:84): what is recorded as the *)
(* caller's hint is what the converters are told.                          *)
Told == [media_type |-> info.media, charset |-> info.charset,
         filename |-> info.filename, extension |-> info.extension]

CallerHintsWin ==
    Sniffed => \A f \in facts : f.origin = "caller" => Told[f.kind] = f.value

(* A source that is turned away before anything is known of it is turned   *)
(* away for what it is: too long, out of reach, not seekable although it   *)
(* says it is, or broken; or the context ended.  A limit or an open that   *)
(* belongs to another kind of source is no reason (source.go:41-173,       *)
(* 440-451; for remote sources see RemoteFetch).                           *)
IntakeFailuresHaveCause ==
    stage = "refused" /\ call.kind # "remote" =>
        \/ outcome = "limit" /\ call.stream.size > MaxSourceBytes
        \/ outcome = "cancelled" /\ (cancelled \/ call.stream.ending = "deadline")
        \/ outcome = "invalid" /\ call.kind = "other"
        \/ /\ outcome = "integrity"
           /\ \/ ~call.usable \/ ~call.seeks
              \/ call.stream.ending \in {"fault", "stall", "rogue"}
=============================================================================
