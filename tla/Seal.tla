-------------------------------- MODULE Seal --------------------------------
(***************************************************************************)
(* sealIngestionEnvelope (ingestion.go): what a converter returned becomes *)
(* an envelope, or nothing does.  Every artifact is copied and charged to  *)
(* the request, the copies are put in canonical order and numbered, the    *)
(* converter's own ordinals in the Markdown are replaced by the numbers,   *)
(* and the envelope is verified before it is handed out.  The caller may   *)
(* cancel between any two steps, and once the call has returned the        *)
(* converter and the caller may write to the buffers they own.             *)
(***************************************************************************)
EXTENDS Envelope

CONSTANTS
    Owned,          \* the byte slices alive when sealing begins; the first
                    \* holds the source
    Conversions     \* what converters return

(***************************************************************************)
(* Raw        : a DetailedArtifact; slice is an index into Owned, and      *)
(*              described says that canonicalArtifactFacts accepts its     *)
(*              attributes                                                 *)
(* Token      : one occurrence of "inkbite-artifact:" in the Markdown.     *)
(*              opened: it begins the text or follows an opener; shaped:   *)
(*              an identifier and a delimiter follow; ordinal: the number  *)
(*              in that identifier                                         *)
(* Conversion : a selectedConversion with the facts of its source; text is *)
(*              the length of the Markdown, rewrite says that the          *)
(*              converter returned a detailed result, foreign that it      *)
(*              names a component the policy did not select                *)
(***************************************************************************)
Slice == [data : Nat, size : Nat, present : BOOLEAN]
Raw   == [slice : DOMAIN Owned, look : Nat, occurrence : Nat, described : BOOLEAN]
Token == [opened : BOOLEAN, shaped : BOOLEAN, ordinal : Nat]
Conversion == [artifacts : Seq(Raw), tokens : Seq(Token), text : Nat,
               rewrite : BOOLEAN, foreign : BOOLEAN,
               sourceFacts : Seq(Fact), facts : Seq(Fact), warnings : Seq(Nat)]

ASSUME SealAssumption ==
    /\ Owned \in Seq(Slice) /\ Owned # <<>>
    /\ Owned[1].size <= MaxSourceBytes      \* a source that was admitted
    /\ Conversions \subseteq Conversion

VARIABLES
    conversion,     \* the argument
    heap,           \* every byte slice there is, by its store
    ledger,         \* the pipeline's RequestBudget
    cancelled,      \* ctx.Done() is closed
    drafts,         \* the artifacts copied so far; sorted later
    tokens,         \* the Markdown, rewritten later
    envelope,       \* the envelope, once it is assembled
    pc,
    outcome

vars == <<conversion, heap, ledger, cancelled, drafts, tokens, envelope, pc, outcome>>

Init ==
    /\ conversion \in Conversions
    /\ heap = Owned
    /\ ledger = AdmitSource(ZeroLedger, Owned[1].size).ledger
    /\ cancelled = FALSE
    /\ drafts = <<>>
    /\ tokens = conversion.tokens
    /\ envelope = <<>>
    /\ pc = "start"
    /\ outcome = "pending"

Cancel ==
    /\ ~cancelled /\ pc # "returned"
    /\ cancelled' = TRUE
    /\ UNCHANGED <<conversion, heap, ledger, drafts, tokens, envelope, pc, outcome>>

Return(o) == outcome' = o /\ pc' = "returned"
Proceed(l) == pc' = l /\ UNCHANGED outcome

\* cloneExactBytes into a new store; nil stays nil.
Clone(store) == heap' = Append(heap, heap[store])
Fresh == Len(heap) + 1

Bytes(store) == [data |-> heap[store].data, size |-> heap[store].size,
                 present |-> heap[store].present, store |-> store]

\* The clone of the source, made first.
SourceStore == Len(Owned) + 1
SourceIdentity == Identity(heap[SourceStore])

-----------------------------------------------------------------------------
Start ==
    /\ pc = "start"
    /\ IF cancelled THEN Return("cancelled") /\ UNCHANGED heap
       ELSE IF conversion.foreign THEN Return("integrity") /\ UNCHANGED heap
       ELSE Clone(1) /\ Proceed("drafting")
    /\ UNCHANGED <<conversion, ledger, cancelled, drafts, tokens, envelope>>

DraftOf(raw, n, store) ==
    [look |-> raw.look, store |-> store, identity |-> Identity(heap[raw.slice]),
     length |-> heap[raw.slice].size, occurrence |-> raw.occurrence, raw |-> n]

\* Mutation: the converter's buffer is kept.
Draft_aliased ==
    LET n == Len(drafts) + 1
        raw == conversion.artifacts[n]
        call == AdmitArtifact(ledger, heap[raw.slice].size)
    IN  /\ pc = "drafting" /\ n <= Len(conversion.artifacts)
        /\ ledger' = call.ledger
        /\ IF call.err # "nil" THEN Return(call.err) /\ UNCHANGED drafts
           ELSE IF ~raw.described THEN Return("integrity") /\ UNCHANGED drafts
           ELSE /\ drafts' = Append(drafts, DraftOf(raw, n, raw.slice))
                /\ Proceed("drafting")
        /\ UNCHANGED <<conversion, heap, cancelled, tokens, envelope>>

\* The next artifact: copied, charged, its attributes checked.
Draft ==
    LET n == Len(drafts) + 1
        raw == conversion.artifacts[n]
        call == AdmitArtifact(ledger, heap[raw.slice].size)
    IN  /\ pc = "drafting" /\ n <= Len(conversion.artifacts)
        /\ Clone(raw.slice)
        /\ ledger' = call.ledger
        /\ IF call.err # "nil" THEN Return(call.err) /\ UNCHANGED drafts
           ELSE IF ~raw.described THEN Return("integrity") /\ UNCHANGED drafts
           ELSE /\ drafts' = Append(drafts, DraftOf(raw, n, Fresh))
                /\ Proceed("drafting")
        /\ UNCHANGED <<conversion, cancelled, tokens, envelope>>

ContentArtifact(d, id) ==
    [id |-> id, look |-> d.look, bytes |-> Bytes(d.store), identity |-> d.identity,
     length |-> d.length, relations |-> <<Relation(SourceIdentity, id, d.occurrence)>>]

\* The order key of an artifact that has no number yet: its relation leads
\* from the source to itself.
DraftKey(d) == OrderKey(<<[id |-> SourceIdentity, key |-> SourceKey]>>,
                        ContentArtifact(d, ArtifactID(-1)))

\* sort.SliceStable; two equal keys are an error.
Order ==
    /\ pc = "drafting" /\ Len(drafts) = Len(conversion.artifacts)
    /\ \E p \in Orders(Len(drafts)) :
          LET keys == [i \in 1..Len(drafts) |-> DraftKey(drafts[p[i]])]
          IN  /\ Monotone(keys)
              /\ \A i, j \in DOMAIN keys : i < j /\ keys[i] = keys[j] => p[i] < p[j]
              /\ drafts' = [i \in 1..Len(drafts) |-> drafts[p[i]]]
              /\ IF Increasing(keys) THEN Proceed("rewriting") ELSE Return("integrity")
    /\ UNCHANGED <<conversion, heap, ledger, cancelled, tokens, envelope>>

-----------------------------------------------------------------------------
\* Mutation: the permutation is applied the wrong way round.
Numbers_inverse(ordinal) ==
    {i \in DOMAIN drafts : ordinal \in DOMAIN drafts /\ drafts[ordinal].raw = i}

\* finalArtifactIDs: the number of the artifact the converter called ordinal.
Numbers(ordinal) == {i \in DOMAIN drafts : drafts[i].raw = ordinal}

\* A reference that begins like one must be one, to an artifact there is.
Broken(t) == t.opened /\ (~t.shaped \/ Numbers(t.ordinal) = {})

\* rewriteDetailedArtifactReferences, in one pass.
Rewritten(t) ==
    IF t.opened THEN [t EXCEPT !.ordinal = CHOOSE n \in Numbers(t.ordinal) : TRUE] ELSE t

\* The rewritten Markdown, charged to the request, is the primary artifact.
Rewrite ==
    LET call == AdmitPrimary(ledger, conversion.text)
    IN  /\ pc = "rewriting"
        /\ IF conversion.rewrite /\ \E i \in DOMAIN tokens : Broken(tokens[i])
           THEN Return("integrity") /\ UNCHANGED <<ledger, tokens, heap>>
           ELSE /\ tokens' = IF conversion.rewrite
                             THEN [i \in DOMAIN tokens |-> Rewritten(tokens[i])] ELSE tokens
                /\ heap' = Append(heap, [data |-> tokens', size |-> conversion.text,
                                         present |-> TRUE])
                /\ ledger' = call.ledger
                /\ IF call.err # "nil" THEN Return(call.err) ELSE Proceed("assembling")
        /\ UNCHANGED <<conversion, cancelled, drafts, envelope>>

\* canonicalStreamFacts
Converted == 2          \* MetadataOriginConverter, among the origins by name
AllFacts == SortedBy(conversion.sourceFacts \o conversion.facts, FactKey)

\* The warnings, in order.
AllWarnings == SortedBy(conversion.warnings, WarningKey)

FactsClash ==
    \/ \E i \in DOMAIN conversion.facts :
          \/ conversion.facts[i].origin # Converted
          \/ conversion.facts[i].value \in UnsafeLabels
    \/ \E i, j \in DOMAIN AllFacts :
          /\ i # j
          /\ AllFacts[i].kind = AllFacts[j].kind /\ AllFacts[i].origin = AllFacts[j].origin

Primary ==
    LET b == Bytes(Len(heap))
    IN  [id |-> ArtifactID(0), look |-> 0, bytes |-> b, identity |-> Identity(b),
         length |-> b.size, relations |-> <<Relation(SourceIdentity, ArtifactID(0), 0)>>]

Assembled ==
    LET artifacts == [i \in 1..Len(drafts) |-> ContentArtifact(drafts[i], ArtifactID(i))]
    IN  [source |-> [bytes |-> Bytes(SourceStore), identity |-> SourceIdentity,
                     length |-> heap[SourceStore].size],
         primary |-> Primary,
         artifacts |-> artifacts,
         sourceIdentity |-> SourceIdentity,
         outputs |-> <<Primary.identity>> \o [i \in 1..Len(drafts) |-> artifacts[i].identity],
         facts |-> AllFacts,
         warnings |-> AllWarnings]

\* The envelope is put together; then a checkpoint.
Assemble ==
    /\ pc = "assembling"
    /\ IF FactsClash THEN Return("integrity") /\ UNCHANGED envelope
       ELSE IF cancelled THEN Return("cancelled") /\ UNCHANGED envelope
       ELSE envelope' = Assembled /\ Proceed("verifying")
    /\ UNCHANGED <<conversion, heap, ledger, cancelled, drafts, tokens>>

\* Mutation: no checkpoint after the verification.
Deliver_unchecked ==
    /\ pc = "verifying"
    /\ Return(IF VerifyEnvelope(envelope) THEN "ok" ELSE "integrity")
    /\ UNCHANGED <<conversion, heap, ledger, cancelled, drafts, tokens, envelope>>

\* VerifyEnvelope, and the last checkpoint.
Deliver ==
    /\ pc = "verifying"
    /\ Return(IF ~VerifyEnvelope(envelope) THEN "integrity"
              ELSE IF cancelled THEN "cancelled" ELSE "ok")
    /\ UNCHANGED <<conversion, heap, ledger, cancelled, drafts, tokens, envelope>>

\* The caller reuses its source buffer, or the converter one of its own.
Scribble ==
    /\ pc = "returned"
    /\ \E store \in DOMAIN Owned :
          /\ heap[store].present
          /\ heap' = [heap EXCEPT ![store].data = 0]
    /\ UNCHANGED <<conversion, ledger, cancelled, drafts, tokens, envelope, pc, outcome>>

Next == \/ Cancel \/ Start \/ Draft \/ Order \/ Rewrite \/ Assemble \/ Deliver \/ Scribble

Spec == Init /\ [][Next]_vars

-----------------------------------------------------------------------------
TypeOK ==
    /\ conversion \in Conversions
    /\ Len(heap) >= Len(Owned)
    /\ \A i \in DOMAIN heap : heap[i].size \in Nat /\ heap[i].present \in BOOLEAN
    /\ ledger \in Ledger
    /\ cancelled \in BOOLEAN
    /\ tokens \in Seq(Token)
    /\ \A i \in DOMAIN drafts :
          /\ drafts[i].store \in DOMAIN heap
          /\ drafts[i].raw \in DOMAIN conversion.artifacts
    /\ pc \in {"start", "drafting", "rewriting", "assembling", "verifying", "returned"}
    /\ outcome \in {"pending", "ok", "limit", "integrity", "cancelled"}

\* The envelope as its holder sees it now.
Reread(a) == [a EXCEPT !.bytes = Bytes(@.store)]
View == [envelope EXCEPT !.source = Reread(@),
                         !.primary = Reread(@),
                         !.artifacts = [i \in DOMAIN @ |-> Reread(@[i])]]

(* An envelope that was handed out verifies, and goes on verifying         *)
(* whatever becomes of the buffers it was made from: nothing in it shares  *)
(* storage with the source, with what the converter returned or with       *)
(* another object (spec.md C-007, ingestion.go:262-276, 466-474).          *)
SealedStaysSealed == outcome = "ok" => VerifyEnvelope(View)

\* What an artifact is to a reader, before and after sealing.
Thing(look, b, occurrence) == <<look, b.data, b.size, occurrence>>
Given(raw)   == Thing(raw.look, Owned[raw.slice], raw.occurrence)
Delivered(a) == Thing(a.look, Bytes(a.bytes.store), a.relations[1].occurrence)

\* What a reference in the Markdown leads to; anything else is literal text.
Leads(t, artifacts, what(_)) ==
    IF conversion.rewrite /\ t.opened /\ t.ordinal \in DOMAIN artifacts
    THEN what(artifacts[t.ordinal]) ELSE t

(* A reference in the delivered Markdown leads to the artifact the         *)
(* converter meant, with the same bytes, look and occurrence, although     *)
(* sorting has given it another number; a converter that gives no detailed *)
(* result, and text that only looks like a reference, keep their wording   *)
(* (ingestion.go:306-320, 393-429).                                        *)
ReferencesKeepMeaning ==
    outcome = "ok" =>
        \A i \in DOMAIN conversion.tokens :
            Leads(envelope.primary.bytes.data[i], View.artifacts, Delivered)
                = Leads(conversion.tokens[i], conversion.artifacts, Given)

-----------------------------------------------------------------------------
\* The conversions that can be sealed, and those within the limits.
WellFormed(c) ==
    LET Safe(x) == x \notin UnsafeLabels
        facts == c.sourceFacts \o c.facts
    IN  /\ Owned[1].present /\ ~c.foreign
        /\ \A i \in DOMAIN c.artifacts :
              LET raw == c.artifacts[i]
              IN  /\ raw.described /\ Owned[raw.slice].present
                  /\ Safe(raw.look) /\ Safe(raw.occurrence)
                  /\ Owned[raw.slice].size <= V1MaxByteLength
                  /\ \A j \in DOMAIN c.artifacts \ {i} : Given(c.artifacts[j]) # Given(raw)
        /\ c.rewrite => \A i \in DOMAIN c.tokens :
                            c.tokens[i].opened => /\ c.tokens[i].shaped
                                                  /\ c.tokens[i].ordinal \in DOMAIN c.artifacts
        /\ \A i \in DOMAIN c.facts : c.facts[i].origin = Converted
        /\ \A i \in DOMAIN facts : Safe(facts[i].kind) /\ Safe(facts[i].value)
        /\ \A i, j \in DOMAIN facts :
              facts[i].kind = facts[j].kind /\ facts[i].origin = facts[j].origin => i = j
        /\ \A i \in DOMAIN c.warnings : Safe(c.warnings[i])
        /\ Len(c.artifacts) <= DefaultMaxArtifacts
        /\ {c.text, Owned[1].size} \subseteq 0..V1MaxByteLength

Within(c) ==
    LET sizes == [i \in DOMAIN c.artifacts |-> Owned[c.artifacts[i].slice].size]
        sum[n \in 0..Len(c.artifacts)] == IF n = 0 THEN 0 ELSE sum[n - 1] + sizes[n]
    IN  /\ Len(c.artifacts) <= MaxArtifacts
        /\ \A i \in DOMAIN sizes : sizes[i] <= MaxArtifactBytes
        /\ sum[Len(c.artifacts)] <= MaxTotalArtifactBytes
        /\ c.text <= MaxPrimaryBytes

Promise == INSTANCE Sealing
    WITH Nothing   <- {},
         request   <- [content |-> [things |-> {Given(conversion.artifacts[i]) : i \in DOMAIN conversion.artifacts},
                                    links  |-> [i \in DOMAIN conversion.tokens |->
                                                  Leads(conversion.tokens[i], conversion.artifacts, Given)]],
                       sound |-> WellFormed(conversion), fits |-> Within(conversion)],
         delivered <- IF outcome # "ok" THEN {}
                      ELSE [things |-> {Delivered(View.artifacts[i]) : i \in DOMAIN View.artifacts},
                            links  |-> [i \in DOMAIN envelope.primary.bytes.data |->
                                          Leads(envelope.primary.bytes.data[i], View.artifacts, Delivered)]]

(* Sealing implements one decision: everything well formed and within the  *)
(* limits is delivered whole unless the caller cancels, in particular its  *)
(* own verification never refuses it; a limit failure means that a limit   *)
(* is passed, an integrity failure that the conversion is malformed or     *)
(* past a v1 ceiling (ingestion.go:248-389).                               *)
ImplementsSealing == Promise!Spec
=============================================================================
