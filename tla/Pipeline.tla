------------------------------ MODULE Pipeline ------------------------------
(***************************************************************************)
(* One request through the converters: dispatch (dispatchIngestion,        *)
(* ingestion.go) tries the registered converters in turn, the zip          *)
(* converter (zip.go) sends each member through a pipeline of its own, and *)
(* every conversion that wins is sealed into an envelope                   *)
(* (sealIngestionEnvelope).  Budgets and cancellation are ContainerWalk's, *)
(* the details of sealing are Seal's.                                      *)
(*                                                                         *)
(* A source is a forest of documents, written as a sequence: an archive    *)
(* holds documents that come after it, and the first is the one requested. *)
(* What an envelope shows is tagged with the document it is a part of.     *)
(***************************************************************************)
EXTENDS ArchiveNames, PdfDocument, OfficeDocument, Book

CONSTANTS
    Registered,     \* the converters, in the order of registration
    Bracketed,      \* directories whose names end in a bracket, a quote or the like
    Sources         \* the requests: sources, each with an intent

Intent == {"legacy", "inline", "detailed"}

\* What a converter the host has registered may do with a document.
Whim == {"declines", "ok"} \cup Passing \cup Terminal

Builtin == {"text", "pdf", "docx", "pptx", "xlsx", "epub", "zip"}

\* The members of an archive.
Entry(documents) ==
    [name : Seq(Symbol), directory : {TRUE}]
    \cup [name : Seq(Symbol), directory : {FALSE}, doc : documents]

\* What is read as a list is one, and a chapter is one or cannot be parsed.
Wellformed(doc) ==
    /\ doc.kind \in {"text", "pdf"} => doc.quotes \in Nat
    /\ doc.kind = "pdf"  => /\ doc.images \in Seq([fate : ImageFate, rank : Int])
                            /\ doc.lines \in Seq(Seq(Cell))
    /\ doc.kind = "docx" /\ DocumentPart \in DOMAIN doc.parts
          => doc.parts[DocumentPart].body \in Seq([element : STRING, blank : BOOLEAN])
    /\ doc.kind = "pptx" /\ PresentationPart \in DOMAIN doc.parts
          => doc.parts[PresentationPart].slides \in Seq(STRING)
    /\ doc.kind = "epub" => /\ doc.spine \in Seq(STRING)
                            /\ \A path \in DOMAIN doc.members : doc.members[path] \in Chapter

Files(doc) == IF doc.kind = "zip" THEN {k \in DOMAIN doc.members : ~doc.members[k].directory} ELSE {}

\* Archives hold documents that come after them, and none is held twice.
IsForest(documents) ==
    /\ Len(documents) \in Nat \ {0} /\ DOMAIN documents = 1..Len(documents)
    /\ \A id \in DOMAIN documents :
          documents[id].kind = "zip" => documents[id].members \in Seq(Entry((id + 1)..Len(documents)))
    /\ \A a, b \in DOMAIN documents :
          \A j \in Files(documents[a]), k \in Files(documents[b]) :
              documents[a].members[j].doc = documents[b].members[k].doc => a = b /\ j = k

ASSUME RegisteredAssumption ==
    /\ Registered \in Seq([name : STRING, priority : Int, builtin : BOOLEAN])
    /\ \A i \in DOMAIN Registered : Registered[i].builtin => Registered[i].name \in Builtin

ASSUME SourcesAssumption ==
    \A r \in Sources :
        /\ r.intent \in Intent
        /\ IsForest(r.source)
        /\ \A id \in DOMAIN r.source :
              /\ Wellformed(r.source[id])
              /\ \A i \in DOMAIN Registered :
                    ~Registered[i].builtin => r.source[id].whims[Registered[i].name] \in Whim

VARIABLES
    source,         \* the documents
    intent,         \* what the caller asked for
    stack,          \* the pipelines under way, the innermost last
    answer          \* what the last one to end has returned

vars == <<source, intent, stack, answer>>

Pending == [class |-> "pending"]

\* A pipeline: the attempts and fallbacks of its dispatch, and how far the
\* zip converter has come when it is its turn.
Fresh(id) ==
    [doc |-> id, attempts |-> <<>>, fallbacks |-> {},
     unpacking |-> FALSE, next |-> 1, seen |-> {}, parts |-> <<>>, reports |-> {}]

Init ==
    /\ \E r \in Sources : source = r.source /\ intent = r.intent
    /\ stack = <<Fresh(1)>>
    /\ answer = Pending

Top == stack[Len(stack)]
Doc == source[Top.doc]

\* Members are ingested in detail, whatever the caller has asked for.
Wanted == IF Len(stack) = 1 THEN intent ELSE "detailed"

-----------------------------------------------------------------------------
\* RegisteredConverters: by priority, equals in the order of registration.
Earlier == {p \in (DOMAIN Registered) \X (DOMAIN Registered) :
               \/ Registered[p[1]].priority < Registered[p[2]].priority
               \/ Registered[p[1]].priority = Registered[p[2]].priority /\ p[1] < p[2]}

RegisteredConverters ==
    [n \in DOMAIN Registered |-> Registered[InOrder(DOMAIN Registered, Earlier)[n]]]

Accepts(converter, doc) ==
    IF converter.builtin THEN doc.kind = converter.name ELSE doc.whims[converter.name] # "declines"

\* Convert leaves no room for artifacts and warnings.
Projected(conversion) ==
    [class |-> conversion.class, parts |-> conversion.parts, artifacts |-> <<>>, warnings |-> {}]

Whole(doc) == Converted(IF doc.blank THEN <<>> ELSE <<[whole |-> TRUE]>> \o Quotes(doc), <<>>, {})

\* What a converter other than zip may answer, while there is room for everything.
BuiltinConversions(doc, wanted) ==
    CASE doc.kind = "text" -> {Whole(doc)}
      [] doc.kind = "pdf"  -> {IF wanted = "detailed" THEN PdfDetailed(doc)
                               ELSE PdfLegacy(doc, wanted = "inline")}
      [] doc.kind = "docx" -> {DocxConversion(doc)}
      [] doc.kind = "pptx" -> PptxConversions(doc)
      [] doc.kind = "xlsx" -> {XlsxConversion(doc)}
      [] doc.kind = "epub" -> {BookConversion(doc)}

\* What it may answer.
Conversions(converter, doc, wanted) ==
    IF converter.builtin
    THEN {IF wanted = "detailed" THEN c ELSE Projected(c) : c \in BuiltinConversions(doc, wanted)}
    ELSE {IF doc.whims[converter.name] = "ok" THEN Converted(<<[whole |-> TRUE]>>, <<>>, {})
          ELSE Failure(doc.whims[converter.name])}

-----------------------------------------------------------------------------
\* The canonical order of the artifacts, and the place of one in it.
ByRank(artifacts) == {p \in (DOMAIN artifacts) \X (DOMAIN artifacts) :
                         artifacts[p[1]].rank < artifacts[p[2]].rank}
Number(artifacts, k) == 1 + Cardinality({j \in DOMAIN artifacts : <<j, k>> \in ByRank(artifacts)})

IsReference(part) == "ref" \in DOMAIN part

\* rewriteDetailedArtifactReferences fails on an ordinal that is no artifact's.
Dangling(parts, artifacts) ==
    \E k \in DOMAIN parts : IsReference(parts[k].part) /\ parts[k].part.ref \notin DOMAIN artifacts

\* Mutation: references keep the ordinals they were written with.
Rewritten_asWritten(parts, artifacts) == parts

Rewritten(parts, artifacts) ==
    [k \in DOMAIN parts |->
        IF IsReference(parts[k].part)
        THEN [parts[k] EXCEPT !.part.ref = Number(artifacts, @)] ELSE parts[k]]

\* safePublicText for the location of a warning: the name of a member, a part
\* of a package, or a URL, which must have no query.
Speakable(warning) ==
    LET at == warning.location
    IN  /\ "member" \in DOMAIN at => SafePublicText(at.member)
        /\ "part" \in DOMAIN at => \A i \in 1..(Len(at.part) - 1) : at.part[i] \notin Bracketed
        /\ "url" \in DOMAIN at => at.bare

\* sealIngestionEnvelope for the conversion that has won.
Sealed(frame, conversion, wanted) ==
    LET warnings == frame.fallbacks \cup conversion.warnings
        artifacts == conversion.artifacts
        n == Len(artifacts)
    IN  IF \/ wanted = "detailed" /\ Dangling(conversion.parts, artifacts)
           \/ \E j, k \in 1..n : j # k /\ artifacts[j].rank = artifacts[k].rank
           \/ \E w \in warnings : ~Speakable(w)
        THEN Failure("integrity")
        ELSE [class     |-> "ok",
              source    |-> frame.doc,
              parts     |-> IF wanted = "detailed" THEN Rewritten(conversion.parts, artifacts)
                            ELSE conversion.parts,
              artifacts |-> [i \in 1..n |-> artifacts[InOrder(1..n, ByRank(artifacts))[i]]],
              warnings  |-> warnings,
              attempts  |-> Append(frame.attempts,
                                   [converter |-> RegisteredConverters[Len(frame.attempts) + 1].name,
                                    outcome |-> "selected"])]

Return(result) ==
    /\ stack' = SubSeq(stack, 1, Len(stack) - 1)
    /\ answer' = result
    /\ UNCHANGED <<source, intent>>

Continue(frame) ==
    /\ stack' = [stack EXCEPT ![Len(stack)] = frame]
    /\ answer' = Pending
    /\ UNCHANGED <<source, intent>>

-----------------------------------------------------------------------------
Dispatching == stack # <<>> /\ answer = Pending /\ ~Top.unpacking
Converter == RegisteredConverters[Len(Top.attempts) + 1]
Untried == Len(Top.attempts) < Len(Registered)

Attempted(frame, name, outcome) ==
    [frame EXCEPT !.attempts = Append(@, [converter |-> name, outcome |-> outcome]),
                  !.fallbacks = IF outcome # "failed" THEN @
                                ELSE @ \cup {[category |-> "converter_fallback",
                                              location |-> Nowhere, converter |-> name]}]

Decline ==
    /\ Dispatching /\ Untried
    /\ ~Accepts(Converter, Doc)
    /\ Continue(Attempted(Top, Converter.name, "unsupported"))

Tagged(parts, id) == [k \in DOMAIN parts |-> [of |-> id, part |-> parts[k]]]

\* Mutation: an attempt that failed is not remembered.
AfterConversion_unrecorded(frame, converter, conversion, wanted) ==
    CASE conversion.class = "ok" ->
             Return(Sealed(frame, [conversion EXCEPT !.parts = Tagged(@, frame.doc)], wanted))
      [] conversion.class \in Passing -> Continue(Attempted(frame, converter.name, "unsupported"))
      [] conversion.class \in Terminal -> Return(Failure(conversion.class))

AfterConversion(frame, converter, conversion, wanted) ==
    CASE conversion.class = "ok" ->
             Return(Sealed(frame, [conversion EXCEPT !.parts = Tagged(@, frame.doc)], wanted))
      [] conversion.class \in Passing -> Continue(Attempted(frame, converter.name, conversion.class))
      [] conversion.class \in Terminal -> Return(Failure(conversion.class))

Attempt ==
    /\ Dispatching /\ Untried
    /\ Accepts(Converter, Doc)
    /\ ~(Converter.builtin /\ Converter.name = "zip")
    /\ \E conversion \in Conversions(Converter, Doc, Wanted) :
          AfterConversion(Top, Converter, conversion, Wanted)

\* No converter is left.
Exhaust ==
    /\ Dispatching /\ ~Untried
    /\ Return(Failure(IF \E i \in DOMAIN Top.attempts : Top.attempts[i].outcome = "failed"
                      THEN "failed" ELSE "unsupported"))

-----------------------------------------------------------------------------
Unpack ==
    /\ Dispatching /\ Untried
    /\ Accepts(Converter, Doc)
    /\ Converter.builtin /\ Converter.name = "zip"
    /\ IF Doc.sound THEN Continue([Top EXCEPT !.unpacking = TRUE]) ELSE Return(Failure("malformed"))

Unpacking == stack # <<>> /\ answer = Pending /\ Top.unpacking
Location(member) == [member |-> TrimSpace(member.name)]

\* The member loop up to the ingestion of the member.
Member ==
    /\ Unpacking /\ Top.next <= Len(Doc.members)
    /\ LET member == Doc.members[Top.next]
           noted == [Top EXCEPT !.seen = @ \cup {TrimSpace(member.name)}]
       IN  IF ~Admitted(member.name) \/ Collides(member.name, Top.seen)
           THEN Return(Failure("malformed"))
           ELSE IF member.directory THEN Continue([noted EXCEPT !.next = @ + 1])
           ELSE /\ stack' = Append([stack EXCEPT ![Len(stack)] = noted], Fresh(member.doc))
                /\ UNCHANGED <<source, intent, answer>>

Report(frame, category, member) ==
    [frame EXCEPT !.next = @ + 1, !.reports = @ \cup {Warning(category, Location(member))}]

\* The Markdown of a member is taken over and its artifacts are not; a warning
\* without a place gets the member's name for one.
Absorb(frame, member, result) ==
    [frame EXCEPT
        !.next = @ + 1,
        !.parts = @ \o result.parts,
        !.reports = @ \cup {[w EXCEPT !.location = IF w.location = Nowhere THEN Location(member) ELSE @] :
                               w \in result.warnings}]

\* Mutation: a member that no converter takes is passed over.
AfterMember_silent(frame, member, result) ==
    CASE result.class = "unsupported" -> Continue([frame EXCEPT !.next = @ + 1])
      [] result.class = "failed" -> Continue(Report(frame, "member_conversion_failed", member))
      [] result.class \in Terminal -> Return(Failure(result.class))
      [] result.class = "ok" -> Continue(Absorb(frame, member, result))

\* Mutation: a malformed member becomes a warning like any other failure.
AfterMember_lenient(frame, member, result) ==
    CASE result.class = "unsupported" -> Continue(Report(frame, "unsupported_member", member))
      [] result.class \in {"failed", "malformed"} ->
             Continue(Report(frame, "member_conversion_failed", member))
      [] result.class \in Terminal \ {"malformed"} -> Return(Failure(result.class))
      [] result.class = "ok" -> Continue(Absorb(frame, member, result))

\* What the pipeline of a member has returned.
AfterMember(frame, member, result) ==
    CASE result.class = "unsupported" -> Continue(Report(frame, "unsupported_member", member))
      [] result.class = "failed" -> Continue(Report(frame, "member_conversion_failed", member))
      [] result.class \in Terminal -> Return(Failure(result.class))
      [] result.class = "ok" -> Continue(Absorb(frame, member, result))

Answered ==
    /\ stack # <<>> /\ answer # Pending
    /\ AfterMember(Top, Doc.members[Top.next], answer)

\* Every member has been seen to.
Pack ==
    /\ Unpacking /\ Top.next > Len(Doc.members)
    /\ LET conversion == Converted(Tagged(<<[contents |-> TRUE]>>, Top.doc) \o Top.parts,
                                   <<>>, Top.reports)
       IN  Return(Sealed(Top, IF Wanted = "detailed" THEN conversion ELSE Projected(conversion), Wanted))

Next == Decline \/ Attempt \/ Exhaust \/ Unpack \/ Member \/ Answered \/ Pack

Spec == Init /\ [][Next]_vars
=============================================================================
