------------------------- MODULE PipelineProperties -------------------------
(***************************************************************************)
(* What a request through the converters promises: the answers of Pipeline *)
(* against the documents as they are.                                      *)
(***************************************************************************)
EXTENDS Pipeline


IsZip(i) == Registered[i].builtin /\ Registered[i].name = "zip"

Precedes(i, j) == \/ Registered[i].priority < Registered[j].priority
                  \/ Registered[i].priority = Registered[j].priority /\ i < j

WantedOf(id) == IF id = 1 THEN intent ELSE "detailed"

\* The class of what a converter answers to a document.
ClassOf(i, id) ==
    IF ~Accepts(Registered[i], source[id]) THEN "unsupported"
    ELSE IF IsZip(i) THEN IF source[id].sound THEN "ok" ELSE "malformed"
    ELSE (CHOOSE c \in Conversions(Registered[i], source[id], WantedOf(id)) : TRUE).class

\* The converter that decides about a document, if any does.
FirstAble(classes) == {i \in DOMAIN classes :
                          /\ classes[i] \notin Passing
                          /\ \A j \in DOMAIN classes : Precedes(j, i) => classes[j] \in Passing}
Deciding(id) == FirstAble([i \in DOMAIN Registered |-> ClassOf(i, id)])

Unpacked(id) == \E i \in Deciding(id) : IsZip(i) /\ source[id].sound

\* The documents that archives hand on, from the requested one downwards, and
\* the member each of them is.
Reached ==
    LET down[id \in 1..Len(source)] ==
            \/ id = 1
            \/ \E a \in 1..(id - 1) : /\ down[a] /\ Unpacked(a)
                                      /\ \E k \in Files(source[a]) : source[a].members[k].doc = id
    IN  {id \in DOMAIN source : down[id]}
MemberOf(id) ==
    LET a == CHOOSE a \in DOMAIN source : \E k \in Files(source[a]) : source[a].members[k].doc = id
    IN  source[a].members[CHOOSE k \in Files(source[a]) : source[a].members[k].doc = id]

\* What the deciding converter answers, unless it is zip.
Answers(id) ==
    UNION {Conversions(Registered[i], source[id], WantedOf(id)) : i \in {j \in Deciding(id) : ~IsZip(j)}}

Done == stack = <<>>
IsAnswered == answer.class = "ok"
OwnParts == {answer.parts[k].part : k \in {j \in DOMAIN answer.parts :
                                              answer.parts[j].of = answer.source}}
Decided(kind) == /\ IsAnswered /\ WantedOf(answer.source) = "detailed"
                 /\ source[answer.source].kind = kind
                 /\ \E i \in Deciding(answer.source) : /\ Registered[i].builtin
                                                      /\ Registered[i].name = kind

-----------------------------------------------------------------------------
(* Dispatch (ingestion.go:170-236): the envelope comes from the first      *)
(* converter, by priority and registration, that can convert the document; *)
(* none before it was able or ended the request, each of them is on record *)
(* with what became of it, and every one that failed is warned of.         *)
FirstAbleConverterWins ==
    IsAnswered =>
        LET attempts == answer.attempts
            n == Len(attempts)
        IN  \E won \in Deciding(answer.source) :
                LET before == {j \in DOMAIN Registered : Precedes(j, won)}
                IN  /\ n = Cardinality(before) + 1
                    /\ attempts[n] = [converter |-> Registered[won].name, outcome |-> "selected"]
                    /\ {attempts[k] : k \in 1..(n - 1)}
                          = {[converter |-> Registered[j].name,
                              outcome |-> ClassOf(j, answer.source)] : j \in before}
                    /\ {w.converter : w \in {v \in answer.warnings : /\ v.category = "converter_fallback"
                                                                     /\ v.location = Nowhere}}
                          = {Registered[j].name : j \in {i \in before :
                                ClassOf(i, answer.source) = "failed"}}

(* References (ingestion.go:391-429): in an envelope every reference is    *)
(* to an artifact of that envelope, and one that a converter has written   *)
(* to the image it was written for, whatever the document quotes.          *)
ReferencesResolve ==
    IsAnswered /\ WantedOf(answer.source) = "detailed" =>
        \A k \in {j \in DOMAIN answer.parts : IsReference(answer.parts[j].part)} :
            LET part == answer.parts[k].part
            IN  /\ answer.parts[k].of = answer.source
                /\ part.ref \in DOMAIN answer.artifacts
                /\ \/ "meant" \notin DOMAIN part
                   \/ answer.artifacts[part.ref].image = part.meant

\* A document whose conversion is empty.
ConvertsToNothing(id) == \E c \in Answers(id) : c.class = "ok" /\ c.parts = <<>>

(* Partial failure (zip.go:170-200): whatever an archive holds, at any     *)
(* depth, is shown in the Markdown, or empty, or a warning names the       *)
(* member.                                                                 *)
MembersAreAccountedFor ==
    Done /\ IsAnswered /\ intent = "detailed" =>
        \A id \in Reached :
            \/ \E k \in DOMAIN answer.parts : answer.parts[k].of = id
            \/ ConvertsToNothing(id)
            \/ \E w \in answer.warnings :
                  /\ w.category \in {"unsupported_member", "member_conversion_failed"}
                  /\ w.location = Location(MemberOf(id))

(* Whoever reads the location of a warning, and decodes it as often as he  *)
(* likes, gets the path of something inside the archive, as deep as the    *)
(* member was (sanitize.go:191-236: what decoding brings to light has to   *)
(* be as safe as what was written).                                        *)
LocationsStayInside ==
    IsAnswered =>
        \A w \in answer.warnings :
            "member" \in DOMAIN w.location =>
                \A n \in 0..(Deep(w.location.member) + 1) :
                    LET f == Form(w.location.member, n)
                    IN  /\ StaysInside(f)
                        /\ Count("slash", f) = Count("slash", Form(w.location.member, 0))

-----------------------------------------------------------------------------
NamesHold(id) ==
    LET members == source[id].members
    IN  \A j, k \in DOMAIN members : /\ Admitted(members[k].name)
                                     /\ TrimSpace(members[j].name) = TrimSpace(members[k].name) => j = k

\* A member of which the envelope it comes back in is warned without a place,
\* or that comes back in none.
Reported(id) ==
    \/ Deciding(id) = {}
    \/ \E i \in Deciding(id) : \E j \in DOMAIN Registered :
          Precedes(j, i) /\ ClassOf(j, id) = "failed"
    \/ \E c \in Answers(id) : \E w \in c.warnings : w.location = Nowhere

\* What a converter may answer and sealing refuses: a warning of an unsafe
\* place, two artifacts with one key, or a reference to one that is not there.
Refused(id) ==
    {c \in Answers(id) :
        \/ \E w \in c.warnings : ~Speakable(w)
        \/ \E j, k \in DOMAIN c.artifacts : j # k /\ c.artifacts[j].rank = c.artifacts[k].rank
        \/ WantedOf(id) = "detailed" /\ \E k \in DOMAIN c.parts :
               IsReference(c.parts[k]) /\ c.parts[k].ref > Len(c.artifacts)}

\* What in a document ends a request, and with what class.
Causes(id) ==
    LET refers(member) == \E c \in Answers(member.doc) : \E p \in DOMAIN c.parts : IsReference(c.parts[p])
        unsafe(member) == Reported(member.doc) /\ ~SafePublicText(TrimSpace(member.name))
    IN  ({ClassOf(i, id) : i \in Deciding(id)} \ {"ok"})
        \cup {c \in {"malformed"} : Unpacked(id) /\ ~NamesHold(id)}
        \cup {c \in {"integrity"} :
                  \/ Refused(id) # {}
                  \/ /\ Unpacked(id) /\ WantedOf(id) = "detailed"
                     /\ \E k \in Files(source[id]) : refers(source[id].members[k]) \/ unsafe(source[id].members[k])}

\* What a converter answers may depend on what it meets first.
Undecided(id) == Refused(id) \notin {{}, Answers(id)}

AnswersFor(causes) ==
    /\ answer.class \in Terminal => \E id \in DOMAIN causes : answer.class \in causes[id]
    /\ IsAnswered => \A id \in DOMAIN causes : causes[id] = {} \/ Undecided(id)

(* Partial failure (ingestion.go:200-236, zip.go:170-187): a request fails *)
(* for good only if something in the source calls for that very failure,   *)
(* and never gives an envelope if something does; otherwise it fails only  *)
(* for want of a converter, and tells whether one has failed.              *)
IngestFailsForCause ==
    Done => /\ AnswersFor([id \in Reached |-> Causes(id)])
            /\ answer.class \in Passing =>
                  /\ Deciding(1) = {}
                  /\ (answer.class = "failed")
                        <=> \E i \in DOMAIN Registered : ClassOf(i, 1) = "failed"

-----------------------------------------------------------------------------
\* The longest runs of lines of one number of columns.
Stretches(lines) ==
    {s \in (DOMAIN lines) \X (DOMAIN lines) :
        /\ s[1] <= s[2]
        /\ \A i \in s[1]..s[2] : Len(lines[i]) = Len(lines[s[1]])
        /\ s[1] = 1 \/ Len(lines[s[1] - 1]) # Len(lines[s[1]])
        /\ s[2] = Len(lines) \/ Len(lines[s[2] + 1]) # Len(lines[s[1]])}

(* Layout (pdf.go:667-733): every line of plain text is shown, in one      *)
(* paragraph with its neighbours and in no other; of a run of rows as many *)
(* as make a table are shown in one table, the last ones, and no table     *)
(* mixes runs.  The blocks are compared as a set: of their order, and of a *)
(* block given twice, this says nothing.                                   *)
TablesAreRuns ==
    Decided("pdf") =>
        LET lines == source[answer.source].lines
            starts(s) == {k \in s[1]..s[2] : LooksTabular(SubSeq(lines, k, s[2]))}
            plain == {s \in Stretches(lines) : Len(lines[s[1]]) = 1}
            rows  == {s \in Stretches(lines) : Len(lines[s[1]]) > 1 /\ starts(s) # {}}
        IN  UNION {ToSet(p.layout) : p \in {q \in OwnParts : "layout" \in DOMAIN q}}
               = {[paragraph |-> s[1]..s[2]] : s \in plain}
                 \cup {[table |-> Min(starts(s))..s[2]] : s \in rows}

(* Optional parts (pptx.go:255-304, epub.go:216-252): a slide that a       *)
(* presentation's relationships lead to is shown, with its notes or a      *)
(* warning of them, and every entry of a book's spine is shown, blank, or  *)
(* reported for what it lacks, at its place in the archive.                *)
PartsAreAccountedFor ==
    /\ Decided("pptx") =>
          LET doc == source[answer.source]
              links == RelationsOf(doc, PresentationPart)
              named == doc.parts[PresentationPart].slides
          IN  \A k \in DOMAIN named :
                 named[k] \in DOMAIN links =>
                     LET notes == FindNotesPath(doc, links[named[k]])
                     IN  /\ [slide |-> k] \in OwnParts
                         /\ \/ notes = {Nowhere}
                            \/ [notesOf |-> k] \in OwnParts
                            \/ \E n \in notes : IF Readable(doc, n) THEN doc.parts[n.part].blank
                                                ELSE \E w \in answer.warnings : w.location = n
    /\ Decided("epub") =>
          LET book == source[answer.source]
              places(id) == {book.base \o book.manifest[i].href :
                                i \in {j \in DOMAIN book.manifest : book.manifest[j].id = id}}
              warned(category, location) == Warning(category, location) \in answer.warnings
          IN  \A k \in DOMAIN book.spine :
                 LET id == book.spine[k]
                     missing == \A p \in places(id) : p \notin DOMAIN book.members
                 IN  /\ places(id) = {} => \/ warned("missing_manifest_item", [item |-> id])
                                           \/ id \in Unspeakable /\ warned("missing_manifest_item", Nowhere)
                     /\ \A p \in places(id) :
                           IF missing THEN warned("missing_spine_content", [part |-> p])
                           ELSE book.members[p] = "blank" \/ [chapter |-> k] \in OwnParts

(* "Converter recursively processes supported files inside ZIP archives"   *)
(* (zip.go:30): a readable archive, of members with admissible names that  *)
(* each convert on their own, is converted.                                *)
SupportedFilesAreProcessed ==
    Done /\ (\A id \in Reached :
                /\ \E i \in Deciding(id) : ClassOf(i, id) = "ok"
                /\ Refused(id) = {}
                /\ Unpacked(id) => NamesHold(id))
        => IsAnswered
=============================================================================
