--------------------------- MODULE OfficeDocument ---------------------------
(***************************************************************************)
(* The converters of Word, PowerPoint and Excel documents (docx.go,        *)
(* pptx.go, xlsx.go): which parts of the package they show, and what they  *)
(* report of those they cannot.                                            *)
(*                                                                         *)
(* What a part holds: whether it is XML at all, and, where it matters, the *)
(* blocks of a document's body, the relationships a presentation names its *)
(* slides by, and whether notes have any text.                             *)
(***************************************************************************)
EXTENDS PackageLinks

DocumentPart     == <<"word", "document.xml">>
PresentationPart == <<"ppt", "presentation.xml">>
NotesDirectory   == "notesSlides"

Readable(package, link) == "part" \in DOMAIN link /\ package.parts[link.part].parses

-----------------------------------------------------------------------------
\* docx: paragraphs and tables; what else a body holds is passed over.
Shown(body) == Ascending({i \in DOMAIN body : body[i].element \in {"p", "tbl"} /\ ~body[i].blank})

DocxConversion(package) ==
    IF ~Opens(package) THEN Failure("integrity")
    ELSE IF DocumentPart \notin DOMAIN package.parts THEN Failure("unsupported")
    ELSE IF ~package.parts[DocumentPart].parses THEN Failure("failed")
    ELSE IF ~package.parts[DocumentPart].hasBody THEN Failure("unsupported")
    ELSE LET body == package.parts[DocumentPart].body
             shown == Shown(body)
         IN  Converted([k \in 1..Len(shown) |-> [block |-> shown[k]]], <<>>, {})

-----------------------------------------------------------------------------
\* orderedSlidePaths: a slide whose relationship is not there is passed over.
Slides(package) ==
    LET links == RelationsOf(package, PresentationPart)
        named == package.parts[PresentationPart].slides
        known == Ascending({i \in DOMAIN named : named[i] \in DOMAIN links})
    IN  [k \in 1..Len(known) |-> [number |-> known[k], link |-> links[named[known[k]]]]]

\* The links of a slide that pass for notes, and findNotesPath, which takes
\* the first it meets in a map: any of them.
NotesAmong(links) ==
    {links[id] : id \in {i \in DOMAIN links :
        LET path == IF "part" \in DOMAIN links[i] THEN links[i].part ELSE links[i].url
        IN  NotesDirectory \in {path[k] : k \in 2..(Len(path) - 1)}}}

FindNotesPath(package, link) ==
    LET notes == NotesAmong(RelationsOf(package, link.part))
    IN  IF notes = {} THEN {Nowhere} ELSE notes

\* Mutation: notes that cannot be read are left out.
NotesWarnings_silent(package, notes) == {}

\* renderNotes: notes that cannot be read are reported.
NotesWarnings(package, notes) ==
    IF notes = Nowhere \/ Readable(package, notes) THEN {}
    ELSE {Warning("optional_extraction_failed", notes)}

NotesParts(package, number, notes) ==
    IF notes # Nowhere /\ Readable(package, notes) /\ ~package.parts[notes.part].blank
    THEN <<[notesOf |-> number]>> ELSE <<>>

\* pptx: every slide has a heading, so that no slide comes out empty.
Presented(package, slides, notes) ==
    LET each(k) == <<[slide |-> slides[k].number]>> \o NotesParts(package, slides[k].number, notes[k])
    IN  Converted(FlattenSeq([k \in 1..Len(slides) |-> each(k)]), <<>>,
                  UNION {NotesWarnings(package, notes[k]) : k \in DOMAIN slides})

\* One link for notes of each slide, of those there are.
NotesChoices(candidates) ==
    {notes \in [DOMAIN candidates -> UNION Range(candidates)] :
        \A k \in DOMAIN candidates : notes[k] \in candidates[k]}

SlidesConversions(package, slides) ==
    IF slides = <<>> THEN {Failure("unsupported")}
    ELSE IF \E k \in DOMAIN slides : ~Readable(package, slides[k].link) THEN {Failure("failed")}
    ELSE {Presented(package, slides, notes) :
             notes \in NotesChoices([k \in DOMAIN slides |-> FindNotesPath(package, slides[k].link)])}

PptxConversions(package) ==
    IF ~Opens(package) THEN {Failure("integrity")}
    ELSE IF PresentationPart \notin DOMAIN package.parts THEN {Failure("unsupported")}
    ELSE IF ~package.parts[PresentationPart].parses THEN {Failure("failed")}
    ELSE SlidesConversions(package, Slides(package))

-----------------------------------------------------------------------------
\* xlsx: the package is checked here and read by a library.
XlsxConversion(package) ==
    IF ~Opens(package) THEN Failure("integrity")
    ELSE IF ~package.workbook THEN Failure("failed")
    ELSE Converted(<<[sheets |-> TRUE]>>, <<>>, {})
=============================================================================
