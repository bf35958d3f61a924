---------------------------- MODULE PdfDocument -----------------------------
(***************************************************************************)
(* The PDF converter (pdf.go): how lines of text become paragraphs and     *)
(* tables, and what becomes of the images.                                 *)
(*                                                                         *)
(* A line is the sequence of its columns (splitColumns): none if it is     *)
(* blank, one if it is plain text.  The images are in the order of pages   *)
(* and objects; `rank` is the place of an image's canonical key among      *)
(* those of the document, which follows no page order (Envelope.OrderKey). *)
(***************************************************************************)
EXTENDS Conversion

CONSTANTS
    MaxTableWidth,      \* the widest table looksTabular takes for one
    MaxArtifacts        \* of the policy

ASSUME PdfAssumption == MaxTableWidth \in Nat /\ MaxArtifacts \in Nat

Cell == {"short", "long"}

(***************************************************************************)
(* retained : a payload of a known type                                    *)
(* defect   : of another type, empty, or not readable                      *)
(* unread   : the library gives no reader for it                           *)
(***************************************************************************)
ImageFate == {"retained", "defect", "unread"}

-----------------------------------------------------------------------------
\* Mutation: rows of any number of columns make a table together.
RunEnd_ragged(lines, i) ==
    Min({j \in i..(Len(lines) + 1) : \/ j = Len(lines) + 1
                                     \/ Len(lines[j]) = 0
                                     \/ (Len(lines[j]) = 1) # (Len(lines[i]) = 1)})

\* The first line after i that does not have the columns of line i.
RunEnd(lines, i) ==
    Min({j \in i..(Len(lines) + 1) : j = Len(lines) + 1 \/ Len(lines[j]) # Len(lines[i])})

LongCells(block) == MapThenSumSet(LAMBDA i : Cardinality({k \in DOMAIN block[i] : block[i][k] = "long"}),
                                  DOMAIN block)

\* looksTabular, for rows of one width.
LooksTabular(block) ==
    /\ Len(block) >= 2
    /\ Len(block[1]) \in 2..MaxTableWidth
    /\ LongCells(block) * 3 < Len(block) * Len(block[1])

\* layoutToMarkdown: a row that starts no table is passed over.
Layout(lines) ==
    LET rest[i \in 1..(Len(lines) + 1)] ==
            IF i > Len(lines) THEN <<>>
            ELSE LET end == RunEnd(lines, i)
                 IN  CASE Len(lines[i]) = 1 -> <<[paragraph |-> i..(end - 1)]>> \o rest[end]
                       [] LooksTabular(SubSeq(lines, i, end - 1)) ->
                              <<[table |-> i..(end - 1)]>> \o rest[end]
                       [] OTHER -> rest[i + 1]
    IN  rest[1]

-----------------------------------------------------------------------------
Retained(doc) == Ascending({i \in DOMAIN doc.images : doc.images[i].fate = "retained"})

\* extractPDFImages: an image that cannot be had is an error, and so is a
\* document that speaks of images and yields none.
ExtractionFails(doc) ==
    \/ \E i \in DOMAIN doc.images : doc.images[i].fate = "defect"
    \/ Retained(doc) = <<>> /\ doc.speaksOfImages

\* The text of the document, unless it has none.
LaidOut(doc) == (IF Layout(doc.lines) = <<>> THEN <<>> ELSE <<[layout |-> Layout(doc.lines)]>>)
                \o Quotes(doc)

\* Convert, with the images written into the text when `inline` is asked for.
PdfLegacy(doc, inline) ==
    IF ~doc.readable \/ (inline /\ ExtractionFails(doc)) THEN Failure("failed")
    ELSE LET images == IF inline THEN Retained(doc) ELSE <<>>
         IN  Converted(LaidOut(doc) \o [k \in 1..Len(images) |-> [inline |-> images[k]]],
                       <<>>, {})

\* ConvertDetailed: the images become artifacts, to which the text refers by
\* their place among them.
PdfDetailed(doc) ==
    LET images == Retained(doc)
    IN  IF ~doc.readable THEN Failure("failed")
        ELSE IF ExtractionFails(doc)
        THEN Converted(LaidOut(doc), <<>>, {Warning("artifact_extraction_failed", Nowhere)})
        ELSE IF Len(images) > MaxArtifacts THEN Failure("limit")
        ELSE Converted(LaidOut(doc)
                           \o [k \in 1..Len(images) |-> [ref |-> k, meant |-> images[k]]],
                       [k \in 1..Len(images) |-> [image |-> images[k],
                                                  rank |-> doc.images[images[k]].rank]],
                       {})
=============================================================================
