----------------------------- MODULE MCPipeline -----------------------------
(***************************************************************************)
(* Requests for single documents and for archives of them: every short     *)
(* layout and choice of images of a PDF, office packages and books with    *)
(* one thing wrong, members with any short name or with names easily taken *)
(* for one another, archives in archives, and converters of the host at    *)
(* every place in the order.                                               *)
(***************************************************************************)
EXTENDS PipelineProperties

CONSTANTS
    Alphabet,       \* bound: the classes of characters in the names of lone members
    Lengths,        \* bound: how long those names get
    Coded,          \* bound: how often their symbols are encoded
    Lines,          \* bound: how many lines a PDF has
    Images          \* bound: how many images

-----------------------------------------------------------------------------
\* The built-in converters that are modelled, and three of the host's.
AllConverters ==
    LET builtin(name, priority) == [name |-> name, priority |-> priority, builtin |-> TRUE]
        hosted(name, priority)  == [name |-> name, priority |-> priority, builtin |-> FALSE]
    IN  <<builtin("xlsx", 15), builtin("docx", 12), builtin("pptx", 13), builtin("pdf", 14),
          builtin("epub", 25), builtin("zip", 35), builtin("text", 100),
          hosted("late", 200), hosted("level", 35), hosted("early", 1)>>

Idle == [converter \in {"late", "level", "early"} |-> "declines"]

Text      == [kind |-> "text", whims |-> Idle, blank |-> FALSE, quotes |-> 0]
BlankText == [Text EXCEPT !.blank = TRUE]
Unknown   == [kind |-> "unknown", whims |-> Idle]
Pdf(lines, images, readable, speaks) ==
    [kind |-> "pdf", whims |-> Idle, lines |-> lines, images |-> images,
     readable |-> readable, speaksOfImages |-> speaks, quotes |-> 0]
Archive(members) == [kind |-> "zip", whims |-> Idle, sound |-> TRUE, members |-> members]

Plain(c) == [char |-> c, coded |-> 0]
Letter == Plain("letter")
File(name, doc) == [name |-> name, directory |-> FALSE, doc |-> doc]
Directory(name) == [name |-> name, directory |-> TRUE]
First  == <<Letter>>
Second == <<Letter, Letter>>

Requested(sources, intents) == [source : sources, intent : intents]

\* A document on its own, in an archive, and in an archive in an archive.
Boxed(doc)  == <<Archive(<<File(First, 2)>>), doc>>
Nested(doc) == <<Archive(<<File(First, 2)>>), Archive(<<File(Second, 3)>>), doc>>
Everywhere(docs, intents) ==
    Requested(UNION {{<<doc>>, Boxed(doc), Nested(doc)} : doc \in docs}, intents)

-----------------------------------------------------------------------------
Symbols == [char : Alphabet, coded : 0..Coded]
LoneNames == Requested({<<Archive(<<File(name, 2)>>), Unknown>> :
                           name \in UNION {[1..n -> Symbols] : n \in 0..Lengths}}, {"detailed"})

Alike == {<<Letter>>, <<Plain("space"), Letter>>, <<Letter, Letter>>,
          <<Letter, Plain("slash"), Letter>>, <<Letter, Plain("bracket"), Plain("slash"), Letter>>,
          <<[char |-> "letter", coded |-> 1]>>, <<Plain("mark")>>, <<Plain("control")>>}
Failing == Pdf(<<>>, <<>>, FALSE, FALSE)
TakenForEachOther ==
    Requested({<<Archive(<<m[1], m[2]>>), d[1], d[2]>> :
                  m \in {<<a, b>> : a \in {File(name, 2) : name \in Alike} \cup {Directory(name) : name \in Alike},
                                    b \in {File(name, 3) : name \in Alike} \cup {Directory(name) : name \in Alike}},
                  d \in {Text, Unknown, Failing} \X {Text, Unknown, Failing}},
              {"detailed"})

-----------------------------------------------------------------------------
Line == {<<>>} \cup UNION {[1..n -> {"short"}] : n \in 1..(MaxTableWidth + 1)}
               \cup {<<"short", "long">>, <<"long", "long">>}
Layouts == Requested({<<Pdf(lines, <<>>, TRUE, FALSE)>> :
                         lines \in UNION {[1..n -> Line] : n \in 0..Lines}}, {"detailed"})

Pictures == Requested(
    UNION {{<<doc>>, Boxed(doc), Nested(doc)} : doc \in
        {Pdf(<<<<"short">>>>, [k \in DOMAIN fates |-> [fate |-> fates[k], rank |-> ranks[k]]],
             readable, speaks) :
            fates \in UNION {[1..n -> ImageFate] : n \in 0..Images},
            ranks \in Permutations(1..Images),
            readable \in BOOLEAN, speaks \in BOOLEAN}},
    Intent)

\* Documents whose text reads like a reference, to an artifact they may have.
Quoting == Everywhere(
    {[Text EXCEPT !.quotes = 1]}
    \cup {[Pdf(<<<<"short">>>>, [k \in DOMAIN ranks |-> [fate |-> "retained", rank |-> ranks[k]]],
               TRUE, FALSE) EXCEPT !.quotes = q] :
              ranks \in {<<>>, <<1>>, <<1, 2>>, <<2, 1>>}, q \in 1..3},
    Intent)

-----------------------------------------------------------------------------
Link(id, target) == [id |-> id, target |-> target, from |-> Near, mode |-> "none", spelling |-> "plain"]
Out(id)          == [Link(id, <<"host", NotesDirectory, "x">>) EXCEPT !.from = Web, !.mode = "external"]
Query(id)        == [Out(id) EXCEPT !.spelling = "query"]
Xml == [parses |-> TRUE]
Package(kind, parts, rels) ==
    [kind |-> kind, whims |-> Idle, sound |-> TRUE, workbook |-> TRUE, parts |-> parts, rels |-> rels]
Rels(dir, of, links) == [dir |-> dir, of |-> of, parses |-> TRUE, links |-> links]

One == <<"ppt", "slides", "one">>
Two == <<"ppt", "slides", "two">>
Notes(n) == <<"ppt", NotesDirectory, n>>

\* Presentations of two slides, of which the first may have notes.
Deck(slideLinks, named, noteLinks, blank, broken) ==
    Package("pptx",
        [p \in {PresentationPart, One, Two, Notes("a"), Notes("b")} |->
            CASE p = PresentationPart -> [parses |-> p \notin broken, slides |-> named]
              [] p \in {Notes("a"), Notes("b")} -> [parses |-> p \notin broken, blank |-> p \in blank]
              [] OTHER -> [parses |-> p \notin broken]],
        <<Rels(<<"ppt", "_rels">>, "presentation.xml", slideLinks),
          Rels(<<"ppt", "slides", "_rels">>, "one", noteLinks)>>)

NoteA == Link("n1", <<"..", NotesDirectory, "a">>)
NoteB == [Link("n2", <<"ppt", NotesDirectory, "b">>) EXCEPT !.from = Root]
Decks ==
    {Deck(slideLinks, named, noteLinks, blank, broken) :
        slideLinks \in {<<Link("s1", <<"slides", "one">>), Link("s2", <<"slides", "two">>)>>,
                        <<Link("s1", <<"slides", "one">>), Out("s2")>>},
        named \in {<<>>, <<"s1">>, <<"s2", "s1">>, <<"s1", "gone", "s1">>},
        noteLinks \in {<<>>, <<NoteA>>, <<NoteA, NoteB>>, <<Out("n1")>>, <<NoteA, Out("n2")>>,
                       <<Query("n1")>>, <<NoteA, Query("n2")>>},
        blank \in {{}, {Notes("a")}},
        broken \in {{}, {PresentationPart}, {One}, {Notes("a")}}}

\* Packages with one link, and what may be wrong with it.
Links == {[id |-> id, target |-> target, from |-> from, mode |-> mode, spelling |-> spelling] :
             id \in {"", "r1"}, target \in {<<>>, <<"a">>, <<"..", "a">>, <<"word", ".", "a">>, <<"gone">>},
             from \in {Root, Near, Web}, mode \in Mode, spelling \in Spelling}
Body == {<<>>, <<[element |-> "p", blank |-> FALSE]>>,
         <<[element |-> "p", blank |-> TRUE], [element |-> "sdt", blank |-> FALSE],
           [element |-> "tbl", blank |-> FALSE]>>}
Document(parses, hasBody, body, rels) ==
    Package("docx", [p \in {DocumentPart, <<"word", "a">>} |->
                        [parses |-> parses, hasBody |-> hasBody, body |-> body]], rels)
Documents ==
    {Document(parses, hasBody, body, <<>>) : parses \in BOOLEAN, hasBody \in BOOLEAN, body \in Body}
    \cup {Document(TRUE, TRUE, <<[element |-> "p", blank |-> FALSE]>>,
                   <<Rels(<<"word", "_rels">>, "document.xml", links)>>) :
             links \in {<<link>> : link \in Links} \cup {<<Link("r1", <<"a">>), Link("r1", <<"a">>)>>}}
    \cup {Document(TRUE, TRUE, <<>>, <<rels>>) :
             rels \in {Rels(<<"_rels">>, "", <<>>), Rels(<<"word">>, "x", <<>>), Rels(<<"word", "_rels">>, "", <<>>),
                       [Rels(<<"_rels">>, "", <<>>) EXCEPT !.parses = FALSE]}}
    \cup {[Document(TRUE, TRUE, <<>>, <<>>) EXCEPT !.sound = FALSE],
          Package("docx", [p \in {<<"word", "a">>} |-> Xml], <<>>),
          Package("pptx", [p \in {<<"word", "a">>} |-> Xml], <<>>)}
    \cup {[Package("xlsx", [p \in {<<"xl", "a">>} |-> Xml], <<>>) EXCEPT !.workbook = b] : b \in BOOLEAN}

Book(base, titled, chapter, spine, manifest) ==
    [kind |-> "epub", whims |-> Idle, sound |-> TRUE, opf |-> "present", base |-> base,
     titled |-> titled, spine |-> spine, manifest |-> manifest,
     members |-> (<<"book", "one">> :> chapter) @@ (<<"one">> :> "prose")]
OneTwo == <<[id |-> "c1", href |-> <<"one">>], [id |-> "c2", href |-> <<"two">>]>>
Books ==
    {Book(base, titled, chapter, spine, manifest) :
        base \in {<<>>, <<"book">>, <<"book (2)">>}, titled \in BOOLEAN,
        chapter \in {"prose", "blank", "broken"},
        spine \in {<<>>, <<"c1">>, <<"c1", "c2", "foul">>, <<"c1", "gone", "c1">>},
        manifest \in {<<>>, OneTwo, <<[id |-> "c1", href |-> <<"one">>], [id |-> "c1", href |-> <<"two">>]>>,
                      <<[id |-> "c1", href |-> <<"..", "one">>]>>}}
    \cup {[Book(<<>>, TRUE, "prose", <<"c1">>, OneTwo) EXCEPT !.sound = sound, !.opf = opf] :
              sound \in BOOLEAN, opf \in PackageDocument}

Office == Everywhere(Decks \cup Documents \cup Books, {"detailed"})
          \cup Requested({<<doc>> : doc \in Decks \cup Books}, {"legacy"})

-----------------------------------------------------------------------------
\* The converters of the host, on documents others can and cannot convert.
Whims == [DOMAIN Idle -> {"declines", "ok", "unsupported", "failed", "malformed"}]
Hosted == Everywhere({[doc EXCEPT !.whims = w] : doc \in {Text, BlankText, Unknown, Failing}, w \in Whims},
                     {"detailed"})
          \cup Requested({<<[Archive(<<File(First, 2)>>) EXCEPT !.whims = w, !.sound = sound], Text>> :
                              w \in Whims, sound \in BOOLEAN}, {"legacy", "detailed"})

\* Archives of archives, and what they hold.
Archives ==
    Requested({<<Archive(<<File(First, 2), Directory(<<Letter, Letter, Letter>>), File(Second, 3)>>),
                 [Archive(<<File(outer, 4), File(First, 5)>>) EXCEPT !.sound = sound], a, b, c>> :
                  outer \in {Second, <<Plain("bracket"), Letter>>}, sound \in BOOLEAN,
                  a \in {Text, Unknown, Failing}, b \in {Text, BlankText, Unknown, Failing},
                  c \in {Text, Unknown, Failing}},
              Intent)

Requests == LoneNames \cup TakenForEachOther \cup Layouts \cup Pictures \cup Quoting \cup Office \cup Hosted \cup Archives
=============================================================================
