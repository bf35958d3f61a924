-------------------------- MODULE MCConvertCommand --------------------------
(***************************************************************************)
(* ConvertCommand on two families of conversions: every kind of source     *)
(* with every stream and nothing known about it, and short sound sources   *)
(* with everything that may be known about them.                           *)
(***************************************************************************)
EXTENDS ConvertCommand, TLC

CONSTANTS typeA, typeB, setA, setB, extA, extB, nameA, nameB, nameC, bad, empty

Suffixes == (nameA :> extA) @@ (nameB :> empty) @@ (nameC :> bad)
Extensions == (extA :> [media |-> typeA, charset |-> setA]) @@ (extB :> [media |-> typeB, charset |-> empty])
Contents == [text |-> [media |-> typeB, charset |-> setB], binary |-> [media |-> empty, charset |-> empty]]
Types == (typeB :> extB)

Request(kind, stream, own, hints) ==
    [kind |-> kind, usable |-> TRUE, seeks |-> TRUE, enabled |-> TRUE, stream |-> stream,
     own |-> own, hints |-> hints, content |-> "text"]

AnyStream == [size : 0..3, ending : Ending]
Short == [size |-> 1, ending |-> "eof"]

Named(n, e) == [Blank EXCEPT !.filename = n, !.extension = e]
Plain(k, s) == Request(k, s, IF k \in {"path", "file"} THEN Named(nameB, empty) ELSE Blank, Blank)

Sources ==
    {c \in UNION {{Plain(k, s), [Plain(k, s) EXCEPT !.usable = FALSE],
                   [Plain(k, s) EXCEPT !.seeks = FALSE], [Plain(k, s) EXCEPT !.enabled = FALSE]} :
                      k \in Kind, s \in AnyStream} :
        Presents(c)}

\* A parameter comes only with a media type that can be parsed.
Hints == {h \in [media : {empty, typeA, bad}, param : {empty, setA}, charset : {empty, setA, bad},
                 filename : {empty, nameA, bad}, extension : {empty, extB, bad}] :
             h.param # empty => h.media = typeA}
Names == {Named(nameA, extA), Named(nameB, empty), Named(nameC, bad), Named(bad, extA), Named(bad, empty)}
Replies == {[Blank EXCEPT !.media = m, !.charset = c] : m \in {empty, typeB}, c \in {empty, setB}}

Described ==
    UNION {{[Request("path", Short, own, h) EXCEPT !.content = d] : own \in Names, h \in Hints} \cup
           {[Request("data", Short, own, h) EXCEPT !.content = d] : own \in Replies, h \in Hints} :
              d \in DOMAIN Contents}

Every == Sources \cup Described

\* A text file whose caller knows its charset.
Hinted == {Request("path", Short, Named(nameA, extA), [Blank EXCEPT !.charset = setB])}
=============================================================================
