------------------------------- MODULE MCSeal -------------------------------
(***************************************************************************)
(* Seal on conversions with up to three artifacts: sound ones in every     *)
(* order, with references in every order, and one conversion for every     *)
(* defect.                                                                 *)
(***************************************************************************)
EXTENDS Seal

\* The source; two contents in three buffers, the second and the fourth alike;
\* a nil slice, an empty one, and a blank one that is too large.
Full(d, n) == [data |-> d, size |-> n, present |-> TRUE]
Buffers == <<Full(7, 2), Full(1, 1), Full(2, 2), Full(1, 1),
             [data |-> 0, size |-> 0, present |-> FALSE], Full(0, 0), Full(0, 3)>>

Image(slice, look, occurrence) ==
    [slice |-> slice, look |-> look, occurrence |-> occurrence, described |-> TRUE]

Ref(n)      == [opened |-> TRUE, shaped |-> TRUE, ordinal |-> n]
Literal(n)  == [opened |-> FALSE, shaped |-> TRUE, ordinal |-> n]
Torn        == [opened |-> TRUE, shaped |-> FALSE, ordinal |-> 1]

Plain(artifacts, marks) ==
    [artifacts |-> artifacts, tokens |-> marks, text |-> 1, rewrite |-> TRUE,
     foreign |-> FALSE, sourceFacts |-> <<>>, facts |-> <<>>, warnings |-> <<>>]

Images == {Image(s, l, o) : s \in 2..4, l \in 1..2, o \in 1..2}
FewImages == {Image(2, 1, 1), Image(4, 1, 2), Image(3, 1, 1), Image(2, 2, 1)}

Wrong == {<<Torn>>, <<Ref(0)>>, <<Ref(2)>>}

Marks(n) == CASE n = 0 -> {<<>>, <<Literal(1)>>} \cup Wrong
              [] n = 1 -> {<<>>, <<Ref(1), Literal(3), Ref(1)>>} \cup Wrong
              [] n = 2 -> {<<Ref(2), Ref(1)>>, <<Ref(1), Literal(2), Ref(2)>>}
              [] n = 3 -> {<<Ref(3), Ref(1), Ref(2)>>, <<Ref(2), Ref(4)>>}

F(k, o, v) == [kind |-> k, origin |-> o, value |-> v]

Defective ==
    LET one == Plain(<<Image(2, 1, 1)>>, <<Ref(1)>>)
    IN  { [one EXCEPT !.foreign = TRUE],
          [one EXCEPT !.rewrite = FALSE, !.tokens = <<Ref(3), Torn>>],
          [one EXCEPT !.artifacts[1].slice = 5],
          [one EXCEPT !.artifacts[1].slice = 6],
          [one EXCEPT !.artifacts[1].slice = 7],
          [one EXCEPT !.artifacts = <<Image(2, 1, 1), Image(2, 1, 2), Image(2, 2, 1), Image(2, 2, 2)>>],
          [one EXCEPT !.artifacts[1].look = 9],
          [one EXCEPT !.artifacts[1].occurrence = 9],
          [one EXCEPT !.artifacts[1].described = FALSE],
          [one EXCEPT !.text = 2],
          [one EXCEPT !.text = 3],
          [one EXCEPT !.text = 4],
          [one EXCEPT !.warnings = <<2, 1, 2>>],
          [one EXCEPT !.warnings = <<2, 9>>],
          [one EXCEPT !.sourceFacts = <<F(2, 4, 1), F(1, 4, 1), F(1, 1, 2)>>, !.facts = <<F(2, 2, 1), F(1, 2, 1)>>],
          [one EXCEPT !.sourceFacts = <<F(1, 4, 9)>>],
          [one EXCEPT !.facts = <<F(1, 2, 1), F(1, 2, 2)>>],
          [one EXCEPT !.facts = <<F(1, 1, 1)>>],
          [one EXCEPT !.facts = <<F(1, 2, 9)>>] }

SmallConversions ==
    UNION {{Plain(a, m) : a \in [1..n -> IF n = 3 THEN FewImages ELSE Images], m \in Marks(n)} : n \in 0..3}
    \cup Defective
=============================================================================
