----------------------------- MODULE MCCustody -----------------------------
(***************************************************************************)
(* Custody of envelopes with up to three artifacts, of two looks and two   *)
(* contents, derived from the source or embedded in one another.           *)
(***************************************************************************)
EXTENDS Custody

CONSTANT MaxPlaces          \* bound: artifacts of an envelope

\* Contents of one length, which no length check tells apart.
Content(d) == [data |-> d, size |-> 1]
SomeContents == {Content(1), Content(2)}
Kept(c, store) == [data |-> c.data, size |-> c.size, present |-> TRUE, store |-> store]

SourceContent == Content(3)
Page == [data |-> 0, size |-> 1]

FromSource(n, o) == Relation(Identity(SourceContent), ArtifactID(n), o)
Inside(n, m) == [kind |-> "embedded_in", from |-> ArtifactID(m), to |-> ArtifactID(n),
                 occurrence |-> 0]

\* Where the n-th of k artifacts may come from: the source, on one page or the
\* other, or another artifact, or both.
Origins(n, k) ==
    {<<FromSource(n, o)>> : o \in 1..2}
    \cup {<<Inside(n, m)>> : m \in 1..k \ {n}}
    \cup {<<Inside(n, m), FromSource(n, 1)>> : m \in 1..k \ {n}}

Artifact(n, look, c, relations) ==
    [id |-> ArtifactID(n), look |-> look, bytes |-> Kept(c, n + 1), identity |-> Identity(c),
     length |-> c.size, relations |-> relations]

Stored(k, looks, contents, origins) ==
    LET source == [bytes |-> Kept(SourceContent, 0), identity |-> Identity(SourceContent),
                   length |-> SourceContent.size]
        things == [n \in 1..k |-> Artifact(n, looks[n], contents[n], origins[n])]
    IN  [source |-> source,
         primary |-> [Artifact(0, 0, Page, <<FromSource(0, 0)>>) EXCEPT !.bytes = Kept(Page, 1)],
         artifacts |-> things,
         sourceIdentity |-> source.identity,
         outputs |-> <<Identity(Page)>> \o [n \in 1..k |-> Identity(contents[n])],
         facts |-> <<>>, warnings |-> <<>>]

\* Three artifacts share one look: looks and contents take the same part in
\* the order.
SmallEnvelopes ==
    UNION {{Stored(k, looks, contents, origins) :
                looks \in [1..k -> IF k < 3 THEN 1..2 ELSE {1}], contents \in [1..k -> SomeContents],
                origins \in {o \in [1..k -> UNION {Origins(n, k) : n \in 1..k}] :
                                \A n \in 1..k : o[n] \in Origins(n, k)}} : k \in 0..MaxPlaces}

\* A few that verify, alike enough to be mistaken for one another.
OnPage(n, o) == <<FromSource(n, o)>>
FewEnvelopes ==
    { Stored(0, <<>>, <<>>, <<>>),
      Stored(1, <<1>>, <<Content(1)>>, <<OnPage(1, 1)>>),
      Stored(2, <<1, 1>>, <<Content(1), Content(1)>>, <<OnPage(1, 1), OnPage(2, 2)>>),
      Stored(2, <<1, 1>>, <<Content(1), Content(2)>>, <<OnPage(1, 1), OnPage(2, 1)>>),
      Stored(3, <<1, 1, 1>>, <<Content(1), Content(2), Content(2)>>,
             <<OnPage(1, 1), OnPage(2, 1), OnPage(3, 2)>>),
      Stored(2, <<1, 2>>, <<Content(1), Content(2)>>, <<OnPage(1, 1), <<Inside(2, 1)>>>>),
      [Stored(0, <<>>, <<>>, <<>>) EXCEPT
          !.source.bytes = Kept(Content(1), 0), !.source.identity = Identity(Content(1)),
          !.sourceIdentity = Identity(Content(1)),
          !.primary.relations = <<Relation(Identity(Content(1)), ArtifactID(0), 0)>>] }

AllEnvelopes == SmallEnvelopes \cup FewEnvelopes
=============================================================================
