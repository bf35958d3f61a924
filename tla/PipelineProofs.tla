--------------------------- MODULE PipelineProofs ---------------------------
(***************************************************************************)
(* Theorems about the pipeline, for all converters and all documents: the  *)
(* first converter that can wins, references keep their images, no member  *)
(* of an archive and no part of a document is lost, tables are runs of     *)
(* rows, failures have a cause, and warnings point inside the archive.     *)
(*                                                                         *)
(* RequestInv says what each pipeline on the stack has tried, and what an  *)
(* answer shows of it.  CareInv says, of the same stack, what the members  *)
(* that have been seen to lead to, and where it is accounted for.          *)
(* ShownInv says that an envelope of a document that is no archive shows,  *)
(* part by part, what the converter that decided made of it.  PlacesInv    *)
(* says that each place on record is a name an archive reader admitted.     *)
(***************************************************************************)
EXTENDS PipelineProperties, FiniteSetTheorems, SequenceTheorems, WellFoundedInduction,
        TLAPS

-----------------------------------------------------------------------------
(* Sorting.                                                                *)

\* R orders S strictly and totally.
Orders(R, S) ==
    /\ \A i \in S : <<i, i>> \notin R
    /\ \A i, j \in S : i # j => <<i, j>> \in R \/ <<j, i>> \in R
    /\ \A i, j, k \in S : <<i, j>> \in R /\ <<j, k>> \in R => <<i, k>> \in R

Below(S, R, i) == {j \in S : <<j, i>> \in R}

\* What comes before is less than all there is, and less than what comes before
\* something later.
LEMMA BelowGrows ==
    ASSUME NEW S, IsFiniteSet(S), NEW R, Orders(R, S), NEW i \in S
    PROVE  /\ Cardinality(S) \in Nat
           /\ Cardinality(Below(S, R, i)) \in 0..(Cardinality(S) - 1)
           /\ \A j \in S : <<j, i>> \in R =>
                 Cardinality(Below(S, R, j)) < Cardinality(Below(S, R, i))
<1>1. \A T \in SUBSET S : IsFiniteSet(T) /\ Cardinality(T) \in Nat
  BY FS_Subset, FS_CardinalityType
<1>2. \A T \in SUBSET S, U \in SUBSET S :
         U \subseteq T /\ U # T => Cardinality(U) < Cardinality(T)
  <2> SUFFICES ASSUME NEW T \in SUBSET S, NEW U \in SUBSET S, U \subseteq T, U # T
               PROVE  Cardinality(U) < Cardinality(T)
    OBVIOUS
  <2>1. Cardinality(U) <= Cardinality(T) /\ Cardinality(T) # Cardinality(U)
    BY <1>1, FS_Subset
  <2> QED BY <1>1, <2>1
<1>3. Below(S, R, i) \in SUBSET S /\ i \notin Below(S, R, i)
  BY DEF Below, Orders
<1>4. Cardinality(Below(S, R, i)) < Cardinality(S)
  BY <1>2, <1>3
<1>5. ASSUME NEW j \in S, <<j, i>> \in R
      PROVE  Cardinality(Below(S, R, j)) < Cardinality(Below(S, R, i))
  <2>1. Below(S, R, j) \subseteq Below(S, R, i)
    BY <1>5 DEF Below, Orders
  <2>2. j \in Below(S, R, i) /\ j \notin Below(S, R, j)
    BY <1>5 DEF Below, Orders
  <2> QED BY <1>2, <1>3, <2>1, <2>2
<1> QED BY <1>1, <1>3, <1>4, <1>5

\* InOrder lists each member once, at the place it has in the order.
LEMMA InOrderLists ==
    ASSUME NEW S, IsFiniteSet(S), NEW R, Orders(R, S)
    PROVE  /\ Cardinality(S) \in Nat
           /\ \A i \in S : /\ Cardinality(Below(S, R, i)) + 1 \in 1..Cardinality(S)
                           /\ InOrder(S, R)[Cardinality(Below(S, R, i)) + 1] = i
           /\ \A n \in 1..Cardinality(S) :
                 /\ InOrder(S, R)[n] \in S
                 /\ Cardinality(Below(S, R, InOrder(S, R)[n])) + 1 = n
           /\ \A m, n \in 1..Cardinality(S) : <<InOrder(S, R)[m], InOrder(S, R)[n]>> \in R <=> m < n
<1> DEFINE N == Cardinality(S)
           place(i) == Cardinality(Below(S, R, i))
           f == [i \in S |-> place(i)]
<1>1. N \in Nat
  BY FS_CardinalityType
<1>2. \A i \in S : place(i) \in 0..(N - 1)
  BY BelowGrows
<1>3. \A i, j \in S : <<j, i>> \in R => place(j) < place(i)
  BY BelowGrows
<1>4. \A i, j \in S : place(i) = place(j) => i = j
  <2> SUFFICES ASSUME NEW i \in S, NEW j \in S, i # j
               PROVE  place(i) # place(j)
    OBVIOUS
  <2>1. <<i, j>> \in R \/ <<j, i>> \in R
    BY DEF Orders
  <2>2. place(i) \in Int /\ place(j) \in Int
    BY <1>2
  <2>3. place(i) < place(j) \/ place(j) < place(i)
    BY <1>3, <2>1
  <2>4. \A x, y \in Int : x < y \/ y < x => x # y
    OBVIOUS
  <2> HIDE DEF place
  <2> QED BY <2>2, <2>3, <2>4
<1>5. IsFiniteSet(0..(N - 1)) /\ Cardinality(0..(N - 1)) = N
  BY <1>1, FS_Interval
<1>6. f \in Injection(S, 0..(N - 1))
  BY <1>2, <1>4 DEF Injection, IsInjective
<1>7. f \in Surjection(S, 0..(N - 1))
  BY <1>5, <1>6, FS_Injection
<1>8. \A n \in 1..N : \E i \in S : place(i) = n - 1
  <2>1. \A t \in 0..(N - 1) : \E i \in S : f[i] = t
    BY <1>7 DEF Surjection
  <2>2. \A t \in 0..(N - 1) : \E i \in S : place(i) = t
    BY <2>1
  <2>3. \A n \in 1..N : n - 1 \in 0..(N - 1)
    BY <1>1
  <2> HIDE DEF place, N
  <2> QED BY <2>2, <2>3
<1>9. \A n \in 1..N : InOrder(S, R)[n] \in S /\ place(InOrder(S, R)[n]) = n - 1
  <2> SUFFICES ASSUME NEW n \in 1..N
               PROVE  InOrder(S, R)[n] \in S /\ place(InOrder(S, R)[n]) = n - 1
    OBVIOUS
  <2>1. InOrder(S, R)[n] = CHOOSE i \in S : Cardinality(Below(S, R, i)) = n - 1
    BY DEF InOrder, Below
  <2> QED BY <1>8, <2>1
<1>10. \A i \in S : place(i) + 1 \in 1..N /\ InOrder(S, R)[place(i) + 1] = i
  BY <1>1, <1>2, <1>4, <1>9
<1>11. \A m, n \in 1..N : <<InOrder(S, R)[m], InOrder(S, R)[n]>> \in R <=> m < n
  <2> SUFFICES ASSUME NEW m \in 1..N, NEW n \in 1..N
               PROVE  <<InOrder(S, R)[m], InOrder(S, R)[n]>> \in R <=> m < n
    OBVIOUS
  <2> DEFINE a == InOrder(S, R)[m]
             b == InOrder(S, R)[n]
  <2>1. a \in S /\ b \in S /\ place(a) = m - 1 /\ place(b) = n - 1
    BY <1>9
  <2>2. <<a, b>> \in R => m < n
    BY <1>1, <1>3, <2>1
  <2>3. m < n => a # b /\ ~(<<b, a>> \in R)
    BY <1>1, <1>3, <2>1
  <2> QED BY <2>1, <2>2, <2>3 DEF Orders
<1> QED BY <1>1, <1>9, <1>10, <1>11
-----------------------------------------------------------------------------
(* The converters in their order.                                          *)

Nth(n) == InOrder(DOMAIN Registered, Earlier)[n]
Before(i) == {j \in DOMAIN Registered : Precedes(j, i)}

LEMMA RegistryType ==
    /\ Len(Registered) \in Nat
    /\ DOMAIN Registered = 1..Len(Registered)
    /\ \A i \in DOMAIN Registered :
          /\ Registered[i].name \in STRING /\ Registered[i].priority \in Int
          /\ Registered[i].builtin \in BOOLEAN
          /\ Registered[i].builtin => Registered[i].name \in Builtin
<1> DEFINE C == [name : STRING, priority : Int, builtin : BOOLEAN]
<1>1. Registered \in Seq(C)
  BY RegisteredAssumption
<1>2. \A c \in C : c.name \in STRING /\ c.priority \in Int /\ c.builtin \in BOOLEAN
  OBVIOUS
<1>3. \A i \in DOMAIN Registered : Registered[i].builtin => Registered[i].name \in Builtin
  BY RegisteredAssumption
<1> HIDE DEF C
<1>4. Len(Registered) \in Nat /\ DOMAIN Registered = 1..Len(Registered)
  BY <1>1
<1>5. \A i \in DOMAIN Registered : Registered[i] \in C
  BY <1>1
<1> QED BY <1>2, <1>3, <1>4, <1>5

LEMMA EarlierPrecedes ==
    \A i, j \in DOMAIN Registered : <<i, j>> \in Earlier <=> Precedes(i, j)
BY DEF Earlier, Precedes

LEMMA RegistryIsOrdered ==
    /\ IsFiniteSet(DOMAIN Registered) /\ Cardinality(DOMAIN Registered) = Len(Registered)
    /\ Orders(Earlier, DOMAIN Registered)
<1> DEFINE S == DOMAIN Registered
           N == Len(Registered)
<1>1. IsFiniteSet(S) /\ Cardinality(S) = N
  <2>1. S = 1..N /\ N \in Nat
    BY RegistryType
  <2>2. IsFiniteSet(1..N) /\ Cardinality(1..N) = IF 1 > N THEN 0 ELSE N - 1 + 1
    BY <2>1, FS_Interval
  <2> QED BY <2>1, <2>2
<1>2. Orders(Earlier, S)
  <2>1. \A i \in S : i \in Int /\ Registered[i].priority \in Int
    BY RegistryType
  <2>2. \A i \in S : ~Precedes(i, i)
    BY <2>1 DEF Precedes
  <2>3. \A i, j \in S : i # j => Precedes(i, j) \/ Precedes(j, i)
    BY <2>1 DEF Precedes
  <2>4. \A i, j, k \in S : Precedes(i, j) /\ Precedes(j, k) => Precedes(i, k)
    BY <2>1 DEF Precedes
  <2> QED BY <2>2, <2>3, <2>4, EarlierPrecedes DEF Orders
<1> QED BY <1>1, <1>2

\* Every converter has its turn.
LEMMA EveryConverterHasATurn ==
    \A i \in DOMAIN Registered : \E n \in 1..Len(Registered) : Nth(n) = i
BY RegistryIsOrdered, InOrderLists DEF Nth

LEMMA RegistryOrder ==
    \A n \in 1..Len(Registered) :
        /\ Nth(n) \in DOMAIN Registered
        /\ RegisteredConverters[n] = Registered[Nth(n)]
        /\ Before(Nth(n)) = {Nth(k) : k \in 1..(n - 1)}
        /\ Cardinality(Before(Nth(n))) = n - 1
        /\ \A k \in 1..(n - 1) : Precedes(Nth(k), Nth(n))
<1> DEFINE S == DOMAIN Registered
           N == Len(Registered)
<1>1. IsFiniteSet(S) /\ Cardinality(S) = N
  BY RegistryIsOrdered
<1>2. Orders(Earlier, S)
  BY RegistryIsOrdered
<1>3. /\ \A i \in S : /\ Cardinality(Below(S, Earlier, i)) + 1 \in 1..N
                      /\ Nth(Cardinality(Below(S, Earlier, i)) + 1) = i
      /\ \A n \in 1..N : /\ Nth(n) \in S
                         /\ Cardinality(Below(S, Earlier, Nth(n))) + 1 = n
      /\ \A m, n \in 1..N : <<Nth(m), Nth(n)>> \in Earlier <=> m < n
  BY <1>1, <1>2, InOrderLists DEF Nth
<1>4. \A i \in S : Before(i) = Below(S, Earlier, i)
  BY EarlierPrecedes DEF Before, Below
<1> SUFFICES ASSUME NEW n \in 1..N
             PROVE  /\ Nth(n) \in S
                    /\ RegisteredConverters[n] = Registered[Nth(n)]
                    /\ Before(Nth(n)) = {Nth(k) : k \in 1..(n - 1)}
                    /\ Cardinality(Before(Nth(n))) = n - 1
                    /\ \A k \in 1..(n - 1) : Precedes(Nth(k), Nth(n))
  OBVIOUS
<1>5. Nth(n) \in S /\ RegisteredConverters[n] = Registered[Nth(n)]
  BY <1>3, RegistryType DEF RegisteredConverters, Nth
<1>6. \A k \in 1..(n - 1) : k \in 1..N /\ k < n
  BY RegistryType
<1>7. \A k \in 1..(n - 1) : Nth(k) \in S /\ Precedes(Nth(k), Nth(n))
  BY <1>3, <1>5, <1>6, EarlierPrecedes
<1>8. ASSUME NEW j \in Before(Nth(n))
      PROVE  j \in {Nth(k) : k \in 1..(n - 1)}
  <2>1. j \in S /\ <<j, Nth(n)>> \in Earlier
    BY <1>5, EarlierPrecedes DEF Before
  <2>2. PICK k \in 1..N : Nth(k) = j
    BY <1>3, <2>1
  <2>3. k < n
    BY <1>3, <2>1, <2>2
  <2> QED BY <2>2, <2>3
<1>9. Cardinality(Below(S, Earlier, Nth(n))) \in 0..(N - 1)
  BY <1>1, <1>2, <1>5, BelowGrows
<1>10. Cardinality(Before(Nth(n))) = n - 1
  BY <1>3, <1>4, <1>5, <1>9
<1> QED BY <1>5, <1>7, <1>8, <1>10 DEF Before
-----------------------------------------------------------------------------
(* What converters answer.                                                 *)

\* The request is one of the sources.
SourceHolds ==
    /\ intent \in Intent
    /\ IsForest(source)
    /\ \A id \in DOMAIN source :
          /\ Wellformed(source[id])
          /\ \A i \in DOMAIN Registered :
                ~Registered[i].builtin => source[id].whims[Registered[i].name] \in Whim

Shaped(c) == c = [class |-> c.class, parts |-> c.parts,
                  artifacts |-> c.artifacts, warnings |-> c.warnings]

\* Warnings as converters make them: none passes for one of dispatch.
OwnWarnings(warnings) ==
    \A w \in warnings : "location" \in DOMAIN w /\ w.category # "converter_fallback"

\* Artifacts with keys, and references to the images they were written for.
Coherent(parts, artifacts) ==
    /\ Len(artifacts) \in Nat /\ DOMAIN artifacts = 1..Len(artifacts)
    /\ \A k \in DOMAIN artifacts : artifacts[k].rank \in Int
    /\ \A k \in DOMAIN parts :
          /\ IsReference(parts[k]) /\ "meant" \in DOMAIN parts[k]
          /\ parts[k].ref \in DOMAIN artifacts
          => artifacts[parts[k].ref].image = parts[k].meant

Sound(c) ==
    /\ Shaped(c)
    /\ c.class \in {"ok"} \cup Passing \cup Terminal
    /\ OwnWarnings(c.warnings)
    /\ Coherent(c.parts, c.artifacts)

LEMMA NoArtifacts == \A parts : Coherent(parts, <<>>)
BY DEF Coherent

LEMMA FailureSound ==
    ASSUME NEW class \in Passing \cup Terminal
    PROVE  Sound(Failure(class)) /\ Failure(class).class = class
BY NoArtifacts DEF Failure, Sound, Shaped, OwnWarnings

LEMMA ConvertedSound ==
    ASSUME NEW parts, NEW warnings, OwnWarnings(warnings)
    PROVE  /\ Sound(Converted(parts, <<>>, warnings))
           /\ Converted(parts, <<>>, warnings).class = "ok"
BY NoArtifacts DEF Converted, Sound, Shaped

LEMMA NoWarnings == OwnWarnings({})
BY DEF OwnWarnings

LEMMA WarningIsOwn ==
    ASSUME NEW category, category # "converter_fallback", NEW location
    PROVE  OwnWarnings({Warning(category, location)})
BY DEF OwnWarnings, Warning

LEMMA ProjectedSound ==
    ASSUME NEW c, Sound(c)
    PROVE  Sound(Projected(c)) /\ Projected(c).class = c.class
BY NoArtifacts, NoWarnings DEF Projected, Sound, Shaped

LEMMA DocxSound ==
    ASSUME NEW doc
    PROVE  Sound(DocxConversion(doc))
BY FailureSound, ConvertedSound, NoWarnings DEF DocxConversion, Passing, Terminal

LEMMA XlsxSound ==
    ASSUME NEW doc
    PROVE  Sound(XlsxConversion(doc))
BY FailureSound, ConvertedSound, NoWarnings DEF XlsxConversion, Passing, Terminal

LEMMA WholeSound ==
    ASSUME NEW doc
    PROVE  Sound(Whole(doc))
BY ConvertedSound, NoWarnings DEF Whole

LEMMA BookSound ==
    ASSUME NEW doc
    PROVE  Sound(BookConversion(doc))
<1> DEFINE W == UNION {ChapterWarnings(doc, doc.spine[i]) : i \in DOMAIN doc.spine}
<1>1. \A id : OwnWarnings(ChapterWarnings(doc, id))
  BY WarningIsOwn, NoWarnings DEF ChapterWarnings
<1>2. OwnWarnings(W)
  BY <1>1 DEF OwnWarnings
<1> QED BY <1>2, FailureSound, ConvertedSound DEF BookConversion, Passing, Terminal

LEMMA PptxSound ==
    ASSUME NEW doc, NEW c \in PptxConversions(doc)
    PROVE  Sound(c) /\ \A d \in PptxConversions(doc) : d.class = c.class
<1>1. \A notes : OwnWarnings(NotesWarnings(doc, notes))
  BY WarningIsOwn, NoWarnings DEF NotesWarnings
<1>2. ASSUME NEW slides, NEW choice
      PROVE  Sound(Presented(doc, slides, choice)) /\ Presented(doc, slides, choice).class = "ok"
  <2>1. OwnWarnings(UNION {NotesWarnings(doc, choice[k]) : k \in DOMAIN slides})
    BY <1>1 DEF OwnWarnings
  <2> QED BY <2>1, ConvertedSound DEF Presented
<1>3. ASSUME NEW slides, NEW d \in SlidesConversions(doc, slides)
      PROVE  Sound(d) /\ \A e \in SlidesConversions(doc, slides) : e.class = d.class
  <2>1. CASE slides = <<>>
    BY <1>3, <2>1, FailureSound DEF SlidesConversions, Passing
  <2>2. CASE slides # <<>> /\ \E k \in DOMAIN slides : ~Readable(doc, slides[k].link)
    BY <1>3, <2>2, FailureSound DEF SlidesConversions, Passing
  <2>3. CASE slides # <<>> /\ ~\E k \in DOMAIN slides : ~Readable(doc, slides[k].link)
    <3>1. \A e \in SlidesConversions(doc, slides) : \E choice : e = Presented(doc, slides, choice)
      BY <2>3 DEF SlidesConversions
    <3> QED BY <1>2, <1>3, <3>1
  <2> QED BY <2>1, <2>2, <2>3
<1> QED BY <1>3, FailureSound DEF PptxConversions, Passing, Terminal

\* Indices are ordered by number.
LEMMA NaturalOrder ==
    ASSUME NEW S, S \subseteq Int
    PROVE  Orders({p \in S \X S : p[1] < p[2]}, S)
BY DEF Orders

\* The images that are retained, in their order.
LEMMA RetainedImages ==
    ASSUME NEW doc, doc.images \in Seq([fate : ImageFate, rank : Int])
    PROVE  /\ Len(Retained(doc)) \in Nat
           /\ DOMAIN Retained(doc) = 1..Len(Retained(doc))
           /\ \A k \in DOMAIN Retained(doc) : doc.images[Retained(doc)[k]].rank \in Int
<1> DEFINE D == DOMAIN doc.images
           K == {i \in D : doc.images[i].fate = "retained"}
           R == {p \in K \X K : p[1] < p[2]}
           I == [fate : ImageFate, rank : Int]
<1>1. \A i \in D : doc.images[i].rank \in Int
  <2>1. \A x \in I : x.rank \in Int
    OBVIOUS
  <2>2. doc.images \in Seq(I)
    OBVIOUS
  <2> HIDE DEF I
  <2>3. \A i \in D : doc.images[i] \in I
    BY <2>2
  <2> QED BY <2>1, <2>3
<1>2. Len(doc.images) \in Nat /\ D = 1..Len(doc.images)
  <2> HIDE DEF I
  <2> QED OBVIOUS
<1>3. IsFiniteSet(D)
  BY <1>2, FS_Interval
<1>4. IsFiniteSet(K)
  BY <1>3, FS_Subset
<1>5. Orders(R, K)
  <2>1. \A i \in D : i \in Int
    BY <1>2
  <2>2. K \subseteq Int
    BY <2>1
  <2> HIDE DEF D, K
  <2> QED BY <2>2, NaturalOrder
<1>6. /\ Cardinality(K) \in Nat
      /\ \A n \in 1..Cardinality(K) : InOrder(K, R)[n] \in K
  BY <1>4, <1>5, InOrderLists
<1>7. Retained(doc) = InOrder(K, R)
  BY DEF Retained, Ascending
<1>8. DOMAIN Retained(doc) = 1..Cardinality(K) /\ Len(Retained(doc)) = Cardinality(K)
  <2> DEFINE g(n) == CHOOSE i \in K : Cardinality({j \in K : <<j, i>> \in R}) = n - 1
             N == Cardinality(K)
  <2>1. Retained(doc) = [n \in 1..N |-> g(n)]
    BY <1>7 DEF InOrder
  <2>2. N \in Nat
    BY <1>6
  <2> HIDE DEF g, N
  <2>3. Len(Retained(doc)) = N /\ DOMAIN Retained(doc) = 1..N
    BY <2>1, <2>2
  <2> QED BY <2>3 DEF N
<1> QED BY <1>1, <1>6, <1>7, <1>8

LEMMA PdfSound ==
    ASSUME NEW doc, doc.images \in Seq([fate : ImageFate, rank : Int])
    PROVE  /\ Sound(PdfDetailed(doc))
           /\ \A inline : Sound(PdfLegacy(doc, inline))
<1> DEFINE images == Retained(doc)
           n == Len(images)
           rank(k) == doc.images[images[k]].rank
           artifacts == [k \in 1..n |-> [image |-> images[k], rank |-> rank(k)]]
           refs == [k \in 1..n |-> [ref |-> k, meant |-> images[k]]]
           A == {[layout |-> Layout(doc.lines)], [ref |-> doc.quotes]}
           B == {[ref |-> k, meant |-> images[k]] : k \in 1..n}
<1>1. n \in Nat /\ DOMAIN images = 1..n /\ \A k \in 1..n : rank(k) \in Int
  BY RetainedImages
<1>2. LaidOut(doc) \in Seq(A)
  <2>1. <<>> \in Seq(A) /\ \A a \in A : <<a>> \in Seq(A)
    OBVIOUS
  <2>2. \A s, t \in Seq(A) : s \o t \in Seq(A)
    OBVIOUS
  <2>3. Quotes(doc) \in Seq(A)
    BY <2>1 DEF Quotes
  <2> HIDE DEF A
  <2>4. (IF Layout(doc.lines) = <<>> THEN <<>> ELSE <<[layout |-> Layout(doc.lines)]>>) \in Seq(A)
    BY <2>1 DEF A
  <2> QED BY <2>2, <2>3, <2>4 DEF LaidOut
<1>3. refs \in Seq(B)
  <2>1. \A k \in 1..n : [ref |-> k, meant |-> images[k]] \in B
    OBVIOUS
  <2> HIDE DEF B
  <2> QED BY <1>1, <2>1
<1>4. \A k \in DOMAIN (LaidOut(doc) \o refs) : (LaidOut(doc) \o refs)[k] \in A \cup B
  <2> HIDE DEF A, B, refs
  <2> QED BY <1>2, <1>3
<1>5. Coherent(LaidOut(doc) \o refs, artifacts)
  <2>1. Len(artifacts) = n /\ DOMAIN artifacts = 1..n
    BY <1>1
  <2>2. \A k \in 1..n : artifacts[k].rank \in Int /\ artifacts[k].image = images[k]
    BY <1>1
  <2>3. \A p \in A : ~(IsReference(p) /\ "meant" \in DOMAIN p)
    BY DEF IsReference
  <2>4. \A p \in B : p.ref \in 1..n /\ p.meant = images[p.ref]
    OBVIOUS
  <2> HIDE DEF A, B, refs, artifacts, images
  <2> QED BY <1>1, <1>4, <2>1, <2>2, <2>3, <2>4 DEF Coherent
<1>6. Sound(Converted(LaidOut(doc) \o refs, artifacts, {}))
  <2> HIDE DEF artifacts, refs
  <2> QED BY <1>5, NoWarnings DEF Sound, Shaped, Converted
<1>7. Sound(PdfDetailed(doc))
  <2>1. OwnWarnings({Warning("artifact_extraction_failed", Nowhere)})
    BY WarningIsOwn
  <2>2. \/ PdfDetailed(doc) = Failure("failed")
        \/ PdfDetailed(doc) = Converted(LaidOut(doc), <<>>, {Warning("artifact_extraction_failed", Nowhere)})
        \/ PdfDetailed(doc) = Failure("limit")
        \/ PdfDetailed(doc) = Converted(LaidOut(doc) \o refs, artifacts, {})
    BY DEF PdfDetailed
  <2> HIDE DEF artifacts, refs
  <2> QED BY <1>6, <2>1, <2>2, FailureSound, ConvertedSound DEF Passing, Terminal
<1>8. \A inline : Sound(PdfLegacy(doc, inline))
  BY FailureSound, ConvertedSound, NoWarnings DEF PdfLegacy, Passing
<1> QED BY <1>7, <1>8

\* Whatever converter takes a document, its answer is sound, and of what it may
\* answer all is of one class.
LEMMA ConversionsSound ==
    ASSUME SourceHolds, NEW i \in DOMAIN Registered, NEW id \in DOMAIN source, NEW wanted,
           Accepts(Registered[i], source[id]), ~IsZip(i),
           NEW c \in Conversions(Registered[i], source[id], wanted)
    PROVE  /\ Sound(c)
           /\ \A d \in Conversions(Registered[i], source[id], wanted) : d.class = c.class
<1> DEFINE doc == source[id]
           one == Converted(<<[whole |-> TRUE]>>, <<>>, {})
           pdf == IF wanted = "detailed" THEN PdfDetailed(doc) ELSE PdfLegacy(doc, wanted = "inline")
<1>1. CASE ~Registered[i].builtin
  <2>1. doc.whims[Registered[i].name] \in Whim /\ doc.whims[Registered[i].name] # "declines"
    BY <1>1 DEF SourceHolds, Accepts
  <2>2. Sound(one) /\ \A class \in Passing \cup Terminal : Sound(Failure(class))
    BY ConvertedSound, NoWarnings, FailureSound
  <2> QED BY <1>1, <2>1, <2>2 DEF Conversions, Whim
<1>2. CASE Registered[i].builtin
  <2>1. doc.kind \in Builtin \ {"zip"}
    BY <1>2, RegistryType DEF Accepts, IsZip
  <2>2. \A d \in BuiltinConversions(doc, wanted) :
           Sound(d) /\ \A e \in BuiltinConversions(doc, wanted) : d.class = e.class
    <3> DEFINE all == BuiltinConversions(doc, wanted)
    <3>1. CASE doc.kind = "text"
      <4>1. all = {Whole(doc)}
        BY <3>1 DEF BuiltinConversions
      <4> QED BY <4>1, WholeSound
    <3>2. CASE doc.kind = "pdf"
      <4>1. Sound(pdf)
        BY <3>2, PdfSound DEF SourceHolds, Wellformed
      <4>2. all = {pdf}
        BY <3>2 DEF BuiltinConversions
      <4> HIDE DEF all, pdf
      <4>3. \A d \in all : Sound(d) /\ \A e \in all : d.class = e.class
        BY <4>1, <4>2
      <4> QED BY <4>3 DEF all
    <3>3. CASE doc.kind = "docx"
      <4>1. all = {DocxConversion(doc)}
        BY <3>3 DEF BuiltinConversions
      <4> QED BY <4>1, DocxSound
    <3>4. CASE doc.kind = "pptx"
      <4>1. all = PptxConversions(doc)
        BY <3>4 DEF BuiltinConversions
      <4> QED BY <4>1, PptxSound
    <3>5. CASE doc.kind = "xlsx"
      <4>1. all = {XlsxConversion(doc)}
        BY <3>5 DEF BuiltinConversions
      <4> QED BY <4>1, XlsxSound
    <3>6. CASE doc.kind = "epub"
      <4>1. all = {BookConversion(doc)}
        BY <3>6 DEF BuiltinConversions
      <4> QED BY <4>1, BookSound
    <3> QED BY <2>1, <3>1, <3>2, <3>3, <3>4, <3>5, <3>6 DEF Builtin
  <2>3. Conversions(Registered[i], doc, wanted)
           = {IF wanted = "detailed" THEN e ELSE Projected(e) : e \in BuiltinConversions(doc, wanted)}
    BY <1>2 DEF Conversions
  <2> QED BY <2>2, <2>3, ProjectedSound
<1> QED BY <1>1, <1>2, RegistryType

\* Packages (package.go:265-367, pptx.go:259-268): the directory that links are resolved from is
\* told from the .rels part when a package is opened and from the part when its
\* links are read; they agree, so that whatever links a converter reads of a
\* part of an opened package lead out of it, or to a part that is there.
THEOREM LinksLeadToParts ==
    ASSUME NEW package, Opens(package), NEW S, NEW path \in Seq(S), path # <<>>,
           NEW id \in DOMAIN RelationsOf(package, path)
    PROVE  LET link == RelationsOf(package, path)[id]
           IN  "part" \in DOMAIN link => link.part \in DOMAIN package.parts
<1> DEFINE about == {i \in DOMAIN package.rels :
                        /\ package.rels[i].dir = Append(Above(path), "_rels")
                        /\ package.rels[i].of = path[Len(path)]}
           rels == package.rels[CHOOSE i \in about : TRUE]
           k == CHOOSE k \in DOMAIN rels.links : rels.links[k].id = id
<1>1. about # {}
  <2>1. DOMAIN <<>> = {}
    OBVIOUS
  <2> QED BY <2>1 DEF RelationsOf
<1>2. (CHOOSE i \in about : TRUE) \in DOMAIN package.rels /\ rels.dir = Append(Above(path), "_rels")
  BY <1>1
<1>3. RelationshipBase(rels) = Above(path)
  <2>1. Above(path) \in Seq(S)
    BY DEF Above
  <2>2. \A p \in Seq(S) : SubSeq(Append(p, "_rels"), 1, Len(Append(p, "_rels")) - 1) = p
    OBVIOUS
  <2> HIDE DEF rels
  <2> QED BY <1>2, <2>1, <2>2 DEF RelationshipBase, Above
<1>4. RelationsOf(package, path) = RelationshipMap(rels.links, Above(path))
  BY <1>1 DEF RelationsOf
<1> HIDE DEF about
<1>5. k \in DOMAIN rels.links
  <2> HIDE DEF rels
  <2> QED BY <1>4 DEF RelationshipMap
<1>6. IsExternal(rels.links[k]) \/ Resolved(rels.links[k], Above(path)) \in DOMAIN package.parts
  BY <1>2, <1>3, <1>5 DEF Opens, PartsAreLinked
<1>7. RelationsOf(package, path)[id]
         = IF IsExternal(rels.links[k])
           THEN [url |-> rels.links[k].target, bare |-> rels.links[k].spelling # "query"]
           ELSE [part |-> Resolved(rels.links[k], Above(path))]
  <2> HIDE DEF rels
  <2> QED BY <1>4 DEF RelationshipMap
<1> HIDE DEF k, rels
<1> QED BY <1>6, <1>7

-----------------------------------------------------------------------------
(* What sealing makes of references.                                       *)

\* References of a document lead to artifacts, and to those they were meant for.
Resolve(parts, artifacts, id) ==
    \A k \in DOMAIN parts :
        IsReference(parts[k].part) =>
            /\ parts[k].of = id
            /\ parts[k].part.ref \in DOMAIN artifacts
            /\ \/ "meant" \notin DOMAIN parts[k].part
               \/ artifacts[parts[k].part.ref].image = parts[k].part.meant

Arranged(artifacts) ==
    [i \in 1..Len(artifacts) |-> artifacts[InOrder(1..Len(artifacts), ByRank(artifacts))[i]]]

\* The number of an artifact is its place in the envelope.
LEMMA NumberIsPlace ==
    ASSUME NEW artifacts, Len(artifacts) \in Nat, DOMAIN artifacts = 1..Len(artifacts),
           \A k \in DOMAIN artifacts : artifacts[k].rank \in Int,
           \A j, k \in DOMAIN artifacts : j # k => artifacts[j].rank # artifacts[k].rank,
           NEW k \in DOMAIN artifacts
    PROVE  /\ Number(artifacts, k) \in DOMAIN Arranged(artifacts)
           /\ Arranged(artifacts)[Number(artifacts, k)] = artifacts[k]
<1> DEFINE n == Len(artifacts)
           S == 1..n
           R == ByRank(artifacts)
<1>1. IsFiniteSet(S) /\ Cardinality(S) = n
  <2>1. IsFiniteSet(1..n) /\ Cardinality(1..n) = IF 1 > n THEN 0 ELSE n - 1 + 1
    BY FS_Interval
  <2> QED BY <2>1
<1>2. \A i, j \in S : <<i, j>> \in R <=> artifacts[i].rank < artifacts[j].rank
  BY DEF ByRank
<1>3. Orders(R, S)
  <2> DEFINE rank(i) == artifacts[i].rank
  <2>1. /\ \A i \in S : rank(i) \in Int
        /\ \A i, j \in S : i # j => rank(i) # rank(j)
        /\ \A i, j \in S : <<i, j>> \in R <=> rank(i) < rank(j)
    BY <1>2
  <2> HIDE DEF rank, R, S
  <2> QED BY <2>1 DEF Orders
<1>4. Number(artifacts, k) = Cardinality(Below(S, R, k)) + 1
  <2>1. Below(S, R, k) = {j \in DOMAIN artifacts : <<j, k>> \in R}
    BY DEF Below
  <2>2. Cardinality(Below(S, R, k)) \in 0..(Cardinality(S) - 1)
    BY <1>1, <1>3, BelowGrows
  <2>3. Number(artifacts, k) = 1 + Cardinality(Below(S, R, k))
    BY <2>1 DEF Number
  <2> QED BY <1>1, <2>2, <2>3
<1>5. /\ Cardinality(Below(S, R, k)) + 1 \in 1..n
      /\ InOrder(S, R)[Cardinality(Below(S, R, k)) + 1] = k
  BY <1>1, <1>3, InOrderLists
<1> QED BY <1>4, <1>5 DEF Arranged

\* Parts of one document are rewritten to what they meant.
LEMMA RewrittenResolves ==
    ASSUME NEW parts, NEW artifacts, NEW id, Coherent(parts, artifacts),
           ~Dangling(Tagged(parts, id), artifacts),
           \A j, k \in DOMAIN artifacts : j # k => artifacts[j].rank # artifacts[k].rank
    PROVE  Resolve(Rewritten(Tagged(parts, id), artifacts), Arranged(artifacts), id)
<1> DEFINE tagged == Tagged(parts, id)
           new == Rewritten(tagged, artifacts)
<1>1. DOMAIN new = DOMAIN parts /\ DOMAIN tagged = DOMAIN parts
  BY DEF Rewritten, Tagged
<1> SUFFICES ASSUME NEW k \in DOMAIN parts, IsReference(new[k].part)
             PROVE  /\ new[k].of = id
                    /\ new[k].part.ref \in DOMAIN Arranged(artifacts)
                    /\ \/ "meant" \notin DOMAIN new[k].part
                       \/ Arranged(artifacts)[new[k].part.ref].image = new[k].part.meant
  BY <1>1 DEF Resolve
<1> DEFINE p == parts[k]
<1>2. tagged[k] = [of |-> id, part |-> p]
  BY DEF Tagged
<1>3. IsReference(p)
  BY <1>1, <1>2 DEF Rewritten
<1>4. new[k] = [tagged[k] EXCEPT !.part.ref = Number(artifacts, @)]
  BY <1>1, <1>2, <1>3 DEF Rewritten
<1>5. /\ new[k].of = id
      /\ DOMAIN new[k].part = DOMAIN p
      /\ new[k].part.ref = Number(artifacts, p.ref)
      /\ "meant" \in DOMAIN p => new[k].part.meant = p.meant
  <2> HIDE DEF new, p, tagged
  <2> QED BY <1>2, <1>3, <1>4 DEF IsReference
<1>6. p.ref \in DOMAIN artifacts
  BY <1>1, <1>2, <1>3 DEF Dangling
<1>7. /\ Number(artifacts, p.ref) \in DOMAIN Arranged(artifacts)
      /\ Arranged(artifacts)[Number(artifacts, p.ref)] = artifacts[p.ref]
  <2> HIDE DEF p
  <2> QED BY <1>6, NumberIsPlace DEF Coherent
<1>8. "meant" \in DOMAIN p => artifacts[p.ref].image = p.meant
  BY <1>3, <1>6 DEF Coherent
<1> HIDE DEF new, p
<1> QED BY <1>5, <1>7, <1>8

\* Where there are no artifacts there are no references.
LEMMA NothingToResolve ==
    ASSUME NEW parts, NEW id, ~Dangling(parts, <<>>)
    PROVE  Resolve(Rewritten(parts, <<>>), Arranged(<<>>), id)
<1>1. \A k \in DOMAIN parts : ~IsReference(parts[k].part)
  BY DEF Dangling
<1> QED BY <1>1 DEF Rewritten, Resolve

-----------------------------------------------------------------------------
(* The invariant.  The source and the intent are parameters, since no step *)
(* changes them.                                                           *)

WantedFor(id, int) == IF id = 1 THEN int ELSE "detailed"

\* ClassOf, for a given request.
ClassIn(i, id, src, int) ==
    IF ~Accepts(Registered[i], src[id]) THEN "unsupported"
    ELSE IF IsZip(i) THEN IF src[id].sound THEN "ok" ELSE "malformed"
    ELSE (CHOOSE c \in Conversions(Registered[i], src[id], WantedFor(id, int)) : TRUE).class

Fallback(k) == [category |-> "converter_fallback", location |-> Nowhere,
                converter |-> Registered[Nth(k)].name]

AttemptAt(k, id, src, int) ==
    [converter |-> Registered[Nth(k)].name, outcome |-> ClassIn(Nth(k), id, src, int)]

\* What dispatch remembers of the first n converters, none of which could.
Remembers(attempts, fallbacks, n, id, src, int) ==
    /\ \A k \in 1..n : /\ attempts[k] = AttemptAt(k, id, src, int)
                       /\ ClassIn(Nth(k), id, src, int) \in Passing
    /\ fallbacks = {Fallback(k) : k \in {j \in 1..n : ClassIn(Nth(j), id, src, int) = "failed"}}

Fields == {"doc", "attempts", "fallbacks", "unpacking", "next", "seen", "parts", "reports"}

\* Warnings of members have a place.
Placed(warnings) == \A w \in warnings : "location" \in DOMAIN w /\ w.location # Nowhere

Tries == [converter : STRING, outcome : Passing]

FrameInv(f, src, int) ==
    /\ DOMAIN f = Fields
    /\ f.doc \in DOMAIN src
    /\ f.attempts \in Seq(Tries)
    /\ Len(f.attempts) <= Len(Registered)
    /\ Remembers(f.attempts, f.fallbacks, Len(f.attempts), f.doc, src, int)
    /\ f.unpacking =>
          /\ Len(f.attempts) < Len(Registered)
          /\ IsZip(Nth(Len(f.attempts) + 1))
          /\ ClassIn(Nth(Len(f.attempts) + 1), f.doc, src, int) = "ok"
    /\ f.next \in Nat \ {0}
    /\ Placed(f.reports)

Wins(ans, src, int) ==
    \E n \in 1..Len(Registered) :
        /\ ans.source \in DOMAIN src
        /\ Len(ans.attempts) = n
        /\ ans.attempts[n] = [converter |-> Registered[Nth(n)].name, outcome |-> "selected"]
        /\ ClassIn(Nth(n), ans.source, src, int) = "ok"
        /\ Remembers(ans.attempts, {v \in ans.warnings : /\ v.category = "converter_fallback"
                                                         /\ v.location = Nowhere},
                     n - 1, ans.source, src, int)

AnswerInv(ans, src, int) ==
    \/ ans = Pending
    \/ \E class \in Passing \cup Terminal : ans = Failure(class)
    \/ /\ ans.class = "ok"
       /\ \A w \in ans.warnings : "location" \in DOMAIN w
       /\ Wins(ans, src, int)
       /\ WantedFor(ans.source, int) = "detailed" => Resolve(ans.parts, ans.artifacts, ans.source)

IsStack(s) == \E S : s \in Seq(S)

StackInv(s, src, int) ==
    /\ IsStack(s)
    /\ \A i \in 1..Len(s) : FrameInv(s[i], src, int) /\ (s[i].doc = 1 <=> i = 1)

RequestInv == /\ SourceHolds
              /\ StackInv(stack, source, intent)
              /\ AnswerInv(answer, source, intent)

-----------------------------------------------------------------------------
(* What the invariant says of an answer.                                   *)

\* The envelope of an invariant answer is of the first able converter.
LEMMA WinsIsFirstAble ==
    ASSUME Wins(answer, source, intent)
    PROVE  FirstAbleConverterWins
<1> DEFINE id == answer.source
           attempts == answer.attempts
           own == {v \in answer.warnings : v.category = "converter_fallback" /\ v.location = Nowhere}
<1>1. PICK n \in 1..Len(Registered) :
         /\ Len(attempts) = n
         /\ attempts[n] = [converter |-> Registered[Nth(n)].name, outcome |-> "selected"]
         /\ ClassIn(Nth(n), id, source, intent) = "ok"
         /\ Remembers(attempts, own, n - 1, id, source, intent)
  BY DEF Wins
<1>2. \A i : ClassIn(i, id, source, intent) = ClassOf(i, id)
  BY DEF ClassIn, ClassOf, WantedFor, WantedOf
<1> DEFINE won == Nth(n)
           before == {j \in DOMAIN Registered : Precedes(j, won)}
<1>3. /\ won \in DOMAIN Registered
      /\ before = {Nth(k) : k \in 1..(n - 1)}
      /\ Cardinality(before) = n - 1
  BY <1>1, RegistryOrder DEF Before
<1>4. n = Cardinality(before) + 1
  BY <1>3
<1>5. \A k \in 1..(n - 1) : /\ attempts[k] = [converter |-> Registered[Nth(k)].name,
                                              outcome |-> ClassOf(Nth(k), id)]
                            /\ ClassOf(Nth(k), id) \in Passing
  BY <1>1, <1>2 DEF Remembers, AttemptAt
<1>6. won \in Deciding(id)
  <2>1. \A j \in before : ClassOf(j, id) \in Passing
    BY <1>3, <1>5
  <2>2. ClassOf(won, id) \notin Passing
    BY <1>1, <1>2 DEF Passing
  <2> QED BY <1>3, <2>1, <2>2 DEF Deciding, FirstAble
<1>7. {attempts[k] : k \in 1..(n - 1)}
         = {[converter |-> Registered[j].name, outcome |-> ClassOf(j, id)] : j \in before}
  <2> HIDE DEF before
  <2> QED BY <1>3, <1>5
<1>8. own = {Fallback(k) : k \in {j \in 1..(n - 1) : ClassOf(Nth(j), id) = "failed"}}
  BY <1>1, <1>2 DEF Remembers
<1>9. {w.converter : w \in own}
         = {Registered[j].name : j \in {i \in before : ClassOf(i, id) = "failed"}}
  <2>1. \A k : Fallback(k).converter = Registered[Nth(k)].name
    BY DEF Fallback
  <2> HIDE DEF before, own
  <2> QED BY <1>3, <1>8, <2>1
<1> HIDE DEF before, own, won
<1> QED BY <1>1, <1>3, <1>4, <1>6, <1>7, <1>9 DEF FirstAbleConverterWins, before, own, won

\* What is promised of an envelope follows from the invariant.
LEMMA AnswerKeepsPromises ==
    ASSUME AnswerInv(answer, source, intent)
    PROVE  FirstAbleConverterWins /\ ReferencesResolve
<1>1. CASE answer.class # "ok"
  BY <1>1 DEF FirstAbleConverterWins, ReferencesResolve, IsAnswered
<1>2. CASE answer.class = "ok"
  <2>1. Wins(answer, source, intent)
        /\ (WantedFor(answer.source, intent) = "detailed"
               => Resolve(answer.parts, answer.artifacts, answer.source))
    BY <1>2 DEF AnswerInv, Pending, Failure, Passing, Terminal
  <2>2. ReferencesResolve
    BY <2>1 DEF ReferencesResolve, Resolve, WantedFor, WantedOf
  <2> QED BY <2>1, <2>2, WinsIsFirstAble
<1> QED BY <1>1, <1>2

-----------------------------------------------------------------------------
(* What becomes of the stack.                                              *)

LEMMA Popped ==
    ASSUME NEW s, IsStack(s), s # <<>>, NEW t, t = SubSeq(s, 1, Len(s) - 1)
    PROVE  /\ IsStack(t) /\ Len(t) = Len(s) - 1 /\ Len(s) \in Nat \ {0}
           /\ \A i \in 1..Len(t) : t[i] = s[i]
<1>1. PICK S : s \in Seq(S)
  BY DEF IsStack
<1>2. Len(s) \in Nat \ {0}
  BY <1>1
<1>3. PICK n \in Nat : n = Len(s) - 1
  BY <1>2
<1>4. \A i \in 1..n : s[i] \in S
  BY <1>1, <1>3
<1>5. /\ SubSeq(s, 1, n) \in Seq(S)
      /\ Len(SubSeq(s, 1, n)) = IF 1 <= n THEN n - 1 + 1 ELSE 0
      /\ \A i \in 1..(n - 1 + 1) : SubSeq(s, 1, n)[i] = s[1 + i - 1]
  BY <1>4, SubSeqProperties
<1>6. Len(SubSeq(s, 1, n)) = n
  BY <1>5
<1>7. \A i \in 1..n : SubSeq(s, 1, n)[i] = s[i]
  <2>1. \A i \in 1..n : i \in 1..(n - 1 + 1) /\ 1 + i - 1 = i
    OBVIOUS
  <2> QED BY <1>5, <2>1
<1> QED BY <1>2, <1>3, <1>5, <1>6, <1>7 DEF IsStack

\* Only the innermost pipeline is the requested document's own, if it is alone.
LEMMA TopHolds ==
    ASSUME RequestInv, stack # <<>>
    PROVE  /\ Len(stack) \in Nat \ {0}
           /\ FrameInv(Top, source, intent)
           /\ Wanted = WantedFor(Top.doc, intent)
<1>1. Len(stack) \in Nat \ {0}
  BY Popped DEF RequestInv, StackInv
<1> QED BY <1>1 DEF RequestInv, StackInv, Top, Wanted, WantedFor

LEMMA ReplacedHolds ==
    ASSUME NEW src, NEW int, NEW s, StackInv(s, src, int), s # <<>>,
           NEW f, FrameInv(f, src, int), f.doc = s[Len(s)].doc
    PROVE  StackInv([s EXCEPT ![Len(s)] = f], src, int)
<1>1. PICK S : s \in Seq(S)
  BY DEF StackInv, IsStack
<1>2. PICK t : t = [s EXCEPT ![Len(s)] = f]
  OBVIOUS
<1>3. /\ t \in Seq(S \cup {f}) /\ Len(t) = Len(s) /\ Len(s) \in Nat \ {0}
      /\ \A i \in 1..Len(t) : i # Len(s) => t[i] = s[i]
      /\ t[Len(s)] = f
  BY <1>1, <1>2
<1>4. StackInv(t, src, int)
  BY <1>3 DEF StackInv, IsStack
<1> QED BY <1>2, <1>4

LEMMA PoppedHolds ==
    ASSUME NEW src, NEW int, NEW s, StackInv(s, src, int), s # <<>>
    PROVE  StackInv(SubSeq(s, 1, Len(s) - 1), src, int)
<1>1. IsStack(s)
  BY DEF StackInv
<1>2. PICK t : t = SubSeq(s, 1, Len(s) - 1)
  OBVIOUS
<1>3. /\ IsStack(t) /\ Len(t) = Len(s) - 1 /\ Len(s) \in Nat \ {0}
      /\ \A i \in 1..Len(t) : t[i] = s[i]
  BY <1>1, <1>2, Popped
<1>4. \A i \in 1..Len(t) : i \in 1..Len(s)
  BY <1>3
<1>5. StackInv(t, src, int)
  BY <1>3, <1>4 DEF StackInv
<1> QED BY <1>2, <1>5

LEMMA PushedHolds ==
    ASSUME NEW src, NEW int, NEW s, StackInv(s, src, int), s # <<>>,
           NEW f, FrameInv(f, src, int), f.doc # 1
    PROVE  StackInv(Append(s, f), src, int)
<1>1. PICK S : s \in Seq(S)
  BY DEF StackInv, IsStack
<1>2. PICK t : t = Append(s, f)
  OBVIOUS
<1>3. /\ t \in Seq(S \cup {f}) /\ Len(t) = Len(s) + 1 /\ Len(s) \in Nat \ {0}
      /\ \A i \in 1..Len(s) : t[i] = s[i]
      /\ t[Len(t)] = f
  BY <1>1, <1>2
<1>4. \A i \in 1..Len(t) : i \in 1..Len(s) \/ i = Len(t)
  BY <1>3
<1>5. \A i \in 1..Len(t) : FrameInv(t[i], src, int) /\ (t[i].doc = 1 <=> i = 1)
  BY <1>3, <1>4 DEF StackInv
<1>6. StackInv(t, src, int)
  BY <1>3, <1>5 DEF StackInv, IsStack
<1> QED BY <1>2, <1>6

LEMMA NothingStarted == \A src, int : AnswerInv(Pending, src, int)
BY DEF AnswerInv

\* No step changes the source.
LEMMA SourceStays ==
    ASSUME SourceHolds, UNCHANGED <<source, intent>>
    PROVE  SourceHolds'
BY DEF SourceHolds

\* A pipeline starts, of a document other than the first.
LEMMA FreshHolds ==
    ASSUME NEW id, NEW src, id \in DOMAIN src, NEW int
    PROVE  FrameInv(Fresh(id), src, int) /\ Fresh(id).doc = id
<1>1. <<>> \in Seq(Tries) /\ Len(<<>>) = 0
  OBVIOUS
<1>2. Remembers(<<>>, {}, 0, id, src, int)
  BY DEF Remembers
<1>3. DOMAIN Fresh(id) = Fields
  BY DEF Fresh, Fields
<1>4. /\ Fresh(id).doc = id /\ Fresh(id).attempts = <<>> /\ Fresh(id).fallbacks = {}
      /\ Fresh(id).unpacking = FALSE /\ Fresh(id).next = 1 /\ Fresh(id).reports = {}
  BY DEF Fresh
<1>5. 0 <= Len(Registered)
  BY RegistryType
<1> QED BY <1>1, <1>2, <1>3, <1>4, <1>5 DEF FrameInv, Placed

\* One more converter could not.
LEMMA AttemptedHolds ==
    ASSUME NEW f, FrameInv(f, source, intent), ~f.unpacking, Len(f.attempts) < Len(Registered),
           NEW outcome, outcome = ClassIn(Nth(Len(f.attempts) + 1), f.doc, source, intent),
           outcome \in Passing
    PROVE  LET g == Attempted(f, Registered[Nth(Len(f.attempts) + 1)].name, outcome)
           IN  FrameInv(g, source, intent) /\ g.doc = f.doc
<1> DEFINE n == Len(f.attempts)
           name == Registered[Nth(n + 1)].name
           one == [converter |-> name, outcome |-> outcome]
           g == Attempted(f, name, outcome)
<1>1. f.attempts \in Seq(Tries) /\ n \in Nat /\ n + 1 \in 1..Len(Registered)
  BY RegistryType DEF FrameInv
<1>2. one \in Tries
  BY <1>1, RegistryOrder, RegistryType DEF Tries
<1>3. /\ DOMAIN g = Fields /\ g.doc = f.doc /\ g.unpacking = f.unpacking
      /\ g.next = f.next /\ g.reports = f.reports
      /\ g.attempts = Append(f.attempts, one)
      /\ g.fallbacks = IF outcome # "failed" THEN f.fallbacks ELSE f.fallbacks \cup {Fallback(n + 1)}
  BY DEF Attempted, Fallback, FrameInv, Fields
<1>4. /\ g.attempts \in Seq(Tries) /\ Len(g.attempts) = n + 1
      /\ g.attempts[n + 1] = one
      /\ \A k \in 1..n : g.attempts[k] = f.attempts[k]
  <2> HIDE DEF one, n, g
  <2> QED BY <1>1, <1>2, <1>3 DEF n
<1>5. Remembers(g.attempts, g.fallbacks, n + 1, f.doc, source, intent)
  <2>1. Remembers(f.attempts, f.fallbacks, n, f.doc, source, intent)
    BY DEF FrameInv
  <2>2. \A k \in 1..(n + 1) : k \in 1..n \/ k = n + 1
    BY <1>1
  <2>3. \A k \in 1..(n + 1) : /\ g.attempts[k] = AttemptAt(k, f.doc, source, intent)
                              /\ ClassIn(Nth(k), f.doc, source, intent) \in Passing
    <3> HIDE DEF g, n
    <3> QED BY <1>4, <2>1, <2>2 DEF Remembers, AttemptAt, n
  <2>4. g.fallbacks = {Fallback(k) :
                          k \in {j \in 1..(n + 1) : ClassIn(Nth(j), f.doc, source, intent) = "failed"}}
    <3>1. 1..(n + 1) = (1..n) \cup {n + 1}
      BY <1>1
    <3> HIDE DEF g, n
    <3> QED BY <1>3, <2>1, <3>1 DEF Remembers, n
  <2> QED BY <2>3, <2>4 DEF Remembers
<1> HIDE DEF g
<1>6. n + 1 <= Len(Registered)
  BY <1>1
<1> QED BY <1>3, <1>4, <1>5, <1>6 DEF FrameInv, g

-----------------------------------------------------------------------------
(* Sealing keeps the promises.                                             *)

\* A conversion that sealing keeps the references of.
Sealable(c, id) ==
    /\ \A w \in c.warnings : /\ "location" \in DOMAIN w
                             /\ w.category # "converter_fallback" \/ w.location # Nowhere
    /\ \/ c.artifacts = <<>>
       \/ \E parts : c.parts = Tagged(parts, id) /\ Coherent(parts, c.artifacts)

LEMMA SealedHolds ==
    ASSUME NEW src, NEW int, NEW f, FrameInv(f, src, int),
           Len(f.attempts) < Len(Registered),
           ClassIn(Nth(Len(f.attempts) + 1), f.doc, src, int) = "ok",
           NEW c, Sealable(c, f.doc), NEW wanted, wanted = WantedFor(f.doc, int)
    PROVE  AnswerInv(Sealed(f, c, wanted), src, int)
<1> DEFINE n == Len(f.attempts)
           last == [converter |-> RegisteredConverters[n + 1].name, outcome |-> "selected"]
           warnings == f.fallbacks \cup c.warnings
           parts == IF wanted = "detailed" THEN Rewritten(c.parts, c.artifacts) ELSE c.parts
           sealed == [class |-> "ok", source |-> f.doc, parts |-> parts,
                      artifacts |-> Arranged(c.artifacts), warnings |-> warnings,
                      attempts |-> Append(f.attempts, last)]
<1>1. \/ Sealed(f, c, wanted) = Failure("integrity")
      \/ /\ Sealed(f, c, wanted) = sealed
         /\ ~(wanted = "detailed" /\ Dangling(c.parts, c.artifacts))
         /\ \A j, k \in 1..Len(c.artifacts) :
               j # k => c.artifacts[j].rank # c.artifacts[k].rank
  BY DEF Sealed, Arranged
<1>2. CASE Sealed(f, c, wanted) = Failure("integrity")
  BY <1>2 DEF AnswerInv, Terminal
<1>3. CASE /\ Sealed(f, c, wanted) = sealed
           /\ ~(wanted = "detailed" /\ Dangling(c.parts, c.artifacts))
           /\ \A j, k \in 1..Len(c.artifacts) :
                 j # k => c.artifacts[j].rank # c.artifacts[k].rank
  <2>1. /\ sealed.class = "ok" /\ sealed.source = f.doc /\ sealed.parts = parts
        /\ sealed.artifacts = Arranged(c.artifacts) /\ sealed.warnings = warnings
        /\ sealed.attempts = Append(f.attempts, last)
    OBVIOUS
  <2> HIDE DEF sealed
  <2>2. /\ f.attempts \in Seq(Tries) /\ n \in Nat /\ n + 1 \in 1..Len(Registered)
        /\ Remembers(f.attempts, f.fallbacks, n, f.doc, src, int)
        /\ f.doc \in DOMAIN src
    BY RegistryType DEF FrameInv
  <2>3. \A v \in f.fallbacks : /\ "location" \in DOMAIN v
                               /\ v.category = "converter_fallback" /\ v.location = Nowhere
    BY <2>2 DEF Remembers, Fallback
  <2>4. /\ \A w \in warnings : "location" \in DOMAIN w
        /\ {v \in warnings : v.category = "converter_fallback" /\ v.location = Nowhere} = f.fallbacks
    BY <2>3 DEF Sealable
  <2>5. /\ Len(sealed.attempts) = n + 1
        /\ sealed.attempts[n + 1] = last
        /\ \A k \in 1..n : sealed.attempts[k] = f.attempts[k]
    <3>1. Append(f.attempts, last) \in Seq(Tries \cup {last})
      BY <2>2
    <3> HIDE DEF last
    <3> QED BY <2>1, <2>2
  <2>6. Remembers(sealed.attempts, f.fallbacks, n, f.doc, src, int)
    BY <2>2, <2>5 DEF Remembers
  <2>7. last = [converter |-> Registered[Nth(n + 1)].name, outcome |-> "selected"]
    BY <2>2, RegistryOrder
  <2>8. Wins(sealed, src, int)
    <3>1. (n + 1) - 1 = n
      BY <2>2
    <3> HIDE DEF warnings, last, n
    <3>2. /\ Len(sealed.attempts) = n + 1
          /\ sealed.attempts[n + 1] = [converter |-> Registered[Nth(n + 1)].name, outcome |-> "selected"]
          /\ sealed.source \in DOMAIN src
          /\ ClassIn(Nth(n + 1), sealed.source, src, int) = "ok"
          /\ Remembers(sealed.attempts, {v \in sealed.warnings : /\ v.category = "converter_fallback"
                                                                 /\ v.location = Nowhere},
                       (n + 1) - 1, sealed.source, src, int)
      BY <2>1, <2>2, <2>4, <2>5, <2>6, <2>7, <3>1 DEF n
    <3> QED BY <2>2, <3>2 DEF Wins
  <2>9. ASSUME wanted = "detailed"
        PROVE  Resolve(sealed.parts, sealed.artifacts, f.doc)
    <3>1. CASE c.artifacts = <<>>
      BY <1>3, <2>1, <2>9, <3>1, NothingToResolve
    <3>2. CASE \E own : c.parts = Tagged(own, f.doc) /\ Coherent(own, c.artifacts)
      <4>1. PICK own : c.parts = Tagged(own, f.doc) /\ Coherent(own, c.artifacts)
        BY <3>2
      <4>2. \A j, k \in DOMAIN c.artifacts : j # k => c.artifacts[j].rank # c.artifacts[k].rank
        BY <1>3, <4>1 DEF Coherent
      <4> QED BY <1>3, <2>1, <2>9, <4>1, <4>2, RewrittenResolves
    <3> QED BY <3>1, <3>2 DEF Sealable
  <2> HIDE DEF warnings
  <2> QED BY <1>3, <2>1, <2>4, <2>8, <2>9 DEF AnswerInv
<1> QED BY <1>1, <1>2, <1>3

\* A converter's own answer can be sealed.
LEMMA SoundIsSealable ==
    ASSUME NEW c, Sound(c), NEW id
    PROVE  LET d == [c EXCEPT !.parts = Tagged(@, id)]
           IN  Sealable(d, id) /\ d.class = c.class
<1> DEFINE d == [c EXCEPT !.parts = Tagged(@, id)]
<1>1. /\ d.class = c.class /\ d.artifacts = c.artifacts /\ d.warnings = c.warnings
      /\ d.parts = Tagged(c.parts, id)
  <2>1. DOMAIN c = {"class", "parts", "artifacts", "warnings"}
    BY DEF Sound, Shaped
  <2> QED BY <2>1
<1> HIDE DEF d
<1>2. Sealable(d, id)
  BY <1>1 DEF Sealable, Sound, OwnWarnings
<1> QED BY <1>1, <1>2 DEF d

-----------------------------------------------------------------------------
(* The steps.                                                              *)

\* What holds when a converter's turn has come.
LEMMA TurnHolds ==
    ASSUME RequestInv, Dispatching, Untried
    PROVE  LET n == Len(Top.attempts) + 1
           IN  /\ FrameInv(Top, source, intent) /\ ~Top.unpacking
               /\ n - 1 < Len(Registered) /\ n \in 1..Len(Registered)
               /\ Converter = Registered[Nth(n)] /\ Nth(n) \in DOMAIN Registered
               /\ (Converter.builtin /\ Converter.name = "zip" <=> IsZip(Nth(n)))
               /\ Wanted = WantedFor(Top.doc, intent)
               /\ Top.doc \in DOMAIN source
<1>1. FrameInv(Top, source, intent) /\ Wanted = WantedFor(Top.doc, intent)
  BY TopHolds DEF Dispatching
<1>2. Top.attempts \in Seq(Tries) /\ Top.doc \in DOMAIN source
  BY <1>1 DEF FrameInv
<1>3. Len(Top.attempts) \in Nat /\ Len(Top.attempts) < Len(Registered)
  BY <1>2 DEF Untried
<1>4. Len(Top.attempts) + 1 \in 1..Len(Registered)
  BY <1>3, RegistryType
<1>5. (Len(Top.attempts) + 1) - 1 < Len(Registered)
  BY <1>3, RegistryType
<1>6. /\ Converter = Registered[Nth(Len(Top.attempts) + 1)]
      /\ Nth(Len(Top.attempts) + 1) \in DOMAIN Registered
  BY <1>4, RegistryOrder DEF Converter
<1> QED BY <1>1, <1>2, <1>4, <1>5, <1>6 DEF Dispatching, IsZip

\* A pipeline that goes on keeps the invariant, ...
LEMMA ContinueHolds ==
    ASSUME RequestInv, stack # <<>>, NEW STATE f, FrameInv(f, source, intent), f.doc = Top.doc,
           Continue(f)
    PROVE  RequestInv'
<1>1. StackInv([stack EXCEPT ![Len(stack)] = f], source, intent)
  BY ReplacedHolds DEF RequestInv, Top
<1>2. /\ stack' = [stack EXCEPT ![Len(stack)] = f] /\ answer' = Pending
      /\ source' = source /\ intent' = intent
  BY DEF Continue
<1>3. SourceHolds'
  BY <1>2, SourceStays DEF RequestInv
<1> QED BY <1>1, <1>2, <1>3, NothingStarted DEF RequestInv

\* ... and so does one that ends with an answer that keeps it.
LEMMA ReturnHolds ==
    ASSUME RequestInv, stack # <<>>, NEW STATE result, AnswerInv(result, source, intent),
           Return(result)
    PROVE  RequestInv'
<1>1. StackInv(SubSeq(stack, 1, Len(stack) - 1), source, intent)
  BY PoppedHolds DEF RequestInv
<1>2. /\ stack' = SubSeq(stack, 1, Len(stack) - 1) /\ answer' = result
      /\ source' = source /\ intent' = intent
  BY DEF Return
<1>3. SourceHolds'
  BY <1>2, SourceStays DEF RequestInv
<1> QED BY <1>1, <1>2, <1>3 DEF RequestInv

LEMMA FailureHolds ==
    ASSUME NEW class \in Passing \cup Terminal, NEW src, NEW int
    PROVE  AnswerInv(Failure(class), src, int)
BY DEF AnswerInv

LEMMA DeclineHolds ==
    ASSUME RequestInv, Decline
    PROVE  RequestInv'
<1> DEFINE n == Len(Top.attempts) + 1
           g == Attempted(Top, Registered[Nth(n)].name, "unsupported")
<1>1. Dispatching /\ Untried /\ ~Accepts(Converter, Doc)
      /\ Continue(Attempted(Top, Converter.name, "unsupported"))
  BY DEF Decline
<1>2. ClassIn(Nth(n), Top.doc, source, intent) = "unsupported"
  BY <1>1, TurnHolds DEF ClassIn, Doc
<1>3. FrameInv(g, source, intent) /\ g.doc = Top.doc
  BY <1>1, <1>2, TurnHolds, AttemptedHolds DEF Passing
<1>4. Continue(g)
  BY <1>1, TurnHolds
<1> HIDE DEF g
<1> QED BY <1>1, <1>3, <1>4, ContinueHolds DEF Dispatching

\* Dispatch ends, or goes on, by the class of the answer.
LEMMA AfterConversionByClass ==
    ASSUME NEW STATE frame, NEW converter, NEW c, NEW STATE wanted,
           AfterConversion(frame, converter, c, wanted)
    PROVE  /\ c.class = "ok" =>
                 Return(Sealed(frame, [c EXCEPT !.parts = Tagged(@, frame.doc)], wanted))
           /\ c.class \in Passing => Continue(Attempted(frame, converter.name, c.class))
           /\ c.class \in Terminal => Return(Failure(c.class))
<1> DEFINE A == Return(Sealed(frame, [c EXCEPT !.parts = Tagged(@, frame.doc)], wanted))
           B == Continue(Attempted(frame, converter.name, c.class))
           C == Return(Failure(c.class))
<1>1. (CASE c.class = "ok" -> A [] c.class \in Passing -> B [] c.class \in Terminal -> C)
  BY DEF AfterConversion
<1>2. c.class = "ok" => c.class \notin Passing /\ c.class \notin Terminal
  BY DEF Passing, Terminal
<1>3. c.class \in Passing => c.class \notin Terminal
  BY DEF Passing, Terminal
<1> HIDE DEF A, B, C
<1>4. (c.class = "ok" => A) /\ (c.class \in Passing => B) /\ (c.class \in Terminal => C)
  BY <1>1, <1>2, <1>3
<1> QED BY <1>4 DEF A, B, C

LEMMA AttemptHolds ==
    ASSUME RequestInv, Attempt
    PROVE  RequestInv'
<1> DEFINE n == Len(Top.attempts) + 1
           i == Nth(n)
<1>1. Dispatching /\ Untried /\ Accepts(Converter, Doc)
      /\ ~(Converter.builtin /\ Converter.name = "zip")
  BY DEF Attempt
<1>2. PICK c \in Conversions(Converter, Doc, Wanted) : AfterConversion(Top, Converter, c, Wanted)
  BY DEF Attempt
<1>3. /\ i \in DOMAIN Registered /\ Top.doc \in DOMAIN source /\ ~IsZip(i)
      /\ Accepts(Registered[i], source[Top.doc])
      /\ c \in Conversions(Registered[i], source[Top.doc], Wanted)
      /\ Converter = Registered[i]
  BY <1>1, <1>2, TurnHolds DEF Doc
<1>4. /\ Sound(c)
      /\ \A d \in Conversions(Registered[i], source[Top.doc], Wanted) : d.class = c.class
  BY <1>3, ConversionsSound DEF RequestInv
<1>5. ClassIn(i, Top.doc, source, intent) = c.class
  <2>1. Wanted = WantedFor(Top.doc, intent)
    BY <1>1, TurnHolds
  <2> HIDE DEF i
  <2> QED BY <1>3, <1>4, <2>1 DEF ClassIn
<1>6. CASE c.class = "ok"
  <2> DEFINE d == [c EXCEPT !.parts = Tagged(@, Top.doc)]
  <2>1. Return(Sealed(Top, d, Wanted))
    BY <1>2, <1>6, AfterConversionByClass
  <2>2. Sealable(d, Top.doc)
    BY <1>4, SoundIsSealable
  <2> HIDE DEF d
  <2>3. AnswerInv(Sealed(Top, d, Wanted), source, intent)
    BY <1>1, <1>5, <1>6, <2>2, TurnHolds, SealedHolds DEF Untried
  <2> QED BY <1>1, <2>1, <2>3, ReturnHolds DEF Dispatching
<1>7. CASE c.class \in Passing
  <2> DEFINE g == Attempted(Top, Registered[Nth(n)].name, c.class)
  <2>1. Continue(g)
    BY <1>2, <1>3, <1>7, AfterConversionByClass
  <2>2. FrameInv(g, source, intent) /\ g.doc = Top.doc
    BY <1>1, <1>5, <1>7, TurnHolds, AttemptedHolds
  <2> HIDE DEF g
  <2> QED BY <1>1, <2>1, <2>2, ContinueHolds DEF Dispatching
<1>8. CASE c.class \in Terminal
  <2>1. Return(Failure(c.class))
    BY <1>2, <1>8, AfterConversionByClass
  <2> QED BY <1>1, <1>8, <2>1, FailureHolds, ReturnHolds DEF Dispatching
<1> QED BY <1>4, <1>6, <1>7, <1>8 DEF Sound

LEMMA ExhaustHolds ==
    ASSUME RequestInv, Exhaust
    PROVE  RequestInv'
<1>1. PICK class \in {"failed", "unsupported"} : Dispatching /\ Return(Failure(class))
  BY DEF Exhaust
<1> QED BY <1>1, FailureHolds, ReturnHolds DEF Passing, Dispatching

\* What the zip converter keeps of its own does not touch dispatch.
LEMMA EditedHolds ==
    ASSUME NEW src, NEW int, NEW f, FrameInv(f, src, int),
           NEW g, DOMAIN g = Fields, g.doc = f.doc, g.attempts = f.attempts,
           g.fallbacks = f.fallbacks, g.unpacking = f.unpacking,
           g.next \in Nat \ {0}, Placed(g.reports)
    PROVE  FrameInv(g, src, int)
BY DEF FrameInv

LEMMA UnpackHolds ==
    ASSUME RequestInv, Unpack
    PROVE  RequestInv'
<1> DEFINE n == Len(Top.attempts) + 1
           g == [Top EXCEPT !.unpacking = TRUE]
<1>1. Dispatching /\ Untried /\ Accepts(Converter, Doc)
      /\ Converter.builtin /\ Converter.name = "zip"
  BY DEF Unpack
<1>2. CASE Doc.sound
  <2>1. Continue(g)
    BY <1>2 DEF Unpack
  <2>2. ClassIn(Nth(n), Top.doc, source, intent) = "ok" /\ IsZip(Nth(n))
    BY <1>1, <1>2, TurnHolds DEF ClassIn, Doc
  <2>3. FrameInv(Top, source, intent)
    BY <1>1, TurnHolds
  <2>4. /\ DOMAIN g = Fields /\ g.doc = Top.doc /\ g.attempts = Top.attempts
        /\ g.fallbacks = Top.fallbacks /\ g.next = Top.next /\ g.reports = Top.reports
    BY <2>3 DEF FrameInv, Fields
  <2> HIDE DEF g
  <2>5. FrameInv(g, source, intent)
    BY <1>1, <2>2, <2>3, <2>4 DEF FrameInv, Untried
  <2> QED BY <1>1, <2>1, <2>4, <2>5, ContinueHolds DEF Dispatching
<1>3. CASE ~Doc.sound
  <2>1. Return(Failure("malformed"))
    BY <1>3 DEF Unpack
  <2> QED BY <1>1, <2>1, FailureHolds, ReturnHolds DEF Terminal, Dispatching
<1> QED BY <1>2, <1>3

\* The archive being unpacked is one, and its members are other documents.
LEMMA UnpackingHolds ==
    ASSUME RequestInv, Unpacking
    PROVE  /\ stack # <<>> /\ FrameInv(Top, source, intent)
           /\ Wanted = WantedFor(Top.doc, intent)
           /\ Len(Top.attempts) < Len(Registered)
           /\ ClassIn(Nth(Len(Top.attempts) + 1), Top.doc, source, intent) = "ok"
           /\ Top.doc \in DOMAIN source /\ Top.next \in Nat \ {0}
           /\ source[Top.doc].kind = "zip"
           /\ Doc.members \in Seq(Entry((Top.doc + 1)..Len(source)))
<1> DEFINE n == Len(Top.attempts) + 1
<1>1. stack # <<>> /\ Top.unpacking
  BY DEF Unpacking
<1>2. FrameInv(Top, source, intent) /\ Wanted = WantedFor(Top.doc, intent)
  BY <1>1, TopHolds
<1>3. /\ Len(Top.attempts) < Len(Registered) /\ IsZip(Nth(n))
      /\ ClassIn(Nth(n), Top.doc, source, intent) = "ok"
      /\ Top.doc \in DOMAIN source /\ Top.next \in Nat \ {0}
  BY <1>1, <1>2 DEF FrameInv
<1>4. source[Top.doc].kind = "zip"
  BY <1>3 DEF ClassIn, Accepts, IsZip
<1>5. Doc.members \in Seq(Entry((Top.doc + 1)..Len(source)))
  BY <1>3, <1>4 DEF RequestInv, SourceHolds, IsForest, Doc
<1> QED BY <1>1, <1>2, <1>3, <1>4, <1>5

LEMMA MemberHolds ==
    ASSUME RequestInv, Member
    PROVE  RequestInv'
<1> DEFINE member == Doc.members[Top.next]
           noted == [Top EXCEPT !.seen = @ \cup {TrimSpace(member.name)}]
           passed == [noted EXCEPT !.next = @ + 1]
<1>1. Unpacking /\ Top.next <= Len(Doc.members)
  BY DEF Member
<1>2. FrameInv(Top, source, intent) /\ stack # <<>> /\ Top.next \in Nat \ {0}
  BY <1>1, UnpackingHolds
<1>3. /\ DOMAIN noted = Fields /\ noted.doc = Top.doc /\ noted.attempts = Top.attempts
      /\ noted.fallbacks = Top.fallbacks /\ noted.unpacking = Top.unpacking
      /\ noted.next = Top.next /\ noted.reports = Top.reports
  BY <1>2 DEF FrameInv, Fields
<1>4. FrameInv(noted, source, intent)
  <2> HIDE DEF noted
  <2> QED BY <1>2, <1>3, EditedHolds DEF FrameInv
<1>5. FrameInv(passed, source, intent) /\ passed.doc = Top.doc
  <2> HIDE DEF noted
  <2>1. /\ DOMAIN passed = Fields /\ passed.doc = noted.doc /\ passed.attempts = noted.attempts
        /\ passed.fallbacks = noted.fallbacks /\ passed.unpacking = noted.unpacking
        /\ passed.next = noted.next + 1 /\ passed.reports = noted.reports
    BY <1>3 DEF Fields
  <2> HIDE DEF passed
  <2>2. passed.next \in Nat \ {0} /\ Placed(passed.reports)
    BY <1>2, <1>3, <1>4, <2>1 DEF FrameInv
  <2> QED BY <1>3, <1>4, <2>1, <2>2, EditedHolds
<1>6. \/ Return(Failure("malformed"))
      \/ Continue(passed)
      \/ /\ ~member.directory
         /\ stack' = Append([stack EXCEPT ![Len(stack)] = noted], Fresh(member.doc))
         /\ UNCHANGED <<source, intent, answer>>
  BY DEF Member
<1>7. CASE Return(Failure("malformed"))
  BY <1>2, <1>7, FailureHolds, ReturnHolds DEF Terminal
<1>8. CASE Continue(passed)
  <2> HIDE DEF passed
  <2> QED BY <1>2, <1>5, <1>8, ContinueHolds
<1>9. CASE /\ ~member.directory
           /\ stack' = Append([stack EXCEPT ![Len(stack)] = noted], Fresh(member.doc))
           /\ UNCHANGED <<source, intent, answer>>
  <2>1. member \in Entry((Top.doc + 1)..Len(source))
    BY <1>1, UnpackingHolds
  <2>2. member.doc \in DOMAIN source /\ member.doc # 1
    <3>1. member.doc \in (Top.doc + 1)..Len(source)
      BY <1>9, <2>1 DEF Entry
    <3>2. Top.doc \in 1..Len(source) /\ DOMAIN source = 1..Len(source) /\ Len(source) \in Nat
      BY <1>1, UnpackingHolds DEF RequestInv, SourceHolds, IsForest
    <3> HIDE DEF member
    <3> QED BY <3>1, <3>2
  <2> DEFINE base == [stack EXCEPT ![Len(stack)] = noted]
  <2> HIDE DEF noted, member
  <2>3. StackInv(base, source, intent)
    BY <1>2, <1>3, <1>4, ReplacedHolds DEF RequestInv, Top
  <2>4. base # <<>>
    <3>1. DOMAIN base = DOMAIN stack
      OBVIOUS
    <3>2. 1 \in DOMAIN stack
      BY <1>2, TopHolds DEF RequestInv, StackInv, IsStack
    <3> QED BY <3>1, <3>2
  <2>5. FrameInv(Fresh(member.doc), source, intent) /\ Fresh(member.doc).doc # 1
    BY <2>2, FreshHolds
  <2> HIDE DEF base
  <2>6. StackInv(Append(base, Fresh(member.doc)), source, intent)
    BY <2>3, <2>4, <2>5, PushedHolds
  <2>7. stack' = Append(base, Fresh(member.doc)) /\ answer' = answer
        /\ source' = source /\ intent' = intent
    BY <1>9 DEF base
  <2>8. SourceHolds'
    BY <2>7, SourceStays DEF RequestInv
  <2> QED BY <2>6, <2>7, <2>8 DEF RequestInv
<1> QED BY <1>6, <1>7, <1>8, <1>9

LEMMA ReportHolds ==
    ASSUME NEW f, NEW src, NEW int, FrameInv(f, src, int), NEW category, NEW member
    PROVE  FrameInv(Report(f, category, member), src, int)
           /\ Report(f, category, member).doc = f.doc
<1> DEFINE g == Report(f, category, member)
           w == Warning(category, Location(member))
<1>1. /\ DOMAIN g = Fields /\ g.doc = f.doc /\ g.attempts = f.attempts
      /\ g.fallbacks = f.fallbacks /\ g.unpacking = f.unpacking
      /\ g.next = f.next + 1 /\ g.reports = f.reports \cup {w}
  BY DEF Report, FrameInv, Fields
<1>2. "location" \in DOMAIN w /\ w.location # Nowhere
  BY DEF Warning, Location, Nowhere
<1> HIDE DEF g, w
<1>3. g.next \in Nat \ {0} /\ Placed(g.reports)
  BY <1>1, <1>2 DEF FrameInv, Placed
<1>4. FrameInv(g, src, int) /\ g.doc = f.doc
  BY <1>1, <1>3, EditedHolds
<1> QED BY <1>4 DEF g

LEMMA AbsorbHolds ==
    ASSUME NEW f, NEW src, NEW int, FrameInv(f, src, int), NEW member,
           NEW result, \A w \in result.warnings : "location" \in DOMAIN w
    PROVE  FrameInv(Absorb(f, member, result), src, int) /\ Absorb(f, member, result).doc = f.doc
<1> DEFINE g == Absorb(f, member, result)
           at(w) == [w EXCEPT !.location = IF w.location = Nowhere THEN Location(member) ELSE @]
<1>1. /\ DOMAIN g = Fields /\ g.doc = f.doc /\ g.attempts = f.attempts
      /\ g.fallbacks = f.fallbacks /\ g.unpacking = f.unpacking
      /\ g.next = f.next + 1 /\ g.reports = f.reports \cup {at(w) : w \in result.warnings}
  BY DEF Absorb, FrameInv, Fields
<1>2. \A w \in result.warnings : "location" \in DOMAIN at(w) /\ at(w).location # Nowhere
  BY DEF Location, Nowhere
<1> HIDE DEF g, at
<1>3. g.next \in Nat \ {0} /\ Placed(g.reports)
  BY <1>1, <1>2 DEF FrameInv, Placed
<1>4. FrameInv(g, src, int) /\ g.doc = f.doc
  BY <1>1, <1>3, EditedHolds
<1> QED BY <1>4 DEF g

\* The member loop ends, or goes on, by the class of the result.
LEMMA AfterMemberByClass ==
    ASSUME NEW STATE frame, NEW STATE member, NEW STATE result, AfterMember(frame, member, result)
    PROVE  /\ result.class = "unsupported" => Continue(Report(frame, "unsupported_member", member))
           /\ result.class = "failed" => Continue(Report(frame, "member_conversion_failed", member))
           /\ result.class \in Terminal => Return(Failure(result.class))
           /\ result.class = "ok" => Continue(Absorb(frame, member, result))
<1> DEFINE A == Continue(Report(frame, "unsupported_member", member))
           B == Continue(Report(frame, "member_conversion_failed", member))
           C == Return(Failure(result.class))
           D == Continue(Absorb(frame, member, result))
           class == result.class
<1>1. (CASE class = "unsupported" -> A [] class = "failed" -> B
         [] class \in Terminal -> C [] class = "ok" -> D)
  BY DEF AfterMember
<1>2. {"unsupported", "failed", "ok"} \cap Terminal = {}
  BY DEF Terminal
<1> HIDE DEF A, B, C, D, class
<1>3. /\ class = "unsupported" => A
      /\ class = "failed" => B
      /\ class \in Terminal => C
      /\ class = "ok" => D
  BY <1>1, <1>2
<1> QED BY <1>3 DEF A, B, C, D, class

LEMMA AnsweredHolds ==
    ASSUME RequestInv, Answered
    PROVE  RequestInv'
<1> DEFINE member == Doc.members[Top.next]
<1>1. stack # <<>> /\ answer # Pending /\ AfterMember(Top, member, answer)
  BY DEF Answered
<1>2. FrameInv(Top, source, intent)
  BY <1>1, TopHolds
<1>3. \/ answer.class \in Passing \cup Terminal
      \/ answer.class = "ok" /\ \A w \in answer.warnings : "location" \in DOMAIN w
  BY <1>1, FailureSound DEF RequestInv, AnswerInv
<1> HIDE DEF member
<1>4. CASE answer.class = "unsupported"
  BY <1>1, <1>2, <1>4, AfterMemberByClass, ReportHolds, ContinueHolds
<1>5. CASE answer.class = "failed"
  BY <1>1, <1>2, <1>5, AfterMemberByClass, ReportHolds, ContinueHolds
<1>6. CASE answer.class \in Terminal
  BY <1>1, <1>6, AfterMemberByClass, FailureHolds, ReturnHolds
<1>7. CASE answer.class = "ok" /\ \A w \in answer.warnings : "location" \in DOMAIN w
  BY <1>1, <1>2, <1>7, AfterMemberByClass, AbsorbHolds, ContinueHolds
<1> QED BY <1>3, <1>4, <1>5, <1>6, <1>7 DEF Passing

LEMMA PackHolds ==
    ASSUME RequestInv, Pack
    PROVE  RequestInv'
<1> DEFINE conversion == Converted(Tagged(<<[contents |-> TRUE]>>, Top.doc) \o Top.parts,
                                   <<>>, Top.reports)
           c == IF Wanted = "detailed" THEN conversion ELSE Projected(conversion)
<1>1. Unpacking /\ Return(Sealed(Top, c, Wanted))
  BY DEF Pack
<1>2. /\ stack # <<>> /\ FrameInv(Top, source, intent)
      /\ Wanted = WantedFor(Top.doc, intent)
      /\ Len(Top.attempts) < Len(Registered)
      /\ ClassIn(Nth(Len(Top.attempts) + 1), Top.doc, source, intent) = "ok"
  BY <1>1, UnpackingHolds
<1>3. c.artifacts = <<>> /\ (c.warnings = {} \/ c.warnings = Top.reports)
  BY DEF Converted, Projected
<1> HIDE DEF c
<1>4. Sealable(c, Top.doc)
  BY <1>2, <1>3 DEF Sealable, FrameInv, Placed
<1>5. AnswerInv(Sealed(Top, c, Wanted), source, intent)
  BY <1>2, <1>4, SealedHolds
<1> QED BY <1>1, <1>2, <1>5, ReturnHolds

-----------------------------------------------------------------------------
(* The theorems.                                                           *)

LEMMA InitHolds == Init => RequestInv
<1> SUFFICES ASSUME Init
             PROVE  RequestInv
  OBVIOUS
<1>1. PICK r \in Sources : source = r.source /\ intent = r.intent
  BY DEF Init
<1>2. SourceHolds
  BY <1>1, SourcesAssumption DEF SourceHolds
<1>3. StackInv(stack, source, intent)
  <2>1. FrameInv(Fresh(1), source, intent) /\ Fresh(1).doc = 1
    <3>1. 1 \in DOMAIN source
      BY <1>2 DEF SourceHolds, IsForest
    <3> QED BY <3>1, FreshHolds
  <2>2. stack = <<Fresh(1)>>
    BY DEF Init
  <2>3. stack \in Seq({Fresh(1)}) /\ Len(stack) = 1 /\ stack[1] = Fresh(1)
    BY <2>2
  <2>4. \A i \in 1..Len(stack) : i = 1
    BY <2>3
  <2> QED BY <2>1, <2>3, <2>4 DEF StackInv, IsStack
<1>4. AnswerInv(answer, source, intent)
  BY NothingStarted DEF Init
<1> QED BY <1>2, <1>3, <1>4 DEF RequestInv

LEMMA StepHolds == RequestInv /\ [Next]_vars => RequestInv'
<1> SUFFICES ASSUME RequestInv, [Next]_vars
             PROVE  RequestInv'
  OBVIOUS
<1>1. CASE UNCHANGED vars
  <2>1. source' = source /\ intent' = intent /\ stack' = stack /\ answer' = answer
    BY <1>1 DEF vars
  <2>2. SourceHolds'
    BY <2>1, SourceStays DEF RequestInv
  <2> QED BY <2>1, <2>2 DEF RequestInv
<1> QED BY <1>1, DeclineHolds, AttemptHolds, ExhaustHolds, UnpackHolds, MemberHolds,
           AnsweredHolds, PackHolds DEF Next

LEMMA InvariantHolds == Spec => []RequestInv
BY InitHolds, StepHolds, PTL DEF Spec

\* Dispatch (ingestion.go:170-236): for all converters and all documents, an
\* envelope comes from the first converter that can convert the document, with
\* a record of every one before it and a warning of every one that failed.
THEOREM FirstAbleWins == Spec => []FirstAbleConverterWins
<1>1. RequestInv => FirstAbleConverterWins
  BY AnswerKeepsPromises DEF RequestInv
<1> QED BY <1>1, InvariantHolds, PTL

\* References (ingestion.go:391-429): for all documents, images and canonical
\* keys, a reference in an envelope leads to an artifact of the envelope, and
\* one that a converter has written to the image it was written for.
THEOREM ReferencesAlwaysResolve == Spec => []ReferencesResolve
<1>1. RequestInv => ReferencesResolve
  BY AnswerKeepsPromises DEF RequestInv
<1> QED BY <1>1, InvariantHolds, PTL

-----------------------------------------------------------------------------
(* Lists.                                                                  *)

\* Induction is by the least counterexample, since the library's induction
\* theorems take an operator.
LEMMA LeastNat ==
    ASSUME NEW T \in SUBSET Nat, T # {}
    PROVE  \E x \in T : \A y \in T : x <= y
<1>1. PICK x \in T : \A y \in T : ~(<<y, x>> \in OpToRel(<, Nat))
  BY NatLessThanWellFounded, WFMin
<1>2. \A y \in T : ~(y < x)
  BY <1>1 DEF OpToRel
<1> QED BY <1>2

\* Joining lists gives a list of what they held.
LEMMA FlattenLists ==
    ASSUME NEW P, NEW seqs \in Seq(Seq(P))
    PROVE  /\ FlattenSeq(seqs) \in Seq(P)
           /\ \A k \in DOMAIN seqs : \A j \in DOMAIN seqs[k] :
                 \E m \in DOMAIN FlattenSeq(seqs) : FlattenSeq(seqs)[m] = seqs[k][j]
<1> DEFINE Joins(f, n) == f = [i \in 1..n |-> IF i = 1 THEN seqs[i] ELSE f[i - 1] \o seqs[i]]
<1>1. PICK N \in Nat : N = Len(seqs) /\ DOMAIN seqs = 1..N
  OBVIOUS
<1>2. \A k \in 1..N : seqs[k] \in Seq(P)
  BY <1>1
<1>3. CASE N = 0
  <2>1. seqs = <<>> /\ FlattenSeq(seqs) = seqs
    BY <1>1, <1>3 DEF FlattenSeq
  <2>2. <<>> \in Seq(P) /\ DOMAIN seqs = {}
    BY <1>1, <1>3
  <2>3. FlattenSeq(seqs) \in Seq(P)
    BY <2>1, <2>2
  <2> QED BY <2>2, <2>3
<1>4. CASE N # 0
  <2>1. \A n \in 1..N : \E f : Joins(f, n)
    <3> SUFFICES ASSUME NEW x \in 1..N, ~ \E f : Joins(f, x) PROVE FALSE
      OBVIOUS
    <3> DEFINE Wrong == {n \in Nat : n \in 1..N /\ ~ \E f : Joins(f, n)}
    <3>1. PICK n \in Wrong : \A m \in Wrong : n <= m
      <4> HIDE DEF Joins
      <4>1. Wrong \in SUBSET Nat /\ x \in Wrong
        BY <1>1
      <4> HIDE DEF Wrong
      <4> QED BY <4>1, LeastNat
    <3>2. CASE n = 1
      <4>1. PICK f : f = [i \in 1..1 |-> seqs[i]]
        OBVIOUS
      <4>2. Joins(f, 1)
        BY <4>1
      <4> QED BY <3>1, <3>2, <4>2
    <3>3. CASE n # 1
      <4>1. n - 1 \in 1..N /\ n - 1 \in Nat /\ ~(n <= n - 1) /\ n \in 1..N
        BY <1>1, <3>1, <3>3
      <4>2. PICK g : Joins(g, n - 1)
        <5> HIDE DEF Joins
        <5> QED BY <3>1, <4>1
      <4>3. PICK f : f = [i \in 1..n |-> IF i = n THEN g[n - 1] \o seqs[n] ELSE g[i]]
        OBVIOUS
      <4>4. \A i \in 1..n : f[i] = IF i = 1 THEN seqs[i] ELSE f[i - 1] \o seqs[i]
        <5> SUFFICES ASSUME NEW i \in 1..n
                     PROVE  f[i] = IF i = 1 THEN seqs[i] ELSE f[i - 1] \o seqs[i]
          OBVIOUS
        <5>1. CASE i = n
          <6>1. i # 1 /\ i - 1 = n - 1 /\ n - 1 \in 1..n /\ n - 1 # n /\ n \in 1..n
            BY <3>3, <4>1, <5>1
          <6>2. f[n - 1] = g[n - 1] /\ f[n] = g[n - 1] \o seqs[n]
            BY <4>1, <4>3, <6>1
          <6> QED BY <5>1, <6>1, <6>2
        <5>2. CASE i # n
          <6>1. i \in 1..(n - 1) /\ (i # 1 => i - 1 \in 1..n /\ i - 1 # n)
            BY <4>1, <5>2
          <6>2. f[i] = g[i] /\ (i # 1 => f[i - 1] = g[i - 1])
            BY <4>3, <5>2, <6>1
          <6>3. g[i] = IF i = 1 THEN seqs[i] ELSE g[i - 1] \o seqs[i]
            BY <4>2, <6>1
          <6> QED BY <6>2, <6>3
        <5> QED BY <5>1, <5>2
      <4>5. Joins(f, n)
        BY <4>3, <4>4
      <4> QED BY <3>1, <4>5
    <3> QED BY <3>2, <3>3
  <2>2. N \in 1..N
    BY <1>4
  <2>3. FlattenSeq(seqs) = (CHOOSE f : Joins(f, N))[N]
    BY <1>1, <1>4 DEF FlattenSeq
  <2>4. PICK f : Joins(f, N) /\ FlattenSeq(seqs) = f[N]
    <3> HIDE DEF Joins
    <3> QED BY <2>1, <2>2, <2>3
  <2> DEFINE Good(n) == /\ f[n] \in Seq(P)
                        /\ \A k \in 1..n : \A j \in DOMAIN seqs[k] :
                              \E m \in DOMAIN f[n] : f[n][m] = seqs[k][j]
  <2>5. \A n \in 1..N : Good(n)
    <3> SUFFICES ASSUME NEW x \in 1..N, ~ Good(x) PROVE FALSE
      OBVIOUS
    <3> DEFINE Wrong == {n \in Nat : n \in 1..N /\ ~ Good(n)}
    <3>1. PICK n \in Wrong : \A m \in Wrong : n <= m
      <4> HIDE DEF Good
      <4>1. Wrong \in SUBSET Nat /\ x \in Wrong
        BY <1>1
      <4> HIDE DEF Wrong
      <4> QED BY <4>1, LeastNat
    <3>2. n \in 1..N /\ f[n] = IF n = 1 THEN seqs[n] ELSE f[n - 1] \o seqs[n]
      BY <2>4, <3>1
    <3>3. CASE n = 1
      <4>1. \A k \in 1..n : k = n
        BY <3>3
      <4> QED BY <1>2, <3>1, <3>2, <3>3, <4>1
    <3>4. CASE n # 1
      <4>1. n - 1 \in 1..N /\ n - 1 \in Nat /\ ~(n <= n - 1)
        BY <1>1, <3>2, <3>4
      <4>2. Good(n - 1)
        <5> HIDE DEF Good
        <5> QED BY <3>1, <4>1
      <4>3. PICK s \in Seq(P) : s = f[n - 1]
        BY <4>2
      <4>4. PICK t \in Seq(P) : t = seqs[n]
        BY <1>2, <3>2
      <4>5. f[n] = s \o t
        BY <3>2, <3>4, <4>3, <4>4
      <4>6. /\ s \o t \in Seq(P)
            /\ \A j \in DOMAIN s : j \in DOMAIN (s \o t) /\ (s \o t)[j] = s[j]
            /\ \A j \in DOMAIN t : Len(s) + j \in DOMAIN (s \o t) /\ (s \o t)[Len(s) + j] = t[j]
        OBVIOUS
      <4>7. \A k \in 1..n : k \in 1..(n - 1) \/ k = n
        BY <3>2
      <4>8. ASSUME NEW k \in 1..n, NEW j \in DOMAIN seqs[k]
            PROVE  \E m \in DOMAIN f[n] : f[n][m] = seqs[k][j]
        <5>1. CASE k = n
          BY <4>4, <4>5, <4>6, <4>8, <5>1
        <5>2. CASE k \in 1..(n - 1)
          <6>1. PICK m \in DOMAIN s : s[m] = seqs[k][j]
            BY <4>2, <4>3, <5>2
          <6> QED BY <4>5, <4>6, <6>1
        <5> QED BY <4>7, <5>1, <5>2
      <4>9. Good(n)
        BY <4>5, <4>6, <4>8
      <4> HIDE DEF Good
      <4> QED BY <3>1, <4>9
    <3> QED BY <3>3, <3>4
  <2>6. Good(N)
    <3> HIDE DEF Good
    <3> QED BY <2>2, <2>5
  <2>7. FlattenSeq(seqs) = f[N]
    BY <2>4
  <2> HIDE DEF Joins
  <2> QED BY <1>1, <2>6, <2>7
<1> QED BY <1>3, <1>4

\* The members of a set of indices, each at a place of its own.
LEMMA AscendingLists ==
    ASSUME NEW S, S \subseteq Int, IsFiniteSet(S)
    PROVE  /\ Len(Ascending(S)) \in Nat
           /\ DOMAIN Ascending(S) = 1..Len(Ascending(S))
           /\ \A k \in DOMAIN Ascending(S) : Ascending(S)[k] \in S
           /\ \A i \in S : \E k \in DOMAIN Ascending(S) : Ascending(S)[k] = i
<1> DEFINE R == {p \in S \X S : p[1] < p[2]}
<1>1. Orders(R, S)
  BY NaturalOrder
<1>2. /\ Cardinality(S) \in Nat
      /\ \A n \in 1..Cardinality(S) : InOrder(S, R)[n] \in S
      /\ \A i \in S : /\ Cardinality(Below(S, R, i)) + 1 \in 1..Cardinality(S)
                      /\ InOrder(S, R)[Cardinality(Below(S, R, i)) + 1] = i
  BY <1>1, InOrderLists
<1>3. DOMAIN InOrder(S, R) = 1..Cardinality(S) /\ Len(InOrder(S, R)) = Cardinality(S)
  <2> DEFINE g(n) == CHOOSE i \in S : Cardinality({j \in S : <<j, i>> \in R}) = n - 1
             N == Cardinality(S)
  <2>1. InOrder(S, R) = [n \in 1..N |-> g(n)]
    BY DEF InOrder
  <2>2. N \in Nat
    BY <1>2
  <2> HIDE DEF g, N
  <2>3. Len(InOrder(S, R)) = N /\ DOMAIN InOrder(S, R) = 1..N
    BY <2>1, <2>2
  <2> QED BY <2>3 DEF N
<1>4. Ascending(S) = InOrder(S, R)
  BY DEF Ascending
<1> HIDE DEF R
<1> QED BY <1>2, <1>3, <1>4


-----------------------------------------------------------------------------
(* What converters answer, and what the answers to one document have in    *)
(* common.                                                                 *)

\* A list of parts, in which references count from one.
Made(c) == /\ IsStack(c.parts)
           /\ \A k \in DOMAIN c.parts : IsReference(c.parts[k]) => c.parts[k].ref \in Nat \ {0}

Refers(c)    == \E k \in DOMAIN c.parts : IsReference(c.parts[k])
Placeless(c) == \E w \in c.warnings : w.location = Nowhere
Alike(c, d)  == (Refers(c) <=> Refers(d)) /\ (Placeless(c) <=> Placeless(d))

LEMMA ListMade ==
    ASSUME NEW P, \A p \in P : IsReference(p) => p.ref \in Nat \ {0},
           NEW parts \in Seq(P), NEW artifacts, NEW warnings
    PROVE  Made(Converted(parts, artifacts, warnings))
<1>1. IsStack(parts) /\ \A k \in DOMAIN parts : parts[k] \in P
  BY DEF IsStack
<1> QED BY <1>1 DEF Made, Converted

LEMMA FailureMade == \A class : Made(Failure(class))
<1>1. <<>> \in Seq({}) /\ DOMAIN <<>> = {}
  OBVIOUS
<1>2. IsStack(<<>>)
  BY <1>1 DEF IsStack
<1> QED BY <1>1, <1>2 DEF Made, Failure

LEMMA ProjectedMade == ASSUME NEW c, Made(c) PROVE Made(Projected(c))
BY DEF Made, Projected

\* Lists put together of an optional part, a list, and what reads like a reference.
LEMMA Joined ==
    ASSUME NEW P, NEW s \in Seq(P), NEW t \in Seq(P)
    PROVE  s \o t \in Seq(P)
OBVIOUS

LEMMA QuotesListed ==
    ASSUME NEW doc, doc.quotes \in Nat
    PROVE  Quotes(doc) \in Seq({[ref |-> n] : n \in Nat \ {0}})
<1> DEFINE P == {[ref |-> n] : n \in Nat \ {0}}
<1>1. <<>> \in Seq(P) /\ \A p \in P : <<p>> \in Seq(P)
  OBVIOUS
<1>2. doc.quotes # 0 => [ref |-> doc.quotes] \in P
  OBVIOUS
<1> HIDE DEF P
<1> QED BY <1>1, <1>2 DEF Quotes, P

LEMMA WholeMade ==
    ASSUME NEW doc, doc.quotes \in Nat
    PROVE  Made(Whole(doc))
<1> DEFINE Q == {[ref |-> n] : n \in Nat \ {0}}
           P == Q \cup {[whole |-> TRUE]}
<1>1. Quotes(doc) \in Seq(P)
  <2>1. Quotes(doc) \in Seq(Q) /\ Q \subseteq P
    BY QuotesListed
  <2> HIDE DEF P, Q
  <2> QED BY <2>1
<1>2. \A p \in P : IsReference(p) => p.ref \in Nat \ {0}
  BY DEF IsReference
<1>3. <<[whole |-> TRUE]>> \in Seq(P) /\ <<>> \in Seq(P)
  <2>1. [whole |-> TRUE] \in P
    OBVIOUS
  <2> HIDE DEF P
  <2> QED BY <2>1
<1> HIDE DEF P
<1>4. <<[whole |-> TRUE]>> \o Quotes(doc) \in Seq(P)
  BY <1>1, <1>3, Joined
<1>5. (IF doc.blank THEN <<>> ELSE <<[whole |-> TRUE]>> \o Quotes(doc)) \in Seq(P)
  BY <1>3, <1>4
<1> QED BY <1>2, <1>5, ListMade DEF Whole

LEMMA PdfMade ==
    ASSUME NEW doc, doc.quotes \in Nat, doc.images \in Seq([fate : ImageFate, rank : Int])
    PROVE  Made(PdfDetailed(doc)) /\ \A inline : Made(PdfLegacy(doc, inline))
<1> DEFINE images == Retained(doc)
           Q == {[ref |-> n] : n \in Nat \ {0}}
           L == {[layout |-> Layout(doc.lines)]}
           R == {[ref |-> k, meant |-> images[k]] : k \in 1..Len(images)}
           I == {[inline |-> images[k]] : k \in 1..Len(images)}
           P == Q \cup L \cup R \cup I
<1>1. Len(images) \in Nat
  BY RetainedImages
<1>2. \A p \in P : IsReference(p) => p.ref \in Nat \ {0}
  <2>1. \A p \in Q : p.ref \in Nat \ {0}
    OBVIOUS
  <2>2. \A p \in L \cup I : ~IsReference(p)
    BY DEF IsReference
  <2>3. \A p \in R : p.ref \in Nat \ {0}
    BY <1>1
  <2> HIDE DEF Q, L, R, I
  <2> QED BY <2>1, <2>2, <2>3
<1>3. LaidOut(doc) \in Seq(P)
  <2>1. Quotes(doc) \in Seq(Q) /\ Q \subseteq P
    BY QuotesListed
  <2>2. [layout |-> Layout(doc.lines)] \in P
    OBVIOUS
  <2> HIDE DEF P, Q
  <2>3. Quotes(doc) \in Seq(P)
    BY <2>1
  <2>4. (IF Layout(doc.lines) = <<>> THEN <<>> ELSE <<[layout |-> Layout(doc.lines)]>>) \in Seq(P)
    BY <2>2
  <2> QED BY <2>3, <2>4, Joined DEF LaidOut
<1>4. [k \in 1..Len(images) |-> [ref |-> k, meant |-> images[k]]] \in Seq(P)
  <2>1. \A k \in 1..Len(images) : [ref |-> k, meant |-> images[k]] \in P
    OBVIOUS
  <2> HIDE DEF P
  <2> QED BY <1>1, <2>1
<1>5. \A s : Len(s) = Len(images) \/ Len(s) = 0 =>
         ((\A k \in 1..Len(s) : [inline |-> s[k]] \in P)
             => [k \in 1..Len(s) |-> [inline |-> s[k]]] \in Seq(P))
  <2> HIDE DEF P, images
  <2> QED BY <1>1
<1>6. \A inline : LET s == IF inline THEN images ELSE <<>>
                  IN  [k \in 1..Len(s) |-> [inline |-> s[k]]] \in Seq(P)
  <2>1. \A k \in 1..Len(images) : [inline |-> images[k]] \in P
    OBVIOUS
  <2>2. Len(<<>>) = 0 /\ 1..Len(<<>>) = {}
    OBVIOUS
  <2> HIDE DEF P, images
  <2> QED BY <1>5, <2>1, <2>2
<1> HIDE DEF P
<1>7. Made(PdfDetailed(doc))
  BY <1>2, <1>3, <1>4, Joined, ListMade, FailureMade DEF PdfDetailed
<1>8. ASSUME NEW inline PROVE Made(PdfLegacy(doc, inline))
  BY <1>2, <1>3, <1>6, Joined, ListMade, FailureMade DEF PdfLegacy
<1> QED BY <1>7, <1>8

LEMMA DocxMade ==
    ASSUME NEW doc, DocumentPart \in DOMAIN doc.parts =>
                       doc.parts[DocumentPart].body \in Seq([element : STRING, blank : BOOLEAN])
    PROVE  Made(DocxConversion(doc))
<1> SUFFICES ASSUME DocumentPart \in DOMAIN doc.parts
             PROVE  Made(DocxConversion(doc))
  BY FailureMade DEF DocxConversion
<1> DEFINE B == [element : STRING, blank : BOOLEAN]
           body == doc.parts[DocumentPart].body
           shown == Shown(body)
           P == {[block |-> shown[k]] : k \in 1..Len(shown)}
<1>1. Len(body) \in Nat /\ DOMAIN body = 1..Len(body)
  <2>1. body \in Seq(B)
    OBVIOUS
  <2> HIDE DEF B, body
  <2> QED BY <2>1
<1>2. Len(shown) \in Nat
  <2>1. IsFiniteSet(DOMAIN body) /\ DOMAIN body \subseteq Int
    BY <1>1, FS_Interval
  <2>2. PICK S : S = {i \in DOMAIN body : body[i].element \in {"p", "tbl"} /\ ~body[i].blank}
    OBVIOUS
  <2>3. S \subseteq Int /\ IsFiniteSet(S)
    BY <2>1, <2>2, FS_Subset
  <2>4. shown = Ascending(S)
    BY <2>2 DEF Shown
  <2> HIDE DEF shown
  <2> QED BY <2>3, <2>4, AscendingLists
<1>3. [k \in 1..Len(shown) |-> [block |-> shown[k]]] \in Seq(P)
  <2>1. \A k \in 1..Len(shown) : [block |-> shown[k]] \in P
    OBVIOUS
  <2> HIDE DEF P, shown
  <2> QED BY <1>2, <2>1
<1>4. \A p \in P : ~IsReference(p)
  BY DEF IsReference
<1> HIDE DEF P
<1> QED BY <1>3, <1>4, ListMade, FailureMade DEF DocxConversion

LEMMA XlsxMade == ASSUME NEW doc PROVE Made(XlsxConversion(doc))
<1> DEFINE P == {[sheets |-> TRUE]}
<1>1. <<[sheets |-> TRUE]>> \in Seq(P) /\ \A p \in P : ~IsReference(p)
  BY DEF IsReference
<1> HIDE DEF P
<1> QED BY <1>1, ListMade, FailureMade DEF XlsxConversion

LEMMA BookMade ==
    ASSUME NEW doc, doc.spine \in Seq(STRING)
    PROVE  Made(BookConversion(doc))
<1> DEFINE holds == {i \in DOMAIN doc.spine : /\ Found(doc, doc.spine[i])
                                              /\ doc.members[FullPath(doc, doc.spine[i])] = "prose"}
           prose == Ascending(holds)
           C == {[chapter |-> prose[k]] : k \in 1..Len(prose)}
           P == C \cup {[metadata |-> TRUE]}
<1>1. Len(prose) \in Nat
  <2>1. DOMAIN doc.spine = 1..Len(doc.spine) /\ Len(doc.spine) \in Nat
    OBVIOUS
  <2>2. IsFiniteSet(DOMAIN doc.spine) /\ DOMAIN doc.spine \subseteq Int
    BY <2>1, FS_Interval
  <2>3. holds \subseteq Int /\ IsFiniteSet(holds)
    BY <2>2, FS_Subset
  <2> HIDE DEF holds
  <2> QED BY <2>3, AscendingLists
<1>2. [k \in 1..Len(prose) |-> [chapter |-> prose[k]]] \in Seq(P)
  <2>1. \A k \in 1..Len(prose) : [chapter |-> prose[k]] \in P
    OBVIOUS
  <2> HIDE DEF P, prose
  <2> QED BY <1>1, <2>1
<1>3. (IF doc.titled THEN <<[metadata |-> TRUE]>> ELSE <<>>) \in Seq(P)
  <2>1. [metadata |-> TRUE] \in P
    OBVIOUS
  <2> HIDE DEF P
  <2> QED BY <2>1
<1>4. \A p \in P : ~IsReference(p)
  <2>1. \A p \in C : ~IsReference(p)
    <3> HIDE DEF prose
    <3> QED BY DEF IsReference
  <2>2. ~IsReference([metadata |-> TRUE])
    BY DEF IsReference
  <2> HIDE DEF C
  <2> QED BY <2>1, <2>2
<1> HIDE DEF P
<1>5. (IF doc.titled THEN <<[metadata |-> TRUE]>> ELSE <<>>)
         \o [k \in 1..Len(prose) |-> [chapter |-> prose[k]]] \in Seq(P)
  BY <1>2, <1>3, Joined
<1> QED BY <1>4, <1>5, ListMade, FailureMade DEF BookConversion
LEMMA PptxMade ==
    ASSUME NEW doc, NEW c \in PptxConversions(doc),
           PresentationPart \in DOMAIN doc.parts =>
               doc.parts[PresentationPart].slides \in Seq(STRING)
    PROVE  Made(c) /\ ~Refers(c) /\ ~Placeless(c)
<1>1. ASSUME NEW class
      PROVE  Made(Failure(class)) /\ ~Refers(Failure(class)) /\ ~Placeless(Failure(class))
  <2>1. Failure(class).parts = <<>> /\ Failure(class).warnings = {} /\ DOMAIN <<>> = {}
    BY DEF Failure
  <2> QED BY <2>1, FailureMade DEF Refers, Placeless
<1>2. CASE PresentationPart \notin DOMAIN doc.parts
  BY <1>1, <1>2 DEF PptxConversions
<1>3. CASE PresentationPart \in DOMAIN doc.parts
  <2> DEFINE slides == Slides(doc)
             named == doc.parts[PresentationPart].slides
             known == Ascending({i \in DOMAIN named : named[i] \in DOMAIN RelationsOf(doc, PresentationPart)})
             S == {[slide |-> slides[k].number] : k \in 1..Len(slides)}
             N == {[notesOf |-> slides[k].number] : k \in 1..Len(slides)}
             P == S \cup N
  <2>1. Len(slides) \in Nat /\ DOMAIN slides = 1..Len(slides)
    <3>1. Len(known) \in Nat
      <4>1. DOMAIN named = 1..Len(named) /\ Len(named) \in Nat
        BY <1>3
      <4>2. IsFiniteSet(DOMAIN named) /\ DOMAIN named \subseteq Int
        <5> HIDE DEF named
        <5> QED BY <4>1, FS_Interval
      <4>3. PICK K : K = {i \in DOMAIN named : named[i] \in DOMAIN RelationsOf(doc, PresentationPart)}
        OBVIOUS
      <4>4. K \subseteq Int /\ IsFiniteSet(K)
        BY <4>2, <4>3, FS_Subset
      <4> QED BY <4>3, <4>4, AscendingLists
    <3>2. PICK n \in Nat : n = Len(known)
      BY <3>1
    <3> HIDE DEF known
    <3>3. DOMAIN slides = 1..n
      BY <3>2 DEF Slides, known
    <3>4. slides = [k \in 1..n |-> slides[k]]
      BY <3>2 DEF Slides, known
    <3> HIDE DEF slides
    <3> QED BY <3>2, <3>3, <3>4
  <2>2. \A p \in P : ~IsReference(p)
    <3>1. (\A p \in S : ~IsReference(p)) /\ (\A p \in N : ~IsReference(p))
      BY DEF IsReference
    <3> HIDE DEF S, N
    <3> QED BY <3>1
  <2>3. ASSUME NEW choice
        PROVE  LET d == Presented(doc, slides, choice)
               IN  Made(d) /\ ~Refers(d) /\ ~Placeless(d)
    <3> DEFINE each(k) == <<[slide |-> slides[k].number]>>
                              \o NotesParts(doc, slides[k].number, choice[k])
               all == [k \in 1..Len(slides) |-> each(k)]
               W == UNION {NotesWarnings(doc, choice[k]) : k \in DOMAIN slides}
    <3>1. \A k \in 1..Len(slides) : each(k) \in Seq(P)
      <4> SUFFICES ASSUME NEW k \in 1..Len(slides) PROVE each(k) \in Seq(P)
        OBVIOUS
      <4>1. [slide |-> slides[k].number] \in P /\ [notesOf |-> slides[k].number] \in P
        OBVIOUS
      <4> HIDE DEF P, slides
      <4>2. <<[slide |-> slides[k].number]>> \in Seq(P)
            /\ NotesParts(doc, slides[k].number, choice[k]) \in Seq(P)
        BY <4>1 DEF NotesParts
      <4> QED BY <4>2, Joined
    <3>2. all \in Seq(Seq(P))
      <4> HIDE DEF each, P, slides
      <4> QED BY <2>1, <3>1
    <3>3. FlattenSeq(all) \in Seq(P)
      <4> HIDE DEF all, P
      <4> QED BY <3>2, FlattenLists
    <3>4. \A w \in W : w.location # Nowhere
      <4>1. \A notes : \A w \in NotesWarnings(doc, notes) : w.location # Nowhere
        BY DEF NotesWarnings, Warning
      <4> QED BY <4>1
    <3>5. Presented(doc, slides, choice) = Converted(FlattenSeq(all), <<>>, W)
      BY DEF Presented
    <3> HIDE DEF all, W, P
    <3>6. Made(Converted(FlattenSeq(all), <<>>, W))
      BY <2>2, <3>3, ListMade
    <3>7. \A k \in DOMAIN FlattenSeq(all) : FlattenSeq(all)[k] \in P
      BY <3>3
    <3> QED BY <2>2, <3>4, <3>5, <3>6, <3>7 DEF Refers, Placeless, Converted
  <2>4. \A d \in SlidesConversions(doc, slides) : Made(d) /\ ~Refers(d) /\ ~Placeless(d)
    <3> HIDE DEF slides
    <3> QED BY <1>1, <2>3 DEF SlidesConversions
  <2> QED BY <1>1, <2>4 DEF PptxConversions
<1> QED BY <1>2, <1>3

\* Whatever converter takes a document makes a list of parts, and of what it
\* may answer all refers to artifacts and all is warned of as a whole, or none.
LEMMA ConversionsMade ==
    ASSUME SourceHolds, NEW i \in DOMAIN Registered, NEW id \in DOMAIN source, NEW wanted,
           Accepts(Registered[i], source[id]), ~IsZip(i),
           NEW c \in Conversions(Registered[i], source[id], wanted)
    PROVE  /\ Made(c)
           /\ \A d \in Conversions(Registered[i], source[id], wanted) : Alike(c, d)
<1> DEFINE doc == source[id]
           one == Converted(<<[whole |-> TRUE]>>, <<>>, {})
<1>1. CASE ~Registered[i].builtin
  <2>1. Made(one)
    <3>1. <<[whole |-> TRUE]>> \in Seq({[whole |-> TRUE]})
          /\ \A p \in {[whole |-> TRUE]} : ~IsReference(p)
      BY DEF IsReference
    <3> QED BY <3>1, ListMade
  <2>2. Made(c)
    BY <1>1, <2>1, FailureMade DEF Conversions
  <2>3. \A d \in Conversions(Registered[i], source[id], wanted) : d = c
    BY <1>1 DEF Conversions
  <2> QED BY <2>2, <2>3 DEF Alike
<1>2. CASE Registered[i].builtin
  <2>1. doc.kind \in Builtin \ {"zip"} /\ Wellformed(doc)
    BY <1>2, RegistryType DEF Accepts, IsZip, SourceHolds
  <2> DEFINE all == BuiltinConversions(doc, wanted)
  <2>2. \A d \in all : Made(d) /\ \A e \in all : Alike(d, e)
    <3>1. \A d : Alike(d, d)
      BY DEF Alike
    <3>2. CASE doc.kind = "text"
      <4>1. all = {Whole(doc)}
        BY <3>2 DEF BuiltinConversions
      <4>2. Made(Whole(doc))
        BY <2>1, <3>2, WholeMade DEF Wellformed
      <4> HIDE DEF all
      <4> QED BY <3>1, <4>1, <4>2
    <3>3. CASE doc.kind = "pdf"
      <4> DEFINE pdf == IF wanted = "detailed" THEN PdfDetailed(doc)
                        ELSE PdfLegacy(doc, wanted = "inline")
      <4>1. Made(pdf)
        BY <2>1, <3>3, PdfMade DEF Wellformed
      <4>2. all = {pdf}
        BY <3>3 DEF BuiltinConversions
      <4> HIDE DEF all, pdf
      <4> QED BY <3>1, <4>1, <4>2
    <3>4. CASE doc.kind = "docx"
      <4>1. all = {DocxConversion(doc)}
        BY <3>4 DEF BuiltinConversions
      <4>2. Made(DocxConversion(doc))
        BY <2>1, <3>4, DocxMade DEF Wellformed
      <4> HIDE DEF all
      <4> QED BY <3>1, <4>1, <4>2
    <3>5. CASE doc.kind = "pptx"
      <4>1. all = PptxConversions(doc)
        BY <3>5 DEF BuiltinConversions
      <4>2. \A d \in PptxConversions(doc) : Made(d) /\ ~Refers(d) /\ ~Placeless(d)
        BY <2>1, <3>5, PptxMade DEF Wellformed
      <4> HIDE DEF all
      <4> QED BY <4>1, <4>2 DEF Alike
    <3>6. CASE doc.kind = "xlsx"
      <4>1. all = {XlsxConversion(doc)}
        BY <3>6 DEF BuiltinConversions
      <4> HIDE DEF all
      <4> QED BY <3>1, <4>1, XlsxMade
    <3>7. CASE doc.kind = "epub"
      <4>1. all = {BookConversion(doc)}
        BY <3>7 DEF BuiltinConversions
      <4>2. Made(BookConversion(doc))
        BY <2>1, <3>7, BookMade DEF Wellformed
      <4> HIDE DEF all
      <4> QED BY <3>1, <4>1, <4>2
    <3> QED BY <2>1, <3>2, <3>3, <3>4, <3>5, <3>6, <3>7 DEF Builtin
  <2>3. Conversions(Registered[i], doc, wanted)
           = {IF wanted = "detailed" THEN e ELSE Projected(e) : e \in all}
    BY <1>2 DEF Conversions
  <2>4. \A d, e \in all : Made(Projected(d)) /\ Alike(Projected(d), Projected(e))
    <3> HIDE DEF all
    <3> QED BY <2>2, ProjectedMade DEF Alike, Refers, Placeless, Projected
  <2> HIDE DEF all
  <2> QED BY <2>2, <2>3, <2>4
<1> QED BY <1>1, <1>2


-----------------------------------------------------------------------------
(* Who has to answer for what.  Again the source and the intent are        *)
(* parameters: what PipelineProperties says of the request, for any.       *)

DecidingIn(id, src, int) == FirstAble([i \in DOMAIN Registered |-> ClassIn(i, id, src, int)])

UnpackedIn(id, src, int) == \E i \in DecidingIn(id, src, int) : IsZip(i) /\ src[id].sound

AnswersIn(id, src, int) ==
    UNION {Conversions(Registered[i], src[id], WantedFor(id, int)) :
              i \in {j \in DecidingIn(id, src, int) : ~IsZip(j)}}

EmptyIn(id, src, int) == \E c \in AnswersIn(id, src, int) : c.class = "ok" /\ c.parts = <<>>

MemberIn(id, src) ==
    LET a == CHOOSE a \in DOMAIN src : \E k \in Files(src[a]) : src[a].members[k].doc = id
    IN  src[a].members[CHOOSE k \in Files(src[a]) : src[a].members[k].doc = id]

RefersIn(id, src, int) ==
    \E c \in AnswersIn(id, src, int) : \E p \in DOMAIN c.parts : IsReference(c.parts[p])

ReportedIn(id, src, int) ==
    \/ DecidingIn(id, src, int) = {}
    \/ \E i \in DecidingIn(id, src, int) : \E j \in DOMAIN Registered :
          Precedes(j, i) /\ ClassIn(j, id, src, int) = "failed"
    \/ \E c \in AnswersIn(id, src, int) : \E w \in c.warnings : w.location = Nowhere

NamesIn(id, src) ==
    LET members == src[id].members
    IN  \A j, k \in DOMAIN members : /\ Admitted(members[k].name)
                                     /\ TrimSpace(members[j].name) = TrimSpace(members[k].name) => j = k

RefusedIn(id, src, int) ==
    {c \in AnswersIn(id, src, int) :
        \/ \E w \in c.warnings : ~Speakable(w)
        \/ \E j, k \in DOMAIN c.artifacts : j # k /\ c.artifacts[j].rank = c.artifacts[k].rank
        \/ WantedFor(id, int) = "detailed" /\ \E k \in DOMAIN c.parts :
               IsReference(c.parts[k]) /\ c.parts[k].ref > Len(c.artifacts)}

UnsafeIn(member, src, int) == ReportedIn(member.doc, src, int) /\ ~SafePublicText(TrimSpace(member.name))

CausesIn(id, src, int) ==
    ({ClassIn(i, id, src, int) : i \in DecidingIn(id, src, int)} \ {"ok"})
    \cup {c \in {"malformed"} : UnpackedIn(id, src, int) /\ ~NamesIn(id, src)}
    \cup {c \in {"integrity"} :
              \/ RefusedIn(id, src, int) # {}
              \/ /\ UnpackedIn(id, src, int) /\ WantedFor(id, int) = "detailed"
                 /\ \E k \in Files(src[id]) : \/ RefersIn(src[id].members[k].doc, src, int)
                                              \/ UnsafeIn(src[id].members[k], src, int)}

\* Nothing in a document calls for a failure, or not whatever is met first.
Harmless(id, src, int) ==
    \/ CausesIn(id, src, int) = {}
    \/ RefusedIn(id, src, int) \notin {{}, AnswersIn(id, src, int)}

\* An archive that is unpacked, and a document that it holds.
Holds(a, id, src, int) ==
    /\ UnpackedIn(a, src, int)
    /\ \E k \in Files(src[a]) : src[a].members[k].doc = id

\* The documents that one document leads to: those in every set that has it
\* and what its members hold.
Closed(T, src, int) == \A a \in T : \A b \in DOMAIN src : Holds(a, b, src, int) => b \in T

Under(id, src, int) ==
    {d \in DOMAIN src : \A T \in SUBSET DOMAIN src : id \in T /\ Closed(T, src, int) => d \in T}

\* A document is accounted for in an envelope.
Shows(id, parts, warnings, src, int) ==
    \/ \E k \in DOMAIN parts : parts[k].of = id
    \/ EmptyIn(id, src, int)
    \/ \E w \in warnings : /\ {"category", "location"} \subseteq DOMAIN w
                           /\ w.category \in {"unsupported_member", "member_conversion_failed"}
                           /\ w.location = Location(MemberIn(id, src))

Accounts(ids, parts, warnings, src, int) ==
    \A id \in ids : Shows(id, parts, warnings, src, int)

RefersAmong(parts) == \E k \in DOMAIN parts : IsReference(parts[k].part)

\* How far the names have been looked at, and how far the members seen to; the
\* former is ahead by one while a member is being ingested.
NamesSeen(f, n, src) ==
    LET name(k) == TrimSpace(src[f.doc].members[k].name)
    IN  /\ f.seen = {name(k) : k \in 1..n}
        /\ \A k \in 1..n : Admitted(src[f.doc].members[k].name)
        /\ \A j, k \in 1..n : name(j) = name(k) => j = k

FilesSeen(f, src) == {k \in Files(src[f.doc]) : k < f.next}

SeenTo(files, members, parts, reports, src, int) ==
    /\ \A k \in files :
          /\ Accounts(Under(members[k].doc, src, int), parts, reports, src, int)
          /\ \A id \in Under(members[k].doc, src, int) : Harmless(id, src, int)
          /\ ReportedIn(members[k].doc, src, int) =>
                \E w \in reports : w.location = Location(members[k])
    /\ RefersAmong(parts) <=> \E k \in files : RefersIn(members[k].doc, src, int)
    /\ \A w \in reports :
          \/ Speakable(w)
          \/ \E k \in files : /\ ReportedIn(members[k].doc, src, int)
                              /\ w.location = Location(members[k])

MembersSeen(f, src, int) ==
    SeenTo(FilesSeen(f, src), src[f.doc].members, f.parts, f.reports, src, int)

FrameCare(f, busy, src, int) ==
    /\ IsStack(f.parts)
    /\ busy => f.unpacking
    /\ f.unpacking =>
          /\ f.next \in 1..(Len(src[f.doc].members) + 1)
          /\ busy => f.next \in Files(src[f.doc])
          /\ NamesSeen(f, IF busy THEN f.next ELSE f.next - 1, src)
          /\ MembersSeen(f, src, int)
    /\ ~f.unpacking => f.next = 1 /\ f.seen = {} /\ f.parts = <<>> /\ f.reports = {}

\* What the innermost pipeline, or none, is waiting for.
Awaited(f, src) == src[f.doc].members[f.next].doc
Due(s, src) == IF s = <<>> THEN 1 ELSE Awaited(s[Len(s)], src)

AnswerCare(ans, due, src, int) ==
    /\ ans.class = "ok" =>
          /\ ans.source = due /\ IsStack(ans.parts)
          /\ \A id \in Under(due, src, int) : Harmless(id, src, int)
          /\ WantedFor(due, int) = "detailed" =>
                /\ Accounts(Under(due, src, int), ans.parts, ans.warnings, src, int)
                /\ RefersAmong(ans.parts) <=> RefersIn(due, src, int)
                /\ \A w \in ans.warnings : Speakable(w)
                /\ (\E w \in ans.warnings : w.location = Nowhere) <=> ReportedIn(due, src, int)
    /\ ans.class \in Passing =>
          /\ DecidingIn(due, src, int) = {}
          /\ ans.class = "failed" <=> \E i \in DOMAIN Registered : ClassIn(i, due, src, int) = "failed"
    /\ ans.class \in Terminal => \E id \in Under(due, src, int) : ans.class \in CausesIn(id, src, int)

Busy(s, ans, i) == i < Len(s) \/ ans # Pending

StackCare(s, ans, src, int) ==
    /\ \A i \in 1..Len(s) : FrameCare(s[i], Busy(s, ans, i), src, int)
    /\ \A i \in 1..Len(s) : i < Len(s) => s[i + 1].doc = Awaited(s[i], src)
    /\ ans # Pending => AnswerCare(ans, Due(s, src), src, int)

CareInv == StackCare(stack, answer, source, intent)

-----------------------------------------------------------------------------
(* What a document leads to.                                               *)

LEMMA UnderLeast ==
    ASSUME NEW src, NEW int, NEW T \in SUBSET DOMAIN src, NEW id \in T, Closed(T, src, int)
    PROVE  Under(id, src, int) \subseteq T
BY DEF Under

LEMMA UnderSelf ==
    ASSUME NEW src, NEW int, NEW id \in DOMAIN src
    PROVE  id \in Under(id, src, int)
BY DEF Under

LEMMA UnderStep ==
    ASSUME NEW src, NEW int, NEW id \in DOMAIN src,
           NEW a \in Under(id, src, int), NEW b \in DOMAIN src, Holds(a, b, src, int)
    PROVE  b \in Under(id, src, int)
<1> SUFFICES ASSUME NEW T \in SUBSET DOMAIN src, id \in T, Closed(T, src, int)
             PROVE  b \in T
  BY DEF Under
<1>1. a \in T
  BY DEF Under
<1> QED BY <1>1 DEF Closed

LEMMA UnderWithin ==
    ASSUME NEW src, NEW int, NEW id \in DOMAIN src, NEW c \in DOMAIN src, Holds(id, c, src, int)
    PROVE  Under(c, src, int) \subseteq Under(id, src, int)
<1>1. c \in Under(id, src, int)
  BY UnderSelf, UnderStep
<1>2. Closed(Under(id, src, int), src, int)
  BY UnderStep DEF Closed
<1>3. Under(id, src, int) \in SUBSET DOMAIN src
  BY DEF Under
<1> QED BY <1>1, <1>2, <1>3, UnderLeast

\* The way down begins with a member.
LEMMA UnderSplit ==
    ASSUME NEW src, NEW int, NEW id \in DOMAIN src, NEW d \in Under(id, src, int)
    PROVE  \/ d = id
           \/ \E c \in DOMAIN src : Holds(id, c, src, int) /\ d \in Under(c, src, int)
<1> DEFINE T == {x \in DOMAIN src :
                    \/ x = id
                    \/ \E c \in DOMAIN src : Holds(id, c, src, int) /\ x \in Under(c, src, int)}
<1>1. ASSUME NEW a \in T, NEW b \in DOMAIN src, Holds(a, b, src, int)
      PROVE  b \in T
  <2>1. CASE a = id
    BY <1>1, <2>1, UnderSelf
  <2>2. CASE \E c \in DOMAIN src : Holds(id, c, src, int) /\ a \in Under(c, src, int)
    BY <1>1, <2>2, UnderStep
  <2> QED BY <2>1, <2>2
<1>2. T \in SUBSET DOMAIN src /\ id \in T /\ Closed(T, src, int)
  BY <1>1 DEF Closed
<1>3. d \in T
  <2> HIDE DEF T
  <2> QED BY <1>2, UnderLeast
<1> QED BY <1>3

LEMMA UnderAlone ==
    ASSUME NEW src, NEW int, NEW id \in DOMAIN src, ~UnpackedIn(id, src, int)
    PROVE  Under(id, src, int) = {id}
BY UnderSelf, UnderSplit DEF Holds

\* It ends with an archive that holds the document.
LEMMA UnderFromHolder ==
    ASSUME NEW src, NEW int, NEW id \in DOMAIN src, NEW d \in Under(id, src, int)
    PROVE  d = id \/ \E a \in Under(id, src, int) : Holds(a, d, src, int)
<1> DEFINE T == {x \in Under(id, src, int) :
                    x = id \/ \E a \in Under(id, src, int) : Holds(a, x, src, int)}
<1>1. T \in SUBSET DOMAIN src /\ id \in T /\ Closed(T, src, int)
  <2>1. Closed(T, src, int)
    BY UnderStep DEF Closed
  <2>2. T \in SUBSET DOMAIN src
    BY DEF Under
  <2> QED BY <2>1, <2>2, UnderSelf
<1>2. d \in T
  <2> HIDE DEF T
  <2> QED BY <1>1, UnderLeast
<1> QED BY <1>2

\* Archives hold what comes after them, ...
LEMMA HeldIsLater ==
    ASSUME NEW src, NEW int, IsForest(src), NEW a \in DOMAIN src, NEW id, Holds(a, id, src, int)
    PROVE  id \in (a + 1)..Len(src) /\ id \in DOMAIN src /\ a \in 1..(id - 1) /\ id # 1
<1>1. PICK k \in Files(src[a]) : src[a].members[k].doc = id
  BY DEF Holds
<1>2. src[a].kind = "zip" /\ k \in DOMAIN src[a].members /\ ~src[a].members[k].directory
  BY <1>1 DEF Files
<1>3. src[a].members \in Seq(Entry((a + 1)..Len(src)))
  BY <1>2 DEF IsForest
<1>4. src[a].members[k] \in Entry((a + 1)..Len(src))
  BY <1>2, <1>3
<1>5. id \in (a + 1)..Len(src)
  BY <1>1, <1>2, <1>4 DEF Entry
<1>6. Len(src) \in Nat /\ DOMAIN src = 1..Len(src)
  BY DEF IsForest
<1> QED BY <1>5, <1>6

\* ... and each document is one member.
LEMMA MemberIsOne ==
    ASSUME NEW src, IsForest(src), NEW a \in DOMAIN src, NEW k \in Files(src[a])
    PROVE  MemberIn(src[a].members[k].doc, src) = src[a].members[k]
<1> DEFINE id == src[a].members[k].doc
           x == CHOOSE x \in DOMAIN src : \E j \in Files(src[x]) : src[x].members[j].doc = id
           y == CHOOSE y \in Files(src[x]) : src[x].members[y].doc = id
<1>1. x \in DOMAIN src /\ \E j \in Files(src[x]) : src[x].members[j].doc = id
  OBVIOUS
<1>2. y \in Files(src[x]) /\ src[x].members[y].doc = id
  <2> HIDE DEF x
  <2> QED BY <1>1
<1>3. x = a /\ y = k
  <2> HIDE DEF x, y
  <2> QED BY <1>1, <1>2 DEF IsForest
<1>4. MemberIn(id, src) = src[x].members[y]
  BY DEF MemberIn
<1> HIDE DEF x, y
<1> QED BY <1>3, <1>4

\* What is reached is what the requested document leads to.
LEMMA ReachedIsUnder ==
    ASSUME IsForest(source)
    PROVE  Reached = Under(1, source, intent)
<1> DEFINE N == Len(source)
           leads(a, id) == Unpacked(a) /\ \E k \in Files(source[a]) : source[a].members[k].doc = id
           Steps(f) == f = [id \in 1..N |->
                              \/ id = 1
                              \/ \E a \in 1..(id - 1) : /\ f[a] /\ Unpacked(a)
                                                        /\ \E k \in Files(source[a]) : source[a].members[k].doc = id]
           all == Under(1, source, intent)
<1>1. N \in Nat \ {0} /\ DOMAIN source = 1..N /\ 1 \in DOMAIN source
  BY DEF IsForest
<1>2. \A a, id : leads(a, id) <=> Holds(a, id, source, intent)
  <2>1. \A i, id : ClassIn(i, id, source, intent) = ClassOf(i, id)
    BY DEF ClassIn, ClassOf, WantedFor, WantedOf
  <2>2. \A id : DecidingIn(id, source, intent) = Deciding(id)
    BY <2>1 DEF DecidingIn, Deciding
  <2> QED BY <2>2 DEF Holds, Unpacked, UnpackedIn
<1> HIDE DEF leads
<1>3. \A id \in 1..N : id \in all <=> (id = 1 \/ \E a \in 1..(id - 1) : a \in all /\ leads(a, id))
  <2> SUFFICES ASSUME NEW id \in 1..N
               PROVE  id \in all <=> (id = 1 \/ \E a \in 1..(id - 1) : a \in all /\ leads(a, id))
    OBVIOUS
  <2>1. all \subseteq DOMAIN source
    BY DEF Under
  <2>2. ASSUME id \in all, id # 1
        PROVE  \E a \in 1..(id - 1) : a \in all /\ leads(a, id)
    <3>1. PICK a \in all : Holds(a, id, source, intent)
      BY <1>1, <2>2, UnderFromHolder
    <3> QED BY <1>2, <2>1, <3>1, HeldIsLater
  <2>3. ASSUME NEW a \in 1..(id - 1), a \in all, leads(a, id)
        PROVE  id \in all
    BY <1>1, <1>2, <2>3, UnderStep
  <2>4. 1 \in all
    BY <1>1, UnderSelf
  <2> HIDE DEF all
  <2> QED BY <2>2, <2>3, <2>4
<1>4. \E f : Steps(f)
  <2> DEFINE f == [id \in 1..N |-> id \in all]
  <2>1. \A id \in 1..N : \A a \in 1..(id - 1) : a \in 1..N
    BY <1>1
  <2> HIDE DEF all, N
  <2>2. \A id \in 1..N : (id \in all) = (id = 1 \/ \E a \in 1..(id - 1) : f[a] /\ leads(a, id))
    <3> SUFFICES ASSUME NEW id \in 1..N
                 PROVE  (id \in all) = (id = 1 \/ \E a \in 1..(id - 1) : f[a] /\ leads(a, id))
      OBVIOUS
    <3>1. \A a \in 1..(id - 1) : f[a] = (a \in all)
      BY <2>1
    <3> HIDE DEF f
    <3>2. (\E a \in 1..(id - 1) : f[a] /\ leads(a, id)) <=> (\E a \in 1..(id - 1) : a \in all /\ leads(a, id))
      BY <3>1
    <3> QED BY <1>3, <3>2
  <2> HIDE DEF f
  <2>3. \A id \in 1..N : (id \in all) = (\/ id = 1
                                        \/ \E a \in 1..(id - 1) : /\ f[a] /\ Unpacked(a)
                                              /\ \E k \in Files(source[a]) : source[a].members[k].doc = id)
    BY <2>2 DEF leads
  <2>4. Steps(f)
    BY <2>3 DEF f
  <2> QED BY <2>4
<1>5. Reached = {id \in DOMAIN source : (CHOOSE f : Steps(f))[id]}
  BY DEF Reached
<1>6. PICK down : Steps(down) /\ Reached = {id \in DOMAIN source : down[id]}
  <2> HIDE DEF Steps
  <2> QED BY <1>4, <1>5
<1>7. \A id \in 1..N : down[id] <=> (id = 1 \/ \E a \in 1..(id - 1) : down[a] /\ leads(a, id))
  <2> HIDE DEF N
  <2>1. \A id \in 1..N : down[id] = (\/ id = 1
                                     \/ \E a \in 1..(id - 1) : /\ down[a] /\ Unpacked(a)
                                           /\ \E k \in Files(source[a]) : source[a].members[k].doc = id)
    BY <1>6
  <2>2. \A id : (\/ id = 1
                 \/ \E a \in 1..(id - 1) : /\ down[a] /\ Unpacked(a)
                       /\ \E k \in Files(source[a]) : source[a].members[k].doc = id)
                <=> (id = 1 \/ \E a \in 1..(id - 1) : down[a] /\ leads(a, id))
    BY DEF leads
  <2> SUFFICES ASSUME NEW id \in 1..N
               PROVE  down[id] <=> (id = 1 \/ \E a \in 1..(id - 1) : down[a] /\ leads(a, id))
    OBVIOUS
  <2>3. down[id] = (\/ id = 1
                    \/ \E a \in 1..(id - 1) : /\ down[a] /\ Unpacked(a)
                          /\ \E k \in Files(source[a]) : source[a].members[k].doc = id)
    BY <2>1
  <2> HIDE DEF leads
  <2> QED BY <2>2, <2>3
<1> HIDE DEF all, Steps
<1>8. \A id \in 1..N : down[id] <=> id \in all
  <2> SUFFICES ASSUME NEW x \in 1..N, ~(down[x] <=> x \in all) PROVE FALSE
    OBVIOUS
  <2> DEFINE Wrong == {id \in Nat : id \in 1..N /\ ~(down[id] <=> id \in all)}
  <2>1. Wrong \in SUBSET Nat /\ x \in Wrong
    BY <1>1
  <2>2. PICK id \in Wrong : \A y \in Wrong : id <= y
    <3> HIDE DEF Wrong
    <3> QED BY <2>1, LeastNat
  <2>3. id \in 1..N /\ ~(down[id] <=> id \in all)
    BY <2>2
  <2>4. \A a \in 1..(id - 1) : down[a] <=> a \in all
    <3> SUFFICES ASSUME NEW a \in 1..(id - 1) PROVE down[a] <=> a \in all
      OBVIOUS
    <3>1. a \in Nat /\ a \in 1..N /\ ~(id <= a)
      BY <1>1, <2>3
    <3>2. a \notin Wrong
      <4> HIDE DEF Wrong
      <4> QED BY <2>2, <3>1
    <3> QED BY <3>1, <3>2
  <2> HIDE DEF Wrong
  <2> QED BY <1>3, <1>7, <2>3, <2>4
<1>9. all \subseteq DOMAIN source
  BY DEF Under, all
<1>10. \A id : id \in Reached <=> id \in all
  <2> HIDE DEF N
  <2> QED BY <1>1, <1>6, <1>8, <1>9
<1> QED BY <1>10 DEF all


-----------------------------------------------------------------------------
(* Who decides.                                                            *)

\* The first n - 1 converters could not, and the next one can or ends it.
LEMMA DecidesIn ==
    ASSUME NEW src, NEW int, NEW id, NEW n \in 1..Len(Registered),
           \A k \in 1..(n - 1) : ClassIn(Nth(k), id, src, int) \in Passing,
           ClassIn(Nth(n), id, src, int) \notin Passing
    PROVE  /\ DecidingIn(id, src, int) = {Nth(n)}
           /\ Nth(n) \in DOMAIN Registered
           /\ (\E k \in 1..(n - 1) : ClassIn(Nth(k), id, src, int) = "failed")
                 <=> \E j \in DOMAIN Registered : Precedes(j, Nth(n)) /\ ClassIn(j, id, src, int) = "failed"
<1> DEFINE class(i) == ClassIn(i, id, src, int)
           D == DOMAIN Registered
<1>1. Nth(n) \in D /\ Before(Nth(n)) = {Nth(k) : k \in 1..(n - 1)}
  BY RegistryOrder
<1>2. \A i \in D : i = Nth(n) \/ Precedes(i, Nth(n)) \/ Precedes(Nth(n), i)
  BY <1>1, RegistryIsOrdered, EarlierPrecedes DEF Orders
<1>3. \A j \in D : Precedes(j, Nth(n)) <=> \E k \in 1..(n - 1) : j = Nth(k)
  BY <1>1 DEF Before
<1>4. \A i : i \in DecidingIn(id, src, int)
                <=> /\ i \in D /\ class(i) \notin Passing
                    /\ \A j \in D : Precedes(j, i) => class(j) \in Passing
  BY DEF DecidingIn, FirstAble
<1> HIDE DEF class
<1>5. \A i : i \in DecidingIn(id, src, int) <=> i = Nth(n)
  BY <1>1, <1>2, <1>3, <1>4 DEF class
<1>6. DecidingIn(id, src, int) = {Nth(n)}
  BY <1>5
<1>7. \A k \in 1..(n - 1) : Nth(k) \in D
  BY <1>1 DEF Before
<1> QED BY <1>1, <1>3, <1>6, <1>7

LEMMA NoneDecidesIn ==
    ASSUME NEW src, NEW int, NEW id,
           \A k \in 1..Len(Registered) : ClassIn(Nth(k), id, src, int) \in Passing
    PROVE  DecidingIn(id, src, int) = {}
<1>1. \A i \in DOMAIN Registered : ClassIn(i, id, src, int) \in Passing
  BY EveryConverterHasATurn
<1> QED BY <1>1 DEF DecidingIn, FirstAble

\* What a frame says of its document once a converter decides.
LEMMA TurnDecides ==
    ASSUME NEW src, NEW int, NEW f, FrameInv(f, src, int), Len(f.attempts) < Len(Registered),
           NEW i, i = Nth(Len(f.attempts) + 1), ClassIn(i, f.doc, src, int) \notin Passing
    PROVE  /\ DecidingIn(f.doc, src, int) = {i}
           /\ i \in DOMAIN Registered
           /\ \A w \in f.fallbacks : w.location = Nowhere
           /\ f.fallbacks # {}
                 <=> \E j \in DOMAIN Registered : Precedes(j, i) /\ ClassIn(j, f.doc, src, int) = "failed"
<1>1. PICK n \in 1..Len(Registered) : n = Len(f.attempts) + 1 /\ Len(f.attempts) = n - 1
  <2>1. f.attempts \in Seq(Tries)
    BY DEF FrameInv
  <2>2. Len(f.attempts) \in Nat
    BY <2>1
  <2> QED BY <2>2, RegistryType
<1>2. Remembers(f.attempts, f.fallbacks, n - 1, f.doc, src, int)
  BY <1>1 DEF FrameInv
<1>3. /\ \A k \in 1..(n - 1) : ClassIn(Nth(k), f.doc, src, int) \in Passing
      /\ f.fallbacks = {Fallback(k) : k \in {j \in 1..(n - 1) : ClassIn(Nth(j), f.doc, src, int) = "failed"}}
  BY <1>2 DEF Remembers
<1>4. /\ DecidingIn(f.doc, src, int) = {Nth(n)} /\ Nth(n) \in DOMAIN Registered
      /\ (\E k \in 1..(n - 1) : ClassIn(Nth(k), f.doc, src, int) = "failed")
            <=> \E j \in DOMAIN Registered : Precedes(j, Nth(n)) /\ ClassIn(j, f.doc, src, int) = "failed"
  BY <1>1, <1>3, DecidesIn
<1>5. \A k : Fallback(k).location = Nowhere
  BY DEF Fallback
<1>6. f.fallbacks # {} <=> \E k \in 1..(n - 1) : ClassIn(Nth(k), f.doc, src, int) = "failed"
  BY <1>3
<1> QED BY <1>1, <1>3, <1>4, <1>5, <1>6

\* Nobody but the deciding converter answers.
LEMMA OneAnswers ==
    ASSUME NEW src, NEW int, NEW id, NEW i, DecidingIn(id, src, int) = {i}
    PROVE  AnswersIn(id, src, int)
               = IF IsZip(i) THEN {} ELSE Conversions(Registered[i], src[id], WantedFor(id, int))
<1>1. CASE IsZip(i)
  <2>1. {j \in DecidingIn(id, src, int) : ~IsZip(j)} = {}
    BY <1>1
  <2> QED BY <1>1, <2>1 DEF AnswersIn
<1>2. CASE ~IsZip(i)
  <2>1. {j \in DecidingIn(id, src, int) : ~IsZip(j)} = {i}
    BY <1>2
  <2> QED BY <1>2, <2>1 DEF AnswersIn
<1> QED BY <1>1, <1>2

\* A document that nobody decides about is left alone.
LEMMA Undecidable ==
    ASSUME NEW src, NEW int, NEW id \in DOMAIN src, DecidingIn(id, src, int) = {}
    PROVE  /\ Under(id, src, int) = {id}
           /\ AnswersIn(id, src, int) = {} /\ ~UnpackedIn(id, src, int)
           /\ CausesIn(id, src, int) = {} /\ Harmless(id, src, int)
           /\ ReportedIn(id, src, int) /\ ~RefersIn(id, src, int)
<1>1. AnswersIn(id, src, int) = {} /\ ~UnpackedIn(id, src, int)
  BY DEF AnswersIn, UnpackedIn
<1>2. RefusedIn(id, src, int) = {}
  BY <1>1 DEF RefusedIn
<1>3. CausesIn(id, src, int) = {}
  BY <1>1, <1>2 DEF CausesIn
<1> QED BY <1>1, <1>3, UnderAlone DEF Harmless, ReportedIn, RefersIn

\* A failure of the deciding converter's is a cause.
LEMMA FailureIsCause ==
    ASSUME NEW src, NEW int, NEW id \in DOMAIN src, NEW i, DecidingIn(id, src, int) = {i},
           ClassIn(i, id, src, int) \in Terminal
    PROVE  AnswerCare(Failure(ClassIn(i, id, src, int)), id, src, int)
<1> DEFINE class == ClassIn(i, id, src, int)
<1>1. class # "ok" /\ class \notin Passing
  BY DEF Terminal, Passing
<1>2. class \in CausesIn(id, src, int)
  BY <1>1 DEF CausesIn
<1>3. Failure(class).class = class
  BY DEF Failure
<1>4. PICK c : c = class
  OBVIOUS
<1>5. AnswerCare(Failure(c), id, src, int)
  <2> HIDE DEF class
  <2> QED BY <1>1, <1>2, <1>3, <1>4, UnderSelf DEF AnswerCare
<1> QED BY <1>4, <1>5


-----------------------------------------------------------------------------
(* Sealing what a converter answers.                                       *)

LEMMA ListIsStack ==
    ASSUME NEW n \in Nat, NEW s, s = [k \in 1..n |-> s[k]]
    PROVE  IsStack(s) /\ Len(s) = n /\ DOMAIN s = 1..n
<1> DEFINE S == {s[k] : k \in 1..n}
<1>1. \A k \in 1..n : s[k] \in S
  OBVIOUS
<1> HIDE DEF S
<1>2. s \in Seq(S)
  BY <1>1
<1> QED BY <1>2 DEF IsStack

\* Rewriting and tagging keep the parts, what they are parts of, and whether
\* they refer to artifacts.
LEMMA RewrittenParts ==
    ASSUME NEW parts, NEW artifacts
    PROVE  LET new == Rewritten(parts, artifacts)
           IN  /\ DOMAIN new = DOMAIN parts
               /\ IsStack(parts) => IsStack(new)
               /\ \A k \in DOMAIN parts :
                     (IsReference(parts[k].part) => "of" \in DOMAIN parts[k]) =>
                     /\ new[k].of = parts[k].of
                     /\ IsReference(new[k].part) <=> IsReference(parts[k].part)
<1> DEFINE new == Rewritten(parts, artifacts)
<1>1. DOMAIN new = DOMAIN parts /\ new = [k \in DOMAIN parts |-> new[k]]
  BY DEF Rewritten
<1>2. ASSUME IsStack(parts) PROVE IsStack(new)
  <2>1. PICK n \in Nat : DOMAIN parts = 1..n
    BY <1>2 DEF IsStack
  <2> HIDE DEF new
  <2> QED BY <1>1, <2>1, ListIsStack
<1>3. ASSUME NEW k \in DOMAIN parts, IsReference(parts[k].part) => "of" \in DOMAIN parts[k]
      PROVE  /\ new[k].of = parts[k].of
             /\ IsReference(new[k].part) <=> IsReference(parts[k].part)
  <2>1. CASE ~IsReference(parts[k].part)
    BY <2>1 DEF Rewritten
  <2>2. CASE IsReference(parts[k].part)
    <3>1. new[k] = [parts[k] EXCEPT !.part.ref = Number(artifacts, @)]
      BY <2>2 DEF Rewritten
    <3> HIDE DEF new
    <3>2. PICK p : p = parts[k]
      OBVIOUS
    <3>3. new[k] = [p EXCEPT !.part = [p.part EXCEPT !.ref = Number(artifacts, p.part.ref)]]
      BY <3>1, <3>2
    <3>4. "of" \in DOMAIN p
      BY <1>3, <2>2, <3>2
    <3>5. new[k].of = p.of
      BY <3>3, <3>4
    <3>6. DOMAIN new[k] = DOMAIN p
      BY <3>3
    <3>7. IsReference(new[k].part)
      BY <2>2, <3>2, <3>3 DEF IsReference
    <3> QED BY <2>2, <3>2, <3>5, <3>7
  <2> QED BY <2>1, <2>2
<1> QED BY <1>1, <1>2, <1>3

\* What sealing refuses of a converter.
Refusable(c, wanted) ==
    \/ \E w \in c.warnings : ~Speakable(w)
    \/ \E j, k \in DOMAIN c.artifacts : j # k /\ c.artifacts[j].rank = c.artifacts[k].rank
    \/ wanted = "detailed" /\ \E k \in DOMAIN c.parts :
           IsReference(c.parts[k]) /\ c.parts[k].ref > Len(c.artifacts)

\* What sealing makes of an answer.
SealedAs(s, c, f, wanted) ==
    \/ Refusable(c, wanted) /\ s = Failure("integrity")
    \/ /\ ~Refusable(c, wanted)
       /\ s.class = "ok" /\ s.source = f.doc
       /\ s.warnings = f.fallbacks \cup c.warnings
       /\ \A w \in s.warnings : Speakable(w)
       /\ IsStack(s.parts) /\ DOMAIN s.parts = DOMAIN c.parts
       /\ \A k \in DOMAIN c.parts :
             /\ s.parts[k].of = f.doc
             /\ IsReference(s.parts[k].part) <=> IsReference(c.parts[k])

LEMMA NowhereIsSpeakable == \A w : w.location = Nowhere => Speakable(w)
<1>1. DOMAIN Nowhere = {"nowhere"}
  BY DEF Nowhere
<1> QED BY <1>1 DEF Speakable

LEMMA SealingRefuses ==
    ASSUME NEW c, Sound(c), Made(c), NEW f, \A w \in f.fallbacks : w.location = Nowhere, NEW wanted
    PROVE  SealedAs(Sealed(f, [c EXCEPT !.parts = Tagged(@, f.doc)], wanted), c, f, wanted)
<1> DEFINE id == f.doc
           tagged == Tagged(c.parts, id)
           n == Len(c.artifacts)
           warnings == f.fallbacks \cup c.warnings
           bad == \/ wanted = "detailed" /\ Dangling(tagged, c.artifacts)
                  \/ \E j, k \in 1..n : j # k /\ c.artifacts[j].rank = c.artifacts[k].rank
                  \/ \E w \in warnings : ~Speakable(w)
<1>1. PICK d : d = [c EXCEPT !.parts = Tagged(@, id)]
  OBVIOUS
<1>2. d.artifacts = c.artifacts /\ d.warnings = c.warnings /\ d.parts = tagged
  <2>1. DOMAIN c = {"class", "parts", "artifacts", "warnings"}
    BY DEF Sound, Shaped
  <2> QED BY <1>1, <2>1
<1>3. PICK s : s = Sealed(f, d, wanted)
  OBVIOUS
<1>4. /\ bad => s = Failure("integrity")
      /\ ~bad => /\ s.class = "ok" /\ s.source = id /\ s.warnings = warnings
                 /\ s.parts = IF wanted = "detailed" THEN Rewritten(tagged, c.artifacts) ELSE tagged
  <2> HIDE DEF tagged
  <2> QED BY <1>2, <1>3 DEF Sealed
<1>5. n \in Nat /\ DOMAIN c.artifacts = 1..n
  BY DEF Sound, Coherent
<1>6. DOMAIN tagged = DOMAIN c.parts
      /\ \A k \in DOMAIN c.parts : tagged[k].of = id /\ tagged[k].part = c.parts[k]
  BY DEF Tagged
<1>7. IsStack(tagged)
  <2>1. PICK m \in Nat : DOMAIN c.parts = 1..m
    BY DEF Made, IsStack
  <2>2. tagged = [k \in 1..m |-> tagged[k]]
    BY <2>1 DEF Tagged
  <2> HIDE DEF tagged
  <2> QED BY <2>1, <2>2, ListIsStack
<1>8. \A k \in DOMAIN c.parts : "of" \in DOMAIN tagged[k]
  BY DEF Tagged
<1> HIDE DEF tagged
<1>9. Dangling(tagged, c.artifacts)
         <=> \E k \in DOMAIN c.parts : IsReference(c.parts[k]) /\ c.parts[k].ref > n
  <2>1. \A k \in DOMAIN c.parts :
           IsReference(c.parts[k]) => (c.parts[k].ref \notin DOMAIN c.artifacts <=> c.parts[k].ref > n)
    <3> HIDE DEF n
    <3> QED BY <1>5 DEF Made
  <2> QED BY <1>6, <2>1 DEF Dangling
<1>10. bad <=> Refusable(c, wanted)
  <2>1. (\E w \in warnings : ~Speakable(w)) <=> \E w \in c.warnings : ~Speakable(w)
    BY NowhereIsSpeakable
  <2>2. (\E j, k \in 1..n : j # k /\ c.artifacts[j].rank = c.artifacts[k].rank)
           <=> \E j, k \in DOMAIN c.artifacts : j # k /\ c.artifacts[j].rank = c.artifacts[k].rank
    BY <1>5
  <2> HIDE DEF warnings
  <2> QED BY <1>9, <2>1, <2>2 DEF Refusable
<1>11. ASSUME ~bad
       PROVE  /\ IsStack(s.parts) /\ DOMAIN s.parts = DOMAIN c.parts
              /\ \A k \in DOMAIN c.parts :
                    /\ s.parts[k].of = id
                    /\ IsReference(s.parts[k].part) <=> IsReference(c.parts[k])
  <2>1. PICK new : new = Rewritten(tagged, c.artifacts)
    OBVIOUS
  <2>2. /\ DOMAIN new = DOMAIN tagged /\ IsStack(new)
        /\ \A k \in DOMAIN tagged : /\ new[k].of = tagged[k].of
                                    /\ IsReference(new[k].part) <=> IsReference(tagged[k].part)
    BY <1>6, <1>7, <1>8, <2>1, RewrittenParts
  <2>3. s.parts = new \/ s.parts = tagged
    BY <1>4, <1>11, <2>1
  <2> QED BY <1>6, <1>7, <2>2, <2>3
<1>12. ~bad => \A w \in s.warnings : Speakable(w)
  BY <1>4
<1> HIDE DEF bad
<1>13. SealedAs(s, c, f, wanted)
  BY <1>4, <1>10, <1>11, <1>12 DEF SealedAs
<1> QED BY <1>1, <1>3, <1>13

\* An envelope sealed for a converter's own answer accounts for the document.
LEMMA SealedOwnCare ==
    ASSUME SourceHolds, NEW f, FrameInv(f, source, intent), Len(f.attempts) < Len(Registered),
           NEW i, i = Nth(Len(f.attempts) + 1), ~IsZip(i), Accepts(Registered[i], source[f.doc]),
           NEW wanted, wanted = WantedFor(f.doc, intent),
           NEW c \in Conversions(Registered[i], source[f.doc], wanted), c.class = "ok",
           ClassIn(i, f.doc, source, intent) = "ok"
    PROVE  AnswerCare(Sealed(f, [c EXCEPT !.parts = Tagged(@, f.doc)], wanted), f.doc, source, intent)
<1> DEFINE id == f.doc
           answers == AnswersIn(id, source, intent)
<1>1. PICK s : s = Sealed(f, [c EXCEPT !.parts = Tagged(@, f.doc)], wanted)
  OBVIOUS
<1>2. /\ DecidingIn(id, source, intent) = {i} /\ i \in DOMAIN Registered
      /\ \A w \in f.fallbacks : w.location = Nowhere
      /\ f.fallbacks # {}
            <=> \E j \in DOMAIN Registered : Precedes(j, i) /\ ClassIn(j, id, source, intent) = "failed"
  BY TurnDecides DEF Passing
<1>3. id \in DOMAIN source
  BY DEF FrameInv
<1>4. answers = Conversions(Registered[i], source[id], wanted)
  BY <1>2, OneAnswers
<1>5. Sound(c)
  BY <1>2, <1>3, ConversionsSound
<1>6. Made(c) /\ \A d \in answers : Alike(c, d)
  BY <1>2, <1>3, <1>4, ConversionsMade
<1>7. ~UnpackedIn(id, source, intent) /\ Under(id, source, intent) = {id}
  BY <1>2, <1>3, UnderAlone DEF UnpackedIn
<1>8. c \in answers
  BY <1>4
<1>9. \A d : d \in RefusedIn(id, source, intent) <=> d \in answers /\ Refusable(d, wanted)
  BY DEF RefusedIn, Refusable
<1>10. /\ RefersIn(id, source, intent) <=> Refers(c)
       /\ (\E d \in answers : Placeless(d)) <=> Placeless(c)
  BY <1>6, <1>8 DEF RefersIn, Refers, Alike
<1> HIDE DEF answers
<1>11. ReportedIn(id, source, intent) <=> f.fallbacks # {} \/ Placeless(c)
  BY <1>2, <1>10 DEF ReportedIn, Placeless, answers
<1>12. SealedAs(s, c, f, wanted)
  BY <1>1, <1>2, <1>5, <1>6, SealingRefuses
<1>13. CASE Refusable(c, wanted) /\ s = Failure("integrity")
  <2>1. c \in RefusedIn(id, source, intent)
    BY <1>8, <1>9, <1>13
  <2>2. "integrity" \in CausesIn(id, source, intent)
    BY <2>1 DEF CausesIn
  <2>3. s.class = "integrity"
    BY <1>13 DEF Failure
  <2>4. AnswerCare(s, id, source, intent)
    BY <1>7, <2>2, <2>3 DEF AnswerCare, Passing
  <2> QED BY <1>1, <2>4
<1>14. CASE /\ ~Refusable(c, wanted)
            /\ s.class = "ok" /\ s.source = f.doc
            /\ s.warnings = f.fallbacks \cup c.warnings
            /\ \A w \in s.warnings : Speakable(w)
            /\ IsStack(s.parts) /\ DOMAIN s.parts = DOMAIN c.parts
            /\ \A k \in DOMAIN c.parts :
                  /\ s.parts[k].of = f.doc
                  /\ IsReference(s.parts[k].part) <=> IsReference(c.parts[k])
  <2>1. Harmless(id, source, intent)
    <3>1. RefusedIn(id, source, intent) # answers
      BY <1>8, <1>9, <1>14
    <3>2. ASSUME RefusedIn(id, source, intent) = {}
          PROVE  CausesIn(id, source, intent) = {}
      BY <1>2, <1>7, <3>2 DEF CausesIn
    <3> QED BY <3>1, <3>2 DEF Harmless, answers
  <2>2. Shows(id, s.parts, s.warnings, source, intent)
    <3>1. CASE c.parts = <<>>
      <4>1. EmptyIn(id, source, intent)
        BY <1>8, <3>1 DEF EmptyIn, answers
      <4> QED BY <4>1 DEF Shows
    <3>2. CASE c.parts # <<>>
      <4>1. \E k : k \in DOMAIN c.parts
        BY <1>6, <3>2 DEF Made, IsStack
      <4> QED BY <1>14, <4>1 DEF Shows
    <3> QED BY <3>1, <3>2
  <2>3. Accounts(Under(id, source, intent), s.parts, s.warnings, source, intent)
    BY <1>7, <2>2 DEF Accounts
  <2>4. RefersAmong(s.parts) <=> RefersIn(id, source, intent)
    BY <1>10, <1>14 DEF RefersAmong, Refers
  <2>5. (\E w \in s.warnings : w.location = Nowhere) <=> ReportedIn(id, source, intent)
    BY <1>2, <1>11, <1>14 DEF Placeless
  <2>6. s.class \notin Passing /\ s.class \notin Terminal
    BY <1>14 DEF Passing, Terminal
  <2>7. AnswerCare(s, id, source, intent)
    BY <1>7, <1>14, <2>1, <2>3, <2>4, <2>5, <2>6 DEF AnswerCare
  <2> QED BY <1>1, <2>7
<1> QED BY <1>12, <1>13, <1>14 DEF SealedAs


-----------------------------------------------------------------------------
(* The members of an archive.                                              *)

\* An archive that is being unpacked, as far as its own request goes.
LEMMA ArchiveHolds ==
    ASSUME SourceHolds, NEW f, FrameInv(f, source, intent), f.unpacking
    PROVE  /\ f.doc \in DOMAIN source /\ source[f.doc].kind = "zip"
           /\ Len(source[f.doc].members) \in Nat
           /\ DOMAIN source[f.doc].members = 1..Len(source[f.doc].members)
           /\ UnpackedIn(f.doc, source, intent)
           /\ AnswersIn(f.doc, source, intent) = {}
           /\ \A w \in f.fallbacks : w.location = Nowhere
           /\ f.fallbacks # {} <=> ReportedIn(f.doc, source, intent)
           /\ CausesIn(f.doc, source, intent) \subseteq {"malformed", "integrity"}
           /\ "malformed" \in CausesIn(f.doc, source, intent) <=> ~NamesIn(f.doc, source)
           /\ "integrity" \in CausesIn(f.doc, source, intent)
                 <=> /\ WantedFor(f.doc, intent) = "detailed"
                     /\ \E k \in Files(source[f.doc]) :
                           \/ RefersIn(source[f.doc].members[k].doc, source, intent)
                           \/ UnsafeIn(source[f.doc].members[k], source, intent)
<1> DEFINE id == f.doc
           i == Nth(Len(f.attempts) + 1)
<1>1. /\ id \in DOMAIN source /\ Len(f.attempts) < Len(Registered)
      /\ IsZip(i) /\ ClassIn(i, id, source, intent) = "ok"
  BY DEF FrameInv
<1>2. source[id].kind = "zip" /\ source[id].sound
  <2> HIDE DEF i
  <2> QED BY <1>1 DEF ClassIn, Accepts, IsZip
<1>3. /\ DecidingIn(id, source, intent) = {i}
      /\ \A w \in f.fallbacks : w.location = Nowhere
      /\ f.fallbacks # {}
            <=> \E j \in DOMAIN Registered : Precedes(j, i) /\ ClassIn(j, id, source, intent) = "failed"
  BY <1>1, TurnDecides DEF Passing
<1> HIDE DEF i
<1>4. UnpackedIn(id, source, intent) /\ AnswersIn(id, source, intent) = {}
  BY <1>1, <1>2, <1>3, OneAnswers DEF UnpackedIn
<1>5. f.fallbacks # {} <=> ReportedIn(id, source, intent)
  BY <1>3, <1>4 DEF ReportedIn
<1>6. RefusedIn(id, source, intent) = {}
  BY <1>4 DEF RefusedIn
<1>7. \A c : c \in CausesIn(id, source, intent)
                <=> \/ c = "malformed" /\ ~NamesIn(id, source)
                    \/ /\ c = "integrity" /\ WantedFor(id, intent) = "detailed"
                       /\ \E k \in Files(source[id]) :
                             \/ RefersIn(source[id].members[k].doc, source, intent)
                             \/ UnsafeIn(source[id].members[k], source, intent)
  BY <1>1, <1>3, <1>4, <1>6 DEF CausesIn
<1>8. Len(source[id].members) \in Nat /\ DOMAIN source[id].members = 1..Len(source[id].members)
  <2>1. source[id].members \in Seq(Entry((id + 1)..Len(source)))
    BY <1>1, <1>2 DEF SourceHolds, IsForest
  <2> QED BY <2>1
<1> QED BY <1>1, <1>2, <1>3, <1>4, <1>5, <1>7, <1>8

\* Each of its members is a document of its own.
LEMMA MemberHeld ==
    ASSUME SourceHolds, NEW a \in DOMAIN source, UnpackedIn(a, source, intent),
           NEW k \in Files(source[a])
    PROVE  LET member == source[a].members[k]
           IN  /\ member.doc \in DOMAIN source /\ member.doc # 1
               /\ WantedFor(member.doc, intent) = "detailed"
               /\ Holds(a, member.doc, source, intent)
               /\ MemberIn(member.doc, source) = member
               /\ Under(member.doc, source, intent) \subseteq Under(a, source, intent)
<1>1. IsForest(source) /\ Holds(a, source[a].members[k].doc, source, intent)
  BY DEF Holds, SourceHolds
<1>2. source[a].members[k].doc \in DOMAIN source /\ source[a].members[k].doc # 1
  BY <1>1, HeldIsLater
<1> QED BY <1>1, <1>2, MemberIsOne, UnderWithin DEF WantedFor

LEMMA NameSeen ==
    ASSUME NEW src, NEW f, NEW n \in Nat, NamesSeen(f, n, src),
           NEW g, g.doc = f.doc, NEW name, name = src[f.doc].members[n + 1].name,
           g.seen = f.seen \cup {TrimSpace(name)}, Admitted(name), ~Collides(name, f.seen)
    PROVE  NamesSeen(g, n + 1, src)
<1> DEFINE m(k) == src[f.doc].members[k].name
           t(k) == TrimSpace(m(k))
<1>1. /\ f.seen = {t(k) : k \in 1..n}
      /\ \A k \in 1..n : Admitted(m(k))
      /\ \A j, k \in 1..n : t(j) = t(k) => j = k
  BY DEF NamesSeen
<1>2. g.seen = f.seen \cup {t(n + 1)} /\ Admitted(m(n + 1)) /\ t(n + 1) \notin f.seen
  BY DEF Collides
<1>3. \A k : k \in 1..(n + 1) <=> k \in 1..n \/ k = n + 1
  OBVIOUS
<1> HIDE DEF m, t
<1>4. g.seen = {t(k) : k \in 1..(n + 1)}
  BY <1>1, <1>2, <1>3
<1>5. \A k \in 1..(n + 1) : Admitted(m(k))
  BY <1>1, <1>2, <1>3
<1>6. \A j \in 1..n : t(j) # t(n + 1)
  BY <1>1, <1>2
<1>7. \A j, k \in 1..(n + 1) : t(j) = t(k) => j = k
  BY <1>1, <1>3, <1>6
<1> QED
  <2>1. /\ g.seen = {TrimSpace(src[g.doc].members[k].name) : k \in 1..(n + 1)}
        /\ \A k \in 1..(n + 1) : Admitted(src[g.doc].members[k].name)
    BY <1>4, <1>5 DEF m, t
  <2>2. \A j, k \in 1..(n + 1) :
           TrimSpace(src[g.doc].members[j].name) = TrimSpace(src[g.doc].members[k].name) => j = k
    BY <1>7 DEF m, t
  <2> QED BY <2>1, <2>2 DEF NamesSeen

LEMMA NameRefused ==
    ASSUME NEW src, NEW f, NEW n \in Nat, NamesSeen(f, n, src),
           NEW k \in DOMAIN src[f.doc].members, k = n + 1,
           DOMAIN src[f.doc].members = 1..Len(src[f.doc].members),
           ~Admitted(src[f.doc].members[k].name) \/ Collides(src[f.doc].members[k].name, f.seen)
    PROVE  ~NamesIn(f.doc, src)
<1> DEFINE M == src[f.doc].members
<1>1. CASE ~Admitted(M[k].name)
  BY <1>1 DEF NamesIn
<1>2. CASE Collides(M[k].name, f.seen)
  <2>1. PICK j \in 1..n : TrimSpace(M[j].name) = TrimSpace(M[k].name)
    BY <1>2 DEF Collides, NamesSeen
  <2>2. j \in DOMAIN M /\ j # k
    <3>1. k \in 1..Len(M)
      OBVIOUS
    <3> HIDE DEF M
    <3>2. j \in 1..Len(M)
      BY <3>1
    <3> QED BY <3>2 DEF M
  <2> QED BY <2>1, <2>2 DEF NamesIn
<1> QED BY <1>1, <1>2

LEMMA NamesAllSeen ==
    ASSUME NEW src, NEW f, NamesSeen(f, Len(src[f.doc].members), src),
           DOMAIN src[f.doc].members = 1..Len(src[f.doc].members)
    PROVE  NamesIn(f.doc, src)
BY DEF NamesSeen, NamesIn

\* What accounts for a document goes on doing so.
LEMMA ShowsMore ==
    ASSUME NEW src, NEW int, NEW id, NEW parts, NEW warnings, Shows(id, parts, warnings, src, int),
           NEW more, \A k \in DOMAIN parts : \E m \in DOMAIN more : more[m].of = parts[k].of,
           NEW others, warnings \subseteq others
    PROVE  Shows(id, more, others, src, int)
BY DEF Shows

\* One member more has been seen to.
LEMMA MemberSeen ==
    ASSUME NEW src, NEW int, NEW f, f.next \in Nat, MembersSeen(f, src, int), f.next \in Files(src[f.doc]),
           \A k \in Files(src[f.doc]) : k \in Nat,
           NEW g, g.doc = f.doc, g.next = f.next + 1, f.reports \subseteq g.reports,
           \A k \in DOMAIN f.parts : \E m \in DOMAIN g.parts : g.parts[m].of = f.parts[k].of,
           NEW member, member = src[f.doc].members[f.next],
           RefersAmong(g.parts) <=> RefersAmong(f.parts) \/ RefersIn(member.doc, src, int),
           Accounts(Under(member.doc, src, int), g.parts, g.reports, src, int),
           \A id \in Under(member.doc, src, int) : Harmless(id, src, int),
           ReportedIn(member.doc, src, int) => \E w \in g.reports : w.location = Location(member),
           \A w \in g.reports : \/ w \in f.reports
                                \/ Speakable(w)
                                \/ ReportedIn(member.doc, src, int) /\ w.location = Location(member)
    PROVE  MembersSeen(g, src, int)
<1> DEFINE m(k) == src[f.doc].members[k]
           files == FilesSeen(f, src)
           seen  == FilesSeen(g, src)
<1>1. \A k : k \in seen <=> k \in files \/ k = f.next
  BY DEF FilesSeen
<1>2. /\ \A k \in files :
            /\ Accounts(Under(m(k).doc, src, int), f.parts, f.reports, src, int)
            /\ \A id \in Under(m(k).doc, src, int) : Harmless(id, src, int)
            /\ ReportedIn(m(k).doc, src, int) => \E w \in f.reports : w.location = Location(m(k))
      /\ RefersAmong(f.parts) <=> \E k \in files : RefersIn(m(k).doc, src, int)
      /\ \A w \in f.reports :
            \/ Speakable(w)
            \/ \E k \in files : ReportedIn(m(k).doc, src, int) /\ w.location = Location(m(k))
  BY DEF MembersSeen, SeenTo
<1>3. \A k \in files : Accounts(Under(m(k).doc, src, int), g.parts, g.reports, src, int)
  <2> SUFFICES ASSUME NEW k \in files, NEW id \in Under(m(k).doc, src, int)
               PROVE  Shows(id, g.parts, g.reports, src, int)
    BY DEF Accounts
  <2>1. Shows(id, f.parts, f.reports, src, int)
    BY <1>2 DEF Accounts
  <2> HIDE DEF m, files
  <2> QED BY <2>1, ShowsMore
<1>4. m(f.next) = member
  OBVIOUS
<1> HIDE DEF m, files, seen
<1>5. \A k \in seen :
         /\ Accounts(Under(m(k).doc, src, int), g.parts, g.reports, src, int)
         /\ \A id \in Under(m(k).doc, src, int) : Harmless(id, src, int)
         /\ ReportedIn(m(k).doc, src, int) => \E w \in g.reports : w.location = Location(m(k))
  BY <1>1, <1>2, <1>3, <1>4
<1>6. RefersAmong(g.parts) <=> \E k \in seen : RefersIn(m(k).doc, src, int)
  BY <1>1, <1>2, <1>4
<1>7. \A w \in g.reports :
         \/ Speakable(w)
         \/ \E k \in seen : ReportedIn(m(k).doc, src, int) /\ w.location = Location(m(k))
  BY <1>1, <1>2, <1>4
<1>8. MembersSeen(g, src, int)
         <=> SeenTo(seen, src[f.doc].members, g.parts, g.reports, src, int)
  BY DEF MembersSeen, seen
<1>9. SeenTo(seen, src[f.doc].members, g.parts, g.reports, src, int)
  BY <1>5, <1>6, <1>7 DEF SeenTo, m
<1> QED BY <1>8, <1>9


-----------------------------------------------------------------------------
(* The pipelines.                                                          *)

LEMMA NothingListed == IsStack(<<>>) /\ ~RefersAmong(<<>>)
<1>1. <<>> \in Seq({}) /\ DOMAIN <<>> = {}
  OBVIOUS
<1> QED BY <1>1 DEF IsStack, RefersAmong

LEMMA FreshCare ==
    ASSUME NEW id, NEW src, NEW int
    PROVE  FrameCare(Fresh(id), FALSE, src, int)
BY NothingListed DEF FrameCare, Fresh

LEMMA AttemptedCare ==
    ASSUME NEW src, NEW int, NEW f, DOMAIN f = Fields, ~f.unpacking, FrameCare(f, FALSE, src, int),
           NEW name, NEW outcome
    PROVE  FrameCare(Attempted(f, name, outcome), FALSE, src, int)
<1> DEFINE g == Attempted(f, name, outcome)
<1>1. /\ g.unpacking = f.unpacking /\ g.parts = f.parts /\ g.next = f.next
      /\ g.seen = f.seen /\ g.reports = f.reports
  BY DEF Attempted, Fields
<1> HIDE DEF g
<1>2. FrameCare(g, FALSE, src, int)
  BY <1>1 DEF FrameCare
<1> QED BY <1>2 DEF g

\* No member has been looked at when unpacking begins.
LEMMA UnpackedCare ==
    ASSUME SourceHolds, NEW f, DOMAIN f = Fields, ~f.unpacking, FrameCare(f, FALSE, source, intent),
           NEW g, g = [f EXCEPT !.unpacking = TRUE], FrameInv(g, source, intent)
    PROVE  FrameCare(g, FALSE, source, intent)
<1>1. /\ g.unpacking /\ g.doc = f.doc /\ g.next = 1 /\ g.seen = {} /\ g.parts = <<>> /\ g.reports = {}
  BY DEF Fields, FrameCare
<1>2. /\ Len(source[g.doc].members) \in Nat
      /\ DOMAIN source[g.doc].members = 1..Len(source[g.doc].members)
      /\ source[g.doc].kind = "zip"
  BY <1>1, ArchiveHolds
<1>3. NamesSeen(g, 0, source)
  <2>1. 1..0 = {}
    OBVIOUS
  <2> QED BY <1>1, <2>1 DEF NamesSeen
<1>4. FilesSeen(g, source) = {}
  <2>1. \A k \in Files(source[g.doc]) : k \in 1..Len(source[g.doc].members)
    BY <1>2 DEF Files
  <2> QED BY <1>1, <1>2, <2>1 DEF FilesSeen
<1>5. MembersSeen(g, source, intent)
  BY <1>1, <1>4, NothingListed DEF MembersSeen, SeenTo
<1>6. 1 \in 1..(Len(source[g.doc].members) + 1) /\ 1 - 1 = 0
  BY <1>2
<1> QED BY <1>1, <1>3, <1>5, <1>6, NothingListed DEF FrameCare

\* The name of a member is looked at, ...
LEMMA NotedCare ==
    ASSUME SourceHolds, NEW f, FrameInv(f, source, intent), f.unpacking,
           FrameCare(f, FALSE, source, intent),
           NEW member, member = source[f.doc].members[f.next],
           f.next <= Len(source[f.doc].members),
           Admitted(member.name), ~Collides(member.name, f.seen),
           NEW g, g = [f EXCEPT !.seen = @ \cup {TrimSpace(member.name)}]
    PROVE  /\ ~member.directory => FrameCare(g, TRUE, source, intent)
           /\ member.directory => FrameCare([g EXCEPT !.next = @ + 1], FALSE, source, intent)
<1> DEFINE M == source[f.doc].members
<1>1. /\ g.unpacking /\ g.doc = f.doc /\ g.next = f.next /\ g.parts = f.parts
      /\ g.reports = f.reports /\ g.seen = f.seen \cup {TrimSpace(member.name)}
      /\ DOMAIN g = Fields
  BY DEF FrameInv, Fields
<1>2. Len(M) \in Nat /\ DOMAIN M = 1..Len(M) /\ source[f.doc].kind = "zip"
  BY ArchiveHolds
<1>3. /\ f.next \in 1..(Len(M) + 1) /\ NamesSeen(f, f.next - 1, source)
      /\ MembersSeen(f, source, intent) /\ IsStack(f.parts)
  BY DEF FrameCare
<1>4. PICK n \in Nat : n = f.next - 1 /\ f.next = n + 1 /\ f.next \in DOMAIN M
  <2>1. f.next - 1 \in Nat /\ f.next = (f.next - 1) + 1 /\ f.next \in 1..Len(M)
    <3> HIDE DEF M
    <3> QED BY <1>2, <1>3 DEF M
  <2> HIDE DEF M
  <2> QED BY <1>2, <2>1
<1>5. NamesSeen(g, f.next, source)
  <2>1. NamesSeen(f, n, source) /\ member.name = source[f.doc].members[n + 1].name
    BY <1>3, <1>4
  <2>2. NamesSeen(g, n + 1, source)
    BY <1>1, <2>1, NameSeen
  <2> QED BY <1>4, <2>2
<1>6. ASSUME ~member.directory
      PROVE  FrameCare(g, TRUE, source, intent)
  <2>1. f.next \in Files(source[f.doc])
    BY <1>2, <1>4, <1>6 DEF Files
  <2>2. FilesSeen(g, source) = FilesSeen(f, source)
    BY <1>1 DEF FilesSeen
  <2>3. MembersSeen(g, source, intent)
    BY <1>1, <1>3, <2>2 DEF MembersSeen
  <2> QED BY <1>1, <1>3, <1>5, <2>1, <2>3 DEF FrameCare
<1>7. ASSUME member.directory
      PROVE  FrameCare([g EXCEPT !.next = @ + 1], FALSE, source, intent)
  <2>1. PICK h : h = [g EXCEPT !.next = @ + 1]
    OBVIOUS
  <2>2. /\ h.unpacking /\ h.doc = f.doc /\ h.next = f.next + 1 /\ h.parts = f.parts
        /\ h.reports = f.reports /\ h.seen = g.seen
    BY <1>1, <2>1 DEF Fields
  <2>3. FilesSeen(h, source) = FilesSeen(f, source)
    <3>1. f.next \notin Files(source[f.doc])
      BY <1>7 DEF Files
    <3>2. \A k \in Files(source[f.doc]) : k \in Nat
      BY <1>2 DEF Files
    <3>3. \A k \in Files(source[f.doc]) : k < f.next + 1 <=> k < f.next
      BY <1>4, <3>1, <3>2
    <3> QED BY <2>2, <3>3 DEF FilesSeen
  <2>4. MembersSeen(h, source, intent)
    BY <1>3, <2>2, <2>3 DEF MembersSeen
  <2>5. NamesSeen(h, f.next, source)
    <3>1. h.doc = g.doc /\ h.seen = g.seen
      BY <1>1, <2>2
    <3>2. NamesSeen(h, f.next, source) <=> NamesSeen(g, f.next, source)
      BY <3>1 DEF NamesSeen
    <3> QED BY <1>5, <3>2
  <2>6. h.next \in 1..(Len(M) + 1) /\ h.next - 1 = f.next
    <3>1. n + 1 \in DOMAIN M /\ DOMAIN M = 1..Len(M)
      BY <1>2, <1>4
    <3>2. h.next = n + 2 /\ f.next = n + 1
      BY <1>4, <2>2
    <3> HIDE DEF M
    <3>3. n + 2 \in 1..(Len(M) + 1)
      BY <1>2, <3>1
    <3> QED BY <3>2, <3>3
  <2>7. FrameCare(h, FALSE, source, intent)
    BY <1>3, <2>2, <2>4, <2>5, <2>6 DEF FrameCare
  <2> QED BY <2>1, <2>7
<1> QED BY <1>6, <1>7

\* ... or refused.
LEMMA MalformedCare ==
    ASSUME SourceHolds, NEW f, FrameInv(f, source, intent), f.unpacking,
           FrameCare(f, FALSE, source, intent),
           NEW member, member = source[f.doc].members[f.next],
           f.next <= Len(source[f.doc].members),
           ~Admitted(member.name) \/ Collides(member.name, f.seen)
    PROVE  AnswerCare(Failure("malformed"), f.doc, source, intent)
<1> DEFINE M == source[f.doc].members
<1>1. Len(M) \in Nat /\ DOMAIN M = 1..Len(M) /\ f.doc \in DOMAIN source
  BY ArchiveHolds
<1>2. f.next \in 1..(Len(M) + 1) /\ NamesSeen(f, f.next - 1, source)
  BY DEF FrameCare
<1>3. PICK n \in Nat : n = f.next - 1 /\ f.next = n + 1 /\ f.next \in DOMAIN M
  <2>1. f.next - 1 \in Nat /\ f.next = (f.next - 1) + 1 /\ f.next \in 1..Len(M)
    <3> HIDE DEF M
    <3> QED BY <1>1, <1>2 DEF M
  <2> HIDE DEF M
  <2> QED BY <1>1, <2>1
<1>4. ~NamesIn(f.doc, source)
  BY <1>1, <1>2, <1>3, NameRefused
<1>5. "malformed" \in CausesIn(f.doc, source, intent)
  BY <1>4, ArchiveHolds
<1>6. Failure("malformed").class = "malformed"
  BY DEF Failure
<1> QED BY <1>1, <1>5, <1>6, UnderSelf DEF AnswerCare, Passing

\* The warning of a member that has no conversion accounts for it.
LEMMA ReportCare ==
    ASSUME SourceHolds, NEW f, FrameInv(f, source, intent), FrameCare(f, TRUE, source, intent),
           NEW member, member = source[f.doc].members[f.next],
           DecidingIn(member.doc, source, intent) = {},
           NEW category \in {"unsupported_member", "member_conversion_failed"}
    PROVE  FrameCare(Report(f, category, member), FALSE, source, intent)
<1> DEFINE due == member.doc
           M == source[f.doc].members
<1>1. PICK w : w = Warning(category, Location(member))
  OBVIOUS
<1>2. PICK g : g = Report(f, category, member)
  OBVIOUS
<1>3. /\ g.doc = f.doc /\ g.unpacking = f.unpacking /\ g.next = f.next + 1
      /\ g.seen = f.seen /\ g.parts = f.parts /\ g.reports = f.reports \cup {w}
  BY <1>1, <1>2 DEF Report, FrameInv, Fields
<1>4. /\ f.unpacking /\ IsStack(f.parts) /\ f.next \in 1..(Len(M) + 1)
      /\ f.next \in Files(source[f.doc])
      /\ NamesSeen(f, f.next, source) /\ MembersSeen(f, source, intent)
  BY DEF FrameCare
<1>5. Len(M) \in Nat /\ DOMAIN M = 1..Len(M)
      /\ f.doc \in DOMAIN source /\ UnpackedIn(f.doc, source, intent)
      /\ source[f.doc].kind = "zip"
  BY <1>4, ArchiveHolds
<1>6. due \in DOMAIN source /\ MemberIn(due, source) = member
  BY <1>4, <1>5, MemberHeld
<1>7. /\ Under(due, source, intent) = {due} /\ Harmless(due, source, intent)
      /\ ReportedIn(due, source, intent) /\ ~RefersIn(due, source, intent)
  BY <1>6, Undecidable
<1>8. /\ {"category", "location"} \subseteq DOMAIN w /\ w.category = category
      /\ w.location = Location(member)
  BY <1>1 DEF Warning
<1>9. Shows(due, g.parts, g.reports, source, intent)
  BY <1>3, <1>6, <1>8 DEF Shows
<1>10. \A k \in Files(source[f.doc]) : k \in 1..Len(M)
  BY <1>5 DEF Files
<1>11. f.next \in Nat /\ \A k \in Files(source[f.doc]) : k \in Nat
  <2> HIDE DEF M
  <2> QED BY <1>4, <1>5, <1>10
<1>12. Accounts(Under(due, source, intent), g.parts, g.reports, source, intent)
  BY <1>7, <1>9 DEF Accounts
<1>13. \A id \in Under(due, source, intent) : Harmless(id, source, intent)
  BY <1>7
<1>14. RefersAmong(g.parts) <=> RefersAmong(f.parts) \/ RefersIn(due, source, intent)
  BY <1>3, <1>7
<1>15. \E v \in g.reports : v.location = Location(member)
  BY <1>3, <1>8
<1>16. \A v \in g.reports : \/ v \in f.reports
                            \/ Speakable(v)
                            \/ ReportedIn(due, source, intent) /\ v.location = Location(member)
  BY <1>3, <1>7, <1>8
<1>17. MembersSeen(g, source, intent)
  BY <1>3, <1>4, <1>11, <1>12, <1>13, <1>14, <1>15, <1>16, MemberSeen
<1>18. NamesSeen(g, f.next, source)
  BY <1>3, <1>4 DEF NamesSeen
<1>19. g.next \in 1..(Len(M) + 1) /\ g.next - 1 = f.next
  <2>1. f.next \in 1..Len(M)
    BY <1>4, <1>10
  <2> HIDE DEF M
  <2> QED BY <1>3, <1>5, <2>1
<1>20. FrameCare(g, FALSE, source, intent)
  BY <1>3, <1>4, <1>17, <1>18, <1>19 DEF FrameCare
<1> QED BY <1>2, <1>20


\* A list is one list followed by another.
Joint(st, s, t) ==
    /\ IsStack(st)
    /\ \A k \in DOMAIN s : k \in DOMAIN st /\ st[k] = s[k]
    /\ \A k \in DOMAIN t : \E m \in DOMAIN st : st[m] = t[k]
    /\ \A m \in DOMAIN st : \/ m \in DOMAIN s /\ st[m] = s[m]
                            \/ \E k \in DOMAIN t : st[m] = t[k]

LEMMA Concatenated ==
    ASSUME NEW s, IsStack(s), NEW t, IsStack(t)
    PROVE  Joint(s \o t, s, t)
<1> DEFINE st == s \o t
<1>1. PICK S : s \in Seq(S)
  BY DEF IsStack
<1>2. PICK T : t \in Seq(T)
  BY DEF IsStack
<1>3. s \in Seq(S \cup T) /\ t \in Seq(S \cup T)
  BY <1>1, <1>2
<1>4. st \in Seq(S \cup T)
  BY <1>3
<1>5. \A k \in DOMAIN s : k \in DOMAIN st /\ st[k] = s[k]
  BY <1>3
<1>6. \A k \in DOMAIN t : Len(s) + k \in DOMAIN st /\ st[Len(s) + k] = t[k]
  BY <1>3
<1>7. \A m \in DOMAIN st : m \in DOMAIN s \/ m - Len(s) \in DOMAIN t
  BY <1>3
<1>8. ASSUME NEW m \in DOMAIN st, m - Len(s) \in DOMAIN t
      PROVE  st[m] = t[m - Len(s)]
  BY <1>3, <1>8
<1> HIDE DEF st
<1>9. Joint(st, s, t)
  BY <1>4, <1>5, <1>6, <1>7, <1>8 DEF IsStack, Joint
<1> QED BY <1>9 DEF st

\* The envelope of a member is taken over with all it accounts for.
LEMMA AbsorbCare ==
    ASSUME SourceHolds, NEW f, FrameInv(f, source, intent), FrameCare(f, TRUE, source, intent),
           NEW member, member = source[f.doc].members[f.next],
           NEW ans, ans.class = "ok", AnswerCare(ans, member.doc, source, intent),
           \A w \in ans.warnings : "location" \in DOMAIN w
    PROVE  FrameCare(Absorb(f, member, ans), FALSE, source, intent)
<1> DEFINE due == member.doc
           M == source[f.doc].members
           at(w) == [w EXCEPT !.location = IF w.location = Nowhere THEN Location(member) ELSE @]
<1>1. PICK g : g = Absorb(f, member, ans)
  OBVIOUS
<1>2. /\ g.doc = f.doc /\ g.unpacking = f.unpacking /\ g.next = f.next + 1
      /\ g.seen = f.seen /\ g.parts = f.parts \o ans.parts
      /\ g.reports = f.reports \cup {at(w) : w \in ans.warnings}
  BY <1>1 DEF Absorb, FrameInv, Fields
<1>3. /\ f.unpacking /\ IsStack(f.parts) /\ f.next \in 1..(Len(M) + 1)
      /\ f.next \in Files(source[f.doc])
      /\ NamesSeen(f, f.next, source) /\ MembersSeen(f, source, intent)
  BY DEF FrameCare
<1>4. Len(M) \in Nat /\ DOMAIN M = 1..Len(M)
      /\ f.doc \in DOMAIN source /\ UnpackedIn(f.doc, source, intent)
      /\ source[f.doc].kind = "zip"
  BY <1>3, ArchiveHolds
<1>5. due \in DOMAIN source /\ WantedFor(due, intent) = "detailed"
  BY <1>3, <1>4, MemberHeld
<1>6. /\ IsStack(ans.parts)
      /\ \A id \in Under(due, source, intent) : Harmless(id, source, intent)
      /\ Accounts(Under(due, source, intent), ans.parts, ans.warnings, source, intent)
      /\ RefersAmong(ans.parts) <=> RefersIn(due, source, intent)
      /\ \A w \in ans.warnings : Speakable(w)
      /\ (\E w \in ans.warnings : w.location = Nowhere) <=> ReportedIn(due, source, intent)
  BY <1>5 DEF AnswerCare
<1>7. /\ IsStack(g.parts)
      /\ \A k \in DOMAIN f.parts : k \in DOMAIN g.parts /\ g.parts[k] = f.parts[k]
      /\ \A k \in DOMAIN ans.parts : \E m \in DOMAIN g.parts : g.parts[m] = ans.parts[k]
      /\ \A m \in DOMAIN g.parts : \/ m \in DOMAIN f.parts /\ g.parts[m] = f.parts[m]
                                   \/ \E k \in DOMAIN ans.parts : g.parts[m] = ans.parts[k]
  <2>1. IsStack(f.parts) /\ IsStack(ans.parts) /\ g.parts = f.parts \o ans.parts
    BY <1>2, <1>3, <1>6
  <2>2. Joint(g.parts, f.parts, ans.parts)
    BY <2>1, Concatenated
  <2> QED BY <2>2 DEF Joint
<1>8. \A m : Location(m) # Nowhere
  BY DEF Location, Nowhere
<1>9. \A w \in ans.warnings :
         /\ DOMAIN at(w) = DOMAIN w
         /\ at(w).location = IF w.location = Nowhere THEN Location(member) ELSE w.location
         /\ "category" \in DOMAIN w => at(w).category = w.category
  OBVIOUS
<1> HIDE DEF at
<1>10. \A w \in ans.warnings : at(w) \in g.reports
  BY <1>2
<1>11. \A v \in g.reports : v \in f.reports \/ \E w \in ans.warnings : v = at(w)
  BY <1>2
<1>12. ASSUME NEW id \in Under(due, source, intent)
       PROVE  Shows(id, g.parts, g.reports, source, intent)
  <2>1. Shows(id, ans.parts, ans.warnings, source, intent)
    BY <1>6 DEF Accounts
  <2>2. CASE \E k \in DOMAIN ans.parts : ans.parts[k].of = id
    BY <1>7, <2>2 DEF Shows
  <2>3. CASE EmptyIn(id, source, intent)
    BY <2>3 DEF Shows
  <2>4. CASE \E w \in ans.warnings : /\ {"category", "location"} \subseteq DOMAIN w
                                     /\ w.category \in {"unsupported_member", "member_conversion_failed"}
                                     /\ w.location = Location(MemberIn(id, source))
    <3>1. PICK w \in ans.warnings : /\ {"category", "location"} \subseteq DOMAIN w
                                    /\ w.category \in {"unsupported_member", "member_conversion_failed"}
                                    /\ w.location = Location(MemberIn(id, source))
      BY <2>4
    <3>2. /\ {"category", "location"} \subseteq DOMAIN at(w)
          /\ at(w).category = w.category /\ at(w).location = w.location
      BY <1>8, <1>9, <3>1
    <3> QED BY <1>10, <3>1, <3>2 DEF Shows
  <2> QED BY <2>1, <2>2, <2>3, <2>4 DEF Shows
<1>13. Accounts(Under(due, source, intent), g.parts, g.reports, source, intent)
  BY <1>12 DEF Accounts
<1>14. RefersAmong(g.parts) <=> RefersAmong(f.parts) \/ RefersIn(due, source, intent)
  <2>1. RefersAmong(g.parts) <=> RefersAmong(f.parts) \/ RefersAmong(ans.parts)
    BY <1>7 DEF RefersAmong
  <2> QED BY <1>6, <2>1
<1>15. ReportedIn(due, source, intent) => \E v \in g.reports : v.location = Location(member)
  BY <1>6, <1>9, <1>10
<1>16. \A v \in g.reports : \/ v \in f.reports
                            \/ Speakable(v)
                            \/ ReportedIn(due, source, intent) /\ v.location = Location(member)
  <2> SUFFICES ASSUME NEW w \in ans.warnings
               PROVE  \/ Speakable(at(w))
                      \/ ReportedIn(due, source, intent) /\ at(w).location = Location(member)
    BY <1>11
  <2>1. CASE w.location = Nowhere
    BY <1>6, <1>9, <2>1
  <2>2. CASE w.location # Nowhere
    <3>1. at(w).location = w.location /\ Speakable(w)
      BY <1>6, <1>9, <2>2
    <3> QED BY <3>1 DEF Speakable
  <2> QED BY <2>1, <2>2
<1>17. \A k \in Files(source[f.doc]) : k \in 1..Len(M)
  BY <1>4 DEF Files
<1>18. f.next \in Nat /\ \A k \in Files(source[f.doc]) : k \in Nat
  <2> HIDE DEF M
  <2> QED BY <1>3, <1>4, <1>17
<1>19. \A k \in DOMAIN f.parts : \E m \in DOMAIN g.parts : g.parts[m].of = f.parts[k].of
  BY <1>7
<1>20. f.reports \subseteq g.reports
  BY <1>2
<1>21. MembersSeen(g, source, intent)
  <2>1. /\ f.next \in Nat /\ MembersSeen(f, source, intent) /\ f.next \in Files(source[f.doc])
        /\ g.doc = f.doc /\ g.next = f.next + 1
    BY <1>2, <1>3, <1>18
  <2> HIDE DEF M
  <2>2. /\ \A id \in Under(member.doc, source, intent) : Harmless(id, source, intent)
        /\ Accounts(Under(member.doc, source, intent), g.parts, g.reports, source, intent)
        /\ RefersAmong(g.parts) <=> RefersAmong(f.parts) \/ RefersIn(member.doc, source, intent)
    BY <1>6, <1>13, <1>14
  <2>3. /\ ReportedIn(member.doc, source, intent) => \E v \in g.reports : v.location = Location(member)
        /\ \A v \in g.reports :
              \/ v \in f.reports
              \/ Speakable(v)
              \/ ReportedIn(member.doc, source, intent) /\ v.location = Location(member)
    BY <1>15, <1>16
  <2> HIDE DEF due
  <2> QED BY <1>18, <1>19, <1>20, <2>1, <2>2, <2>3, MemberSeen
<1>22. NamesSeen(g, f.next, source)
  <2>1. g.doc = f.doc /\ g.seen = f.seen
    BY <1>2
  <2>2. NamesSeen(g, f.next, source) <=> NamesSeen(f, f.next, source)
    BY <2>1 DEF NamesSeen
  <2> QED BY <1>3, <2>2
<1>23. g.next \in 1..(Len(M) + 1) /\ g.next - 1 = f.next
  <2>1. f.next \in 1..Len(M)
    BY <1>3, <1>17
  <2> HIDE DEF M
  <2> QED BY <1>2, <1>4, <2>1
<1>24. FrameCare(g, FALSE, source, intent)
  BY <1>2, <1>3, <1>7, <1>21, <1>22, <1>23 DEF FrameCare
<1> QED BY <1>1, <1>24

\* The failure of a member is one of the archive.
LEMMA PassedOnCare ==
    ASSUME SourceHolds, NEW f, FrameInv(f, source, intent), FrameCare(f, TRUE, source, intent),
           NEW member, member = source[f.doc].members[f.next],
           NEW ans, ans.class \in Terminal, AnswerCare(ans, member.doc, source, intent)
    PROVE  AnswerCare(Failure(ans.class), f.doc, source, intent)
<1>1. f.unpacking /\ f.next \in Files(source[f.doc])
  BY DEF FrameCare
<1>2. f.doc \in DOMAIN source /\ UnpackedIn(f.doc, source, intent)
  BY <1>1, ArchiveHolds
<1>3. Under(member.doc, source, intent) \subseteq Under(f.doc, source, intent)
  BY <1>1, <1>2, MemberHeld
<1>4. \E id \in Under(f.doc, source, intent) : ans.class \in CausesIn(id, source, intent)
  BY <1>3 DEF AnswerCare
<1>5. ans.class # "ok" /\ ans.class \notin Passing
  BY DEF Terminal, Passing
<1>6. PICK s : s = Failure(ans.class)
  OBVIOUS
<1>7. s.class = ans.class
  BY <1>6 DEF Failure
<1>8. AnswerCare(s, f.doc, source, intent)
  BY <1>4, <1>5, <1>7 DEF AnswerCare
<1> QED BY <1>6, <1>8

\* What the zip converter hands over to be sealed.
Packed(f, wanted) ==
    LET conversion == Converted(Tagged(<<[contents |-> TRUE]>>, f.doc) \o f.parts, <<>>, f.reports)
    IN  IF wanted = "detailed" THEN conversion ELSE Projected(conversion)

LEMMA SealingPacks ==
    ASSUME NEW f, IsStack(f.parts), \A w \in f.fallbacks : w.location = Nowhere, NEW wanted
    PROVE  LET s == Sealed(f, Packed(f, wanted), wanted)
               bad == wanted = "detailed" /\ (RefersAmong(f.parts) \/ \E w \in f.reports : ~Speakable(w))
           IN  /\ bad => s = Failure("integrity")
               /\ ~bad => /\ s.class = "ok" /\ s.source = f.doc /\ IsStack(s.parts)
                          /\ \E k \in DOMAIN s.parts : s.parts[k].of = f.doc
                          /\ wanted = "detailed" =>
                                /\ s.warnings = f.fallbacks \cup f.reports
                                /\ \A w \in s.warnings : Speakable(w)
                                /\ ~RefersAmong(s.parts)
                                /\ \A k \in DOMAIN f.parts : \E m \in DOMAIN s.parts :
                                      s.parts[m].of = f.parts[k].of
<1> DEFINE own == Tagged(<<[contents |-> TRUE]>>, f.doc)
           bad == wanted = "detailed" /\ (RefersAmong(f.parts) \/ \E w \in f.reports : ~Speakable(w))
<1>1. PICK one : one = own
  OBVIOUS
<1>2. IsStack(one) /\ 1 \in DOMAIN one /\ one[1].of = f.doc /\ ~RefersAmong(one)
  <2>1. PICK c : c = [contents |-> TRUE]
    OBVIOUS
  <2>2. PICK list : list = <<c>>
    OBVIOUS
  <2>3. DOMAIN list = 1..1 /\ list[1] = c
    BY <2>2
  <2>4. one = [k \in DOMAIN list |-> [of |-> f.doc, part |-> list[k]]]
    BY <1>1, <2>1, <2>2 DEF Tagged
  <2>5. DOMAIN one = 1..1 /\ one[1].of = f.doc /\ one[1].part = c
    BY <2>3, <2>4
  <2>6. IsStack(one)
    BY <2>3, <2>4, ListIsStack
  <2>7. \A k \in DOMAIN one : k = 1
    BY <2>5
  <2>8. ~IsReference(c)
    BY <2>1 DEF IsReference
  <2> QED BY <2>5, <2>6, <2>7, <2>8 DEF RefersAmong
<1>3. PICK parts : parts = one \o f.parts
  OBVIOUS
<1>4. /\ IsStack(parts)
      /\ \A k \in DOMAIN one : k \in DOMAIN parts /\ parts[k] = one[k]
      /\ \A k \in DOMAIN f.parts : \E m \in DOMAIN parts : parts[m] = f.parts[k]
      /\ \A m \in DOMAIN parts : \/ m \in DOMAIN one /\ parts[m] = one[m]
                                 \/ \E k \in DOMAIN f.parts : parts[m] = f.parts[k]
  <2>1. Joint(parts, one, f.parts)
    BY <1>2, <1>3, Concatenated
  <2> QED BY <2>1 DEF Joint
<1>5. PICK c : c = Packed(f, wanted)
  OBVIOUS
<1>6. c.parts = parts /\ c.artifacts = <<>>
      /\ c.warnings = IF wanted = "detailed" THEN f.reports ELSE {}
  BY <1>1, <1>3, <1>5 DEF Packed, Converted, Projected
<1>7. PICK s : s = Sealed(f, c, wanted)
  OBVIOUS
<1>8. Len(<<>>) = 0 /\ DOMAIN <<>> = {} /\ 1..0 = {}
  OBVIOUS
<1>9. Dangling(parts, <<>>) <=> RefersAmong(f.parts)
  <2>1. RefersAmong(parts) <=> RefersAmong(f.parts)
    BY <1>2, <1>4 DEF RefersAmong
  <2>2. Dangling(parts, <<>>) <=> RefersAmong(parts)
    BY <1>8 DEF Dangling, RefersAmong
  <2> QED BY <2>1, <2>2
<1>10. /\ bad => s = Failure("integrity")
       /\ ~bad => /\ s.class = "ok" /\ s.source = f.doc /\ s.warnings = f.fallbacks \cup c.warnings
                  /\ s.parts = IF wanted = "detailed" THEN Rewritten(parts, <<>>) ELSE parts
                  /\ \A w \in s.warnings : Speakable(w)
  <2>1. (\E w \in f.fallbacks \cup c.warnings : ~Speakable(w))
           <=> wanted = "detailed" /\ \E w \in f.reports : ~Speakable(w)
    BY <1>6, NowhereIsSpeakable
  <2>2. s = IF \/ wanted = "detailed" /\ Dangling(parts, <<>>)
               \/ \E w \in f.fallbacks \cup c.warnings : ~Speakable(w)
            THEN Failure("integrity")
            ELSE [class     |-> "ok",
                  source    |-> f.doc,
                  parts     |-> IF wanted = "detailed" THEN Rewritten(parts, <<>>) ELSE parts,
                  artifacts |-> s.artifacts,
                  warnings  |-> f.fallbacks \cup c.warnings,
                  attempts  |-> s.attempts]
    BY <1>6, <1>7, <1>8 DEF Sealed
  <2> QED BY <1>9, <2>1, <2>2
<1>11. ASSUME ~bad
       PROVE  /\ IsStack(s.parts)
              /\ \E k \in DOMAIN s.parts : s.parts[k].of = f.doc
              /\ wanted = "detailed" =>
                    /\ ~RefersAmong(s.parts)
                    /\ \A k \in DOMAIN f.parts : \E m \in DOMAIN s.parts : s.parts[m].of = f.parts[k].of
  <2>1. CASE wanted # "detailed"
    <3>1. s.parts = parts
      BY <1>10, <1>11, <2>1
    <3> QED BY <1>2, <1>4, <2>1, <3>1
  <2>2. CASE wanted = "detailed"
    <3>1. s.parts = Rewritten(parts, <<>>)
      BY <1>10, <1>11, <2>2
    <3>2. \A k \in DOMAIN parts : ~IsReference(parts[k].part)
      BY <1>2, <1>4, <1>11, <2>2 DEF RefersAmong
    <3>3. /\ DOMAIN s.parts = DOMAIN parts /\ IsStack(s.parts)
          /\ \A k \in DOMAIN parts : s.parts[k].of = parts[k].of /\ ~IsReference(s.parts[k].part)
      BY <1>4, <3>1, <3>2, RewrittenParts
    <3> QED BY <1>2, <1>4, <3>3 DEF RefersAmong
  <2> QED BY <2>1, <2>2
<1>12. wanted = "detailed" => c.warnings = f.reports
  BY <1>6
<1> HIDE DEF bad
<1>13. /\ bad => s = Failure("integrity")
       /\ ~bad => /\ s.class = "ok" /\ s.source = f.doc /\ IsStack(s.parts)
                  /\ \E k \in DOMAIN s.parts : s.parts[k].of = f.doc
                  /\ wanted = "detailed" =>
                        /\ s.warnings = f.fallbacks \cup f.reports
                        /\ \A w \in s.warnings : Speakable(w)
                        /\ ~RefersAmong(s.parts)
                        /\ \A k \in DOMAIN f.parts : \E m \in DOMAIN s.parts :
                              s.parts[m].of = f.parts[k].of
  BY <1>10, <1>11, <1>12
<1> QED BY <1>5, <1>7, <1>13 DEF bad


\* An archive's envelope accounts for all it leads to.
LEMMA PackedCare ==
    ASSUME SourceHolds, NEW f, FrameInv(f, source, intent), f.unpacking,
           FrameCare(f, FALSE, source, intent), f.next > Len(source[f.doc].members),
           NEW wanted, wanted = WantedFor(f.doc, intent)
    PROVE  AnswerCare(Sealed(f, Packed(f, wanted), wanted), f.doc, source, intent)
<1> DEFINE id == f.doc
           M == source[id].members
           m(k) == M[k]
           files == Files(source[id])
           bad == wanted = "detailed" /\ (RefersAmong(f.parts) \/ \E w \in f.reports : ~Speakable(w))
<1>1. PICK s : s = Sealed(f, Packed(f, wanted), wanted)
  OBVIOUS
<1>2. /\ IsStack(f.parts) /\ f.next \in 1..(Len(M) + 1)
      /\ NamesSeen(f, f.next - 1, source) /\ MembersSeen(f, source, intent)
  BY DEF FrameCare
<1>3. /\ id \in DOMAIN source /\ source[id].kind = "zip"
      /\ Len(M) \in Nat /\ DOMAIN M = 1..Len(M)
      /\ UnpackedIn(id, source, intent) /\ AnswersIn(id, source, intent) = {}
      /\ \A w \in f.fallbacks : w.location = Nowhere
      /\ f.fallbacks # {} <=> ReportedIn(id, source, intent)
      /\ CausesIn(id, source, intent) \subseteq {"malformed", "integrity"}
      /\ "malformed" \in CausesIn(id, source, intent) <=> ~NamesIn(id, source)
      /\ "integrity" \in CausesIn(id, source, intent)
            <=> /\ wanted = "detailed"
                /\ \E k \in files : \/ RefersIn(m(k).doc, source, intent)
                                    \/ UnsafeIn(m(k), source, intent)
  BY ArchiveHolds
<1>4. f.next - 1 = Len(M)
  <2> HIDE DEF M
  <2> QED BY <1>2, <1>3 DEF M
<1>5. NamesIn(id, source)
  BY <1>2, <1>3, <1>4, NamesAllSeen
<1>6. FilesSeen(f, source) = files
  <2>1. \A k \in files : k \in 1..Len(M)
    BY <1>3 DEF Files
  <2>2. \A k \in files : k < f.next
    <3> HIDE DEF M, files
    <3> QED BY <1>2, <1>3, <1>4, <2>1
  <2> QED BY <2>2 DEF FilesSeen
<1>7. /\ \A k \in files :
            /\ Accounts(Under(m(k).doc, source, intent), f.parts, f.reports, source, intent)
            /\ \A d \in Under(m(k).doc, source, intent) : Harmless(d, source, intent)
            /\ ReportedIn(m(k).doc, source, intent) => \E w \in f.reports : w.location = Location(m(k))
      /\ RefersAmong(f.parts) <=> \E k \in files : RefersIn(m(k).doc, source, intent)
      /\ \A w \in f.reports :
            \/ Speakable(w)
            \/ \E k \in files : ReportedIn(m(k).doc, source, intent) /\ w.location = Location(m(k))
  BY <1>2, <1>6 DEF MembersSeen, SeenTo
<1>8. \A w, k : w.location = Location(m(k)) => (Speakable(w) <=> SafePublicText(TrimSpace(m(k).name)))
  <2> SUFFICES ASSUME NEW w, NEW k, w.location = Location(m(k))
               PROVE  Speakable(w) <=> SafePublicText(TrimSpace(m(k).name))
    OBVIOUS
  <2>1. PICK t : t = TrimSpace(m(k).name)
    OBVIOUS
  <2>2. w.location = [member |-> t]
    BY <2>1 DEF Location
  <2>3. DOMAIN w.location = {"member"} /\ w.location.member = t
    BY <2>2
  <2> HIDE DEF m
  <2> QED BY <2>1, <2>3 DEF Speakable
<1> HIDE DEF m, files
<1>9. bad <=> "integrity" \in CausesIn(id, source, intent)
  <2>1. \A k : UnsafeIn(m(k), source, intent)
                 <=> ReportedIn(m(k).doc, source, intent) /\ ~SafePublicText(TrimSpace(m(k).name))
    BY DEF UnsafeIn
  <2>2. (\E w \in f.reports : ~Speakable(w)) <=> \E k \in files : UnsafeIn(m(k), source, intent)
    BY <1>7, <1>8, <2>1
  <2> QED BY <1>3, <1>7, <2>2
<1>10. /\ bad => s = Failure("integrity")
       /\ ~bad => /\ s.class = "ok" /\ s.source = f.doc /\ IsStack(s.parts)
                  /\ \E k \in DOMAIN s.parts : s.parts[k].of = f.doc
                  /\ wanted = "detailed" =>
                        /\ s.warnings = f.fallbacks \cup f.reports
                        /\ \A w \in s.warnings : Speakable(w)
                        /\ ~RefersAmong(s.parts)
                        /\ \A k \in DOMAIN f.parts : \E j \in DOMAIN s.parts :
                              s.parts[j].of = f.parts[k].of
  BY <1>1, <1>2, <1>3, SealingPacks
<1>11. CASE bad
  <2>1. s.class = "integrity"
    BY <1>10, <1>11 DEF Failure
  <2>2. id \in Under(id, source, intent)
    BY <1>3, UnderSelf
  <2>3. AnswerCare(s, id, source, intent)
    BY <1>9, <1>11, <2>1, <2>2 DEF AnswerCare, Passing
  <2> QED BY <1>1, <2>3
<1>12. CASE ~bad
  <2>1. \A d \in Under(id, source, intent) :
           d = id \/ \E k \in files : d \in Under(m(k).doc, source, intent)
    <3> SUFFICES ASSUME NEW d \in Under(id, source, intent), d # id
                 PROVE  \E k \in files : d \in Under(m(k).doc, source, intent)
      OBVIOUS
    <3>1. PICK c \in DOMAIN source : Holds(id, c, source, intent) /\ d \in Under(c, source, intent)
      BY <1>3, UnderSplit
    <3> QED BY <3>1 DEF Holds, files, m
  <2>2. Harmless(id, source, intent)
    BY <1>3, <1>5, <1>9, <1>12 DEF Harmless
  <2>3. \A d \in Under(id, source, intent) : Harmless(d, source, intent)
    BY <1>7, <2>1, <2>2
  <2>4. ASSUME wanted = "detailed"
        PROVE  /\ Accounts(Under(id, source, intent), s.parts, s.warnings, source, intent)
               /\ RefersAmong(s.parts) <=> RefersIn(id, source, intent)
               /\ \A w \in s.warnings : Speakable(w)
               /\ (\E w \in s.warnings : w.location = Nowhere) <=> ReportedIn(id, source, intent)
    <3>1. Shows(id, s.parts, s.warnings, source, intent)
      BY <1>10, <1>12 DEF Shows
    <3>2. ASSUME NEW k \in files, NEW d \in Under(m(k).doc, source, intent)
          PROVE  Shows(d, s.parts, s.warnings, source, intent)
      <4>1. Shows(d, f.parts, f.reports, source, intent)
        BY <1>7 DEF Accounts
      <4>2. f.reports \subseteq s.warnings
        BY <1>10, <1>12, <2>4
      <4> QED BY <1>10, <1>12, <2>4, <4>1, <4>2, ShowsMore
    <3>3. Accounts(Under(id, source, intent), s.parts, s.warnings, source, intent)
      BY <2>1, <3>1, <3>2 DEF Accounts
    <3>4. ~RefersIn(id, source, intent)
      BY <1>3 DEF RefersIn
    <3>5. \A w \in f.reports : w.location # Nowhere
      BY DEF FrameInv, Placed
    <3>6. (\E w \in s.warnings : w.location = Nowhere) <=> ReportedIn(id, source, intent)
      BY <1>3, <1>10, <1>12, <2>4, <3>5
    <3> QED BY <1>10, <1>12, <2>4, <3>3, <3>4, <3>6
  <2>5. s.class \notin Passing /\ s.class \notin Terminal
    BY <1>10, <1>12 DEF Passing, Terminal
  <2>6. AnswerCare(s, id, source, intent)
    BY <1>10, <1>12, <2>3, <2>4, <2>5 DEF AnswerCare
  <2> QED BY <1>1, <2>6
<1> QED BY <1>11, <1>12

-----------------------------------------------------------------------------
(* The stack.                                                              *)

\* The innermost pipeline goes on.
LEMMA ContinuedCare ==
    ASSUME NEW src, NEW int, NEW s, IsStack(s), s # <<>>, NEW ans, StackCare(s, ans, src, int),
           NEW f, f.doc = s[Len(s)].doc, FrameCare(f, FALSE, src, int)
    PROVE  StackCare([s EXCEPT ![Len(s)] = f], Pending, src, int)
<1>1. PICK S : s \in Seq(S)
  BY DEF IsStack
<1>2. PICK t : t = [s EXCEPT ![Len(s)] = f]
  OBVIOUS
<1>3. /\ Len(t) = Len(s) /\ Len(s) \in Nat \ {0}
      /\ \A i \in 1..Len(s) : i # Len(s) => t[i] = s[i]
      /\ t[Len(s)] = f
  BY <1>1, <1>2
<1>4. \A i \in 1..Len(s) : i < Len(s) => i + 1 \in 1..Len(s) /\ i # Len(s)
  BY <1>3
<1>5. \A i \in 1..Len(t) : FrameCare(t[i], Busy(t, Pending, i), src, int)
  <2> SUFFICES ASSUME NEW i \in 1..Len(s) PROVE FrameCare(t[i], Busy(t, Pending, i), src, int)
    BY <1>3
  <2>1. CASE i = Len(s)
    <3>1. Busy(t, Pending, i) = FALSE
      BY <1>3, <2>1 DEF Busy
    <3> QED BY <1>3, <2>1, <3>1
  <2>2. CASE i # Len(s)
    <3>1. i < Len(s)
      BY <1>3, <2>2
    <3>2. Busy(t, Pending, i) = TRUE /\ Busy(s, ans, i) = TRUE
      BY <1>3, <3>1 DEF Busy
    <3>3. FrameCare(s[i], TRUE, src, int)
      BY <3>2 DEF StackCare
    <3> QED BY <1>3, <2>2, <3>2, <3>3
  <2> QED BY <2>1, <2>2
<1>6. \A i \in 1..Len(t) : i < Len(t) => t[i + 1].doc = Awaited(t[i], src)
  <2> SUFFICES ASSUME NEW i \in 1..Len(s), i < Len(s) PROVE t[i + 1].doc = Awaited(t[i], src)
    BY <1>3
  <2>1. s[i + 1].doc = Awaited(s[i], src)
    BY DEF StackCare
  <2>2. t[i] = s[i] /\ t[i + 1].doc = s[i + 1].doc
    BY <1>3, <1>4
  <2> QED BY <2>1, <2>2
<1>7. StackCare(t, Pending, src, int)
  BY <1>5, <1>6 DEF StackCare
<1> QED BY <1>2, <1>7

\* It ends.
LEMMA ReturnedCare ==
    ASSUME NEW src, NEW int, NEW s, StackInv(s, src, int), s # <<>>,
           NEW ans, StackCare(s, ans, src, int),
           NEW result, result # Pending, AnswerCare(result, s[Len(s)].doc, src, int)
    PROVE  StackCare(SubSeq(s, 1, Len(s) - 1), result, src, int)
<1>1. IsStack(s)
  BY DEF StackInv
<1>2. PICK t : t = SubSeq(s, 1, Len(s) - 1)
  OBVIOUS
<1>3. /\ IsStack(t) /\ Len(t) = Len(s) - 1 /\ Len(s) \in Nat \ {0}
      /\ \A i \in 1..Len(t) : t[i] = s[i]
  BY <1>1, <1>2, Popped
<1>4. \A i \in 1..Len(t) : i \in 1..Len(s) /\ i < Len(s)
  BY <1>3
<1>5. \A i \in 1..Len(t) : FrameCare(t[i], Busy(t, result, i), src, int)
  <2> SUFFICES ASSUME NEW i \in 1..Len(t) PROVE FrameCare(t[i], Busy(t, result, i), src, int)
    OBVIOUS
  <2>1. Busy(t, result, i) = TRUE /\ Busy(s, ans, i) = TRUE
    BY <1>4 DEF Busy
  <2>2. FrameCare(s[i], TRUE, src, int)
    BY <1>4, <2>1 DEF StackCare
  <2> QED BY <1>3, <2>1, <2>2
<1>6. \A i \in 1..Len(t) : i < Len(t) => t[i + 1].doc = Awaited(t[i], src)
  <2> SUFFICES ASSUME NEW i \in 1..Len(t), i < Len(t) PROVE t[i + 1].doc = Awaited(t[i], src)
    OBVIOUS
  <2>1. s[i + 1].doc = Awaited(s[i], src)
    BY <1>4 DEF StackCare
  <2>2. i + 1 \in 1..Len(t)
    BY <1>3
  <2> QED BY <1>3, <2>1, <2>2
<1>7. Due(t, src) = s[Len(s)].doc
  <2>1. CASE t = <<>>
    <3>1. Len(t) = 0
      BY <2>1
    <3>2. Len(s) = 1
      BY <1>3, <3>1
    <3>3. s[Len(s)].doc = 1
      BY <1>3, <3>2 DEF StackInv
    <3> QED BY <2>1, <3>3 DEF Due
  <2>2. CASE t # <<>>
    <3>1. Len(t) \in Nat \ {0}
      BY <1>3, <2>2 DEF IsStack
    <3>2. Len(t) \in 1..Len(s) /\ Len(t) < Len(s) /\ Len(t) + 1 = Len(s) /\ t[Len(t)] = s[Len(t)]
      BY <1>3, <3>1
    <3>3. s[Len(t) + 1].doc = Awaited(s[Len(t)], src)
      BY <3>2 DEF StackCare
    <3> QED BY <2>2, <3>2, <3>3 DEF Due
  <2> QED BY <2>1, <2>2
<1>8. StackCare(t, result, src, int)
  BY <1>5, <1>6, <1>7 DEF StackCare
<1> QED BY <1>2, <1>8

\* The pipeline of a member starts.
LEMMA StartedCare ==
    ASSUME NEW src, NEW int, NEW s, IsStack(s), s # <<>>, StackCare(s, Pending, src, int),
           NEW f, f.doc = s[Len(s)].doc, FrameCare(f, TRUE, src, int),
           NEW id, id = Awaited(f, src)
    PROVE  StackCare(Append([s EXCEPT ![Len(s)] = f], Fresh(id)), Pending, src, int)
<1>1. PICK S : s \in Seq(S)
  BY DEF IsStack
<1>2. PICK t : t = [s EXCEPT ![Len(s)] = f]
  OBVIOUS
<1>3. /\ t \in Seq(S \cup {f}) /\ Len(t) = Len(s) /\ Len(s) \in Nat \ {0}
      /\ \A i \in 1..Len(s) : i # Len(s) => t[i] = s[i]
      /\ t[Len(s)] = f
  BY <1>1, <1>2
<1>4. PICK u : u = Append(t, Fresh(id))
  OBVIOUS
<1>5. /\ Len(u) = Len(s) + 1
      /\ \A i \in 1..Len(s) : u[i] = t[i]
      /\ u[Len(s) + 1] = Fresh(id)
  BY <1>3, <1>4
<1>6. Fresh(id).doc = id
  BY DEF Fresh
<1>7. ASSUME NEW i \in 1..Len(u)
      PROVE  FrameCare(u[i], Busy(u, Pending, i), src, int)
  <2>1. CASE i = Len(s) + 1
    <3>1. Busy(u, Pending, i) = FALSE
      BY <1>3, <1>5, <2>1 DEF Busy
    <3> QED BY <1>5, <2>1, <3>1, FreshCare
  <2>2. CASE i = Len(s)
    <3>1. Busy(u, Pending, i) = TRUE /\ i \in 1..Len(s)
      BY <1>3, <1>5, <2>2 DEF Busy
    <3> QED BY <1>3, <1>5, <2>2, <3>1
  <2>3. CASE i # Len(s) + 1 /\ i # Len(s)
    <3>1. i \in 1..Len(s) /\ i < Len(s)
      BY <1>3, <1>5, <2>3
    <3>2. Busy(u, Pending, i) = TRUE /\ Busy(s, Pending, i) = TRUE
      BY <1>3, <1>5, <3>1 DEF Busy
    <3>3. FrameCare(s[i], TRUE, src, int)
      BY <3>1, <3>2 DEF StackCare
    <3> QED BY <1>3, <1>5, <2>3, <3>1, <3>2, <3>3
  <2> QED BY <2>1, <2>2, <2>3
<1>8. ASSUME NEW i \in 1..Len(u), i < Len(u)
      PROVE  u[i + 1].doc = Awaited(u[i], src)
  <2>1. CASE i = Len(s)
    BY <1>3, <1>5, <1>6, <2>1
  <2>2. CASE i # Len(s)
    <3>1. i \in 1..Len(s) /\ i < Len(s) /\ i + 1 \in 1..Len(s)
      BY <1>3, <1>5, <1>8, <2>2
    <3>2. s[i + 1].doc = Awaited(s[i], src)
      BY <3>1 DEF StackCare
    <3>3. u[i] = s[i] /\ u[i + 1].doc = s[i + 1].doc
      BY <1>3, <1>5, <2>2, <3>1
    <3> QED BY <3>2, <3>3
  <2> QED BY <2>1, <2>2
<1>9. StackCare(u, Pending, src, int)
  BY <1>7, <1>8 DEF StackCare
<1> QED BY <1>2, <1>4, <1>9


-----------------------------------------------------------------------------
(* The steps, for what is accounted for.                                   *)

LEMMA TopCare ==
    ASSUME RequestInv, CareInv, stack # <<>>
    PROVE  /\ FrameInv(Top, source, intent) /\ SourceHolds /\ IsStack(stack)
           /\ FrameCare(Top, answer # Pending, source, intent)
           /\ answer # Pending => AnswerCare(answer, Awaited(Top, source), source, intent)
<1>1. Len(stack) \in Nat \ {0} /\ FrameInv(Top, source, intent)
  BY TopHolds
<1>2. Len(stack) \in 1..Len(stack) /\ ~(Len(stack) < Len(stack))
  BY <1>1
<1>3. StackCare(stack, answer, source, intent)
  BY DEF CareInv
<1>4. FrameCare(stack[Len(stack)], Busy(stack, answer, Len(stack)), source, intent)
  BY <1>2, <1>3 DEF StackCare
<1>5. Busy(stack, answer, Len(stack)) <=> answer # Pending
  BY <1>2 DEF Busy
<1>6. FrameCare(Top, answer # Pending, source, intent)
  BY <1>4, <1>5 DEF FrameCare, Top
<1>7. answer # Pending => AnswerCare(answer, Awaited(Top, source), source, intent)
  BY <1>3 DEF StackCare, Due, Top
<1> QED BY <1>1, <1>6, <1>7 DEF RequestInv, StackInv

LEMMA ContinueKeepsCare ==
    ASSUME RequestInv, CareInv, stack # <<>>, NEW STATE f, f.doc = Top.doc,
           FrameCare(f, FALSE, source, intent), Continue(f)
    PROVE  CareInv'
<1>1. StackCare([stack EXCEPT ![Len(stack)] = f], Pending, source, intent)
  BY ContinuedCare DEF CareInv, RequestInv, StackInv, Top
<1>2. /\ stack' = [stack EXCEPT ![Len(stack)] = f] /\ answer' = Pending
      /\ source' = source /\ intent' = intent
  BY DEF Continue
<1> QED BY <1>1, <1>2 DEF CareInv

LEMMA ReturnKeepsCare ==
    ASSUME RequestInv, CareInv, stack # <<>>, NEW STATE result, result # Pending,
           AnswerCare(result, Top.doc, source, intent), Return(result)
    PROVE  CareInv'
<1>1. StackCare(SubSeq(stack, 1, Len(stack) - 1), result, source, intent)
  BY ReturnedCare DEF CareInv, RequestInv, Top
<1>2. /\ stack' = SubSeq(stack, 1, Len(stack) - 1) /\ answer' = result
      /\ source' = source /\ intent' = intent
  BY DEF Return
<1> QED BY <1>1, <1>2 DEF CareInv

LEMMA NotPending ==
    /\ \A class \in Passing \cup Terminal : Failure(class) # Pending
    /\ \A f, c, wanted : Sealed(f, c, wanted) # Pending
<1>1. \A class \in Passing \cup Terminal : Failure(class).class # Pending.class
  BY DEF Failure, Passing, Terminal, Pending
<1>2. \A f, c, wanted : Sealed(f, c, wanted).class # Pending.class
  BY DEF Sealed, Failure, Pending
<1> QED BY <1>1, <1>2

LEMMA DeclineKeepsCare ==
    ASSUME RequestInv, CareInv, Decline
    PROVE  CareInv'
<1> DEFINE g == Attempted(Top, Converter.name, "unsupported")
<1>1. Dispatching /\ Continue(g) /\ stack # <<>> /\ answer = Pending /\ ~Top.unpacking
  BY DEF Decline, Dispatching
<1>2. DOMAIN Top = Fields /\ FrameCare(Top, FALSE, source, intent)
  BY <1>1, TopCare DEF FrameInv
<1>3. FrameCare(g, FALSE, source, intent)
  BY <1>1, <1>2, AttemptedCare
<1>4. g.doc = Top.doc
  BY <1>2 DEF Attempted, Fields
<1> HIDE DEF g
<1> QED BY <1>1, <1>3, <1>4, ContinueKeepsCare

LEMMA AttemptKeepsCare ==
    ASSUME RequestInv, CareInv, Attempt
    PROVE  CareInv'
<1> DEFINE n == Len(Top.attempts) + 1
           i == Nth(n)
<1>1. Dispatching /\ Untried /\ Accepts(Converter, Doc)
      /\ ~(Converter.builtin /\ Converter.name = "zip")
  BY DEF Attempt
<1>2. PICK c \in Conversions(Converter, Doc, Wanted) : AfterConversion(Top, Converter, c, Wanted)
  BY DEF Attempt
<1>3. /\ i \in DOMAIN Registered /\ Top.doc \in DOMAIN source /\ ~IsZip(i)
      /\ Accepts(Registered[i], source[Top.doc])
      /\ c \in Conversions(Registered[i], source[Top.doc], Wanted)
      /\ Converter = Registered[i] /\ Wanted = WantedFor(Top.doc, intent)
      /\ Len(Top.attempts) < Len(Registered)
  BY <1>1, <1>2, TurnHolds DEF Doc, Untried
<1>4. /\ Sound(c)
      /\ \A d \in Conversions(Registered[i], source[Top.doc], Wanted) : d.class = c.class
  BY <1>3, ConversionsSound DEF RequestInv
<1>5. ClassIn(i, Top.doc, source, intent) = c.class
  <2> HIDE DEF i
  <2> QED BY <1>3, <1>4 DEF ClassIn
<1>6. /\ stack # <<>> /\ answer = Pending /\ ~Top.unpacking
      /\ FrameInv(Top, source, intent) /\ SourceHolds /\ DOMAIN Top = Fields
      /\ FrameCare(Top, FALSE, source, intent)
  BY <1>1, TopCare DEF Dispatching, FrameInv
<1>7. CASE c.class = "ok"
  <2> DEFINE d == [c EXCEPT !.parts = Tagged(@, Top.doc)]
  <2>1. Return(Sealed(Top, d, Wanted))
    BY <1>2, <1>7, AfterConversionByClass
  <2>2. AnswerCare(Sealed(Top, d, Wanted), Top.doc, source, intent)
    BY <1>3, <1>5, <1>6, <1>7, SealedOwnCare
  <2> HIDE DEF d
  <2>3. Sealed(Top, d, Wanted) # Pending
    BY NotPending
  <2> QED BY <1>6, <2>1, <2>2, <2>3, ReturnKeepsCare
<1>8. CASE c.class \in Passing
  <2> DEFINE g == Attempted(Top, Converter.name, c.class)
  <2>1. Continue(g)
    BY <1>2, <1>8, AfterConversionByClass
  <2>2. FrameCare(g, FALSE, source, intent)
    BY <1>6, AttemptedCare
  <2>3. g.doc = Top.doc
    BY <1>6 DEF Attempted, Fields
  <2> HIDE DEF g
  <2> QED BY <1>6, <2>1, <2>2, <2>3, ContinueKeepsCare
<1>9. CASE c.class \in Terminal
  <2>1. Return(Failure(c.class))
    BY <1>2, <1>9, AfterConversionByClass
  <2>2. c.class \notin Passing
    BY <1>9 DEF Terminal, Passing
  <2>3. DecidingIn(Top.doc, source, intent) = {i}
    <3> HIDE DEF i
    <3> QED BY <1>3, <1>5, <1>6, <2>2, TurnDecides DEF i
  <2>4. AnswerCare(Failure(c.class), Top.doc, source, intent)
    <3> HIDE DEF i
    <3> QED BY <1>3, <1>5, <1>9, <2>3, FailureIsCause
  <2>5. Failure(c.class) # Pending
    BY <1>9, NotPending
  <2> QED BY <1>6, <2>1, <2>4, <2>5, ReturnKeepsCare
<1> QED BY <1>4, <1>7, <1>8, <1>9 DEF Sound

LEMMA ExhaustKeepsCare ==
    ASSUME RequestInv, CareInv, Exhaust
    PROVE  CareInv'
<1> DEFINE id == Top.doc
           failed == \E i \in DOMAIN Top.attempts : Top.attempts[i].outcome = "failed"
           N == Len(Registered)
<1>1. /\ Dispatching /\ ~Untried /\ stack # <<>>
      /\ Return(Failure(IF failed THEN "failed" ELSE "unsupported"))
  BY DEF Exhaust, Dispatching
<1>2. FrameInv(Top, source, intent)
  BY <1>1, TopCare
<1>3. Top.attempts \in Seq(Tries) /\ Len(Top.attempts) <= N /\ id \in DOMAIN source
  BY <1>2 DEF FrameInv
<1>4. Len(Top.attempts) = N /\ DOMAIN Top.attempts = 1..N
  BY <1>1, <1>3, RegistryType DEF Untried
<1>5. \A k \in 1..N : /\ Top.attempts[k] = AttemptAt(k, id, source, intent)
                      /\ ClassIn(Nth(k), id, source, intent) \in Passing
  BY <1>2, <1>4 DEF FrameInv, Remembers
<1>6. \A k \in 1..N : Top.attempts[k].outcome = ClassIn(Nth(k), id, source, intent)
  <2>1. \A k : AttemptAt(k, id, source, intent).outcome = ClassIn(Nth(k), id, source, intent)
    BY DEF AttemptAt
  <2> HIDE DEF N, id
  <2> QED BY <1>5, <2>1
<1>7. DecidingIn(id, source, intent) = {}
  BY <1>5, NoneDecidesIn
<1>8. failed <=> \E i \in DOMAIN Registered : ClassIn(i, id, source, intent) = "failed"
  <2>1. failed <=> \E k \in 1..N : ClassIn(Nth(k), id, source, intent) = "failed"
    BY <1>4, <1>6
  <2>2. \A k \in 1..N : Nth(k) \in DOMAIN Registered
    BY RegistryOrder
  <2> HIDE DEF failed
  <2> QED BY <2>1, <2>2, EveryConverterHasATurn
<1>9. PICK class \in Passing : class = IF failed THEN "failed" ELSE "unsupported"
  BY DEF Passing
<1>10. Failure(class).class = class
  BY DEF Failure
<1>11. class = "failed" <=> failed
  BY <1>9
<1>12. class # "ok" /\ class \notin Terminal
  BY DEF Passing, Terminal
<1> HIDE DEF failed
<1>13. AnswerCare(Failure(class), id, source, intent)
  BY <1>7, <1>8, <1>10, <1>11, <1>12 DEF AnswerCare
<1>14. Return(Failure(class)) /\ Failure(class) # Pending
  BY <1>1, <1>9, NotPending
<1> QED BY <1>1, <1>13, <1>14, ReturnKeepsCare

LEMMA UnpackKeepsCare ==
    ASSUME RequestInv, CareInv, Unpack
    PROVE  CareInv'
<1> DEFINE n == Len(Top.attempts) + 1
           i == Nth(n)
           g == [Top EXCEPT !.unpacking = TRUE]
<1>1. /\ Dispatching /\ Untried /\ Accepts(Converter, Doc)
      /\ Converter.builtin /\ Converter.name = "zip"
      /\ IF Doc.sound THEN Continue(g) ELSE Return(Failure("malformed"))
  BY DEF Unpack
<1>2. /\ IsZip(i) /\ Converter = Registered[i] /\ Len(Top.attempts) < Len(Registered)
      /\ Top.doc \in DOMAIN source
  BY <1>1, TurnHolds DEF Untried
<1>3. ClassIn(i, Top.doc, source, intent) = IF Doc.sound THEN "ok" ELSE "malformed"
  <2> HIDE DEF i
  <2> QED BY <1>1, <1>2 DEF ClassIn, Doc
<1>4. /\ stack # <<>> /\ ~Top.unpacking /\ SourceHolds
      /\ FrameInv(Top, source, intent) /\ DOMAIN Top = Fields
      /\ FrameCare(Top, FALSE, source, intent)
  BY <1>1, TopCare DEF Dispatching, FrameInv
<1>5. CASE Doc.sound
  <2>1. Continue(g)
    BY <1>1, <1>5
  <2>2. /\ DOMAIN g = Fields /\ g.doc = Top.doc /\ g.attempts = Top.attempts /\ g.unpacking = TRUE
        /\ g.fallbacks = Top.fallbacks /\ g.next = Top.next /\ g.reports = Top.reports
    BY <1>4 DEF Fields
  <2>3. FrameInv(g, source, intent)
    <3> HIDE DEF g
    <3> QED BY <1>2, <1>3, <1>4, <1>5, <2>2 DEF FrameInv
  <2>4. FrameCare(g, FALSE, source, intent)
    BY <1>4, <2>3, UnpackedCare
  <2> HIDE DEF g
  <2> QED BY <1>4, <2>1, <2>2, <2>4, ContinueKeepsCare
<1>6. CASE ~Doc.sound
  <2>1. Return(Failure("malformed"))
    BY <1>1, <1>6
  <2>2. ClassIn(i, Top.doc, source, intent) = "malformed" /\ "malformed" \in Terminal
        /\ "malformed" \notin Passing
    BY <1>3, <1>6 DEF Terminal, Passing
  <2>3. DecidingIn(Top.doc, source, intent) = {i}
    <3> HIDE DEF i
    <3> QED BY <1>2, <1>4, <2>2, TurnDecides DEF i
  <2>4. AnswerCare(Failure("malformed"), Top.doc, source, intent)
    <3> HIDE DEF i
    <3> QED BY <1>2, <2>2, <2>3, FailureIsCause
  <2>5. Failure("malformed") # Pending
    BY <2>2, NotPending
  <2> QED BY <1>4, <2>1, <2>4, <2>5, ReturnKeepsCare
<1> QED BY <1>5, <1>6

LEMMA MemberKeepsCare ==
    ASSUME RequestInv, CareInv, Member
    PROVE  CareInv'
<1> DEFINE member == Doc.members[Top.next]
           noted == [Top EXCEPT !.seen = @ \cup {TrimSpace(member.name)}]
           passed == [noted EXCEPT !.next = @ + 1]
           refused == ~Admitted(member.name) \/ Collides(member.name, Top.seen)
<1>1. Unpacking /\ Top.next <= Len(source[Top.doc].members) /\ stack # <<>> /\ answer = Pending
      /\ Top.unpacking
  BY DEF Member, Unpacking, Doc
<1>2. /\ SourceHolds /\ IsStack(stack) /\ FrameInv(Top, source, intent) /\ DOMAIN Top = Fields
      /\ FrameCare(Top, FALSE, source, intent)
  BY <1>1, TopCare DEF FrameInv
<1>3. \/ refused /\ Return(Failure("malformed"))
      \/ ~refused /\ member.directory /\ Continue(passed)
      \/ /\ ~refused /\ ~member.directory
         /\ stack' = Append([stack EXCEPT ![Len(stack)] = noted], Fresh(member.doc))
         /\ UNCHANGED <<source, intent, answer>>
  BY DEF Member
<1>4. member = source[Top.doc].members[Top.next]
  BY DEF Doc
<1>5. CASE refused /\ Return(Failure("malformed"))
  <2>1. AnswerCare(Failure("malformed"), Top.doc, source, intent)
    BY <1>1, <1>2, <1>4, <1>5, MalformedCare
  <2>2. Failure("malformed") # Pending
    BY NotPending DEF Terminal
  <2> QED BY <1>1, <1>5, <2>1, <2>2, ReturnKeepsCare
<1>6. CASE ~refused /\ member.directory /\ Continue(passed)
  <2>1. FrameCare(passed, FALSE, source, intent)
    <3> HIDE DEF member
    <3> QED BY <1>1, <1>2, <1>4, <1>6, NotedCare
  <2>2. passed.doc = Top.doc
    BY <1>2 DEF Fields
  <2> HIDE DEF passed
  <2> QED BY <1>1, <1>6, <2>1, <2>2, ContinueKeepsCare
<1>7. CASE /\ ~refused /\ ~member.directory
           /\ stack' = Append([stack EXCEPT ![Len(stack)] = noted], Fresh(member.doc))
           /\ UNCHANGED <<source, intent, answer>>
  <2> HIDE DEF member
  <2>1. FrameCare(noted, TRUE, source, intent)
    BY <1>1, <1>2, <1>4, <1>7, NotedCare
  <2>2. noted.doc = Top.doc /\ noted.next = Top.next
    BY <1>2 DEF Fields
  <2>3. member.doc = Awaited(noted, source)
    BY <1>4, <2>2 DEF Awaited
  <2>4. noted.doc = stack[Len(stack)].doc /\ StackCare(stack, Pending, source, intent)
    BY <1>1, <2>2 DEF CareInv, Top
  <2> HIDE DEF noted
  <2>5. StackCare(Append([stack EXCEPT ![Len(stack)] = noted], Fresh(member.doc)), Pending, source, intent)
    BY <1>1, <1>2, <2>1, <2>3, <2>4, StartedCare
  <2>6. answer' = Pending /\ source' = source /\ intent' = intent
        /\ stack' = Append([stack EXCEPT ![Len(stack)] = noted], Fresh(member.doc))
    BY <1>1, <1>7 DEF noted
  <2> QED BY <2>5, <2>6 DEF CareInv
<1> QED BY <1>3, <1>5, <1>6, <1>7

LEMMA AnsweredKeepsCare ==
    ASSUME RequestInv, CareInv, Answered
    PROVE  CareInv'
<1> DEFINE member == Doc.members[Top.next]
<1>1. stack # <<>> /\ answer # Pending /\ AfterMember(Top, member, answer)
  BY DEF Answered
<1>2. /\ SourceHolds /\ FrameInv(Top, source, intent) /\ DOMAIN Top = Fields
      /\ FrameCare(Top, TRUE, source, intent)
      /\ AnswerCare(answer, Awaited(Top, source), source, intent)
  <2>1. (answer # Pending) = TRUE
    BY <1>1
  <2> QED BY <1>1, <2>1, TopCare DEF FrameInv
<1>3. member = source[Top.doc].members[Top.next] /\ Awaited(Top, source) = member.doc
  BY DEF Doc, Awaited
<1>4. /\ answer.class \in {"unsupported", "failed", "ok"} \cup Terminal
      /\ answer.class = "ok" => \A w \in answer.warnings : "location" \in DOMAIN w
  <2>1. \A class \in Passing \cup Terminal : Failure(class).class = class /\ class # "ok"
    BY DEF Failure, Passing, Terminal
  <2> QED BY <1>1, <2>1 DEF RequestInv, AnswerInv, Passing
<1> HIDE DEF member
<1>5. CASE answer.class \in {"unsupported", "failed"}
  <2>1. PICK category \in {"unsupported_member", "member_conversion_failed"} :
           Continue(Report(Top, category, member))
    BY <1>1, <1>5, AfterMemberByClass
  <2>2. DecidingIn(member.doc, source, intent) = {}
    BY <1>2, <1>3, <1>5 DEF AnswerCare, Passing
  <2>3. FrameCare(Report(Top, category, member), FALSE, source, intent)
    BY <1>2, <1>3, <2>2, ReportCare
  <2>4. Report(Top, category, member).doc = Top.doc
    BY <1>2, ReportHolds
  <2> QED BY <1>1, <2>1, <2>3, <2>4, ContinueKeepsCare
<1>6. CASE answer.class = "ok"
  <2>1. Continue(Absorb(Top, member, answer))
    BY <1>1, <1>6, AfterMemberByClass
  <2>2. FrameCare(Absorb(Top, member, answer), FALSE, source, intent)
    BY <1>2, <1>3, <1>4, <1>6, AbsorbCare
  <2>3. Absorb(Top, member, answer).doc = Top.doc
    BY <1>2, <1>4, <1>6, AbsorbHolds
  <2> QED BY <1>1, <2>1, <2>2, <2>3, ContinueKeepsCare
<1>7. CASE answer.class \in Terminal
  <2>1. Return(Failure(answer.class))
    BY <1>1, <1>7, AfterMemberByClass
  <2>2. AnswerCare(Failure(answer.class), Top.doc, source, intent)
    BY <1>2, <1>3, <1>7, PassedOnCare
  <2>3. Failure(answer.class) # Pending
    BY <1>7, NotPending
  <2> QED BY <1>1, <2>1, <2>2, <2>3, ReturnKeepsCare
<1> QED BY <1>4, <1>5, <1>6, <1>7

LEMMA PackKeepsCare ==
    ASSUME RequestInv, CareInv, Pack
    PROVE  CareInv'
<1>1. /\ Unpacking /\ stack # <<>> /\ answer = Pending /\ Top.unpacking
      /\ Top.next > Len(source[Top.doc].members)
      /\ Return(Sealed(Top, Packed(Top, Wanted), Wanted))
  BY DEF Pack, Packed, Unpacking, Doc
<1>2. /\ SourceHolds /\ FrameInv(Top, source, intent) /\ FrameCare(Top, FALSE, source, intent)
  BY <1>1, TopCare
<1>3. Wanted = WantedFor(Top.doc, intent)
  BY <1>1, TopHolds
<1>4. AnswerCare(Sealed(Top, Packed(Top, Wanted), Wanted), Top.doc, source, intent)
  BY <1>1, <1>2, <1>3, PackedCare
<1>5. Sealed(Top, Packed(Top, Wanted), Wanted) # Pending
  BY NotPending
<1> QED BY <1>1, <1>4, <1>5, ReturnKeepsCare

LEMMA CareBegins ==
    ASSUME Init
    PROVE  CareInv
<1>1. stack = <<Fresh(1)>> /\ answer = Pending
  BY DEF Init
<1>2. Len(stack) = 1 /\ stack[1] = Fresh(1)
  BY <1>1
<1>3. FrameCare(Fresh(1), FALSE, source, intent)
  BY FreshCare
<1>4. \A i \in 1..Len(stack) : i = 1 /\ ~(i < Len(stack))
  BY <1>2
<1>5. \A i \in 1..Len(stack) : Busy(stack, answer, i) = FALSE
  BY <1>1, <1>4 DEF Busy
<1> QED BY <1>1, <1>2, <1>3, <1>4, <1>5 DEF CareInv, StackCare

-----------------------------------------------------------------------------
(* At the end.                                                            *)

LEMMA CareStep ==
    ASSUME RequestInv, CareInv, [Next]_vars
    PROVE  CareInv'
<1>1. CASE UNCHANGED vars
  BY <1>1 DEF CareInv, vars
<1> QED BY <1>1, DeclineKeepsCare, AttemptKeepsCare, ExhaustKeepsCare, UnpackKeepsCare,
           MemberKeepsCare, AnsweredKeepsCare, PackKeepsCare DEF Next

LEMMA CareHolds == Spec => []CareInv
<1>1. Init => CareInv
  BY CareBegins
<1>2. RequestInv /\ CareInv /\ [Next]_vars => CareInv'
  BY CareStep
<1> QED BY <1>1, <1>2, InvariantHolds, PTL DEF Spec

\* What the properties say of the request is what the invariant says of any.
LEMMA AsOfTheRequest ==
    ASSUME NEW id
    PROVE  /\ DecidingIn(id, source, intent) = Deciding(id)
           /\ AnswersIn(id, source, intent) = Answers(id)
           /\ RefusedIn(id, source, intent) = Refused(id)
           /\ CausesIn(id, source, intent) = Causes(id)
           /\ EmptyIn(id, source, intent) = ConvertsToNothing(id)
           /\ MemberIn(id, source) = MemberOf(id)
           /\ \A i : ClassIn(i, id, source, intent) = ClassOf(i, id)
<1>1. \A d : WantedFor(d, intent) = WantedOf(d)
  BY DEF WantedFor, WantedOf
<1>2. \A i, d : ClassIn(i, d, source, intent) = ClassOf(i, d)
  BY DEF ClassIn, ClassOf, WantedFor, WantedOf
<1>3. \A d : DecidingIn(d, source, intent) = Deciding(d)
  BY <1>2 DEF DecidingIn, Deciding
<1>4. \A d : AnswersIn(d, source, intent) = Answers(d)
  BY <1>1, <1>3 DEF AnswersIn, Answers
<1>5. \A d : RefusedIn(d, source, intent) = Refused(d)
  BY <1>1, <1>4 DEF RefusedIn, Refused
<1>6. \A d : UnpackedIn(d, source, intent) = Unpacked(d)
  BY <1>3 DEF UnpackedIn, Unpacked
<1>7. \A d : ReportedIn(d, source, intent) = Reported(d)
  BY <1>2, <1>3, <1>4 DEF ReportedIn, Reported
<1>8. \A d : NamesIn(d, source) = NamesHold(d)
  BY DEF NamesIn, NamesHold
<1>9. CausesIn(id, source, intent) = Causes(id)
  BY <1>1, <1>2, <1>3, <1>4, <1>5, <1>6, <1>7, <1>8 DEF CausesIn, Causes, RefersIn, UnsafeIn
<1>10. EmptyIn(id, source, intent) = ConvertsToNothing(id)
  BY <1>4 DEF EmptyIn, ConvertsToNothing
<1>11. MemberIn(id, source) = MemberOf(id)
  BY DEF MemberIn, MemberOf
<1> QED BY <1>2, <1>3, <1>4, <1>5, <1>9, <1>10, <1>11

\* The answer that ends the request accounts for the requested document.
LEMMA AtTheEnd ==
    ASSUME RequestInv, CareInv, Done
    PROVE  AnswerCare(answer, 1, source, intent) /\ Reached = Under(1, source, intent)
<1>1. Reached = Under(1, source, intent)
  BY ReachedIsUnder DEF RequestInv, SourceHolds
<1>2. answer # Pending => AnswerCare(answer, 1, source, intent)
  BY DEF CareInv, StackCare, Due, Done
<1>3. answer = Pending => AnswerCare(answer, 1, source, intent)
  BY DEF AnswerCare, Pending, Passing, Terminal
<1> QED BY <1>1, <1>2, <1>3

LEMMA MembersAtTheEnd ==
    ASSUME RequestInv, CareInv
    PROVE  MembersAreAccountedFor
<1> SUFFICES ASSUME Done, IsAnswered, intent = "detailed", NEW id \in Reached
             PROVE  \/ \E k \in DOMAIN answer.parts : answer.parts[k].of = id
                    \/ ConvertsToNothing(id)
                    \/ \E w \in answer.warnings :
                          /\ w.category \in {"unsupported_member", "member_conversion_failed"}
                          /\ w.location = Location(MemberOf(id))
  BY DEF MembersAreAccountedFor
<1>1. WantedFor(1, intent) = "detailed" /\ answer.class = "ok"
  BY DEF WantedFor, IsAnswered
<1>2. Accounts(Under(1, source, intent), answer.parts, answer.warnings, source, intent)
  BY <1>1, AtTheEnd DEF AnswerCare
<1>3. Shows(id, answer.parts, answer.warnings, source, intent)
  BY <1>2, AtTheEnd DEF Accounts
<1> QED BY <1>3, AsOfTheRequest DEF Shows

LEMMA CausesAtTheEnd ==
    ASSUME RequestInv, CareInv
    PROVE  IngestFailsForCause
<1> SUFFICES ASSUME Done
             PROVE  /\ AnswersFor([id \in Reached |-> Causes(id)])
                    /\ answer.class \in Passing =>
                          /\ Deciding(1) = {}
                          /\ (answer.class = "failed")
                                <=> \E i \in DOMAIN Registered : ClassOf(i, 1) = "failed"
  BY DEF IngestFailsForCause
<1>1. AnswerCare(answer, 1, source, intent) /\ Reached = Under(1, source, intent)
  BY AtTheEnd
<1>2. answer.class \in Passing =>
         /\ Deciding(1) = {}
         /\ (answer.class = "failed")
               <=> \E i \in DOMAIN Registered : ClassOf(i, 1) = "failed"
  BY <1>1, AsOfTheRequest DEF AnswerCare
<1>3. answer.class \in Terminal => \E id \in Reached : answer.class \in Causes(id)
  BY <1>1, AsOfTheRequest DEF AnswerCare
<1>4. answer.class = "ok" => \A id \in Reached : Causes(id) = {} \/ Undecided(id)
  BY <1>1, AsOfTheRequest DEF AnswerCare, Harmless, Undecided
<1> QED BY <1>2, <1>3, <1>4 DEF AnswersFor, IsAnswered

-----------------------------------------------------------------------------
(* What an envelope shows of a document that is no archive.                *)

\* The answer of a converter, in an envelope for a document.
ShownBy(c, s, id) ==
    /\ c.class = "ok"
    /\ c.warnings \subseteq s.warnings
    /\ DOMAIN s.parts = DOMAIN c.parts
    /\ \A k \in DOMAIN c.parts :
          /\ s.parts[k].of = id
          /\ ~IsReference(c.parts[k]) => s.parts[k].part = c.parts[k]
          /\ DOMAIN s.parts[k].part = DOMAIN c.parts[k]

AnswerShown(s, src, int) ==
    s.class = "ok" /\ src[s.source].kind # "zip" /\ WantedFor(s.source, int) = "detailed" =>
        \E c \in AnswersIn(s.source, src, int) : ShownBy(c, s, s.source)

ShownInv == AnswerShown(answer, source, intent)

LEMMA SealedShows ==
    ASSUME NEW c, Sound(c), c.class = "ok", NEW f, NEW wanted
    PROVE  LET s == Sealed(f, [c EXCEPT !.parts = Tagged(@, f.doc)], wanted)
           IN  s.class = "ok" => s.source = f.doc /\ ShownBy(c, s, f.doc)
<1> DEFINE id == f.doc
           tagged == Tagged(c.parts, id)
<1>1. PICK d : d = [c EXCEPT !.parts = Tagged(@, id)]
  OBVIOUS
<1>2. d.artifacts = c.artifacts /\ d.warnings = c.warnings /\ d.parts = tagged
  <2>1. DOMAIN c = {"class", "parts", "artifacts", "warnings"}
    BY DEF Sound, Shaped
  <2> QED BY <1>1, <2>1
<1>3. PICK s : s = Sealed(f, d, wanted)
  OBVIOUS
<1>4. \/ s = Failure("integrity")
      \/ /\ s.class = "ok" /\ s.source = id /\ s.warnings = f.fallbacks \cup c.warnings
         /\ s.parts = IF wanted = "detailed" THEN Rewritten(tagged, c.artifacts) ELSE tagged
  <2> HIDE DEF tagged
  <2> QED BY <1>2, <1>3 DEF Sealed
<1>5. /\ DOMAIN tagged = DOMAIN c.parts
      /\ \A k \in DOMAIN c.parts : /\ tagged[k].of = id /\ tagged[k].part = c.parts[k]
                                   /\ DOMAIN tagged[k] = {"of", "part"}
  BY DEF Tagged
<1> HIDE DEF tagged
<1>6. PICK new : new = Rewritten(tagged, c.artifacts)
  OBVIOUS
<1>7. /\ DOMAIN new = DOMAIN tagged
      /\ \A k \in DOMAIN tagged : new[k].of = tagged[k].of
  BY <1>5, <1>6, RewrittenParts
<1>8. \A k \in DOMAIN tagged : ~IsReference(tagged[k].part) => new[k] = tagged[k]
  BY <1>6 DEF Rewritten
<1>8a. \A k \in DOMAIN tagged : DOMAIN new[k].part = DOMAIN tagged[k].part
  <2> SUFFICES ASSUME NEW k \in DOMAIN tagged, IsReference(tagged[k].part)
               PROVE  DOMAIN new[k].part = DOMAIN tagged[k].part
    BY <1>8
  <2>1. PICK p : p = tagged[k] /\ DOMAIN p = {"of", "part"}
    BY <1>5
  <2>2. new[k] = [tagged[k] EXCEPT !.part.ref = Number(c.artifacts, @)]
    BY <1>6 DEF Rewritten
  <2>3. new[k] = [p EXCEPT !.part = [p.part EXCEPT !.ref = Number(c.artifacts, p.part.ref)]]
    BY <2>1, <2>2
  <2>4. new[k].part = [p.part EXCEPT !.ref = Number(c.artifacts, p.part.ref)]
    BY <2>1, <2>3
  <2> QED BY <2>1, <2>4
<1>9. ASSUME s.class = "ok" PROVE s.source = id /\ ShownBy(c, s, id)
  <2>1. Failure("integrity").class # "ok"
    BY DEF Failure
  <2>2. s.parts = new \/ s.parts = tagged
    BY <1>4, <1>6, <1>9, <2>1
  <2> QED BY <1>4, <1>5, <1>7, <1>8, <1>8a, <1>9, <2>1, <2>2 DEF ShownBy
<1> QED BY <1>1, <1>3, <1>9

LEMMA OthersShowNothing ==
    ASSUME NEW src, NEW int
    PROVE  /\ AnswerShown(Pending, src, int)
           /\ \A class \in Passing \cup Terminal : AnswerShown(Failure(class), src, int)
BY DEF AnswerShown, Pending, Failure, Passing, Terminal

LEMMA ReturnShown ==
    ASSUME NEW STATE result, AnswerShown(result, source, intent), Return(result)
    PROVE  ShownInv'
BY DEF Return, ShownInv

LEMMA ContinueShown ==
    ASSUME NEW STATE f, Continue(f)
    PROVE  ShownInv'
BY OthersShowNothing DEF Continue, ShownInv

LEMMA AttemptShown ==
    ASSUME RequestInv, Attempt
    PROVE  ShownInv'
<1> DEFINE n == Len(Top.attempts) + 1
           i == Nth(n)
<1>1. Dispatching /\ Untried /\ Accepts(Converter, Doc) /\ stack # <<>>
      /\ ~(Converter.builtin /\ Converter.name = "zip")
  BY DEF Attempt, Dispatching
<1>2. PICK c \in Conversions(Converter, Doc, Wanted) : AfterConversion(Top, Converter, c, Wanted)
  BY DEF Attempt
<1>3. /\ i \in DOMAIN Registered /\ Top.doc \in DOMAIN source /\ ~IsZip(i)
      /\ Accepts(Registered[i], source[Top.doc])
      /\ c \in Conversions(Registered[i], source[Top.doc], Wanted)
      /\ Wanted = WantedFor(Top.doc, intent)
      /\ Len(Top.attempts) < Len(Registered) /\ FrameInv(Top, source, intent)
  BY <1>1, <1>2, TurnHolds, TopHolds DEF Doc, Untried
<1>4. /\ Sound(c)
      /\ \A d \in Conversions(Registered[i], source[Top.doc], Wanted) : d.class = c.class
  BY <1>3, ConversionsSound DEF RequestInv
<1>5. ClassIn(i, Top.doc, source, intent) = c.class
  <2> HIDE DEF i
  <2> QED BY <1>3, <1>4 DEF ClassIn
<1>6. CASE c.class = "ok"
  <2> DEFINE s == Sealed(Top, [c EXCEPT !.parts = Tagged(@, Top.doc)], Wanted)
  <2>1. Return(s)
    BY <1>2, <1>6, AfterConversionByClass
  <2>2. s.class = "ok" => s.source = Top.doc /\ ShownBy(c, s, Top.doc)
    BY <1>4, <1>6, SealedShows
  <2>3. DecidingIn(Top.doc, source, intent) = {i}
    <3>1. c.class \notin Passing
      BY <1>6 DEF Passing
    <3> HIDE DEF i
    <3> QED BY <1>3, <1>5, <3>1, TurnDecides DEF i
  <2>4. c \in AnswersIn(Top.doc, source, intent)
    <3> HIDE DEF i
    <3> QED BY <1>3, <2>3, OneAnswers
  <2> HIDE DEF s
  <2>5. AnswerShown(s, source, intent)
    BY <2>2, <2>4 DEF AnswerShown
  <2> QED BY <2>1, <2>5, ReturnShown
<1>7. CASE c.class \in Passing
  BY <1>2, <1>7, AfterConversionByClass, ContinueShown
<1>8. CASE c.class \in Terminal
  <2>1. Return(Failure(c.class)) /\ AnswerShown(Failure(c.class), source, intent)
    BY <1>2, <1>8, AfterConversionByClass, OthersShowNothing
  <2> QED BY <2>1, ReturnShown
<1> QED BY <1>4, <1>6, <1>7, <1>8 DEF Sound

LEMMA PackShown ==
    ASSUME RequestInv, CareInv, Pack
    PROVE  ShownInv'
<1>1. /\ Unpacking /\ stack # <<>> /\ Top.unpacking
      /\ Return(Sealed(Top, Packed(Top, Wanted), Wanted))
  BY DEF Pack, Packed, Unpacking
<1>2. SourceHolds /\ FrameInv(Top, source, intent)
  BY <1>1, TopCare
<1>3. source[Top.doc].kind = "zip"
  BY <1>1, <1>2, ArchiveHolds
<1> DEFINE s == Sealed(Top, Packed(Top, Wanted), Wanted)
<1>4. s.class = "ok" => s.source = Top.doc
  BY DEF Sealed, Failure
<1>5. AnswerShown(s, source, intent)
  BY <1>3, <1>4 DEF AnswerShown
<1> HIDE DEF s
<1> QED BY <1>1, <1>5, ReturnShown DEF s

LEMMA ShownStep ==
    ASSUME RequestInv, CareInv, ShownInv, [Next]_vars
    PROVE  ShownInv'
<1>1. CASE Decline
  BY <1>1, ContinueShown DEF Decline
<1>2. CASE Exhaust
  <2>1. PICK class \in Passing : Return(Failure(class))
    BY <1>2 DEF Exhaust, Passing
  <2> QED BY <2>1, OthersShowNothing, ReturnShown
<1>3. CASE Unpack
  <2>1. "malformed" \in Terminal
    BY DEF Terminal
  <2> QED BY <1>3, <2>1, OthersShowNothing, ReturnShown, ContinueShown DEF Unpack
<1>4. CASE Member
  <2>1. "malformed" \in Terminal
    BY DEF Terminal
  <2>2. CASE Return(Failure("malformed"))
    BY <2>1, <2>2, OthersShowNothing, ReturnShown
  <2>3. CASE UNCHANGED <<source, intent, answer>>
    BY <2>3 DEF ShownInv
  <2>4. CASE \E f : Continue(f)
    BY <2>4, OthersShowNothing DEF Continue, ShownInv
  <2> QED BY <1>4, <2>2, <2>3, <2>4 DEF Member
<1>5. CASE Answered
  <2> DEFINE member == Doc.members[Top.next]
  <2>1. AfterMember(Top, member, answer) /\ stack # <<>> /\ answer # Pending
    BY <1>5 DEF Answered
  <2>2. answer.class \in {"unsupported", "failed", "ok"} \cup Terminal
    <3>1. \A class \in Passing \cup Terminal : Failure(class).class = class
      BY DEF Failure
    <3> QED BY <2>1, <3>1 DEF RequestInv, AnswerInv, Passing
  <2> HIDE DEF member
  <2>3. (\E f : Continue(f)) \/ (answer.class \in Terminal /\ Return(Failure(answer.class)))
    BY <2>1, <2>2, AfterMemberByClass
  <2>4. ASSUME Return(Failure(answer.class)), answer.class \in Terminal PROVE ShownInv'
    BY <2>4, OthersShowNothing, ReturnShown
  <2> QED BY <2>3, <2>4, OthersShowNothing DEF Continue, ShownInv
<1>6. CASE UNCHANGED vars
  BY <1>6 DEF ShownInv, vars
<1> QED BY <1>1, <1>2, <1>3, <1>4, <1>5, <1>6, AttemptShown, PackShown DEF Next

LEMMA ShownHolds == Spec => []ShownInv
<1>1. Init => ShownInv
  BY OthersShowNothing DEF Init, ShownInv
<1>2. RequestInv /\ CareInv /\ ShownInv /\ [Next]_vars => ShownInv'
  BY ShownStep
<1> QED BY <1>1, <1>2, InvariantHolds, CareHolds, PTL DEF Spec

\* An answer to a document that a converter of the program decides about is
\* what that converter makes of the document.
LEMMA DecidedShows ==
    ASSUME RequestInv, ShownInv, NEW kind \in {"pdf", "pptx", "epub"}, Decided(kind)
    PROVE  /\ answer.source \in DOMAIN source /\ source[answer.source].kind = kind
           /\ Wellformed(source[answer.source])
           /\ \E c \in BuiltinConversions(source[answer.source], "detailed") :
                 ShownBy(c, answer, answer.source)
<1> DEFINE id == answer.source
           doc == source[id]
<1>1. PICK i \in Deciding(id) : Registered[i].builtin /\ Registered[i].name = kind
  BY DEF Decided
<1>2. /\ answer.class = "ok" /\ WantedFor(id, intent) = "detailed" /\ doc.kind = kind
  BY DEF Decided, IsAnswered, WantedFor, WantedOf
<1>3. Wins(answer, source, intent) /\ id \in DOMAIN source
  <2>1. answer # Pending /\ \A class \in Passing \cup Terminal : answer # Failure(class)
    BY <1>2 DEF Pending, Failure, Passing, Terminal
  <2> QED BY <2>1 DEF RequestInv, AnswerInv, Wins
<1>4. Wellformed(doc)
  BY <1>3 DEF RequestInv, SourceHolds
<1>5. PICK c \in AnswersIn(id, source, intent) : ShownBy(c, answer, id)
  BY <1>2 DEF ShownInv, AnswerShown
<1>6. DecidingIn(id, source, intent) = {i}
  <2>1. i \in DecidingIn(id, source, intent)
    BY <1>1, AsOfTheRequest
  <2>2. PICK n \in 1..Len(Registered) :
           /\ ClassIn(Nth(n), id, source, intent) = "ok"
           /\ \A k \in 1..(n - 1) : ClassIn(Nth(k), id, source, intent) \in Passing
    BY <1>3 DEF Wins, Remembers
  <2>3. "ok" \notin Passing
    BY DEF Passing
  <2>4. DecidingIn(id, source, intent) = {Nth(n)}
    BY <2>2, <2>3, DecidesIn
  <2> QED BY <2>1, <2>4
<1>7. c \in Conversions(Registered[i], doc, "detailed")
  BY <1>1, <1>2, <1>5, <1>6, OneAnswers DEF IsZip
<1>8. Conversions(Registered[i], doc, "detailed") = BuiltinConversions(doc, "detailed")
  BY <1>1 DEF Conversions
<1> QED BY <1>2, <1>3, <1>4, <1>5, <1>7, <1>8

\* A presentation shows its slides.
SlidesShown(doc, c) ==
    LET links == RelationsOf(doc, PresentationPart)
        named == doc.parts[PresentationPart].slides
    IN  \A k \in DOMAIN named :
           named[k] \in DOMAIN links =>
               LET notes == FindNotesPath(doc, links[named[k]])
               IN  /\ \E m \in DOMAIN c.parts : c.parts[m] = [slide |-> k]
                   /\ \/ notes = {Nowhere}
                      \/ \E m \in DOMAIN c.parts : c.parts[m] = [notesOf |-> k]
                      \/ \E n \in notes : IF Readable(doc, n) THEN doc.parts[n.part].blank
                                          ELSE \E w \in c.warnings : w.location = n

\* The slides of a presentation: those whose relationship is there.
LEMMA SlidesListed ==
    ASSUME NEW doc, doc.parts[PresentationPart].slides \in Seq(STRING)
    PROVE  LET slides == Slides(doc)
               links == RelationsOf(doc, PresentationPart)
               named == doc.parts[PresentationPart].slides
           IN  /\ Len(slides) \in Nat /\ DOMAIN slides = 1..Len(slides)
               /\ \A k \in DOMAIN named : named[k] \in DOMAIN links =>
                     \E m \in DOMAIN slides : slides[m].number = k /\ slides[m].link = links[named[k]]
<1> DEFINE named == doc.parts[PresentationPart].slides
           links == RelationsOf(doc, PresentationPart)
           K == {i \in DOMAIN named : named[i] \in DOMAIN links}
           known == Ascending(K)
           slides == Slides(doc)
<1>1. IsFiniteSet(K) /\ K \subseteq Int
  <2>1. DOMAIN named = 1..Len(named) /\ Len(named) \in Nat
    OBVIOUS
  <2>2. IsFiniteSet(DOMAIN named) /\ DOMAIN named \subseteq Int
    <3> HIDE DEF named
    <3> QED BY <2>1, FS_Interval
  <2> QED BY <2>2, FS_Subset
<1>2. /\ Len(known) \in Nat /\ DOMAIN known = 1..Len(known)
      /\ \A i \in K : \E m \in DOMAIN known : known[m] = i
  <2> HIDE DEF K
  <2> QED BY <1>1, AscendingLists
<1>3. slides = [m \in 1..Len(known) |-> [number |-> known[m], link |-> links[named[known[m]]]]]
  BY DEF Slides
<1>4. PICK n \in Nat : n = Len(known)
  BY <1>2
<1> HIDE DEF known, slides
<1>5. DOMAIN slides = 1..n
  BY <1>3, <1>4
<1>6. Len(slides) = n
  <2>1. slides = [m \in 1..n |-> slides[m]]
    BY <1>3, <1>4
  <2> QED BY <2>1, ListIsStack
<1>7. ASSUME NEW k \in DOMAIN named, named[k] \in DOMAIN links
      PROVE  \E m \in DOMAIN slides : slides[m].number = k /\ slides[m].link = links[named[k]]
  <2>1. PICK m \in 1..n : known[m] = k
    BY <1>2, <1>4, <1>7
  <2> HIDE DEF links, named
  <2>2. slides[m] = [number |-> k, link |-> links[named[k]]]
    BY <1>3, <1>4, <2>1
  <2> QED BY <1>5, <2>2
<1> QED BY <1>5, <1>6, <1>7 DEF slides

LEMMA NotesLead == \A package, path : Nowhere \notin NotesAmong(RelationsOf(package, path))
<1> SUFFICES ASSUME NEW package, NEW path, NEW id \in DOMAIN RelationsOf(package, path)
             PROVE  RelationsOf(package, path)[id] # Nowhere
  BY DEF NotesAmong
<1>1. PICK links, base : RelationsOf(package, path) = RelationshipMap(links, base)
  <2>1. RelationsOf(package, path) # <<>>
    OBVIOUS
  <2> QED BY <2>1 DEF RelationsOf
<1>2. \A url, bare : [url |-> url, bare |-> bare] # Nowhere
  <2>1. \A url, bare : "url" \in DOMAIN [url |-> url, bare |-> bare]
    OBVIOUS
  <2>2. "url" \notin DOMAIN Nowhere
    BY DEF Nowhere
  <2> QED BY <2>1, <2>2
<1>3. \A part : [part |-> part] # Nowhere
  <2>1. \A part : "part" \in DOMAIN [part |-> part]
    OBVIOUS
  <2>2. "part" \notin DOMAIN Nowhere
    BY DEF Nowhere
  <2> QED BY <2>1, <2>2
<1>4. id \in DOMAIN RelationshipMap(links, base)
  BY <1>1
<1>5. RelationshipMap(links, base)[id] # Nowhere
  BY <1>2, <1>3, <1>4 DEF RelationshipMap
<1> QED BY <1>1, <1>5

LEMMA PresentedShows ==
    ASSUME NEW doc, doc.parts[PresentationPart].slides \in Seq(STRING),
           NEW c \in SlidesConversions(doc, Slides(doc)), c.class = "ok"
    PROVE  SlidesShown(doc, c)
<1> DEFINE slides == Slides(doc)
           links == RelationsOf(doc, PresentationPart)
           named == doc.parts[PresentationPart].slides
           candidates == [k \in DOMAIN slides |-> FindNotesPath(doc, slides[k].link)]
<1>1. /\ Len(slides) \in Nat /\ DOMAIN slides = 1..Len(slides)
      /\ \A k \in DOMAIN named : named[k] \in DOMAIN links =>
            \E m \in DOMAIN slides : slides[m].number = k /\ slides[m].link = links[named[k]]
  BY SlidesListed
<1>2. PICK notes \in NotesChoices(candidates) : c = Presented(doc, slides, notes)
  <2>1. \A class : Failure(class).class = class
    BY DEF Failure
  <2> HIDE DEF slides
  <2>2. c \in SlidesConversions(doc, slides) /\ c # Failure("unsupported") /\ c # Failure("failed")
    BY <2>1 DEF slides
  <2> QED BY <2>2 DEF SlidesConversions
<1>3. \A m \in DOMAIN slides : notes[m] \in FindNotesPath(doc, slides[m].link)
  BY DEF NotesChoices
<1> DEFINE each(m) == <<[slide |-> slides[m].number]>> \o NotesParts(doc, slides[m].number, notes[m])
           all == [m \in 1..Len(slides) |-> each(m)]
           W == UNION {NotesWarnings(doc, notes[m]) : m \in DOMAIN slides}
           P == {[slide |-> slides[m].number] : m \in 1..Len(slides)}
                   \cup {[notesOf |-> slides[m].number] : m \in 1..Len(slides)}
<1>4. c.parts = FlattenSeq(all) /\ c.warnings = W
  BY <1>2 DEF Presented, Converted
<1>5. \A m \in 1..Len(slides) :
         LET own == [slide |-> slides[m].number]
             note == [notesOf |-> slides[m].number]
         IN  own \in P /\ note \in P
  OBVIOUS
<1>6. \A m \in 1..Len(slides) :
         /\ each(m) \in Seq(P)
         /\ 1 \in DOMAIN each(m) /\ each(m)[1] = [slide |-> slides[m].number]
         /\ notes[m] # Nowhere /\ Readable(doc, notes[m]) /\ ~doc.parts[notes[m].part].blank =>
               2 \in DOMAIN each(m) /\ each(m)[2] = [notesOf |-> slides[m].number]
  <2> SUFFICES ASSUME NEW m \in 1..Len(slides)
               PROVE  /\ each(m) \in Seq(P)
                      /\ 1 \in DOMAIN each(m) /\ each(m)[1] = [slide |-> slides[m].number]
                      /\ notes[m] # Nowhere /\ Readable(doc, notes[m]) /\ ~doc.parts[notes[m].part].blank =>
                            2 \in DOMAIN each(m) /\ each(m)[2] = [notesOf |-> slides[m].number]
    OBVIOUS
  <2>1. PICK own \in P : own = [slide |-> slides[m].number]
    BY <1>5
  <2>2. PICK note \in P : note = [notesOf |-> slides[m].number]
    BY <1>5
  <2>3. each(m) = <<own>> \o (IF notes[m] # Nowhere /\ Readable(doc, notes[m])
                                 /\ ~doc.parts[notes[m].part].blank
                              THEN <<note>> ELSE <<>>)
    BY <2>1, <2>2 DEF NotesParts
  <2> HIDE DEF P, each
  <2>4. \/ each(m) = <<own>> \o <<note>>
        \/ /\ each(m) = <<own>> \o <<>>
           /\ ~(notes[m] # Nowhere /\ Readable(doc, notes[m]) /\ ~doc.parts[notes[m].part].blank)
    BY <2>3
  <2>5. /\ <<own>> \o <<note>> \in Seq(P) /\ 1 \in DOMAIN (<<own>> \o <<note>>)
        /\ (<<own>> \o <<note>>)[1] = own /\ 2 \in DOMAIN (<<own>> \o <<note>>)
        /\ (<<own>> \o <<note>>)[2] = note
    OBVIOUS
  <2>6. /\ <<own>> \o <<>> \in Seq(P) /\ 1 \in DOMAIN (<<own>> \o <<>>)
        /\ (<<own>> \o <<>>)[1] = own
    OBVIOUS
  <2> QED BY <2>1, <2>2, <2>4, <2>5, <2>6
<1>7. all \in Seq(Seq(P)) /\ DOMAIN all = 1..Len(slides)
  <2>1. PICK n \in Nat : n = Len(slides)
    BY <1>1
  <2>2. \A m \in 1..n : each(m) \in Seq(P)
    BY <1>6, <2>1
  <2> HIDE DEF each, P, slides
  <2>3. all = [m \in 1..n |-> each(m)]
    BY <2>1
  <2> HIDE DEF all
  <2> QED BY <2>1, <2>2, <2>3
<1>8. \A m \in DOMAIN slides : \A j \in DOMAIN each(m) : \E x \in DOMAIN c.parts : c.parts[x] = each(m)[j]
  <2>1. \A m \in DOMAIN all : \A j \in DOMAIN all[m] : \E x \in DOMAIN c.parts : c.parts[x] = all[m][j]
    <3> HIDE DEF all, P
    <3> QED BY <1>4, <1>7, FlattenLists
  <2> HIDE DEF each, slides
  <2>2. \A m \in 1..Len(slides) : all[m] = each(m)
    OBVIOUS
  <2> HIDE DEF all
  <2> SUFFICES ASSUME NEW m \in DOMAIN slides, NEW j \in DOMAIN each(m)
               PROVE  \E x \in DOMAIN c.parts : c.parts[x] = each(m)[j]
    OBVIOUS
  <2>3. m \in DOMAIN all /\ all[m] = each(m)
    BY <1>1, <1>7, <2>2
  <2>4. j \in DOMAIN all[m]
    BY <2>3
  <2>5. \E x \in DOMAIN c.parts : c.parts[x] = all[m][j]
    BY <2>1, <2>3, <2>4
  <2> QED BY <2>3, <2>5
<1> HIDE DEF all, P
<1>9. \A m \in DOMAIN slides :
         /\ \E x \in DOMAIN c.parts : c.parts[x] = [slide |-> slides[m].number]
         /\ \/ notes[m] = Nowhere
            \/ \E x \in DOMAIN c.parts : c.parts[x] = [notesOf |-> slides[m].number]
            \/ IF Readable(doc, notes[m]) THEN doc.parts[notes[m].part].blank
               ELSE \E w \in c.warnings : w.location = notes[m]
  <2> SUFFICES ASSUME NEW m \in DOMAIN slides
               PROVE  /\ \E x \in DOMAIN c.parts : c.parts[x] = [slide |-> slides[m].number]
                      /\ \/ notes[m] = Nowhere
                         \/ \E x \in DOMAIN c.parts : c.parts[x] = [notesOf |-> slides[m].number]
                         \/ IF Readable(doc, notes[m]) THEN doc.parts[notes[m].part].blank
                            ELSE \E w \in c.warnings : w.location = notes[m]
    OBVIOUS
  <2>1. m \in 1..Len(slides)
    BY <1>1
  <2>2. ASSUME notes[m] # Nowhere, ~Readable(doc, notes[m])
        PROVE  \E w \in c.warnings : w.location = notes[m]
    <3>1. Warning("optional_extraction_failed", notes[m]) \in NotesWarnings(doc, notes[m])
      BY <2>2 DEF NotesWarnings
    <3>2. Warning("optional_extraction_failed", notes[m]) \in c.warnings
      BY <1>4, <3>1
    <3> QED BY <3>2 DEF Warning
  <2> HIDE DEF each, slides, W
  <2> QED BY <1>6, <1>8, <2>1, <2>2
<1>10. \A link : FindNotesPath(doc, link) = {Nowhere} \/ Nowhere \notin FindNotesPath(doc, link)
  BY NotesLead DEF FindNotesPath
<1> HIDE DEF slides
<1>11. ASSUME NEW k \in DOMAIN named, named[k] \in DOMAIN links
       PROVE  LET found == FindNotesPath(doc, links[named[k]])
              IN  /\ \E m \in DOMAIN c.parts : c.parts[m] = [slide |-> k]
                  /\ \/ found = {Nowhere}
                     \/ \E m \in DOMAIN c.parts : c.parts[m] = [notesOf |-> k]
                     \/ \E n \in found : IF Readable(doc, n) THEN doc.parts[n.part].blank
                                         ELSE \E w \in c.warnings : w.location = n
  <2>1. PICK m \in DOMAIN slides : slides[m].number = k /\ slides[m].link = links[named[k]]
    BY <1>1, <1>11
  <2> HIDE DEF named, links
  <2>2. notes[m] \in FindNotesPath(doc, links[named[k]])
    BY <1>3, <2>1
  <2> QED BY <1>9, <1>10, <2>1, <2>2
<1> QED BY <1>11 DEF SlidesShown

\* A book shows or reports its spine.
SpineShown(book, c) ==
    LET places(id) == {book.base \o book.manifest[i].href :
                          i \in {j \in DOMAIN book.manifest : book.manifest[j].id = id}}
        warned(category, location) == Warning(category, location) \in c.warnings
    IN  \A k \in DOMAIN book.spine :
           LET id == book.spine[k]
               missing == \A p \in places(id) : p \notin DOMAIN book.members
           IN  /\ places(id) = {} => \/ warned("missing_manifest_item", [item |-> id])
                                     \/ id \in Unspeakable /\ warned("missing_manifest_item", Nowhere)
               /\ \A p \in places(id) :
                     IF missing THEN warned("missing_spine_content", [part |-> p])
                     ELSE \/ book.members[p] = "blank"
                          \/ \E m \in DOMAIN c.parts : c.parts[m] = [chapter |-> k]

LEMMA ChaptersHold ==
    ASSUME NEW book, book.spine \in Seq(STRING), BookConversion(book).class = "ok"
    PROVE  /\ ManifestHolds(book)
           /\ \A k \in DOMAIN book.spine :
                 /\ ChapterWarnings(book, book.spine[k]) \subseteq BookConversion(book).warnings
                 /\ Found(book, book.spine[k]) =>
                       /\ book.members[FullPath(book, book.spine[k])] # "broken"
                       /\ book.members[FullPath(book, book.spine[k])] = "prose" =>
                             \E m \in DOMAIN BookConversion(book).parts :
                                BookConversion(book).parts[m] = [chapter |-> k]
<1> DEFINE holds(state) == {i \in DOMAIN book.spine : /\ Found(book, book.spine[i])
                                                      /\ book.members[FullPath(book, book.spine[i])] = state}
           prose == Ascending(holds("prose"))
           front == IF book.titled THEN <<[metadata |-> TRUE]>> ELSE <<>>
           chapters == [k \in 1..Len(prose) |-> [chapter |-> prose[k]]]
           W == UNION {ChapterWarnings(book, book.spine[i]) : i \in DOMAIN book.spine}
           C == {[chapter |-> k] : k \in holds("prose")}
           P == C \cup {[metadata |-> TRUE]}
<1>1. /\ BookConversion(book) = Converted(front \o chapters, <<>>, W)
      /\ ManifestHolds(book) /\ holds("broken") = {}
  <2>1. \A class \in {"malformed", "unsupported", "failed"} : Failure(class).class # "ok"
    BY DEF Failure
  <2> HIDE DEF holds, front, chapters
  <2>2. BookConversion(book)
           = IF ~book.sound THEN Failure("malformed")
             ELSE IF book.opf = "absent" THEN Failure("unsupported")
             ELSE IF book.opf # "present" \/ ~ManifestHolds(book) THEN Failure("malformed")
             ELSE IF holds("broken") # {} THEN Failure("failed")
             ELSE Converted(front \o chapters, <<>>, W)
    BY DEF BookConversion, holds, front, chapters
  <2> HIDE DEF W
  <2> QED BY <2>1, <2>2
<1>2. /\ BookConversion(book).parts = front \o chapters
      /\ BookConversion(book).warnings = W
  <2> HIDE DEF holds, front, chapters, W
  <2> QED BY <1>1 DEF Converted
<1>3. /\ Len(prose) \in Nat /\ DOMAIN prose = 1..Len(prose)
      /\ \A m \in DOMAIN prose : prose[m] \in holds("prose")
      /\ \A k \in holds("prose") : \E m \in DOMAIN prose : prose[m] = k
  <2>1. DOMAIN book.spine = 1..Len(book.spine) /\ Len(book.spine) \in Nat
    OBVIOUS
  <2>2. IsFiniteSet(DOMAIN book.spine) /\ DOMAIN book.spine \subseteq Int
    BY <2>1, FS_Interval
  <2>3. holds("prose") \subseteq Int /\ IsFiniteSet(holds("prose"))
    BY <2>2, FS_Subset
  <2> HIDE DEF holds
  <2> QED BY <2>3, AscendingLists
<1>4. \A k \in holds("prose") : [chapter |-> k] \in P
  OBVIOUS
<1>5. PICK n \in Nat : n = Len(prose)
  BY <1>3
<1>6. [metadata |-> TRUE] \in P
  OBVIOUS
<1> HIDE DEF holds, P
<1>7. front \in Seq(P) /\ Len(front) \in {0, 1}
  BY <1>6
<1>8. chapters \in Seq(P) /\ Len(chapters) = n
  <2>1. \A m \in 1..n : [chapter |-> prose[m]] \in P
    BY <1>3, <1>4, <1>5
  <2> HIDE DEF prose
  <2> QED BY <1>5, <2>1
<1> HIDE DEF chapters
<1>9. ASSUME NEW k \in holds("prose")
      PROVE  \E m \in DOMAIN BookConversion(book).parts :
                BookConversion(book).parts[m] = [chapter |-> k]
  <2>1. PICK j \in 1..n : prose[j] = k
    BY <1>3, <1>5
  <2>2. chapters[j] = [chapter |-> k]
    BY <1>5, <2>1 DEF chapters
  <2> HIDE DEF prose, front
  <2>3. (front \o chapters)[Len(front) + j] = [chapter |-> k] /\ Len(front) + j \in DOMAIN (front \o chapters)
    BY <1>7, <1>8, <2>2
  <2> QED BY <1>2, <2>3
<1> HIDE DEF prose, front
<1>10. ASSUME NEW k \in DOMAIN book.spine
       PROVE  ChapterWarnings(book, book.spine[k]) \subseteq BookConversion(book).warnings
  BY <1>2
<1>11. ASSUME NEW k \in DOMAIN book.spine, Found(book, book.spine[k])
       PROVE  /\ book.members[FullPath(book, book.spine[k])] # "broken"
              /\ book.members[FullPath(book, book.spine[k])] = "prose" =>
                    \E m \in DOMAIN BookConversion(book).parts :
                       BookConversion(book).parts[m] = [chapter |-> k]
  <2>1. book.members[FullPath(book, book.spine[k])] # "broken"
    BY <1>1, <1>11 DEF holds
  <2>2. book.members[FullPath(book, book.spine[k])] = "prose" => k \in holds("prose")
    BY <1>11 DEF holds
  <2> QED BY <1>9, <2>1, <2>2
<1> HIDE DEF W
<1> QED BY <1>1, <1>10, <1>11

LEMMA BookShows ==
    ASSUME NEW book, book.spine \in Seq(STRING), BookConversion(book).class = "ok",
           \A path \in DOMAIN book.members : book.members[path] \in Chapter
    PROVE  SpineShown(book, BookConversion(book))
<1> DEFINE c == BookConversion(book)
           places(id) == {book.base \o book.manifest[i].href :
                             i \in {j \in DOMAIN book.manifest : book.manifest[j].id = id}}
           warned(category, location) == Warning(category, location) \in c.warnings
<1>1. /\ ManifestHolds(book)
      /\ \A k \in DOMAIN book.spine :
            /\ ChapterWarnings(book, book.spine[k]) \subseteq c.warnings
            /\ Found(book, book.spine[k]) =>
                  /\ book.members[FullPath(book, book.spine[k])] # "broken"
                  /\ book.members[FullPath(book, book.spine[k])] = "prose" =>
                        \E m \in DOMAIN c.parts : c.parts[m] = [chapter |-> k]
  BY ChaptersHold
<1> HIDE DEF c
<1>2. ASSUME NEW id
      PROVE  IF Listed(book, id) THEN places(id) = {FullPath(book, id)} ELSE places(id) = {}
  <2>1. CASE ~Listed(book, id)
    BY <2>1 DEF Listed
  <2>2. CASE Listed(book, id)
    <3>1. PICK i \in DOMAIN book.manifest :
             /\ book.manifest[i].id = id /\ FullPath(book, id) = book.base \o book.manifest[i].href
      BY <2>2 DEF Listed, FullPath
    <3>2. \A j \in DOMAIN book.manifest : book.manifest[j].id = id => j = i
      BY <1>1, <3>1 DEF ManifestHolds
    <3>3. places(id) = {book.base \o book.manifest[i].href}
      BY <3>1, <3>2
    <3> QED BY <2>2, <3>1, <3>3
  <2> QED BY <2>1, <2>2
<1> HIDE DEF places
<1>3. ASSUME NEW k \in DOMAIN book.spine
      PROVE  LET id == book.spine[k]
                 missing == \A p \in places(id) : p \notin DOMAIN book.members
             IN  /\ places(id) = {} => \/ warned("missing_manifest_item", [item |-> id])
                                       \/ id \in Unspeakable /\ warned("missing_manifest_item", Nowhere)
                 /\ \A p \in places(id) :
                       IF missing THEN warned("missing_spine_content", [part |-> p])
                       ELSE \/ book.members[p] = "blank"
                            \/ \E m \in DOMAIN c.parts : c.parts[m] = [chapter |-> k]
  <2> DEFINE id == book.spine[k]
             full == FullPath(book, id)
  <2>1. CASE ~Listed(book, id)
    <3>1. places(id) = {}
      BY <1>2, <2>1
    <3>2. Warning("missing_manifest_item", SafeLocation(id)) \in c.warnings
      BY <1>1, <2>1 DEF ChapterWarnings
    <3> QED BY <3>1, <3>2 DEF SafeLocation
  <2>2. CASE Listed(book, id)
    <3>1. places(id) = {full}
      BY <1>2, <2>2
    <3>2. full \notin DOMAIN book.members => Warning("missing_spine_content", [part |-> full]) \in c.warnings
      BY <1>1, <2>2 DEF ChapterWarnings
    <3>3. full \in DOMAIN book.members =>
             book.members[full] = "blank" \/ \E m \in DOMAIN c.parts : c.parts[m] = [chapter |-> k]
      BY <1>1, <2>2 DEF Found, Chapter
    <3> HIDE DEF full, id
    <3> QED BY <3>1, <3>2, <3>3 DEF id
  <2> QED BY <2>1, <2>2
<1> QED BY <1>3 DEF SpineShown, c, places

LEMMA PartsAtTheEnd ==
    ASSUME RequestInv, ShownInv
    PROVE  PartsAreAccountedFor
<1> DEFINE doc == source[answer.source]
<1>1. \A c : ShownBy(c, answer, answer.source) =>
         /\ c.warnings \subseteq answer.warnings /\ c.class = "ok"
         /\ \A m \in DOMAIN c.parts : ~IsReference(c.parts[m]) => c.parts[m] \in OwnParts
  BY DEF ShownBy, OwnParts
<1>2. /\ \A k : ~IsReference([slide |-> k])
      /\ \A k : ~IsReference([notesOf |-> k])
      /\ \A k : ~IsReference([chapter |-> k])
  BY DEF IsReference
<1>3. ASSUME Decided("pptx")
      PROVE  LET links == RelationsOf(doc, PresentationPart)
                 named == doc.parts[PresentationPart].slides
             IN  \A k \in DOMAIN named :
                 named[k] \in DOMAIN links =>
                     LET notes == FindNotesPath(doc, links[named[k]])
                     IN  /\ [slide |-> k] \in OwnParts
                         /\ \/ notes = {Nowhere}
                            \/ [notesOf |-> k] \in OwnParts
                            \/ \E n \in notes : IF Readable(doc, n) THEN doc.parts[n.part].blank
                                                ELSE \E w \in answer.warnings : w.location = n
  <2>1. PICK c \in PptxConversions(doc) : ShownBy(c, answer, answer.source)
    BY <1>3, DecidedShows DEF BuiltinConversions
  <2>2. c.class = "ok"
    BY <1>1, <2>1
  <2>3. PresentationPart \in DOMAIN doc.parts /\ c \in SlidesConversions(doc, Slides(doc))
    BY <2>1, <2>2 DEF PptxConversions, Failure
  <2>4. doc.parts[PresentationPart].slides \in Seq(STRING)
    BY <1>3, <2>3, DecidedShows DEF Wellformed
  <2>5. SlidesShown(doc, c)
    BY <2>2, <2>3, <2>4, PresentedShows
  <2>6. \A k : /\ (\E m \in DOMAIN c.parts : c.parts[m] = [slide |-> k]) => [slide |-> k] \in OwnParts
               /\ (\E m \in DOMAIN c.parts : c.parts[m] = [notesOf |-> k]) => [notesOf |-> k] \in OwnParts
    BY <1>1, <1>2, <2>1
  <2>7. \A w \in c.warnings : w \in answer.warnings
    BY <1>1, <2>1
  <2> DEFINE links == RelationsOf(doc, PresentationPart)
             named == doc.parts[PresentationPart].slides
  <2> SUFFICES ASSUME NEW k \in DOMAIN named, named[k] \in DOMAIN links
               PROVE  LET notes == FindNotesPath(doc, links[named[k]])
                      IN  /\ [slide |-> k] \in OwnParts
                          /\ \/ notes = {Nowhere}
                             \/ [notesOf |-> k] \in OwnParts
                             \/ \E n \in notes : IF Readable(doc, n) THEN doc.parts[n.part].blank
                                                 ELSE \E w \in answer.warnings : w.location = n
    OBVIOUS
  <2>8. LET notes == FindNotesPath(doc, links[named[k]])
        IN  /\ \E m \in DOMAIN c.parts : c.parts[m] = [slide |-> k]
            /\ \/ notes = {Nowhere}
               \/ \E m \in DOMAIN c.parts : c.parts[m] = [notesOf |-> k]
               \/ \E n \in notes : IF Readable(doc, n) THEN doc.parts[n.part].blank
                                   ELSE \E w \in c.warnings : w.location = n
    BY <2>5 DEF SlidesShown
  <2> HIDE DEF doc, links, named
  <2> QED BY <2>6, <2>7, <2>8
<1>4. ASSUME Decided("epub")
      PROVE  LET places(id) == {doc.base \o doc.manifest[i].href :
                                   i \in {j \in DOMAIN doc.manifest : doc.manifest[j].id = id}}
                 warned(category, location) == Warning(category, location) \in answer.warnings
             IN  \A k \in DOMAIN doc.spine :
                 LET id == doc.spine[k]
                     missing == \A p \in places(id) : p \notin DOMAIN doc.members
                 IN  /\ places(id) = {} => \/ warned("missing_manifest_item", [item |-> id])
                                           \/ id \in Unspeakable /\ warned("missing_manifest_item", Nowhere)
                     /\ \A p \in places(id) :
                           IF missing THEN warned("missing_spine_content", [part |-> p])
                           ELSE doc.members[p] = "blank" \/ [chapter |-> k] \in OwnParts
  <2>1. PICK c : c = BookConversion(doc) /\ ShownBy(c, answer, answer.source)
    BY <1>4, DecidedShows DEF BuiltinConversions
  <2>2. doc.spine \in Seq(STRING) /\ \A path \in DOMAIN doc.members : doc.members[path] \in Chapter
    BY <1>4, DecidedShows DEF Wellformed
  <2>3. c.class = "ok"
    BY <1>1, <2>1
  <2>4. SpineShown(doc, c)
    BY <2>1, <2>2, <2>3, BookShows
  <2>5. \A k : (\E m \in DOMAIN c.parts : c.parts[m] = [chapter |-> k]) => [chapter |-> k] \in OwnParts
    BY <1>1, <1>2, <2>1
  <2>6. \A w \in c.warnings : w \in answer.warnings
    BY <1>1, <2>1
  <2> DEFINE places(id) == {doc.base \o doc.manifest[i].href :
                               i \in {j \in DOMAIN doc.manifest : doc.manifest[j].id = id}}
  <2> SUFFICES ASSUME NEW k \in DOMAIN doc.spine
               PROVE  LET id == doc.spine[k]
                          missing == \A p \in places(id) : p \notin DOMAIN doc.members
                      IN  /\ places(id) = {} =>
                                \/ Warning("missing_manifest_item", [item |-> id]) \in answer.warnings
                                \/ id \in Unspeakable /\ Warning("missing_manifest_item", Nowhere) \in answer.warnings
                          /\ \A p \in places(id) :
                                IF missing THEN Warning("missing_spine_content", [part |-> p]) \in answer.warnings
                                ELSE doc.members[p] = "blank" \/ [chapter |-> k] \in OwnParts
    OBVIOUS
  <2>7. LET id == doc.spine[k]
            missing == \A p \in places(id) : p \notin DOMAIN doc.members
        IN  /\ places(id) = {} =>
                  \/ Warning("missing_manifest_item", [item |-> id]) \in c.warnings
                  \/ id \in Unspeakable /\ Warning("missing_manifest_item", Nowhere) \in c.warnings
            /\ \A p \in places(id) :
                  IF missing THEN Warning("missing_spine_content", [part |-> p]) \in c.warnings
                  ELSE \/ doc.members[p] = "blank"
                       \/ \E m \in DOMAIN c.parts : c.parts[m] = [chapter |-> k]
    BY <2>4 DEF SpineShown
  <2> HIDE DEF doc, places
  <2> QED BY <2>5, <2>6, <2>7
<1> QED BY <1>3, <1>4 DEF PartsAreAccountedFor

-----------------------------------------------------------------------------
(* The layout of a text.                                                   *)

LEMMA GreatestNat ==
    ASSUME NEW M \in Nat, NEW T \in SUBSET (1..M), T # {}
    PROVE  \E x \in T : \A y \in T : y <= x
<1> DEFINE U == {M - y : y \in T}
<1>0. \A y \in T : M - y \in Nat
  OBVIOUS
<1>1. U \in SUBSET Nat /\ U # {}
  <2>1. ASSUME NEW v \in U PROVE v \in Nat
    BY <1>0, <2>1
  <2>2. PICK y : y \in T
    OBVIOUS
  <2>3. M - y \in U
    BY <2>2
  <2> HIDE DEF U
  <2> QED BY <2>1, <2>3
<1>2. PICK u \in U : \A v \in U : u <= v
  <2> HIDE DEF U
  <2> QED BY <1>1, LeastNat
<1>3. PICK x \in T : u = M - x
  OBVIOUS
<1>4. \A y \in T : M - x <= M - y
  BY <1>2, <1>3
<1> QED BY <1>4

\* Lines, and the columns of each.
Text(lines) == Len(lines) \in Nat /\ DOMAIN lines = 1..Len(lines)

LEMMA RunEnds ==
    ASSUME NEW lines, Text(lines), NEW i \in 1..Len(lines)
    PROVE  /\ RunEnd(lines, i) \in (i + 1)..(Len(lines) + 1)
           /\ RunEnd(lines, i) # Len(lines) + 1 => Len(lines[RunEnd(lines, i)]) # Len(lines[i])
           /\ \A j \in i..(RunEnd(lines, i) - 1) :
                 /\ Len(lines[j]) = Len(lines[i])
                 /\ RunEnd(lines, j) = RunEnd(lines, i)
<1> DEFINE N == Len(lines)
           S(k) == {j \in k..(N + 1) : j = N + 1 \/ Len(lines[j]) # Len(lines[k])}
           Least(k, e) == /\ e \in k..(N + 1)
                          /\ e = N + 1 \/ Len(lines[e]) # Len(lines[k])
                          /\ \A j \in k..(e - 1) : j # N + 1 /\ Len(lines[j]) = Len(lines[k])
<1>1. N \in Nat /\ i \in 1..N
  BY DEF Text
<1>2. ASSUME NEW k \in 1..N
      PROVE  /\ Least(k, RunEnd(lines, k))
             /\ \A e : Least(k, e) => RunEnd(lines, k) = e
  <2>1. RunEnd(lines, k) = CHOOSE e \in S(k) : \A j \in S(k) : e <= j
    BY DEF RunEnd, Min
  <2>2. S(k) \in SUBSET Nat /\ N + 1 \in S(k)
    BY <1>1
  <2>3. RunEnd(lines, k) \in S(k) /\ \A j \in S(k) : RunEnd(lines, k) <= j
    <3> HIDE DEF S
    <3>1. \E e \in S(k) : \A j \in S(k) : e <= j
      BY <2>2, LeastNat
    <3> QED BY <2>1, <3>1
  <2>4. PICK r : r = RunEnd(lines, k)
    OBVIOUS
  <2>5. Least(k, r)
    <3>1. r \in k..(N + 1) /\ (r = N + 1 \/ Len(lines[r]) # Len(lines[k]))
      BY <2>3, <2>4
    <3>2. ASSUME NEW j \in k..(r - 1) PROVE j # N + 1 /\ Len(lines[j]) = Len(lines[k])
      <4>1. j \in k..(N + 1) /\ ~(r <= j)
        BY <1>1, <3>1, <3>2
      <4>2. j \notin S(k)
        <5> HIDE DEF S
        <5> QED BY <2>3, <2>4, <4>1
      <4> QED BY <4>1, <4>2
    <3> QED BY <3>1, <3>2
  <2>6. ASSUME NEW e, Least(k, e) PROVE r = e
    <3>1. r <= e
      <4>1. e \in S(k)
        BY <2>6
      <4> HIDE DEF S
      <4> QED BY <2>3, <2>4, <4>1
    <3>2. ~(r <= e - 1)
      <4> SUFFICES ASSUME r <= e - 1 PROVE FALSE
        OBVIOUS
      <4>1. r \in k..(e - 1) /\ r # N + 1 /\ Len(lines[r]) = Len(lines[k])
        BY <1>1, <2>5, <2>6
      <4> QED BY <2>5, <4>1
    <3> QED BY <1>1, <2>5, <2>6, <3>1, <3>2
  <2> QED BY <2>4, <2>5, <2>6
<1>3. PICK e : e = RunEnd(lines, i) /\ Least(i, e)
  BY <1>1, <1>2
<1>4. e # i
  BY <1>1, <1>3
<1>5. e \in (i + 1)..(N + 1)
  BY <1>1, <1>3, <1>4
<1>6. ASSUME NEW j \in i..(e - 1) PROVE Len(lines[j]) = Len(lines[i]) /\ RunEnd(lines, j) = e
  <2>1. j \in 1..N /\ Len(lines[j]) = Len(lines[i])
    BY <1>1, <1>3, <1>6
  <2>2. Least(j, e)
    BY <1>1, <1>3, <1>6, <2>1
  <2> HIDE DEF Least
  <2> QED BY <1>2, <2>1, <2>2
<1> QED BY <1>3, <1>5, <1>6

-----------------------------------------------------------------------------
Tabular(lines, k) == LooksTabular(SubSeq(lines, k, RunEnd(lines, k) - 1))

\* What is laid out from line i on: the paragraphs, and the tables.
ParagraphsFrom(lines, i) ==
    {k \in i..Len(lines) : Len(lines[k]) = 1 /\ (k = i \/ Len(lines[k - 1]) # 1)}

TablesFrom(lines, i) ==
    {k \in i..Len(lines) : /\ Tabular(lines, k)
                           /\ \A j \in i..(k - 1) :
                                 RunEnd(lines, j) = RunEnd(lines, k) => ~Tabular(lines, j)}

Lines(lines, k) == k..(RunEnd(lines, k) - 1)

BlocksFrom(lines, i) ==
    {[paragraph |-> Lines(lines, k)] : k \in ParagraphsFrom(lines, i)}
    \cup {[table |-> Lines(lines, k)] : k \in TablesFrom(lines, i)}

LEMMA TabularIsWide ==
    ASSUME NEW lines, Text(lines), NEW k \in 1..Len(lines), Tabular(lines, k)
    PROVE  Len(lines[k]) >= 2 /\ Len(lines[k]) # 1
<1>1. RunEnd(lines, k) \in (k + 1)..(Len(lines) + 1)
  BY RunEnds
<1>2. PICK e : e = RunEnd(lines, k)
  OBVIOUS
<1>3. PICK run : run = SubSeq(lines, k, e - 1)
  OBVIOUS
<1>4. run[1] = lines[k]
  <2>1. k \in Int /\ e \in Int /\ 1 \in 1..((e - 1) - k + 1) /\ 1 + k - 1 = k
    BY <1>1, <1>2 DEF Text
  <2> QED BY <1>3, <2>1 DEF SubSeq
<1>5. LooksTabular(run)
  BY <1>2, <1>3 DEF Tabular
<1>6. Len(run[1]) \in 2..MaxTableWidth
  BY <1>5 DEF LooksTabular
<1>7. \A n \in 2..MaxTableWidth : n >= 2 /\ n # 1
  BY PdfAssumption
<1> QED BY <1>4, <1>6, <1>7

\* One step of the layout.
LEMMA LayoutStep ==
    ASSUME NEW lines, Text(lines), NEW i \in 1..Len(lines)
    PROVE  /\ Len(lines[i]) = 1 =>
                 BlocksFrom(lines, i) = {[paragraph |-> Lines(lines, i)]} \cup BlocksFrom(lines, RunEnd(lines, i))
           /\ Tabular(lines, i) =>
                 BlocksFrom(lines, i) = {[table |-> Lines(lines, i)]} \cup BlocksFrom(lines, RunEnd(lines, i))
           /\ Len(lines[i]) # 1 /\ ~Tabular(lines, i) =>
                 BlocksFrom(lines, i) = BlocksFrom(lines, i + 1)
<1> DEFINE N == Len(lines)
           e(k) == RunEnd(lines, k)
           w(k) == Len(lines[k])
<1>1. PICK r : r = RunEnd(lines, i)
  OBVIOUS
<1>2. /\ N \in Nat /\ i \in 1..N /\ r \in (i + 1)..(N + 1)
      /\ r # N + 1 => w(r) # w(i)
      /\ \A j \in i..(r - 1) : w(j) = w(i) /\ e(j) = r
  <2>1. N \in Nat
    BY DEF Text
  <2>2. /\ RunEnd(lines, i) \in (i + 1)..(Len(lines) + 1)
        /\ RunEnd(lines, i) # Len(lines) + 1 => Len(lines[RunEnd(lines, i)]) # Len(lines[i])
        /\ \A j \in i..(RunEnd(lines, i) - 1) :
              /\ Len(lines[j]) = Len(lines[i])
              /\ RunEnd(lines, j) = RunEnd(lines, i)
    BY RunEnds
  <2> QED BY <1>1, <2>1, <2>2
<1>3. \A k \in 1..N : e(k) \in (k + 1)..(N + 1)
  BY RunEnds
<1>4. ASSUME NEW k \in 1..N, Tabular(lines, k) PROVE w(k) # 1
  <2>1. k \in 1..Len(lines)
    BY DEF N
  <2>2. Len(lines[k]) # 1
    BY <1>4, <2>1, TabularIsWide
  <2> QED BY <2>2 DEF w
<1> HIDE DEF N, e, w
<1>5. ASSUME w(i) = 1
      PROVE  /\ ParagraphsFrom(lines, i) = {i} \cup ParagraphsFrom(lines, r)
             /\ TablesFrom(lines, i) = TablesFrom(lines, r)
  <2>1. ASSUME NEW k
        PROVE  k \in ParagraphsFrom(lines, i) <=> k = i \/ k \in ParagraphsFrom(lines, r)
    <3>1. k \in ParagraphsFrom(lines, i) <=> k \in i..N /\ w(k) = 1 /\ (k = i \/ w(k - 1) # 1)
      BY DEF ParagraphsFrom, N, w
    <3>2. k \in ParagraphsFrom(lines, r) <=> k \in r..N /\ w(k) = 1 /\ (k = r \/ w(k - 1) # 1)
      BY DEF ParagraphsFrom, N, w
    <3>3. k \in (i + 1)..(r - 1) => w(k - 1) = 1
      BY <1>2, <1>5
    <3>4. k = r /\ k # N + 1 => w(k) # 1
      BY <1>2, <1>5
    <3> QED BY <1>2, <1>5, <3>1, <3>2, <3>3, <3>4
  <2>2. ASSUME NEW k
        PROVE  k \in TablesFrom(lines, i) <=> k \in TablesFrom(lines, r)
    <3>1. k \in TablesFrom(lines, i) <=> /\ k \in i..N /\ Tabular(lines, k)
                                         /\ \A j \in i..(k - 1) : e(j) = e(k) => ~Tabular(lines, j)
      BY DEF TablesFrom, N, e
    <3>2. k \in TablesFrom(lines, r) <=> /\ k \in r..N /\ Tabular(lines, k)
                                         /\ \A j \in r..(k - 1) : e(j) = e(k) => ~Tabular(lines, j)
      BY DEF TablesFrom, N, e
    <3>3. k \in i..(r - 1) => ~Tabular(lines, k)
      BY <1>2, <1>4, <1>5
    <3>4. ASSUME k \in r..N
          PROVE  \A j \in i..(k - 1) : j \in r..(k - 1) \/ e(j) # e(k)
      BY <1>2, <1>3, <3>4
    <3>5. ASSUME k \in r..N
          PROVE  \A j \in r..(k - 1) : j \in i..(k - 1)
      BY <1>2, <3>5
    <3> QED BY <1>2, <3>1, <3>2, <3>3, <3>4, <3>5
  <2> QED BY <2>1, <2>2
<1>6. ASSUME Tabular(lines, i)
      PROVE  /\ ParagraphsFrom(lines, i) = ParagraphsFrom(lines, r)
             /\ TablesFrom(lines, i) = {i} \cup TablesFrom(lines, r)
  <2>0. w(i) # 1
    BY <1>2, <1>4, <1>6
  <2>1. ASSUME NEW k
        PROVE  k \in ParagraphsFrom(lines, i) <=> k \in ParagraphsFrom(lines, r)
    <3>1. k \in ParagraphsFrom(lines, i) <=> k \in i..N /\ w(k) = 1 /\ (k = i \/ w(k - 1) # 1)
      BY DEF ParagraphsFrom, N, w
    <3>2. k \in ParagraphsFrom(lines, r) <=> k \in r..N /\ w(k) = 1 /\ (k = r \/ w(k - 1) # 1)
      BY DEF ParagraphsFrom, N, w
    <3>3. k \in i..(r - 1) => w(k) # 1
      BY <1>2, <2>0
    <3>4. k = r => w(k - 1) # 1
      BY <1>2, <2>0
    <3> QED BY <1>2, <3>1, <3>2, <3>3, <3>4
  <2>2. ASSUME NEW k
        PROVE  k \in TablesFrom(lines, i) <=> k = i \/ k \in TablesFrom(lines, r)
    <3>1. k \in TablesFrom(lines, i) <=> /\ k \in i..N /\ Tabular(lines, k)
                                         /\ \A j \in i..(k - 1) : e(j) = e(k) => ~Tabular(lines, j)
      BY DEF TablesFrom, N, e
    <3>2. k \in TablesFrom(lines, r) <=> /\ k \in r..N /\ Tabular(lines, k)
                                         /\ \A j \in r..(k - 1) : e(j) = e(k) => ~Tabular(lines, j)
      BY DEF TablesFrom, N, e
    <3>3. k \in (i + 1)..(r - 1) => i \in i..(k - 1) /\ e(i) = e(k)
      BY <1>2
    <3>4. ASSUME k \in r..N
          PROVE  \A j \in i..(k - 1) : j \in r..(k - 1) \/ e(j) # e(k)
      BY <1>2, <1>3, <3>4
    <3>5. ASSUME k \in r..N
          PROVE  \A j \in r..(k - 1) : j \in i..(k - 1)
      BY <1>2, <3>5
    <3>6. i..(i - 1) = {}
      BY <1>2
    <3> QED BY <1>2, <1>6, <3>1, <3>2, <3>3, <3>4, <3>5, <3>6
  <2> QED BY <2>1, <2>2
<1>7. ASSUME w(i) # 1, ~Tabular(lines, i)
      PROVE  /\ ParagraphsFrom(lines, i) = ParagraphsFrom(lines, i + 1)
             /\ TablesFrom(lines, i) = TablesFrom(lines, i + 1)
  <2>1. ASSUME NEW k
        PROVE  k \in ParagraphsFrom(lines, i) <=> k \in ParagraphsFrom(lines, i + 1)
    <3>1. k \in ParagraphsFrom(lines, i) <=> k \in i..N /\ w(k) = 1 /\ (k = i \/ w(k - 1) # 1)
      BY DEF ParagraphsFrom, N, w
    <3>2. k \in ParagraphsFrom(lines, i + 1) <=> k \in (i + 1)..N /\ w(k) = 1 /\ (k = i + 1 \/ w(k - 1) # 1)
      BY DEF ParagraphsFrom, N, w
    <3>3. k = i + 1 => w(k - 1) # 1
      BY <1>2, <1>7
    <3> QED BY <1>2, <1>7, <3>1, <3>2, <3>3
  <2>2. ASSUME NEW k
        PROVE  k \in TablesFrom(lines, i) <=> k \in TablesFrom(lines, i + 1)
    <3>1. k \in TablesFrom(lines, i) <=> /\ k \in i..N /\ Tabular(lines, k)
                                         /\ \A j \in i..(k - 1) : e(j) = e(k) => ~Tabular(lines, j)
      BY DEF TablesFrom, N, e
    <3>2. k \in TablesFrom(lines, i + 1) <=> /\ k \in (i + 1)..N /\ Tabular(lines, k)
                                             /\ \A j \in (i + 1)..(k - 1) : e(j) = e(k) => ~Tabular(lines, j)
      BY DEF TablesFrom, N, e
    <3>3. k \in i..N => \A j : j \in i..(k - 1) <=> j \in (i + 1)..(k - 1) \/ (j = i /\ k # i)
      BY <1>2
    <3>4. k \in i..N <=> k \in (i + 1)..N \/ k = i
      BY <1>2
    <3> QED BY <1>7, <3>1, <3>2, <3>3, <3>4
  <2> QED BY <2>1, <2>2
<1>8. CASE w(i) = 1
  <2>1. ~Tabular(lines, i)
    BY <1>2, <1>4, <1>8
  <2> QED BY <1>1, <1>5, <1>8, <2>1 DEF BlocksFrom, w
<1>9. CASE Tabular(lines, i)
  <2>1. w(i) # 1
    BY <1>2, <1>4, <1>9
  <2> QED BY <1>1, <1>6, <1>9, <2>1 DEF BlocksFrom, w
<1>10. CASE w(i) # 1 /\ ~Tabular(lines, i)
  BY <1>7, <1>10 DEF BlocksFrom, w
<1> QED BY <1>8, <1>9, <1>10

-----------------------------------------------------------------------------
\* What layoutToMarkdown lays out from line i on, given what it lays out
\* from every later line on.
LaidOutFrom(lines, f, i) ==
    IF i > Len(lines) THEN <<>>
    ELSE LET end == RunEnd(lines, i)
         IN  CASE Len(lines[i]) = 1 -> <<[paragraph |-> i..(end - 1)]>> \o f[end]
               [] LooksTabular(SubSeq(lines, i, end - 1)) ->
                      <<[table |-> i..(end - 1)]>> \o f[end]
               [] OTHER -> f[i + 1]

\* It looks only ahead.
LEMMA LaidOutAhead ==
    ASSUME NEW lines, Text(lines), NEW i \in 1..(Len(lines) + 1), NEW f, NEW g,
           \A j \in (i + 1)..(Len(lines) + 1) : f[j] = g[j]
    PROVE  LaidOutFrom(lines, f, i) = LaidOutFrom(lines, g, i)
<1>1. Len(lines) \in Nat
  BY DEF Text
<1>2. CASE i > Len(lines)
  BY <1>2 DEF LaidOutFrom
<1>3. CASE ~(i > Len(lines))
  <2>1. i \in 1..Len(lines)
    BY <1>1, <1>3
  <2>2. RunEnd(lines, i) \in (i + 1)..(Len(lines) + 1)
    BY <2>1, RunEnds
  <2>3. i + 1 \in (i + 1)..(Len(lines) + 1)
    BY <1>1, <2>1
  <2>4. f[RunEnd(lines, i)] = g[RunEnd(lines, i)] /\ f[i + 1] = g[i + 1]
    BY <2>2, <2>3
  <2> QED BY <1>3, <2>4 DEF LaidOutFrom
<1> QED BY <1>2, <1>3

LEMMA LayoutIsLaidOut ==
    ASSUME NEW lines, Text(lines)
    PROVE  \E rest : /\ \A i \in 1..(Len(lines) + 1) : rest[i] = LaidOutFrom(lines, rest, i)
                     /\ Layout(lines) = rest[1]
<1> DEFINE Laid(f, m) == f = [i \in m..(Len(lines) + 1) |-> LaidOutFrom(lines, f, i)]
<1>1. PICK N \in Nat : N = Len(lines)
  BY DEF Text
<1>2. \A m \in 1..(N + 1) : \E f : Laid(f, m)
  <2> SUFFICES ASSUME NEW x \in 1..(N + 1), ~ \E f : Laid(f, x) PROVE FALSE
    OBVIOUS
  <2> DEFINE Wrong == {m \in 1..(N + 1) : ~ \E f : Laid(f, m)}
  <2>1. PICK m \in Wrong : \A y \in Wrong : y <= m
    <3> HIDE DEF Laid
    <3>1. Wrong \in SUBSET (1..(N + 1)) /\ x \in Wrong /\ N + 1 \in Nat
      OBVIOUS
    <3> HIDE DEF Wrong
    <3> QED BY <3>1, GreatestNat
  <2>2. CASE m = N + 1
    <3>1. PICK f : f = [i \in (N + 1)..(N + 1) |-> <<>>]
      OBVIOUS
    <3>2. \A i \in (N + 1)..(N + 1) : LaidOutFrom(lines, f, i) = <<>>
      BY <1>1 DEF LaidOutFrom
    <3>3. Laid(f, N + 1)
      BY <1>1, <3>1, <3>2
    <3> QED BY <2>1, <2>2, <3>3
  <2>3. CASE m # N + 1
    <3>1. m \in 1..N /\ m + 1 \in 1..(N + 1) /\ ~(m + 1 <= m)
      BY <2>1, <2>3
    <3>2. PICK g : Laid(g, m + 1)
      <4> HIDE DEF Laid
      <4> QED BY <2>1, <3>1
    <3>3. PICK f : f = [i \in m..(N + 1) |-> IF i = m THEN LaidOutFrom(lines, g, m) ELSE g[i]]
      OBVIOUS
    <3>4. \A i \in (m + 1)..(N + 1) : f[i] = g[i] /\ g[i] = LaidOutFrom(lines, g, i)
      <4>1. g = [i \in (m + 1)..(N + 1) |-> LaidOutFrom(lines, g, i)]
        BY <1>1, <3>2
      <4>2. \A i \in (m + 1)..(N + 1) : i \in m..(N + 1) /\ i # m
        BY <3>1
      <4> QED BY <3>3, <4>1, <4>2
    <3>5. ASSUME NEW i \in m..(N + 1) PROVE f[i] = LaidOutFrom(lines, f, i)
      <4>1. \A j \in (i + 1)..(N + 1) : j \in (m + 1)..(N + 1)
        BY <3>1, <3>5
      <4>2. i \in 1..(Len(lines) + 1) /\ \A j \in (i + 1)..(Len(lines) + 1) : f[j] = g[j]
        BY <1>1, <3>1, <3>4, <4>1
      <4>3. LaidOutFrom(lines, f, i) = LaidOutFrom(lines, g, i)
        BY <4>2, LaidOutAhead
      <4>4. CASE i = m
        BY <3>3, <4>3, <4>4
      <4>5. CASE i # m
        <5>1. i \in (m + 1)..(N + 1)
          BY <3>1, <4>5
        <5> QED BY <3>4, <4>3, <5>1
      <4> QED BY <4>4, <4>5
    <3>6. Laid(f, m)
      <4>1. DOMAIN f = m..(Len(lines) + 1) /\ f = [i \in DOMAIN f |-> f[i]]
        BY <1>1, <3>3
      <4> QED BY <1>1, <3>5, <4>1
    <3> QED BY <2>1, <3>6
  <2> QED BY <2>2, <2>3
<1>3. Layout(lines) = (CHOOSE f : Laid(f, 1))[1]
  BY DEF Layout, LaidOutFrom
<1>4. PICK rest : Laid(rest, 1) /\ Layout(lines) = rest[1]
  <2>1. 1 \in 1..(N + 1)
    BY <1>1
  <2> HIDE DEF Laid
  <2> QED BY <1>2, <1>3, <2>1
<1>5. \A i \in 1..(Len(lines) + 1) : rest[i] = LaidOutFrom(lines, rest, i)
  BY <1>4
<1> QED BY <1>4, <1>5

-----------------------------------------------------------------------------
\* A block put before a list of blocks.
LEMMA BlockFirst ==
    ASSUME NEW B, NEW s \in Seq(B), ToSet(s) = B, NEW b
    PROVE  /\ <<b>> \o s \in Seq({b} \cup B)
           /\ ToSet(<<b>> \o s) = {b} \cup B
<1>1. s \in Seq({b} \cup B) /\ <<b>> \in Seq({b} \cup B)
  OBVIOUS
<1>2. PICK t \in Seq({b} \cup B) : t = <<b>> \o s
  <2>1. PICK C : C = {b} \cup B
    OBVIOUS
  <2>2. s \in Seq(C) /\ <<b>> \in Seq(C)
    BY <1>1, <2>1
  <2>3. <<b>> \o s \in Seq(C)
    BY <2>2
  <2> QED BY <2>1, <2>3
<1>3. Len(t) = Len(s) + 1 /\ Len(s) \in Nat /\ DOMAIN s = 1..Len(s) /\ DOMAIN t = 1..Len(t)
  BY <1>2
<1>4. t[1] = b /\ \A j \in 1..Len(s) : t[j + 1] = s[j]
  BY <1>2
<1>5. ASSUME NEW x \in {b} \cup B PROVE \E j \in DOMAIN t : t[j] = x
  <2>1. CASE x = b
    BY <1>3, <1>4, <2>1
  <2>2. CASE x \in B
    <3>1. PICK j \in DOMAIN s : s[j] = x
      BY <2>2 DEF ToSet
    <3>2. j + 1 \in DOMAIN t
      BY <1>3
    <3> QED BY <1>3, <1>4, <3>1, <3>2
  <2> QED BY <2>1, <2>2
<1>6. \A j \in DOMAIN t : t[j] \in {b} \cup B
  BY <1>2
<1>7. ToSet(t) = {b} \cup B
  BY <1>5, <1>6 DEF ToSet
<1> QED BY <1>2, <1>7

\* What is laid out.
LEMMA LayoutShows ==
    ASSUME NEW lines, Text(lines)
    PROVE  /\ Layout(lines) \in Seq(BlocksFrom(lines, 1))
           /\ ToSet(Layout(lines)) = BlocksFrom(lines, 1)
<1> DEFINE Good(s, i) == s \in Seq(BlocksFrom(lines, i)) /\ ToSet(s) = BlocksFrom(lines, i)
<1>1. PICK N \in Nat : N = Len(lines)
  BY DEF Text
<1>2. PICK rest : /\ \A i \in 1..(N + 1) : rest[i] = LaidOutFrom(lines, rest, i)
                  /\ Layout(lines) = rest[1]
  BY <1>1, LayoutIsLaidOut
<1>3. \A i \in 1..(N + 1) : Good(rest[i], i)
  <2> SUFFICES ASSUME NEW x \in 1..(N + 1), ~Good(rest[x], x) PROVE FALSE
    OBVIOUS
  <2> DEFINE Wrong == {i \in 1..(N + 1) : ~Good(rest[i], i)}
  <2>1. PICK i \in Wrong : \A y \in Wrong : y <= i
    <3> HIDE DEF Good
    <3>1. Wrong \in SUBSET (1..(N + 1)) /\ x \in Wrong /\ N + 1 \in Nat
      OBVIOUS
    <3> HIDE DEF Wrong
    <3> QED BY <3>1, GreatestNat
  <2>2. i \in 1..(N + 1) /\ ~Good(rest[i], i)
    BY <2>1
  <2>3. \A j \in (i + 1)..(N + 1) : Good(rest[j], j)
    <3> SUFFICES ASSUME NEW j \in (i + 1)..(N + 1), ~Good(rest[j], j) PROVE FALSE
      OBVIOUS
    <3>1. j \in 1..(N + 1) /\ ~(j <= i)
      BY <2>2
    <3> HIDE DEF Good
    <3> QED BY <2>1, <3>1
  <2>4. CASE i = N + 1
    <3>1. (N + 1)..N = {} /\ N + 1 > Len(lines)
      BY <1>1
    <3>2. BlocksFrom(lines, i) = {}
      BY <1>1, <2>4, <3>1 DEF BlocksFrom, ParagraphsFrom, TablesFrom
    <3>3. rest[i] = <<>>
      BY <1>2, <2>2, <2>4, <3>1 DEF LaidOutFrom
    <3>4. <<>> \in Seq({}) /\ ToSet(<<>>) = {}
      BY DEF ToSet
    <3> QED BY <2>2, <3>2, <3>3, <3>4
  <2>5. CASE i # N + 1
    <3>1. i \in 1..N /\ i \in 1..Len(lines) /\ ~(i > Len(lines)) /\ i + 1 \in (i + 1)..(N + 1)
      BY <1>1, <2>2, <2>5
    <3>2. PICK end \in (i + 1)..(N + 1) : end = RunEnd(lines, i)
      BY <1>1, <3>1, RunEnds
    <3>3. rest[i] = CASE Len(lines[i]) = 1 -> <<[paragraph |-> i..(end - 1)]>> \o rest[end]
                      [] LooksTabular(SubSeq(lines, i, end - 1)) ->
                             <<[table |-> i..(end - 1)]>> \o rest[end]
                      [] OTHER -> rest[i + 1]
      BY <1>2, <2>2, <3>1, <3>2 DEF LaidOutFrom
    <3>4. Lines(lines, i) = i..(end - 1) /\ (Tabular(lines, i) <=> LooksTabular(SubSeq(lines, i, end - 1)))
      BY <3>2 DEF Lines, Tabular
    <3>5. CASE Len(lines[i]) = 1
      <4>1. rest[i] = <<[paragraph |-> Lines(lines, i)]>> \o rest[end]
        <5>1. ~Tabular(lines, i)
          BY <3>1, <3>5, TabularIsWide
        <5> QED BY <3>3, <3>4, <3>5, <5>1
      <4>2. BlocksFrom(lines, i) = {[paragraph |-> Lines(lines, i)]} \cup BlocksFrom(lines, end)
        BY <3>1, <3>2, <3>5, LayoutStep
      <4>3. Good(rest[end], end)
        BY <2>3
      <4>4. Good(rest[i], i)
        <5>1. PICK B : B = BlocksFrom(lines, end)
          OBVIOUS
        <5>2. PICK t : t = rest[end]
          OBVIOUS
        <5>3. PICK b : b = [paragraph |-> Lines(lines, i)]
          OBVIOUS
        <5>4. t \in Seq(B) /\ ToSet(t) = B
          BY <4>3, <5>1, <5>2
        <5>5. <<b>> \o t \in Seq({b} \cup B) /\ ToSet(<<b>> \o t) = {b} \cup B
          BY <5>4, BlockFirst
        <5> QED BY <4>1, <4>2, <5>1, <5>2, <5>3, <5>5
      <4> QED BY <2>2, <4>4
    <3>6. CASE Tabular(lines, i)
      <4>1. rest[i] = <<[table |-> Lines(lines, i)]>> \o rest[end]
        <5>1. Len(lines[i]) # 1
          BY <3>1, <3>6, TabularIsWide
        <5> QED BY <3>3, <3>4, <3>6, <5>1
      <4>2. BlocksFrom(lines, i) = {[table |-> Lines(lines, i)]} \cup BlocksFrom(lines, end)
        BY <3>1, <3>2, <3>6, LayoutStep
      <4>3. Good(rest[end], end)
        BY <2>3
      <4>4. Good(rest[i], i)
        <5>1. PICK B : B = BlocksFrom(lines, end)
          OBVIOUS
        <5>2. PICK t : t = rest[end]
          OBVIOUS
        <5>3. PICK b : b = [table |-> Lines(lines, i)]
          OBVIOUS
        <5>4. t \in Seq(B) /\ ToSet(t) = B
          BY <4>3, <5>1, <5>2
        <5>5. <<b>> \o t \in Seq({b} \cup B) /\ ToSet(<<b>> \o t) = {b} \cup B
          BY <5>4, BlockFirst
        <5> QED BY <4>1, <4>2, <5>1, <5>2, <5>3, <5>5
      <4> QED BY <2>2, <4>4
    <3>7. CASE Len(lines[i]) # 1 /\ ~Tabular(lines, i)
      <4>1. rest[i] = rest[i + 1]
        BY <3>3, <3>4, <3>7
      <4>2. BlocksFrom(lines, i) = BlocksFrom(lines, i + 1)
        BY <3>1, <3>7, LayoutStep
      <4>3. Good(rest[i + 1], i + 1)
        BY <2>3, <3>1
      <4> QED BY <2>2, <4>1, <4>2, <4>3
    <3> QED BY <3>5, <3>6, <3>7
  <2> QED BY <2>4, <2>5
<1>4. Good(rest[1], 1)
  BY <1>3
<1> QED BY <1>2, <1>4

-----------------------------------------------------------------------------
\* The least member of a set is its minimum.
LEMMA MinIs ==
    ASSUME NEW T \in SUBSET Nat, NEW x \in T, \A y \in T : x <= y
    PROVE  Min(T) = x
<1>1. Min(T) \in T /\ \A y \in T : Min(T) <= y
  BY DEF Min
<1>2. PICK m \in Nat : m = Min(T)
  BY <1>1
<1> QED BY <1>1, <1>2

LEMMA MinOf ==
    ASSUME NEW T \in SUBSET Nat, T # {}
    PROVE  Min(T) \in T /\ \A y \in T : Min(T) <= y
BY LeastNat, MinIs

TableStarts(lines, s) == {k \in s[1]..s[2] : LooksTabular(SubSeq(lines, k, s[2]))}

\* The lines of a stretch are those whose run ends where it does.
LEMMA StretchRuns ==
    ASSUME NEW lines, Text(lines), NEW s \in Stretches(lines)
    PROVE  /\ s[1] \in 1..Len(lines) /\ s[2] \in s[1]..Len(lines)
           /\ \A j \in s[1]..s[2] : Len(lines[j]) = Len(lines[s[1]])
           /\ \A j \in 1..Len(lines) : RunEnd(lines, j) = s[2] + 1 <=> j \in s[1]..s[2]
           /\ s[1] = 1 \/ Len(lines[s[1] - 1]) # Len(lines[s[1]])
<1> DEFINE e(k) == RunEnd(lines, k)
           w(k) == Len(lines[k])
<1>1. PICK N \in Nat : N = Len(lines) /\ DOMAIN lines = 1..N
  BY DEF Text
<1>2. PICK a \in 1..N, b \in 1..N :
         /\ s[1] = a /\ s[2] = b /\ b \in a..N
         /\ \A j \in a..b : w(j) = w(a)
         /\ a = 1 \/ w(a - 1) # w(a)
         /\ b = N \/ w(b + 1) # w(a)
  <2>1. s[1] \in 1..N /\ s[2] \in 1..N /\ s[1] <= s[2]
    BY <1>1 DEF Stretches
  <2>2. s[2] \in s[1]..N
    BY <2>1
  <2> QED BY <1>1, <2>1, <2>2 DEF Stretches
<1>3. \A k \in 1..N : /\ e(k) \in (k + 1)..(N + 1)
                      /\ e(k) # N + 1 => w(e(k)) # w(k)
                      /\ \A j \in k..(e(k) - 1) : w(j) = w(k)
  <2> SUFFICES ASSUME NEW k \in 1..N
               PROVE  /\ e(k) \in (k + 1)..(N + 1)
                      /\ e(k) # N + 1 => w(e(k)) # w(k)
                      /\ \A j \in k..(e(k) - 1) : w(j) = w(k)
    OBVIOUS
  <2>1. /\ e(k) \in (k + 1)..(Len(lines) + 1)
        /\ e(k) # Len(lines) + 1 => w(e(k)) # w(k)
        /\ \A j \in k..(e(k) - 1) : w(j) = w(k)
    <3>1. k \in 1..Len(lines)
      BY <1>1
    <3> QED BY <3>1, RunEnds
  <2> QED BY <1>1, <2>1
<1> HIDE DEF e, w
<1>4. ASSUME NEW j \in a..b PROVE e(j) = b + 1
  <2>1. j \in 1..N /\ w(j) = w(a)
    BY <1>2
  <2>2. PICK z : z = e(j)
    OBVIOUS
  <2>3. /\ z \in (j + 1)..(N + 1)
        /\ z # N + 1 => w(z) # w(j)
        /\ \A y \in j..(z - 1) : w(y) = w(j)
    BY <1>3, <2>1, <2>2
  <2>4. ~(z <= b)
    <3> SUFFICES ASSUME z <= b PROVE FALSE
      OBVIOUS
    <3>1. z \in a..b /\ z # N + 1
      BY <1>2, <2>3
    <3> QED BY <1>2, <2>1, <2>3, <3>1
  <2>5. ~(z > b + 1)
    <3> SUFFICES ASSUME z > b + 1 PROVE FALSE
      OBVIOUS
    <3>1. b + 1 \in j..(z - 1) /\ b # N
      BY <1>2, <2>3
    <3> QED BY <1>2, <2>1, <2>3, <3>1
  <2> QED BY <2>2, <2>3, <2>4, <2>5
<1>5. ASSUME NEW j \in 1..N, e(j) = b + 1 PROVE j \in a..b
  <2>1. j <= b /\ \A y \in j..b : w(y) = w(j)
    BY <1>2, <1>3, <1>5
  <2>2. ~(j < a)
    <3> SUFFICES ASSUME j < a PROVE FALSE
      OBVIOUS
    <3>1. a - 1 \in j..b /\ a \in j..b /\ a # 1
      BY <1>2
    <3> QED BY <1>2, <2>1, <3>1
  <2> QED BY <2>1, <2>2
<1> QED BY <1>1, <1>2, <1>4, <1>5 DEF e, w

\* Every line is in a stretch.
LEMMA StretchOf ==
    ASSUME NEW lines, Text(lines), NEW k \in 1..Len(lines)
    PROVE  \E s \in Stretches(lines) : k \in s[1]..s[2] /\ RunEnd(lines, k) = s[2] + 1
<1> DEFINE e(i) == RunEnd(lines, i)
           w(i) == Len(lines[i])
           Together == {j \in 1..k : e(j) = e(k)}
<1>1. PICK N \in Nat : N = Len(lines) /\ DOMAIN lines = 1..N
  BY DEF Text
<1>2. \A i \in 1..N : /\ e(i) \in (i + 1)..(N + 1)
                      /\ e(i) # N + 1 => w(e(i)) # w(i)
                      /\ \A j \in i..(e(i) - 1) : w(j) = w(i) /\ e(j) = e(i)
  BY <1>1, RunEnds
<1> HIDE DEF e, w
<1>3. PICK a \in Together : \A j \in Together : a <= j
  <2>1. Together \in SUBSET Nat /\ k \in Together
    BY <1>1
  <2> HIDE DEF Together
  <2> QED BY <2>1, LeastNat
<1>4. PICK z : z = e(k)
  OBVIOUS
<1>5. a \in 1..k /\ e(a) = z /\ k \in 1..N
  BY <1>1, <1>3, <1>4
<1>6. /\ z \in (k + 1)..(N + 1)
      /\ z # N + 1 => w(z) # w(a)
      /\ \A j \in a..(z - 1) : w(j) = w(a)
  BY <1>1, <1>2, <1>4, <1>5
<1>7. a = 1 \/ w(a - 1) # w(a)
  <2> SUFFICES ASSUME a # 1, w(a - 1) = w(a) PROVE FALSE
    OBVIOUS
  <2>1. a - 1 \in 1..N /\ a - 1 \in 1..k /\ ~(a <= a - 1)
    BY <1>5
  <2>2. PICK y : y = e(a - 1)
    OBVIOUS
  <2>3. /\ y \in a..(N + 1)
        /\ y # N + 1 => w(y) # w(a - 1)
        /\ \A j \in (a - 1)..(y - 1) : e(j) = y
    <3>1. (a - 1) + 1 = a
      BY <1>5
    <3> QED BY <1>2, <2>1, <2>2, <3>1
  <2>4. y # a
    BY <1>5, <2>3
  <2>5. a \in (a - 1)..(y - 1)
    BY <1>5, <2>3, <2>4
  <2>6. e(a - 1) = e(k)
    BY <1>4, <1>5, <2>2, <2>3, <2>5
  <2> QED BY <1>3, <2>1, <2>6
<1>8. PICK s : s = <<a, z - 1>>
  OBVIOUS
<1>9. s[1] = a /\ s[2] = z - 1 /\ z - 1 \in 1..N /\ a \in 1..N /\ a <= z - 1 /\ k \in a..(z - 1)
      /\ (z - 1) + 1 = z
  BY <1>5, <1>6, <1>8
<1>10. z - 1 = N \/ w(z) # w(a)
  BY <1>6, <1>9
<1>11. s \in Stretches(lines)
  <2>1. s \in (DOMAIN lines) \X (DOMAIN lines)
    BY <1>1, <1>8, <1>9
  <2>2. /\ s[1] <= s[2]
        /\ \A i \in s[1]..s[2] : Len(lines[i]) = Len(lines[s[1]])
        /\ s[1] = 1 \/ Len(lines[s[1] - 1]) # Len(lines[s[1]])
        /\ s[2] = Len(lines) \/ Len(lines[s[2] + 1]) # Len(lines[s[1]])
    BY <1>1, <1>6, <1>7, <1>9, <1>10 DEF w
  <2> QED BY <2>1, <2>2 DEF Stretches
<1> QED BY <1>4, <1>9, <1>11 DEF e

\* What is laid out of a text, stretch by stretch.
LEMMA BlocksOfStretches ==
    ASSUME NEW lines, Text(lines)
    PROVE  BlocksFrom(lines, 1)
             = {[paragraph |-> s[1]..s[2]] : s \in {t \in Stretches(lines) : Len(lines[t[1]]) = 1}}
               \cup {[table |-> Min(TableStarts(lines, s))..s[2]] :
                        s \in {t \in Stretches(lines) : Len(lines[t[1]]) > 1 /\ TableStarts(lines, t) # {}}}
<1> DEFINE N == Len(lines)
           e(i) == RunEnd(lines, i)
           w(i) == Len(lines[i])
           Plain == {t \in Stretches(lines) : Len(lines[t[1]]) = 1}
           Rows == {t \in Stretches(lines) : Len(lines[t[1]]) > 1 /\ TableStarts(lines, t) # {}}
<1>1. N \in Nat
  BY DEF Text
<1>2. ASSUME NEW s \in Stretches(lines)
      PROVE  /\ s[1] \in 1..N /\ s[2] \in s[1]..N
             /\ \A j \in s[1]..s[2] : w(j) = w(s[1])
             /\ \A j \in 1..N : e(j) = s[2] + 1 <=> j \in s[1]..s[2]
             /\ s[1] = 1 \/ w(s[1] - 1) # w(s[1])
  BY StretchRuns
<1>3. ASSUME NEW s \in Stretches(lines), NEW k \in s[1]..s[2]
      PROVE  /\ Lines(lines, k) = k..s[2]
             /\ Tabular(lines, k) <=> k \in TableStarts(lines, s)
  <2>1. k \in 1..N /\ e(k) = s[2] + 1 /\ (s[2] + 1) - 1 = s[2]
    BY <1>1, <1>2, <1>3
  <2> QED BY <1>3, <2>1 DEF Lines, Tabular, TableStarts
<1>4. \A k \in 1..N : \E s \in Stretches(lines) : k \in s[1]..s[2] /\ e(k) = s[2] + 1
  BY StretchOf
<1>5. \A k \in 1..N : Tabular(lines, k) => w(k) > 1
  BY TabularIsWide
<1> HIDE DEF N, e, w
<1>6. ASSUME NEW k \in ParagraphsFrom(lines, 1)
      PROVE  \E s \in Plain : Lines(lines, k) = s[1]..s[2]
  <2>1. k \in 1..N /\ w(k) = 1 /\ (k = 1 \/ w(k - 1) # 1)
    BY <1>6 DEF ParagraphsFrom, N, w
  <2>2. PICK s \in Stretches(lines) : k \in s[1]..s[2]
    BY <1>4, <2>1
  <2>3. s[1] \in Nat /\ s[2] \in Nat /\ w(s[1]) = 1
    BY <1>2, <2>1, <2>2
  <2>4. s[1] = k
    <3> SUFFICES ASSUME s[1] # k PROVE FALSE
      OBVIOUS
    <3>1. k - 1 \in s[1]..s[2] /\ k # 1
      BY <1>1, <1>2, <2>1, <2>2, <2>3
    <3> QED BY <1>2, <2>1, <2>3, <3>1
  <2>5. s \in Plain
    BY <2>3 DEF w
  <2> QED BY <1>3, <2>2, <2>4, <2>5
<1>7. ASSUME NEW s \in Plain
      PROVE  \E k \in ParagraphsFrom(lines, 1) : Lines(lines, k) = s[1]..s[2]
  <2>1. s \in Stretches(lines) /\ w(s[1]) = 1
    BY DEF w
  <2>2. s[1] \in 1..N /\ s[1] \in s[1]..s[2]
    BY <1>2, <2>1
  <2>3. s[1] \in ParagraphsFrom(lines, 1)
    BY <1>2, <2>1, <2>2 DEF ParagraphsFrom, N, w
  <2> QED BY <1>3, <2>1, <2>2, <2>3
<1>8. ASSUME NEW k \in TablesFrom(lines, 1)
      PROVE  \E s \in Rows : Lines(lines, k) = Min(TableStarts(lines, s))..s[2]
  <2>1. /\ k \in 1..N /\ Tabular(lines, k)
        /\ \A j \in 1..(k - 1) : e(j) = e(k) => ~Tabular(lines, j)
    BY <1>8 DEF TablesFrom, N, e
  <2>2. PICK s \in Stretches(lines) : k \in s[1]..s[2] /\ e(k) = s[2] + 1
    BY <1>4, <2>1
  <2>3. k \in TableStarts(lines, s) /\ Lines(lines, k) = k..s[2]
    BY <1>3, <2>1, <2>2
  <2>4. w(s[1]) > 1
    <3>1. w(k) = w(s[1])
      BY <1>2, <2>2
    <3> QED BY <1>5, <2>1, <3>1
  <2>5. \A y \in TableStarts(lines, s) : y \in s[1]..s[2] /\ y \in 1..N
    BY <1>1, <1>2 DEF TableStarts
  <2>6. ASSUME NEW y \in TableStarts(lines, s) PROVE k <= y
    <3> SUFFICES ASSUME ~(k <= y) PROVE FALSE
      OBVIOUS
    <3>1. y \in 1..(k - 1)
      BY <1>1, <2>1, <2>5, <2>6
    <3>2. e(y) = e(k)
      BY <1>2, <2>2, <2>5, <2>6
    <3>3. Tabular(lines, y)
      BY <1>3, <2>5, <2>6
    <3> QED BY <2>1, <3>1, <3>2, <3>3
  <2>7. Min(TableStarts(lines, s)) = k
    <3>1. TableStarts(lines, s) \in SUBSET Nat
      BY <1>1, <2>5
    <3> QED BY <2>3, <2>6, <3>1, MinIs
  <2>8. s \in Rows
    BY <2>3, <2>4 DEF w
  <2> QED BY <2>3, <2>7, <2>8
<1>9. ASSUME NEW s \in Rows
      PROVE  \E k \in TablesFrom(lines, 1) : Lines(lines, k) = Min(TableStarts(lines, s))..s[2]
  <2>1. s \in Stretches(lines) /\ TableStarts(lines, s) # {}
    OBVIOUS
  <2>2. \A y \in TableStarts(lines, s) : y \in s[1]..s[2] /\ y \in 1..N
    BY <1>1, <1>2, <2>1 DEF TableStarts
  <2>3. PICK k \in TableStarts(lines, s) : k = Min(TableStarts(lines, s)) /\ \A y \in TableStarts(lines, s) : k <= y
    <3>1. TableStarts(lines, s) \in SUBSET Nat
      BY <1>1, <2>2
    <3> QED BY <2>1, <3>1, MinOf
  <2>4. k \in 1..N /\ k \in s[1]..s[2] /\ e(k) = s[2] + 1
    BY <1>2, <2>1, <2>2
  <2>5. Tabular(lines, k) /\ Lines(lines, k) = k..s[2]
    BY <1>3, <2>1, <2>4
  <2>6. ASSUME NEW j \in 1..(k - 1), e(j) = e(k) PROVE ~Tabular(lines, j)
    <3>1. j \in 1..N /\ ~(k <= j)
      BY <1>1, <2>4, <2>6
    <3>2. j \in s[1]..s[2]
      BY <1>2, <2>1, <2>4, <2>6, <3>1
    <3> QED BY <1>3, <2>1, <2>3, <3>1, <3>2
  <2>7. k \in TablesFrom(lines, 1)
    BY <2>4, <2>5, <2>6 DEF TablesFrom, N, e
  <2> QED BY <2>3, <2>5, <2>7
<1>10. {[paragraph |-> Lines(lines, k)] : k \in ParagraphsFrom(lines, 1)} = {[paragraph |-> s[1]..s[2]] : s \in Plain}
  <2> HIDE DEF Plain
  <2> QED BY <1>6, <1>7
<1>11. {[table |-> Lines(lines, k)] : k \in TablesFrom(lines, 1)}
          = {[table |-> Min(TableStarts(lines, s))..s[2]] : s \in Rows}
  <2> HIDE DEF Rows
  <2> QED BY <1>8, <1>9
<1> QED BY <1>10, <1>11 DEF BlocksFrom

-----------------------------------------------------------------------------
\* A PDF document shows its layout, once, if it has any.
LEMMA PdfShows ==
    ASSUME NEW doc, doc.quotes \in Nat, doc.images \in Seq([fate : ImageFate, rank : Int]),
           PdfDetailed(doc).class = "ok"
    PROVE  /\ \A k \in DOMAIN PdfDetailed(doc).parts :
                 "layout" \in DOMAIN PdfDetailed(doc).parts[k] =>
                     PdfDetailed(doc).parts[k] = [layout |-> Layout(doc.lines)]
           /\ Layout(doc.lines) # <<>> =>
                 \E k \in DOMAIN PdfDetailed(doc).parts :
                    PdfDetailed(doc).parts[k] = [layout |-> Layout(doc.lines)]
<1> DEFINE images == Retained(doc)
           Q == {[ref |-> n] : n \in Nat \ {0}}
           L == [layout |-> Layout(doc.lines)]
           R == {[ref |-> k, meant |-> images[k]] : k \in 1..Len(images)}
           P == Q \cup {L} \cup R
           Refs == [k \in 1..Len(images) |-> [ref |-> k, meant |-> images[k]]]
           Shape == IF Layout(doc.lines) = <<>> THEN <<>> ELSE <<L>>
<1>1. Len(images) \in Nat
  BY RetainedImages
<1>2. ASSUME NEW p \in P, "layout" \in DOMAIN p PROVE p = L
  <2>1. CASE p \in Q
    BY <1>2, <2>1
  <2>2. CASE p \in R
    BY <1>2, <2>2
  <2> HIDE DEF Q, R, L
  <2> QED BY <2>1, <2>2
<1>3. Shape \in Seq(P) /\ (Layout(doc.lines) # <<>> => Shape = <<L>>)
  <2>1. L \in P
    OBVIOUS
  <2> HIDE DEF P, L
  <2> QED BY <2>1
<1>4. Quotes(doc) \in Seq(P)
  <2>1. Quotes(doc) \in Seq(Q) /\ Q \subseteq P
    BY QuotesListed
  <2> HIDE DEF P, Q
  <2> QED BY <2>1
<1>5. Refs \in Seq(P)
  <2>1. \A k \in 1..Len(images) : [ref |-> k, meant |-> images[k]] \in P
    OBVIOUS
  <2> HIDE DEF P
  <2> QED BY <1>1, <2>1
<1>6. PICK s : s = PdfDetailed(doc).parts
  OBVIOUS
<1>7. s = LaidOut(doc) \/ s = LaidOut(doc) \o Refs
  BY <1>6 DEF PdfDetailed, Failure, Converted
<1>8. LaidOut(doc) = Shape \o Quotes(doc)
  BY DEF LaidOut
<1> HIDE DEF P, L, Refs, Shape
<1>9. PICK a \in Seq(P), b \in Seq(P) : s = (Shape \o a) \o b
  <2>1. <<>> \in Seq(P) /\ Shape \o Quotes(doc) \in Seq(P)
    BY <1>3, <1>4
  <2>2. (Shape \o Quotes(doc)) \o <<>> = Shape \o Quotes(doc)
    BY <2>1
  <2> QED BY <1>4, <1>5, <1>7, <1>8, <2>1, <2>2
<1>10. s \in Seq(P)
  BY <1>3, <1>9
<1>11. \A k \in DOMAIN s : s[k] \in P
  BY <1>10
<1>12. Layout(doc.lines) # <<>> => 1 \in DOMAIN s /\ s[1] = L
  <2> SUFFICES ASSUME Shape = <<L>> PROVE 1 \in DOMAIN s /\ s[1] = L
    BY <1>3
  <2>1. L \in P
    BY DEF P
  <2>2. PICK t \in Seq(P) : t = <<L>> \o a
    <3>1. <<L>> \in Seq(P)
      BY <2>1
    <3>2. <<L>> \o a \in Seq(P)
      BY <3>1, Joined
    <3> QED BY <3>2
  <2>3. Len(t) >= 1 /\ t[1] = L
    BY <2>1, <2>2
  <2> QED BY <1>9, <2>2, <2>3
<1> QED BY <1>2, <1>6, <1>11, <1>12 DEF L

LEMMA TablesAtTheEnd ==
    ASSUME RequestInv, ShownInv
    PROVE  TablesAreRuns
<1> SUFFICES ASSUME Decided("pdf") PROVE TablesAreRuns
  BY DEF TablesAreRuns
<1> DEFINE doc == source[answer.source]
           Shapes == {q \in OwnParts : "layout" \in DOMAIN q}
<1>1. PICK lines : lines = doc.lines
  OBVIOUS
<1>2. Wellformed(doc) /\ doc.kind = "pdf"
  BY DecidedShows
<1>3. /\ doc.quotes \in Nat /\ doc.images \in Seq([fate : ImageFate, rank : Int])
      /\ lines \in Seq(Seq(Cell))
  BY <1>1, <1>2 DEF Wellformed
<1>4. Text(lines)
  BY <1>3 DEF Text
<1>5. PICK c : c = PdfDetailed(doc) /\ ShownBy(c, answer, answer.source)
  BY <1>2, DecidedShows DEF BuiltinConversions
<1>6. PICK L : L = Layout(lines)
  OBVIOUS
<1>7. /\ \A k \in DOMAIN c.parts : "layout" \in DOMAIN c.parts[k] => c.parts[k] = [layout |-> L]
      /\ L # <<>> => \E k \in DOMAIN c.parts : c.parts[k] = [layout |-> L]
  <2>1. c.class = "ok"
    BY <1>5 DEF ShownBy
  <2> QED BY <1>1, <1>3, <1>5, <1>6, <2>1, PdfShows
<1>8. /\ DOMAIN answer.parts = DOMAIN c.parts
      /\ \A k \in DOMAIN c.parts :
            /\ answer.parts[k].of = answer.source
            /\ ~IsReference(c.parts[k]) => answer.parts[k].part = c.parts[k]
            /\ DOMAIN answer.parts[k].part = DOMAIN c.parts[k]
  BY <1>5 DEF ShownBy
<1>9. ~IsReference([layout |-> L]) /\ "layout" \in DOMAIN [layout |-> L] /\ [layout |-> L].layout = L
  BY DEF IsReference
<1>10. ASSUME NEW q \in Shapes PROVE q = [layout |-> L]
  <2>1. PICK k \in DOMAIN answer.parts : q = answer.parts[k].part
    BY <1>10 DEF OwnParts
  <2>2. c.parts[k] = [layout |-> L]
    BY <1>7, <1>8, <1>10, <2>1
  <2> QED BY <1>8, <1>9, <2>1, <2>2
<1>11. ASSUME L # <<>> PROVE [layout |-> L] \in Shapes
  <2>1. PICK k \in DOMAIN c.parts : c.parts[k] = [layout |-> L]
    BY <1>7, <1>11
  <2>2. k \in DOMAIN answer.parts /\ answer.parts[k].of = answer.source /\ answer.parts[k].part = [layout |-> L]
    BY <1>8, <1>9, <2>1
  <2>3. [layout |-> L] \in OwnParts
    BY <2>2 DEF OwnParts
  <2> QED BY <1>9, <2>3
<1>12. UNION {ToSet(p.layout) : p \in Shapes} = ToSet(L)
  <2>1. CASE L = <<>>
    <3>1. ToSet(L) = {}
      BY <2>1 DEF ToSet
    <3>2. \A p \in Shapes : ToSet(p.layout) = {}
      BY <1>9, <1>10, <3>1
    <3> HIDE DEF Shapes
    <3> QED BY <3>1, <3>2
  <2>2. CASE L # <<>>
    <3>1. Shapes = {[layout |-> L]}
      <4>1. [layout |-> L] \in Shapes
        BY <1>11, <2>2
      <4> HIDE DEF Shapes
      <4> QED BY <1>10, <4>1
    <3> HIDE DEF Shapes
    <3> QED BY <1>9, <3>1
  <2> QED BY <2>1, <2>2
<1>13. ToSet(L) = {[paragraph |-> s[1]..s[2]] : s \in {t \in Stretches(lines) : Len(lines[t[1]]) = 1}}
                  \cup {[table |-> Min(TableStarts(lines, s))..s[2]] :
                           s \in {t \in Stretches(lines) : Len(lines[t[1]]) > 1 /\ TableStarts(lines, t) # {}}}
  BY <1>4, <1>6, LayoutShows, BlocksOfStretches
<1> DEFINE Runs(t) == {[paragraph |-> s[1]..s[2]] : s \in {r \in Stretches(t) : Len(t[r[1]]) = 1}}
                      \cup {[table |-> Min(TableStarts(t, s))..s[2]] :
                               s \in {r \in Stretches(t) : Len(t[r[1]]) > 1 /\ TableStarts(t, r) # {}}}
<1>14. ToSet(L) = Runs(lines)
  BY <1>13
<1>15. UNION {ToSet(p.layout) : p \in Shapes} = Runs(doc.lines)
  <2> HIDE DEF Runs, Shapes, doc
  <2> QED BY <1>1, <1>12, <1>14
<1> QED BY <1>15 DEF TablesAreRuns, TableStarts

Ends(f) == {i \in 1..(Len(f) + 1) : i = Len(f) + 1 \/ f[i] = "slash"}
Segment(f, i) == SubSeq(f, 1 + Max({0} \cup {j \in Ends(f) : j < i}), i - 1)
StepOf(f, i) == CASE Segment(f, i) = <<"dot", "dot">> -> -1
                  [] Segment(f, i) \in {<<>>, <<"dot">>} -> 0
                  [] OTHER -> 1
Level(f, i) == MapThenSumSet(LAMBDA j : StepOf(f, j), {j \in Ends(f) : j <= i})

LEMMA StaysReads ==
    ASSUME NEW f
    PROVE  StaysInside(f) <=> /\ f # <<>> /\ f[1] # "slash"
                              /\ \A i \in Ends(f) : Level(f, i) >= 0
                              /\ Level(f, Len(f) + 1) >= 1
BY Zenon DEF StaysInside, Level, StepOf, Segment, Ends

\* The greatest of finitely many numbers.
LEMMA MaxIs ==
    ASSUME NEW T \in SUBSET Nat, T # {}, NEW m \in Nat, \A y \in T : y <= m
    PROVE  Max(T) \in T /\ \A y \in T : y <= Max(T)
<1> DEFINE U == {m - y : y \in T}
<1>0. \A y \in T : y \in Nat /\ m - y \in Nat
  OBVIOUS
<1>1. U \in SUBSET Nat /\ U # {}
  <2>1. ASSUME NEW v \in U PROVE v \in Nat
    BY <1>0, <2>1
  <2>2. PICK y : y \in T
    OBVIOUS
  <2>3. m - y \in U
    BY <2>2
  <2> HIDE DEF U
  <2> QED BY <2>1, <2>3
<1>2. PICK u \in U : \A v \in U : u <= v
  <2> HIDE DEF U
  <2> QED BY <1>1, LeastNat
<1>3. PICK x \in T : u = m - x
  OBVIOUS
<1>4. \A y \in T : m - x <= m - y
  BY <1>2, <1>3
<1>5. \A y \in T : x >= y
  BY <1>0, <1>4
<1>6. Max(T) \in T /\ \A y \in T : Max(T) >= y
  BY <1>5 DEF Max
<1> QED BY <1>0, <1>6

LEMMA BoundOfMany ==
    ASSUME NEW N \in Nat, NEW f, \A i \in 1..N : f[i] \in Nat
    PROVE  \E m \in Nat : \A i \in 1..N : f[i] <= m
<1> DEFINE Good(n) == \E m \in Nat : \A i \in 1..n : f[i] <= m
<1>1. \A n \in 0..N : Good(n)
  <2> SUFFICES ASSUME NEW x \in 0..N, ~Good(x) PROVE FALSE
    OBVIOUS
  <2> DEFINE Wrong == {n \in Nat : n \in 0..N /\ ~Good(n)}
  <2>1. PICK n \in Wrong : \A k \in Wrong : n <= k
    <3> HIDE DEF Good
    <3>1. Wrong \in SUBSET Nat /\ x \in Wrong
      OBVIOUS
    <3> HIDE DEF Wrong
    <3> QED BY <3>1, LeastNat
  <2>2. CASE n = 0
    <3>1. \A i \in 1..0 : f[i] <= 0
      OBVIOUS
    <3> QED BY <2>1, <2>2, <3>1
  <2>3. CASE n # 0
    <3>1. n - 1 \in 0..N /\ n - 1 \in Nat /\ ~(n <= n - 1) /\ n \in 1..N
      BY <2>1, <2>3
    <3>2. Good(n - 1)
      <4> HIDE DEF Good
      <4> QED BY <2>1, <3>1
    <3>3. PICK m \in Nat : \A i \in 1..(n - 1) : f[i] <= m
      BY <3>2
    <3>4. PICK k \in Nat : k = f[n]
      BY <3>1
    <3>5. PICK b \in Nat : m <= b /\ k <= b
      <4>1. m + k \in Nat /\ m <= m + k /\ k <= m + k
        OBVIOUS
      <4> QED BY <4>1
    <3>6. ASSUME NEW i \in 1..n PROVE f[i] <= b
      <4>1. i \in 1..(n - 1) \/ i = n
        BY <3>1
      <4>2. f[i] \in Nat
        BY <3>1
      <4> QED BY <3>3, <3>4, <3>5, <4>1, <4>2
    <3> QED BY <2>1, <3>6
  <2> QED BY <2>2, <2>3
<1>2. Good(N)
  <2>1. N \in 0..N
    OBVIOUS
  <2> HIDE DEF Good
  <2> QED BY <1>1, <2>1
<1> QED BY <1>2

\* A sequence of characters.
Spelled(f) == Len(f) \in Nat /\ DOMAIN f = 1..Len(f)

\* No segment of a safe form leads up.
LEMMA StepsDown ==
    ASSUME NEW f, Spelled(f), SafeForm(f), NEW i \in Ends(f)
    PROVE  StepOf(f, i) = 1
<1> DEFINE P == {0} \cup {j \in Ends(f) : j < i}
<1>1. PICK N \in Nat : N = Len(f) /\ DOMAIN f = 1..N
  BY DEF Spelled
<1>2. /\ f[1] # "slash"
      /\ \A k \in 1..N : k = N \/ f[k + 1] = "slash" => f[k] \notin {"slash", "dot", "space"}
  BY <1>1 DEF SafeForm
<1>3. N # 0
  <2>1. f # <<>>
    BY DEF SafeForm
  <2> SUFFICES ASSUME N = 0 PROVE FALSE
    OBVIOUS
  <2>2. DOMAIN f = {}
    BY <1>1
  <2> QED BY <1>1, <2>1, <2>2
<1>4. i \in 1..(N + 1) /\ (i = N + 1 \/ f[i] = "slash")
  BY <1>1 DEF Ends
<1>5. i - 1 \in 1..N /\ f[i - 1] \notin {"slash", "dot", "space"}
  <2>1. i # 1
    BY <1>2, <1>3, <1>4
  <2>2. i - 1 \in 1..N /\ (i - 1 = N \/ f[(i - 1) + 1] = "slash")
    BY <1>4, <2>1
  <2> QED BY <1>2, <2>2
<1>6. i - 1 \notin Ends(f)
  BY <1>1, <1>5 DEF Ends
<1>7. PICK p \in P : p = Max(P)
  <2>1. P \in SUBSET Nat /\ 0 \in P
    BY <1>1 DEF Ends
  <2>2. \A y \in P : y <= N + 1
    BY <1>1 DEF Ends
  <2> HIDE DEF P
  <2>3. N + 1 \in Nat
    OBVIOUS
  <2> QED BY <2>1, <2>2, <2>3, MaxIs
<1>8. p \in 0..(i - 2)
  <2>1. p = 0 \/ (p \in Ends(f) /\ p < i /\ p # i - 1)
    BY <1>6
  <2> QED BY <1>1, <1>4, <1>5, <2>1 DEF Ends
<1>9. PICK s : s = SubSeq(f, 1 + p, i - 1)
  OBVIOUS
<1>10. PICK L \in Nat : L = (i - 1) - p
  BY <1>4, <1>8
<1>11. L >= 1 /\ Len(s) = L /\ s[L] = f[i - 1]
  <2>1. L >= 1 /\ L = (i - 1) - (1 + p) + 1 /\ (1 + p) + L - 1 = i - 1 /\ 1 + p <= i - 1
        /\ 1 + p \in Int /\ i - 1 \in Int
    BY <1>4, <1>8, <1>10
  <2>2. s = [k \in 1..L |-> f[k + (1 + p) - 1]]
    BY <1>9, <2>1 DEF SubSeq
  <2>3. L + (1 + p) - 1 = i - 1 /\ L \in 1..L
    BY <2>1
  <2>4. s[L] = f[i - 1] /\ DOMAIN s = 1..L
    BY <2>2, <2>3
  <2>5. Len(s) = L
    BY <2>2
  <2> QED BY <2>1, <2>4, <2>5
<1>12. s # <<>> /\ s # <<"dot">> /\ s # <<"dot", "dot">>
  <2>1. s[L] # "dot"
    BY <1>5, <1>11
  <2>2. Len(<<>>) = 0 /\ Len(<<"dot">>) = 1 /\ Len(<<"dot", "dot">>) = 2
    OBVIOUS
  <2>3. <<"dot">>[1] = "dot" /\ <<"dot", "dot">>[2] = "dot"
    OBVIOUS
  <2> QED BY <1>10, <1>11, <2>1, <2>2, <2>3
<1>13. Segment(f, i) = s
  BY <1>7, <1>9 DEF Segment
<1> QED BY <1>12, <1>13 DEF StepOf

LEMMA LevelsRise ==
    ASSUME NEW f, Spelled(f), SafeForm(f), NEW i \in Ends(f)
    PROVE  Level(f, i) \in Nat \ {0}
<1> DEFINE T == {j \in Ends(f) : j <= i}
           First(s) == CHOOSE x \in s : TRUE
           Sums(u) == u = [s \in SUBSET T |-> IF s = {} THEN 0 ELSE StepOf(f, First(s)) + u[s \ {First(s)}]]
<1>1. IsFiniteSet(T) /\ i \in T /\ T \subseteq Ends(f)
  <2>1. Len(f) + 1 \in Nat
    BY DEF Spelled
  <2>2. IsFiniteSet(1..(Len(f) + 1))
    BY <2>1, FS_Interval
  <2>3. T \subseteq 1..(Len(f) + 1)
    BY DEF Ends
  <2>4. i \in T
    BY <2>1 DEF Ends
  <2> QED BY <2>2, <2>3, <2>4, FS_Subset
<1>2. \A s \in SUBSET T : IsFiniteSet(s) /\ Cardinality(s) \in Nat
  <2> HIDE DEF T
  <2> QED BY <1>1, FS_Subset, FS_CardinalityType
<1>3. ASSUME NEW s \in SUBSET T, s # {}
      PROVE  /\ StepOf(f, First(s)) = 1
             /\ s \ {First(s)} \in SUBSET T
             /\ Cardinality(s \ {First(s)}) = Cardinality(s) - 1
             /\ Cardinality(s) \in Nat \ {0} 
  <2>1. First(s) \in s
    BY <1>3
  <2>2. First(s) \in Ends(f)
    BY <1>1, <2>1
  <2>3. Cardinality(s \ {First(s)}) = Cardinality(s) - 1
    <3> HIDE DEF First, T
    <3> QED BY <1>2, <2>1, FS_RemoveElement
  <2>4. Cardinality(s) # 0
    <3> HIDE DEF First, T
    <3> QED BY <1>2, <1>3, FS_EmptySet
  <2> HIDE DEF First, T
  <2> QED BY <1>2, <2>2, <2>3, <2>4, StepsDown
<1>4. \E u : Sums(u)
  <2>1. PICK u : u = [s \in SUBSET T |-> Cardinality(s)]
    OBVIOUS
  <2>2. ASSUME NEW s \in SUBSET T
        PROVE  u[s] = IF s = {} THEN 0 ELSE StepOf(f, First(s)) + u[s \ {First(s)}]
    <3>1. CASE s = {}
      BY <2>1, <3>1, FS_EmptySet
    <3>2. CASE s # {}
      <4> HIDE DEF T, First
      <4>1. u[s] = Cardinality(s) /\ u[s \ {First(s)}] = Cardinality(s \ {First(s)})
        BY <1>3, <2>1, <3>2
      <4> QED BY <1>3, <3>2, <4>1
    <3> QED BY <3>1, <3>2
  <2>3. Sums(u)
    <3> HIDE DEF T, First
    <3>1. u = [s \in SUBSET T |-> u[s]]
      BY <2>1
    <3> QED BY <2>2, <3>1
  <2> QED BY <2>3
<1>5. Level(f, i) = (CHOOSE u : Sums(u))[T]
  BY DEF Level, MapThenSumSet, MapThenFoldSet
<1>6. PICK u : Sums(u) /\ Level(f, i) = u[T]
  <2> HIDE DEF Sums, T
  <2> QED BY <1>4, <1>5
<1>7. ASSUME NEW s \in SUBSET T, s # {}
      PROVE  u[s] = 1 + u[s \ {First(s)}]
  <2> HIDE DEF T, First
  <2> QED BY <1>3, <1>6, <1>7
<1>8. u[{}] = 0
  BY <1>6
<1> HIDE DEF Sums, First
<1>9. \A s \in SUBSET T : u[s] \in Nat
  <2> SUFFICES ASSUME NEW x \in SUBSET T, u[x] \notin Nat PROVE FALSE
    OBVIOUS
  <2> DEFINE Wrong == {n \in Nat : \E s \in SUBSET T : Cardinality(s) = n /\ u[s] \notin Nat}
  <2> HIDE DEF T
  <2>1. Cardinality(x) \in Wrong /\ Wrong \in SUBSET Nat
    BY <1>2
  <2>2. PICK n \in Wrong : \A m \in Wrong : n <= m
    <3> HIDE DEF Wrong
    <3> QED BY <2>1, LeastNat
  <2>3. PICK s \in SUBSET T : Cardinality(s) = n /\ u[s] \notin Nat
    BY <2>2
  <2>4. s # {}
    BY <1>8, <2>3
  <2>5. s \ {First(s)} \in SUBSET T /\ Cardinality(s \ {First(s)}) = n - 1 /\ n - 1 \in Nat
    BY <1>3, <2>3, <2>4
  <2>6. u[s \ {First(s)}] \in Nat
    <3>1. ~(n <= n - 1)
      BY <2>2
    <3> QED BY <2>2, <2>5, <3>1
  <2>7. u[s] \in Nat
    BY <1>7, <2>4, <2>6
  <2> QED BY <2>3, <2>7
<1>10. T \in SUBSET T /\ T # {}
  BY <1>1
<1>11. u[T \ {First(T)}] \in Nat
  <2> HIDE DEF T
  <2> QED BY <1>9
<1> HIDE DEF T
<1> QED BY <1>6, <1>7, <1>10, <1>11

LEMMA SafeStays ==
    ASSUME NEW f, Spelled(f), SafeForm(f)
    PROVE  StaysInside(f)
<1>1. Len(f) + 1 \in Ends(f)
  BY DEF Ends, Spelled
<1>2. \A i \in Ends(f) : Level(f, i) >= 0 /\ Level(f, i) >= 1
  BY LevelsRise
<1>3. f # <<>>
  BY DEF SafeForm
<1>4. f[1] # "slash"
  BY DEF SafeForm
<1> QED BY <1>1, <1>2, <1>3, <1>4, StaysReads

-----------------------------------------------------------------------------
\* Decoding leaves the length alone, and what shows a slash goes on doing so.
LEMMA Forms ==
    ASSUME NEW name \in Seq(Symbol), NEW n \in Nat
    PROVE  /\ Spelled(Form(name, n)) /\ DOMAIN Form(name, n) = DOMAIN name
           /\ \A i \in DOMAIN name :
                 Form(name, n)[i] = IF name[i].coded > n THEN "escape" ELSE name[i].char
<1>1. Len(name) \in Nat /\ DOMAIN name = 1..Len(name)
  OBVIOUS
<1>2. PICK f : f = Form(name, n)
  OBVIOUS
<1>3. DOMAIN f = 1..Len(name) /\ f = [i \in 1..Len(name) |-> IF name[i].coded > n THEN "escape" ELSE name[i].char]
  BY <1>1, <1>2 DEF Form
<1>4. Len(f) = Len(name)
  BY <1>1, <1>3
<1> QED BY <1>1, <1>2, <1>3, <1>4 DEF Spelled

LEMMA CodedOften ==
    ASSUME NEW name \in Seq(Symbol), NEW i \in DOMAIN name
    PROVE  name[i].coded \in Nat
<1>1. name[i] \in Symbol
  OBVIOUS
<1>2. \A y \in Symbol : y.coded \in Nat
  BY DEF Symbol
<1> QED BY <1>1, <1>2

LEMMA SlashesStay ==
    ASSUME NEW name \in Seq(Symbol), NEW n \in Nat
    PROVE  /\ Count("slash", Form(name, n)) \in Nat
           /\ Count("slash", Form(name, n)) <= Count("slash", Form(name, n + 1))
<1> DEFINE S(k) == {i \in DOMAIN name : Form(name, k)[i] = "slash"}
<1>1. n + 1 \in Nat /\ DOMAIN name = 1..Len(name) /\ Len(name) \in Nat
  OBVIOUS
<1>2. /\ Count("slash", Form(name, n)) = Cardinality(S(n))
      /\ Count("slash", Form(name, n + 1)) = Cardinality(S(n + 1))
  BY <1>1, Forms DEF Count
<1>3. S(n) \subseteq S(n + 1)
  <2> SUFFICES ASSUME NEW i \in DOMAIN name, Form(name, n)[i] = "slash"
               PROVE  Form(name, n + 1)[i] = "slash"
    OBVIOUS
  <2>1. Form(name, n)[i] = IF name[i].coded > n THEN "escape" ELSE name[i].char
    BY Forms
  <2>2. Form(name, n + 1)[i] = IF name[i].coded > n + 1 THEN "escape" ELSE name[i].char
    BY <1>1, Forms
  <2>3. name[i].coded \in Nat
    BY CodedOften
  <2>4. ~(name[i].coded > n)
    BY <2>1
  <2>5. ~(name[i].coded > n + 1)
    BY <2>3, <2>4
  <2> QED BY <2>1, <2>2, <2>4, <2>5
<1>4. IsFiniteSet(1..Len(name))
  BY <1>1, FS_Interval
<1>5. S(n) \subseteq 1..Len(name) /\ S(n + 1) \subseteq 1..Len(name)
  BY <1>1
<1> HIDE DEF S
<1>6. IsFiniteSet(S(n)) /\ IsFiniteSet(S(n + 1))
  BY <1>4, <1>5, FS_Subset
<1>7. Cardinality(S(n)) \in Nat
  BY <1>6, FS_CardinalityType
<1>8. Cardinality(S(n)) <= Cardinality(S(n + 1))
  BY <1>3, <1>6, FS_Subset
<1> QED BY <1>2, <1>7, <1>8

\* There is nothing left to decode.
LEMMA Decoded ==
    ASSUME NEW name \in Seq(Symbol)
    PROVE  /\ Deep(name) \in Nat
           /\ Form(name, Deep(name) + 1) = Form(name, Deep(name))
<1> DEFINE C == {name[i].coded : i \in DOMAIN name}
           T == {0} \cup C
<1>1. Len(name) \in Nat /\ DOMAIN name = 1..Len(name)
  OBVIOUS
<1>2. \A i \in DOMAIN name : name[i].coded \in Nat
  BY CodedOften
<1>3. PICK m \in Nat : \A i \in DOMAIN name : name[i].coded <= m
  <2>1. PICK f : f = [i \in DOMAIN name |-> name[i].coded]
    OBVIOUS
  <2>2. \A i \in 1..Len(name) : f[i] \in Nat /\ f[i] = name[i].coded
    BY <1>1, <1>2, <2>1
  <2>3. \E m \in Nat : \A i \in 1..Len(name) : f[i] <= m
    BY <1>1, <2>2, BoundOfMany
  <2> QED BY <1>1, <2>2, <2>3
<1>4. T \in SUBSET Nat /\ T # {} /\ \A y \in T : y <= m
  BY <1>2, <1>3
<1>5. Max(T) \in T /\ \A y \in T : y <= Max(T)
  <2> HIDE DEF T
  <2> QED BY <1>4, MaxIs
<1>6. PICK d \in Nat : d = Deep(name) /\ \A i \in DOMAIN name : name[i].coded <= d
  BY <1>4, <1>5 DEF Deep
<1>7. ASSUME NEW i \in DOMAIN name PROVE ~(name[i].coded > d) /\ ~(name[i].coded > d + 1)
  <2>1. name[i].coded \in Nat /\ name[i].coded <= d
    BY <1>2, <1>6
  <2> QED BY <2>1
<1>8. Form(name, d + 1) = Form(name, d)
  BY <1>7 DEF Form
<1> QED BY <1>6, <1>8

\* What is admitted stays inside, however often it is decoded.
LEMMA AdmittedStays ==
    ASSUME NEW name \in Seq(Symbol), InspectDecoded(name), NEW n \in 0..(Deep(name) + 1)
    PROVE  /\ StaysInside(Form(name, n))
           /\ Count("slash", Form(name, n)) = Count("slash", Form(name, 0))
<1> DEFINE c(k) == Count("slash", Form(name, k))
<1>1. PICK d \in Nat : d = Deep(name) /\ Form(name, d + 1) = Form(name, d)
  BY Decoded
<1>2. ASSUME NEW k \in 0..(d + 1) PROVE SafeForm(Form(name, k))
  <2>1. k \in 0..d \/ k = d + 1
    BY <1>1
  <2>2. d \in 0..d
    BY <1>1
  <2> QED BY <1>1, <2>1, <2>2 DEF InspectDecoded
<1>3. \A k \in 0..d : c(k + 1) <= c(k)
  BY <1>1 DEF InspectDecoded
<1>4. \A k \in Nat : c(k) \in Nat /\ c(k) <= c(k + 1)
  BY SlashesStay
<1> HIDE DEF c
<1>5. \A k \in 0..(d + 1) : c(k) = c(0)
  <2> SUFFICES ASSUME NEW x \in 0..(d + 1), c(x) # c(0) PROVE FALSE
    OBVIOUS
  <2> DEFINE Wrong == {k \in Nat : k \in 0..(d + 1) /\ c(k) # c(0)}
  <2>1. PICK k \in Wrong : \A y \in Wrong : k <= y
    <3>1. Wrong \in SUBSET Nat /\ x \in Wrong
      OBVIOUS
    <3> HIDE DEF Wrong
    <3> QED BY <3>1, LeastNat
  <2>2. k # 0 /\ k - 1 \in Nat /\ k - 1 \in 0..d /\ ~(k <= k - 1) /\ (k - 1) + 1 = k /\ k - 1 \in 0..(d + 1)
    BY <2>1
  <2>3. c(k - 1) = c(0)
    BY <2>1, <2>2
  <2>4. c(k) <= c(k - 1) /\ c(k - 1) <= c(k) /\ c(k) \in Nat /\ c(k - 1) \in Nat
    BY <1>3, <1>4, <2>1, <2>2
  <2> QED BY <2>1, <2>3, <2>4
<1>6. n \in Nat /\ n \in 0..(d + 1)
  BY <1>1
<1>7. StaysInside(Form(name, n))
  BY <1>2, <1>6, Forms, SafeStays
<1> QED BY <1>5, <1>6, <1>7 DEF c

-----------------------------------------------------------------------------
(* The places that warnings name.                                          *)

InPlace(w) ==
    "member" \in DOMAIN w.location =>
        w.location.member \in Seq(Symbol) /\ InspectDecoded(w.location.member)

PlacesInv ==
    /\ \A i \in 1..Len(stack) : \A w \in stack[i].reports : InPlace(w)
    /\ answer.class = "ok" => \A w \in answer.warnings : InPlace(w)

\* What is left of a name between its first and its last character.
LEMMA TrimmedIsName ==
    ASSUME NEW name \in Seq(Symbol)
    PROVE  TrimSpace(name) \in Seq(Symbol)
<1> DEFINE Ink == {i \in DOMAIN name : name[i] # [char |-> "space", coded |-> 0]}
<1>1. PICK N \in Nat : N = Len(name) /\ DOMAIN name = 1..N
  OBVIOUS
<1>2. CASE Ink = {}
  <2>1. <<>> \in Seq(Symbol)
    OBVIOUS
  <2> QED BY <1>2, <2>1 DEF TrimSpace
<1>3. CASE Ink # {}
  <2>1. Ink \in SUBSET Nat /\ \A y \in Ink : y <= N /\ y \in 1..N
    BY <1>1
  <2>2. TrimSpace(name) = SubSeq(name, Min(Ink), Max(Ink))
    BY <1>3 DEF TrimSpace
  <2> HIDE DEF Ink
  <2>3. Min(Ink) \in Ink /\ Max(Ink) \in Ink
    BY <1>3, <2>1, MinOf, MaxIs
  <2>4. PICK a \in 1..N, b \in 1..N : a = Min(Ink) /\ b = Max(Ink)
    BY <2>1, <2>3
  <2>5. \A i \in a..b : name[i] \in Symbol
    <3> HIDE DEF Symbol
    <3> QED BY <1>1
  <2>6. SubSeq(name, a, b) \in Seq(Symbol)
    BY <2>5, SubSeqProperties
  <2> QED BY <2>2, <2>4, <2>6
<1> QED BY <1>2, <1>3

LEMMA NowhereInPlace == \A w : w.location = Nowhere => InPlace(w)
BY DEF InPlace, Nowhere

LEMMA WarningInPlace ==
    ASSUME NEW category, NEW location, "member" \notin DOMAIN location
    PROVE  InPlace(Warning(category, location))
BY DEF InPlace, Warning

\* No converter names a member.
LEMMA LinksNameNoMember ==
    ASSUME NEW package, NEW path, NEW id \in DOMAIN RelationsOf(package, path)
    PROVE  "member" \notin DOMAIN RelationsOf(package, path)[id]
<1>1. PICK links, base : RelationsOf(package, path) = RelationshipMap(links, base)
  <2>1. RelationsOf(package, path) # <<>>
    OBVIOUS
  <2> QED BY <2>1 DEF RelationsOf
<1>2. \A url, bare : "member" \notin DOMAIN [url |-> url, bare |-> bare]
  OBVIOUS
<1>3. \A part : "member" \notin DOMAIN [part |-> part]
  OBVIOUS
<1>4. id \in DOMAIN RelationshipMap(links, base)
  BY <1>1
<1>5. "member" \notin DOMAIN RelationshipMap(links, base)[id]
  BY <1>2, <1>3, <1>4 DEF RelationshipMap
<1> QED BY <1>1, <1>5

LEMMA ChaptersInPlace ==
    ASSUME NEW doc, NEW w \in BookConversion(doc).warnings
    PROVE  InPlace(w)
<1>1. \A id : \A v \in ChapterWarnings(doc, id) : InPlace(v)
  <2> SUFFICES ASSUME NEW id, NEW v \in ChapterWarnings(doc, id) PROVE InPlace(v)
    OBVIOUS
  <2>1. "member" \notin DOMAIN SafeLocation(id)
    BY DEF SafeLocation, Nowhere
  <2>2. "member" \notin DOMAIN [part |-> FullPath(doc, id)]
    OBVIOUS
  <2> QED BY <2>1, <2>2, WarningInPlace DEF ChapterWarnings
<1>2. w \in UNION {ChapterWarnings(doc, doc.spine[i]) : i \in DOMAIN doc.spine}
  BY DEF BookConversion, Failure, Converted
<1> QED BY <1>1, <1>2

LEMMA NotesInPlace ==
    ASSUME NEW doc, NEW c \in PptxConversions(doc), NEW w \in c.warnings
    PROVE  InPlace(w)
<1>1. PICK slides, notes : /\ notes \in NotesChoices([k \in DOMAIN slides |-> FindNotesPath(doc, slides[k].link)])
                           /\ c = Presented(doc, slides, notes)
  BY DEF PptxConversions, SlidesConversions, Failure
<1>2. PICK k \in DOMAIN slides : w \in NotesWarnings(doc, notes[k])
  BY <1>1 DEF Presented, Converted
<1>3. notes[k] \in FindNotesPath(doc, slides[k].link)
  BY <1>1 DEF NotesChoices
<1>4. "member" \notin DOMAIN notes[k]
  <2>1. "member" \notin DOMAIN Nowhere
    BY DEF Nowhere
  <2>2. \A n \in NotesAmong(RelationsOf(doc, slides[k].link.part)) : "member" \notin DOMAIN n
    BY LinksNameNoMember DEF NotesAmong
  <2> QED BY <1>3, <2>1, <2>2 DEF FindNotesPath
<1> QED BY <1>2, <1>4, WarningInPlace DEF NotesWarnings

LEMMA ConversionsInPlace ==
    ASSUME SourceHolds, NEW i \in DOMAIN Registered, NEW id \in DOMAIN source,
           ~IsZip(i), Accepts(Registered[i], source[id]), NEW wanted,
           NEW c \in Conversions(Registered[i], source[id], wanted), NEW w \in c.warnings
    PROVE  InPlace(w)
<1> DEFINE doc == source[id]
<1>1. /\ \A class : Failure(class).warnings = {}
      /\ \A parts, artifacts, warnings : Converted(parts, artifacts, warnings).warnings = warnings
      /\ \A d : Projected(d).warnings = {}
  BY DEF Failure, Converted, Projected
<1>2. CASE Registered[i].builtin
  <2>1. PICK d \in BuiltinConversions(doc, wanted) : w \in d.warnings
    BY <1>1, <1>2 DEF Conversions
  <2>2. doc.kind \in Builtin \ {"zip"}
    BY <1>2, RegisteredAssumption DEF Accepts, IsZip
  <2>3. CASE doc.kind = "text"
    BY <1>1, <2>1, <2>3 DEF BuiltinConversions, Whole
  <2>4. CASE doc.kind = "pdf"
    <3>1. w = Warning("artifact_extraction_failed", Nowhere)
      BY <1>1, <2>1, <2>4 DEF BuiltinConversions, PdfDetailed, PdfLegacy
    <3>2. "member" \notin DOMAIN Nowhere
      BY DEF Nowhere
    <3> QED BY <3>1, <3>2, WarningInPlace
  <2>5. CASE doc.kind = "docx"
    BY <1>1, <2>1, <2>5 DEF BuiltinConversions, DocxConversion
  <2>6. CASE doc.kind = "pptx"
    BY <2>1, <2>6, NotesInPlace DEF BuiltinConversions
  <2>7. CASE doc.kind = "xlsx"
    BY <1>1, <2>1, <2>7 DEF BuiltinConversions, XlsxConversion
  <2>8. CASE doc.kind = "epub"
    BY <2>1, <2>8, ChaptersInPlace DEF BuiltinConversions
  <2> QED BY <2>2, <2>3, <2>4, <2>5, <2>6, <2>7, <2>8 DEF Builtin
<1>3. CASE ~Registered[i].builtin
  BY <1>1, <1>3 DEF Conversions
<1> QED BY <1>2, <1>3

-----------------------------------------------------------------------------
LEMMA ReturnInPlace ==
    ASSUME RequestInv, PlacesInv, stack # <<>>, NEW STATE result,
           result.class = "ok" => \A w \in result.warnings : InPlace(w), Return(result)
    PROVE  PlacesInv'
<1>1. PICK t : t = SubSeq(stack, 1, Len(stack) - 1)
  OBVIOUS
<1>2. /\ Len(t) = Len(stack) - 1 /\ Len(stack) \in Nat \ {0}
      /\ \A i \in 1..Len(t) : t[i] = stack[i]
  BY <1>1, Popped DEF RequestInv, StackInv
<1>3. \A i \in 1..Len(t) : i \in 1..Len(stack)
  BY <1>2
<1>4. stack' = t /\ answer' = result
  BY <1>1 DEF Return
<1> QED BY <1>2, <1>3, <1>4 DEF PlacesInv

LEMMA ContinueInPlace ==
    ASSUME RequestInv, PlacesInv, stack # <<>>, NEW STATE f,
           \A w \in f.reports : InPlace(w), Continue(f)
    PROVE  PlacesInv'
<1>1. PICK S : stack \in Seq(S)
  BY DEF RequestInv, StackInv, IsStack
<1>2. /\ stack' = [stack EXCEPT ![Len(stack)] = f] /\ answer' = Pending
  BY DEF Continue
<1>3. /\ Len(stack') = Len(stack) /\ Len(stack) \in Nat \ {0}
      /\ \A i \in 1..Len(stack) : stack'[i] = IF i = Len(stack) THEN f ELSE stack[i]
  BY <1>1, <1>2
<1>4. answer'.class # "ok"
  BY <1>2 DEF Pending
<1> QED BY <1>3, <1>4 DEF PlacesInv

LEMMA SealedInPlace ==
    ASSUME NEW f, \A w \in f.fallbacks : InPlace(w), NEW c, \A w \in c.warnings : InPlace(w),
           NEW wanted, NEW w \in Sealed(f, c, wanted).warnings
    PROVE  InPlace(w)
<1>1. Sealed(f, c, wanted).warnings \in {{}, f.fallbacks \cup c.warnings}
  BY DEF Sealed, Failure
<1> QED BY <1>1

LEMMA TopInPlace ==
    ASSUME RequestInv, PlacesInv, stack # <<>>
    PROVE  /\ \A w \in Top.reports : InPlace(w)
           /\ \A w \in Top.fallbacks : InPlace(w)
<1>1. Len(stack) \in Nat \ {0} /\ FrameInv(Top, source, intent)
  BY TopHolds
<1>2. Len(stack) \in 1..Len(stack)
  BY <1>1
<1>3. \A w \in Top.reports : InPlace(w)
  BY <1>2 DEF PlacesInv, Top
<1>4. \A k : Fallback(k).location = Nowhere
  BY DEF Fallback
<1>5. \A w \in Top.fallbacks : w.location = Nowhere
  BY <1>1, <1>4 DEF FrameInv, Remembers
<1> QED BY <1>3, <1>5, NowhereInPlace

LEMMA MemberInPlace ==
    ASSUME RequestInv, CareInv, stack # <<>>, answer # Pending
    PROVE  \A w : w.location = Location(source[Top.doc].members[Top.next]) => InPlace(w)
<1> DEFINE M == source[Top.doc].members
           k == Top.next
<1>1. /\ SourceHolds /\ FrameInv(Top, source, intent)
      /\ FrameCare(Top, TRUE, source, intent)
  <2>1. (answer # Pending) = TRUE
    OBVIOUS
  <2> QED BY <2>1, TopCare
<1>2. /\ Top.unpacking /\ k \in 1..(Len(M) + 1) /\ k \in Files(source[Top.doc])
      /\ NamesSeen(Top, k, source)
  BY <1>1 DEF FrameCare
<1>3. Top.doc \in DOMAIN source /\ source[Top.doc].kind = "zip" /\ DOMAIN M = 1..Len(M)
      /\ Len(M) \in Nat
  BY <1>1, <1>2, ArchiveHolds
<1>4. k \in DOMAIN M
  BY <1>2 DEF Files
<1>5. M[k].name \in Seq(Symbol)
  <2>1. M \in Seq(Entry((Top.doc + 1)..Len(source)))
    BY <1>1, <1>3 DEF SourceHolds, IsForest
  <2>2. M[k] \in Entry((Top.doc + 1)..Len(source))
    <3> HIDE DEF M, k
    <3> QED BY <1>4, <2>1
  <2>3. \A D : \A e \in Entry(D) : e.name \in Seq(Symbol)
    <3> HIDE DEF Symbol
    <3> QED BY DEF Entry
  <2> QED BY <2>2, <2>3
<1>6. Admitted(M[k].name)
  <2>1. k \in 1..k
    BY <1>2
  <2> QED BY <1>2, <2>1 DEF NamesSeen
<1>7. InspectDecoded(TrimSpace(M[k].name))
  BY <1>6 DEF Admitted
<1>8. TrimSpace(M[k].name) \in Seq(Symbol)
  BY <1>5, TrimmedIsName
<1>9. Location(M[k]).member = TrimSpace(M[k].name)
  BY DEF Location
<1> QED BY <1>7, <1>8, <1>9 DEF InPlace

-----------------------------------------------------------------------------
LEMMA AttemptInPlace ==
    ASSUME RequestInv, PlacesInv, Attempt
    PROVE  PlacesInv'
<1> DEFINE i == Nth(Len(Top.attempts) + 1)
<1>1. Dispatching /\ Untried /\ Accepts(Converter, Doc) /\ stack # <<>>
      /\ ~(Converter.builtin /\ Converter.name = "zip")
  BY DEF Attempt, Dispatching
<1>2. PICK c \in Conversions(Converter, Doc, Wanted) : AfterConversion(Top, Converter, c, Wanted)
  BY DEF Attempt
<1>3. /\ i \in DOMAIN Registered /\ Top.doc \in DOMAIN source /\ ~IsZip(i)
      /\ Accepts(Registered[i], source[Top.doc])
      /\ c \in Conversions(Registered[i], source[Top.doc], Wanted)
      /\ FrameInv(Top, source, intent)
  BY <1>1, <1>2, TurnHolds, TopHolds DEF Doc, Untried
<1>4. Sound(c) /\ SourceHolds
  BY <1>3, ConversionsSound DEF RequestInv
<1>5. \A w \in c.warnings : InPlace(w)
  <2> HIDE DEF i
  <2> QED BY <1>3, <1>4, ConversionsInPlace
<1>6. CASE c.class = "ok"
  <2>1. PICK d : d = [c EXCEPT !.parts = Tagged(@, Top.doc)]
    OBVIOUS
  <2>2. d.warnings = c.warnings
    BY <1>4, <2>1 DEF Sound, Shaped
  <2>3. Return(Sealed(Top, d, Wanted))
    BY <1>2, <1>6, <2>1, AfterConversionByClass
  <2>4. \A w \in Sealed(Top, d, Wanted).warnings : InPlace(w)
    BY <1>1, <1>5, <2>2, TopInPlace, SealedInPlace
  <2> QED BY <1>1, <2>3, <2>4, ReturnInPlace
<1>7. CASE c.class \in Passing
  <2>1. Continue(Attempted(Top, Converter.name, c.class))
    BY <1>2, <1>7, AfterConversionByClass
  <2>2. Attempted(Top, Converter.name, c.class).reports = Top.reports
    BY <1>3 DEF Attempted, FrameInv, Fields
  <2> QED BY <1>1, <2>1, <2>2, TopInPlace, ContinueInPlace
<1>8. CASE c.class \in Terminal
  <2>1. Return(Failure(c.class)) /\ Failure(c.class).warnings = {}
    BY <1>2, <1>8, AfterConversionByClass DEF Failure
  <2> QED BY <1>1, <2>1, ReturnInPlace
<1> QED BY <1>4, <1>6, <1>7, <1>8 DEF Sound

LEMMA MemberStaysInPlace ==
    ASSUME RequestInv, PlacesInv, Member
    PROVE  PlacesInv'
<1> DEFINE member == Doc.members[Top.next]
           noted == [Top EXCEPT !.seen = @ \cup {TrimSpace(member.name)}]
           passed == [noted EXCEPT !.next = @ + 1]
<1>1. stack # <<>> /\ answer = Pending
  BY DEF Member, Unpacking
<1>2. \/ Return(Failure("malformed"))
      \/ Continue(passed)
      \/ /\ stack' = Append([stack EXCEPT ![Len(stack)] = noted], Fresh(member.doc))
         /\ UNCHANGED <<source, intent, answer>>
  BY DEF Member
<1>3. noted.reports = Top.reports /\ passed.reports = Top.reports
  BY <1>1, TopHolds DEF FrameInv, Fields
<1>4. CASE Return(Failure("malformed"))
  <2>1. Failure("malformed").warnings = {}
    BY DEF Failure
  <2> QED BY <1>1, <1>4, <2>1, ReturnInPlace
<1>5. CASE Continue(passed)
  <2> HIDE DEF passed
  <2> QED BY <1>1, <1>3, <1>5, TopInPlace, ContinueInPlace
<1>6. CASE /\ stack' = Append([stack EXCEPT ![Len(stack)] = noted], Fresh(member.doc))
           /\ UNCHANGED <<source, intent, answer>>
  <2>1. PICK S : stack \in Seq(S)
    BY DEF RequestInv, StackInv, IsStack
  <2>2. Fresh(member.doc).reports = {}
    BY DEF Fresh
  <2> HIDE DEF noted, member
  <2>3. PICK n \in Nat \ {0} : n = Len(stack)
    BY <1>1, TopHolds
  <2>4. PICK t : t = [stack EXCEPT ![n] = noted]
    OBVIOUS
  <2>5. /\ t \in Seq(S \cup {noted}) /\ Len(t) = n
        /\ \A j \in 1..n : t[j] = IF j = n THEN noted ELSE stack[j]
    BY <2>1, <2>3, <2>4
  <2>6. PICK f : f = Fresh(member.doc)
    OBVIOUS
  <2>7. stack' = Append(t, f)
    BY <1>6, <2>3, <2>4, <2>6
  <2>8. /\ Len(stack') = n + 1 /\ stack'[n + 1] = f
        /\ \A j \in 1..n : stack'[j] = t[j]
    BY <2>3, <2>5, <2>7
  <2>9. ASSUME NEW j \in 1..(n + 1), NEW w \in stack'[j].reports PROVE InPlace(w)
    <3>1. j \in 1..n \/ j = n + 1
      BY <2>3
    <3>2. CASE j = n + 1
      BY <2>2, <2>6, <2>8, <2>9, <3>2
    <3>3. CASE j \in 1..n
      <4>1. stack'[j].reports = stack[j].reports
        BY <1>3, <2>3, <2>5, <2>8, <3>3 DEF Top
      <4> QED BY <2>3, <2>9, <3>3, <4>1 DEF PlacesInv
    <3> QED BY <3>1, <3>2, <3>3
  <2>10. answer'.class # "ok"
    BY <1>1, <1>6 DEF Pending
  <2> QED BY <2>8, <2>9, <2>10 DEF PlacesInv
<1> QED BY <1>2, <1>4, <1>5, <1>6

LEMMA AnsweredInPlace ==
    ASSUME RequestInv, CareInv, PlacesInv, Answered
    PROVE  PlacesInv'
<1> DEFINE member == Doc.members[Top.next]
<1>1. stack # <<>> /\ answer # Pending /\ AfterMember(Top, member, answer)
  BY DEF Answered
<1>2. /\ answer.class \in {"unsupported", "failed", "ok"} \cup Terminal
      /\ answer.class = "ok" => \A w \in answer.warnings : "location" \in DOMAIN w
  <2>1. \A class \in Passing \cup Terminal : Failure(class).class = class /\ class # "ok"
    BY DEF Failure, Passing, Terminal
  <2> QED BY <1>1, <2>1 DEF RequestInv, AnswerInv, Passing
<1>3. DOMAIN Top = Fields /\ \A w \in Top.reports : InPlace(w)
  BY <1>1, TopHolds, TopInPlace DEF FrameInv
<1>4. \A w : w.location = Location(member) => InPlace(w)
  BY <1>1, MemberInPlace DEF Doc
<1> HIDE DEF member
<1>5. CASE answer.class \in {"unsupported", "failed"}
  <2>1. PICK category \in {"unsupported_member", "member_conversion_failed"} :
           Continue(Report(Top, category, member))
    BY <1>1, <1>5, AfterMemberByClass
  <2>2. Report(Top, category, member).reports = Top.reports \cup {Warning(category, Location(member))}
    BY <1>3 DEF Report, Fields
  <2>3. Warning(category, Location(member)).location = Location(member)
    BY DEF Warning
  <2>4. \A w \in Report(Top, category, member).reports : InPlace(w)
    BY <1>3, <1>4, <2>2, <2>3
  <2> QED BY <1>1, <2>1, <2>4, ContinueInPlace
<1>6. CASE answer.class = "ok"
  <2> DEFINE moved(w) == [w EXCEPT !.location = IF w.location = Nowhere THEN Location(member) ELSE @]
  <2>1. Continue(Absorb(Top, member, answer))
    BY <1>1, <1>6, AfterMemberByClass
  <2>2. Absorb(Top, member, answer).reports = Top.reports \cup {moved(w) : w \in answer.warnings}
    BY <1>3 DEF Absorb, Fields
  <2>3. ASSUME NEW w \in answer.warnings PROVE InPlace(moved(w))
    <3>1. moved(w).location = IF w.location = Nowhere THEN Location(member) ELSE w.location
      BY <1>2, <1>6, <2>3
    <3>2. InPlace(w)
      BY <1>6, <2>3 DEF PlacesInv
    <3> HIDE DEF moved
    <3> QED BY <1>4, <3>1, <3>2 DEF InPlace
  <2> HIDE DEF moved
  <2>4. \A w \in Absorb(Top, member, answer).reports : InPlace(w)
    BY <1>3, <2>2, <2>3
  <2> QED BY <1>1, <2>1, <2>4, ContinueInPlace
<1>7. CASE answer.class \in Terminal
  <2>1. Return(Failure(answer.class)) /\ Failure(answer.class).warnings = {}
    BY <1>1, <1>7, AfterMemberByClass DEF Failure
  <2> QED BY <1>1, <2>1, ReturnInPlace
<1> QED BY <1>2, <1>5, <1>6, <1>7

LEMMA PackInPlace ==
    ASSUME RequestInv, PlacesInv, Pack
    PROVE  PlacesInv'
<1>1. /\ stack # <<>> /\ Return(Sealed(Top, Packed(Top, Wanted), Wanted))
  BY DEF Pack, Packed, Unpacking
<1>2. Packed(Top, Wanted).warnings \in {{}, Top.reports}
  BY DEF Packed, Projected, Converted
<1>3. \A w \in Packed(Top, Wanted).warnings : InPlace(w)
  BY <1>1, <1>2, TopInPlace
<1>4. \A w \in Sealed(Top, Packed(Top, Wanted), Wanted).warnings : InPlace(w)
  BY <1>1, <1>3, TopInPlace, SealedInPlace
<1> QED BY <1>1, <1>4, ReturnInPlace

LEMMA PlacesStep ==
    ASSUME RequestInv, CareInv, PlacesInv, [Next]_vars
    PROVE  PlacesInv'
<1>1. CASE Decline
  <2>1. stack # <<>> /\ Continue(Attempted(Top, Converter.name, "unsupported"))
    BY <1>1 DEF Decline, Dispatching
  <2>2. Attempted(Top, Converter.name, "unsupported").reports = Top.reports
    BY <2>1, TopHolds DEF Attempted, FrameInv, Fields
  <2> QED BY <2>1, <2>2, TopInPlace, ContinueInPlace
<1>2. CASE Exhaust
  <2>1. stack # <<>> /\ \E class : Return(Failure(class))
    BY <1>2 DEF Exhaust, Dispatching
  <2>2. \A class : Failure(class).warnings = {}
    BY DEF Failure
  <2> QED BY <2>1, <2>2, ReturnInPlace
<1>3. CASE Unpack
  <2>1. stack # <<>> /\ (Continue([Top EXCEPT !.unpacking = TRUE]) \/ Return(Failure("malformed")))
    BY <1>3 DEF Unpack, Dispatching
  <2>2. Failure("malformed").warnings = {}
    BY DEF Failure
  <2>3. [Top EXCEPT !.unpacking = TRUE].reports = Top.reports
    BY <2>1, TopHolds DEF FrameInv, Fields
  <2> QED BY <2>1, <2>2, <2>3, TopInPlace, ReturnInPlace, ContinueInPlace
<1>4. CASE UNCHANGED vars
  BY <1>4 DEF PlacesInv, vars
<1> QED BY <1>1, <1>2, <1>3, <1>4, AttemptInPlace, MemberStaysInPlace, AnsweredInPlace, PackInPlace DEF Next

LEMMA PlacesHold == Spec => []PlacesInv
<1>1. Init => PlacesInv
  <2> SUFFICES ASSUME Init PROVE PlacesInv
    OBVIOUS
  <2>1. stack = <<Fresh(1)>> /\ answer = Pending
    BY DEF Init
  <2>2. Fresh(1).reports = {} /\ Pending.class # "ok"
    BY DEF Fresh, Pending
  <2>3. Len(stack) = 1 /\ stack[1] = Fresh(1)
    BY <2>1
  <2> QED BY <2>1, <2>2, <2>3 DEF PlacesInv
<1>2. RequestInv /\ CareInv /\ PlacesInv /\ [Next]_vars => PlacesInv'
  BY PlacesStep
<1> QED BY <1>1, <1>2, InvariantHolds, CareHolds, PTL DEF Spec

-----------------------------------------------------------------------------
(* Partial failure (zip.go:170-200): whatever an archive holds, at any     *)
(* depth, is shown in the Markdown, or converts to nothing, or a warning   *)
(* of the envelope names the member: for every source, registry and        *)
(* nesting.                                                                *)
THEOREM NoMemberIsLost == Spec => []MembersAreAccountedFor
BY InvariantHolds, CareHolds, MembersAtTheEnd, PTL

(* Partial failure (ingestion.go:200-236, zip.go:170-187): a request ends  *)
(* with a failure only if something in the source calls for that failure,  *)
(* with an envelope only if nothing does, and otherwise for want of a      *)
(* converter.                                                              *)
THEOREM FailuresAreCaused == Spec => []IngestFailsForCause
BY InvariantHolds, CareHolds, CausesAtTheEnd, PTL

(* Optional parts (pptx.go:255-304, epub.go:216-252): whatever links and   *)
(* manifests lead to is shown, blank or reported at its place, for every   *)
(* package and every book, alone or in archives.                           *)
THEOREM NoPartIsLost == Spec => []PartsAreAccountedFor
BY InvariantHolds, ShownHolds, PartsAtTheEnd, PTL

(* Layout (pdf.go:667-733): every line of plain text is shown, once, in a  *)
(* paragraph, and of a run of rows the last that make a table, in one, for *)
(* every text: recursion in layoutToMarkdown loses and repeats no line.    *)
THEOREM EveryTableIsOneRun == Spec => []TablesAreRuns
BY InvariantHolds, ShownHolds, TablesAtTheEnd, PTL

(* Whoever reads the location of a warning, and decodes it as often as he  *)
(* likes, gets the path of something inside the archive (sanitize.go:191-  *)
(* 236): for names of any length, decoded any number of times.             *)
THEOREM PlacesAreInside == Spec => []LocationsStayInside
<1>1. PlacesInv => LocationsStayInside
  BY AdmittedStays DEF PlacesInv, InPlace, LocationsStayInside, IsAnswered
<1> QED BY <1>1, PlacesHold, PTL
=============================================================================
