------------------------------ MODULE Envelope ------------------------------
(***************************************************************************)
(* The ingestion envelope (ingestion_model.go) and what VerifyEnvelope     *)
(* (ingestion_verify.go) accepts: identities recomputed from bytes, every  *)
(* byte count within the policy and the v1 ceilings, artifacts numbered by *)
(* a canonical order that no identifier takes part in, relations that      *)
(* resolve inside the envelope, and no storage shared between objects.     *)
(*                                                                         *)
(* Data are numbers that tell apart what the verifier tells apart.  A      *)
(* `look` stands for an artifact's role, media type, safe name and         *)
(* attributes, an occurrence for the text that distinguishes one use from  *)
(* another; the strings are compared through numbers of the same equality, *)
(* in some total order.  SHA-256 is taken to be injective.                 *)
(***************************************************************************)
EXTENDS RequestBudget, Sequences, FiniteSets

CONSTANTS
    V1MaxByteLength,        \* v1MaxByteLength
    DefaultMaxArtifacts,    \* the v1 ceiling on the artifact count
    UnsafeLabels            \* looks, occurrences and texts no verifier accepts

ASSUME CeilingAssumption ==
    /\ V1MaxByteLength \in Nat
    /\ DefaultMaxArtifacts \in Nat
    /\ UnsafeLabels \subseteq Nat \ {0}     \* the engine's own labels are 0

(***************************************************************************)
(* A byte slice: what it holds, its length, whether it is non-nil, and the *)
(* backing array it lives in.                                              *)
(***************************************************************************)
Identity(b)   == <<"sha256", b.data, b.size>>
ArtifactID(n) == <<"artifact", n>>

\* The kinds, in the order of their names.
RelationKind == {"derived_from", "embedded_in", "referenced_by"}
KindRank(k)  == CASE k = "derived_from" -> 1 [] k = "embedded_in" -> 2
                  [] k = "referenced_by" -> 3 [] OTHER -> 4

Relation(from, to, occurrence) ==
    [kind |-> "derived_from", from |-> from, to |-> to, occurrence |-> occurrence]

\* The v1 shape: what the fields of an envelope can hold, valid or not.
Fact      == [kind : Nat, origin : Nat, value : Nat]
Digest    == {"sha256"} \X Nat \X Nat
Reference == Digest \cup ({"artifact"} \X Nat)
Buffer    == [data : Nat, size : Nat, present : BOOLEAN, store : Nat]
Link      == [kind : STRING, from : Reference, to : Reference, occurrence : Nat]
Object    == [id : Reference, look : Nat, bytes : Buffer, identity : Digest, length : Nat,
              relations : Seq(Link)]
Shape     == [source : [bytes : Buffer, identity : Digest, length : Nat],
              primary : Object, artifacts : Seq(Object),
              sourceIdentity : Digest, outputs : Seq(Digest),
              facts : Seq(Fact), warnings : Seq(Nat)]

-----------------------------------------------------------------------------
\* A total order on sequences of numbers; the code's is that of the strings
\* they stand for.
Before(s, t) ==
    \/ Len(s) < Len(t)
    \/ /\ Len(s) = Len(t)
       /\ \E i \in DOMAIN s : s[i] < t[i] /\ \A j \in 1..(i - 1) : s[j] = t[j]

Increasing(s) == \A i \in 1..(Len(s) - 1) : Before(s[i], s[i + 1])
Monotone(s)   == \A i \in 1..(Len(s) - 1) : ~Before(s[i + 1], s[i])

\* The ways to arrange n things, and s in ascending order of its keys.
Orders(n) == {p \in [1..n -> 1..n] : \A i, j \in 1..n : p[i] = p[j] => i = j}

SortedBy(s, Key(_)) ==
    LET n == Len(s)
        p == CHOOSE q \in Orders(n) : Monotone([i \in 1..n |-> Key(s[q[i]])])
    IN  [i \in 1..n |-> s[p[i]]]

-----------------------------------------------------------------------------
\* canonicalArtifactReferenceKey: everything an artifact is, but its relations
\* and its identifier.
ReferenceKey(a) == <<2 + a.look, a.identity[2], a.identity[3], a.length>>

SourceKey  == <<0, 0, 0, 0>>
PrimaryKey == <<1, 0, 0, 0>>

\* What a relation may refer to, and what it means.
Referents(e) ==
    <<[id |-> e.source.identity, key |-> SourceKey], [id |-> e.primary.id, key |-> PrimaryKey]>>
    \o [i \in 1..Len(e.artifacts) |->
            [id |-> e.artifacts[i].id, key |-> ReferenceKey(e.artifacts[i])]]

\* A reference resolves when one object has that identifier and no other
\* object looks the same.
Resolves(refs, id) ==
    \E i \in DOMAIN refs : /\ refs[i].id = id
                           /\ \A j \in DOMAIN refs \ {i} : /\ refs[j].id # id
                                                           /\ refs[j].key # refs[i].key

Meaning(refs, id) == refs[CHOOSE i \in DOMAIN refs : refs[i].id = id].key

\* Mutation: the identifier itself is compared, not what it means.
Endpoint_positional(refs, a, id) == IF id[1] = "artifact" THEN <<id[2]>> ELSE SourceKey

\* canonicalRelationEndpoint
Endpoint(refs, a, id) == IF id = a.id THEN ReferenceKey(a) ELSE Meaning(refs, id)

RelationKey(refs, a, r) ==
    Endpoint(refs, a, r.from) \o Endpoint(refs, a, r.to) \o <<KindRank(r.kind), r.occurrence>>

\* Mutation: an artifact's own identifier is looked up like any other.
Keyed_selfLookedUp(refs, a) ==
    \A i \in DOMAIN a.relations :
        Resolves(refs, a.relations[i].from) /\ Resolves(refs, a.relations[i].to)

\* canonicalArtifactOrderKey, when every endpoint resolves.
Keyed(refs, a) ==
    \A i \in DOMAIN a.relations :
        \A id \in {a.relations[i].from, a.relations[i].to} : id = a.id \/ Resolves(refs, id)

RelationKeys(refs, a) ==
    LET Itself(key) == key
    IN  SortedBy([i \in 1..Len(a.relations) |-> RelationKey(refs, a, a.relations[i])], Itself)

\* The keys of the relations in ascending order, then the artifact's own.
OrderKey(refs, a) ==
    LET keys == RelationKeys(refs, a)
        ends[n \in 0..Len(keys)] == IF n = 0 THEN <<>> ELSE ends[n - 1] \o keys[n]
    IN  ends[Len(keys)] \o ReferenceKey(a)

-----------------------------------------------------------------------------
\* relationKey compares identifiers as text: artifact-... before sha256:...
Textual(id) == IF id[1] = "artifact" THEN <<0, id[2], 0>> ELSE <<1, id[2], id[3]>>
TextKey(r)  == Textual(r.from) \o Textual(r.to) \o <<KindRank(r.kind), r.occurrence>>

Outputs(e)     == <<e.primary>> \o e.artifacts
Identifiers(e) == {e.source.identity} \cup {Outputs(e)[i].id : i \in DOMAIN Outputs(e)}

\* verifyRelations and verifyRelationshipCoverage: sorted, none twice, each
\* from another object of the envelope to this one, and at least one.
RelationsHold(e, a) ==
    /\ Increasing([i \in 1..Len(a.relations) |-> TextKey(a.relations[i])])
    /\ a.relations # <<>>
    /\ \A i \in DOMAIN a.relations :
          LET r == a.relations[i]
          IN  /\ r.kind \in RelationKind
              /\ r.from \in Identifiers(e) \ {a.id}
              /\ r.to = a.id
              /\ r.occurrence \notin UnsafeLabels

\* verifyArtifact
ObjectHolds(e, a, maxBytes) ==
    /\ a.bytes.present
    /\ a.identity = Identity(a.bytes)
    /\ a.length = a.bytes.size
    /\ a.length <= maxBytes /\ a.length <= V1MaxByteLength
    /\ a.look \notin UnsafeLabels
    /\ RelationsHold(e, a)

\* verifySource
SourceHolds(e) ==
    /\ e.source.bytes.present
    /\ e.source.identity = Identity(e.source.bytes)
    /\ e.source.length = e.source.bytes.size
    /\ e.source.length <= MaxSourceBytes /\ e.source.length <= V1MaxByteLength

\* registerID: nothing bears an identifier that another object has.
IdentifiersDiffer(e) == Cardinality(Identifiers(e)) = 2 + Len(e.artifacts)

Total(e) ==
    LET sum[n \in 0..Len(e.artifacts)] ==
            IF n = 0 THEN 0 ELSE sum[n - 1] + e.artifacts[n].length
    IN  sum[Len(e.artifacts)]

\* verifyArtifacts
InventoryHolds(e) ==
    LET n == Len(e.artifacts)
        refs == Referents(e)
    IN  /\ n <= DefaultMaxArtifacts /\ n <= MaxArtifacts
        /\ \A i \in 1..n : /\ e.artifacts[i].id = ArtifactID(i)
                           /\ Keyed(refs, e.artifacts[i])
                           /\ ObjectHolds(e, e.artifacts[i], MaxArtifactBytes)
        /\ Increasing([i \in 1..n |-> OrderKey(refs, e.artifacts[i])])
        /\ Total(e) <= MaxTotalArtifactBytes

\* Mutation: the outputs are compared as sets.
ProvenanceHolds_asSets(e) ==
    /\ e.sourceIdentity = e.source.identity
    /\ {e.outputs[i] : i \in DOMAIN e.outputs}
           = {Outputs(e)[i].identity : i \in DOMAIN Outputs(e)}

\* verifyProvenance
ProvenanceHolds(e) ==
    /\ e.sourceIdentity = e.source.identity
    /\ e.outputs = [i \in 1..Len(Outputs(e)) |-> Outputs(e)[i].identity]

\* verifyFacts and verifyWarnings
FactKey(f) == <<f.kind, f.origin, f.value>>
FactsHold(e) ==
    /\ Monotone([i \in 1..Len(e.facts) |-> FactKey(e.facts[i])])
    /\ \A i, j \in DOMAIN e.facts :
          e.facts[i].kind = e.facts[j].kind /\ e.facts[i].origin = e.facts[j].origin => i = j
    /\ \A i \in DOMAIN e.facts : {e.facts[i].kind, e.facts[i].value} \cap UnsafeLabels = {}
WarningKey(warning) == <<warning>>
WarningsHold(e) ==
    /\ Monotone([i \in 1..Len(e.warnings) |-> WarningKey(e.warnings[i])])
    /\ \A i \in DOMAIN e.warnings : e.warnings[i] \notin UnsafeLabels

\* verifyOwnership: no two slices that have any capacity share storage.
OwnershipHolds(e) ==
    LET slices == <<e.source.bytes>> \o [i \in 1..Len(Outputs(e)) |-> Outputs(e)[i].bytes]
    IN  \A i, j \in DOMAIN slices :
            /\ slices[i].size > 0 /\ slices[j].size > 0
            /\ slices[i].store = slices[j].store
            => i = j

VerifyEnvelope(e) ==
    /\ SourceHolds(e)
    /\ e.primary.id = ArtifactID(0)
    /\ ObjectHolds(e, e.primary, MaxPrimaryBytes)
    /\ InventoryHolds(e)
    /\ IdentifiersDiffer(e)
    /\ ProvenanceHolds(e)
    /\ FactsHold(e)
    /\ WarningsHold(e)
    /\ OwnershipHolds(e)
=============================================================================
