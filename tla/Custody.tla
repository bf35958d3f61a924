------------------------------ MODULE Custody ------------------------------
(***************************************************************************)
(* An envelope in the hands of its host, which stores it, reloads it and   *)
(* verifies it with nothing else at hand (spec.md SC-001, SC-005).  In     *)
(* store, fields get corrupted and objects lost, repeated, exchanged or    *)
(* replaced; or the host writes the artifacts down in another order and    *)
(* numbers them consistently.  The question is what VerifyEnvelope can     *)
(* still tell.                                                             *)
(***************************************************************************)
EXTENDS Envelope

CONSTANTS
    Envelopes,      \* envelopes of the v1 shape, valid or not
    Fragile,        \* bound: the envelopes whose fields get corrupted
    Contents,       \* the byte contents there are, each with its length
    MaxDamage       \* bound: corrupted fields; a misplaced object counts as two

ASSUME CustodyAssumption ==
    /\ Envelopes \subseteq Shape /\ Fragile \subseteq Shape
    /\ Contents \subseteq [data : Nat, size : Nat]
    /\ MaxDamage \in Nat

VARIABLES
    original,       \* what was stored
    reloaded,       \* what is reloaded
    damage,         \* the fields corrupted so far
    renumbered      \* the artifacts were put in another order

custodyVars == <<original, reloaded, damage, renumbered>>

CustodyInit ==
    /\ original \in Envelopes
    /\ reloaded = original
    /\ damage = 0
    /\ renumbered = FALSE

\* Only envelopes that verify are worth storing.
Sound == {e \in Fragile : VerifyEnvelope(e)}

Damaged(n, e) ==
    /\ damage' = damage + n
    /\ reloaded' = e
    /\ e # reloaded
    /\ UNCHANGED <<original, renumbered>>

Known == {Identity(c) : c \in Contents} \cup {ArtifactID(n) : n \in 0..Len(reloaded.artifacts)}
Places == DOMAIN reloaded.artifacts

\* The bytes of one object are overwritten in place.
Overwrite(b, c) == [b EXCEPT !.data = c.data, !.size = c.size]

CorruptBytes ==
    \E c \in Contents :
        \/ Damaged(1, [reloaded EXCEPT !.source.bytes = Overwrite(@, c)])
        \/ \E i \in Places :
              Damaged(1, [reloaded EXCEPT !.artifacts[i].bytes = Overwrite(@, c)])

CorruptIdentity ==
    \E c \in Contents :
        \/ Damaged(1, [reloaded EXCEPT !.source.identity = Identity(c)])
        \/ Damaged(1, [reloaded EXCEPT !.sourceIdentity = Identity(c)])
        \/ \E i \in Places : Damaged(1, [reloaded EXCEPT !.artifacts[i].identity = Identity(c)])
        \/ \E i \in DOMAIN reloaded.outputs : Damaged(1, [reloaded EXCEPT !.outputs[i] = Identity(c)])

CorruptReference ==
    \E i \in Places, id \in Known :
        \/ Damaged(1, [reloaded EXCEPT !.artifacts[i].id = id])
        \/ \E j \in DOMAIN reloaded.artifacts[i].relations :
              \/ Damaged(1, [reloaded EXCEPT !.artifacts[i].relations[j].from = id])
              \/ Damaged(1, [reloaded EXCEPT !.artifacts[i].relations[j].to = id])

Lose == \E i \in Places :
            Damaged(2, [reloaded EXCEPT !.artifacts = [j \in 1..(Len(@) - 1) |-> @[IF j < i THEN j ELSE j + 1]]])
Repeat == \E i \in Places :
            Damaged(2, [reloaded EXCEPT !.artifacts = Append(@, @[i])])
Exchange == \E i, j \in Places :
            Damaged(2, [reloaded EXCEPT !.artifacts[i] = reloaded.artifacts[j],
                                        !.artifacts[j] = reloaded.artifacts[i]])
\* An object of another valid envelope takes the place of one of this one.
Substitute ==
    \E other \in Sound :
        /\ \/ Damaged(2, [reloaded EXCEPT !.source = other.source])
           \/ \E i \in Places \cap DOMAIN other.artifacts :
                 Damaged(2, [reloaded EXCEPT !.artifacts[i] = other.artifacts[i]])

\* The artifacts of e in the order p, renumbered, with every reference to
\* them and every list of relations kept consistent.
Moved(p, id) == IF id[1] = "artifact" /\ id[2] # 0
                THEN ArtifactID(CHOOSE n \in DOMAIN p : p[n] = id[2]) ELSE id

Moves(p, relations) ==
    [i \in 1..Len(relations) |-> [relations[i] EXCEPT !.from = Moved(p, @), !.to = Moved(p, @)]]

Turned(e, p, n) ==
    LET a == e.artifacts[p[n]]
    IN  [a EXCEPT !.id = ArtifactID(n), !.relations = SortedBy(Moves(p, a.relations), TextKey)]

Renumbered(e, p) ==
    [e EXCEPT !.artifacts = [n \in DOMAIN p |-> Turned(e, p, n)],
              !.outputs = [i \in 1..Len(@) |-> IF i = 1 THEN @[1] ELSE @[p[i - 1] + 1]]]

Renumber ==
    /\ damage = 0 /\ ~renumbered
    /\ \E p \in Orders(Len(reloaded.artifacts)) : reloaded' = Renumbered(reloaded, p)
    /\ renumbered' = TRUE
    /\ UNCHANGED <<original, damage>>

Keep == UNCHANGED custodyVars

Corrupt  == /\ damage + 1 <= MaxDamage /\ ~renumbered /\ original \in Sound
            /\ CorruptBytes \/ CorruptIdentity \/ CorruptReference
Misplace == /\ damage + 2 <= MaxDamage /\ ~renumbered /\ original \in Sound
            /\ Lose \/ Repeat \/ Exchange \/ Substitute

CustodyNext == Corrupt \/ Misplace \/ Renumber \/ Keep

CustodySpec == CustodyInit /\ [][CustodyNext]_custodyVars

-----------------------------------------------------------------------------
Links(a) == {[from |-> a.relations[i].from, kind |-> a.relations[i].kind,
              occurrence |-> a.relations[i].occurrence] : i \in DOMAIN a.relations}

\* What the stored bytes are, and which object each belongs to.
Record(e) == [source  |-> <<e.source.bytes.data, e.source.bytes.size>>,
              objects |-> [i \in DOMAIN e.artifacts |->
                            <<e.artifacts[i].id, e.artifacts[i].bytes.data, e.artifacts[i].bytes.size>>]]

(* "One-byte mutation, missing-artifact, duplicate-identity, invalid-      *)
(* reference, and cross-envelope substitution ... all fail public          *)
(* verification" (spec.md SC-005), and so do any two corrupted fields: an  *)
(* envelope that verifies still holds the bytes that were stored, each     *)
(* under its identifier.  Recomputing an identity is not enough for that,  *)
(* since a corrupted identity may fit corrupted bytes                      *)
(* (ingestion_verify.go:134-155, 343-350).                                 *)
TamperingShows ==
    damage \in 1..2 /\ VerifyEnvelope(reloaded) => Record(reloaded) = Record(original)

(* The canonical order is one: of all the ways to write the same artifacts *)
(* down and number them consistently, no two verify.  So an order that     *)
(* depended on identifiers, which are positions, would be no order at all  *)
(* (ingestion.go:479-507, TestIngestCanonicalArtifactOrderIsIDIndependent).*)
OneArrangement ==
    renumbered /\ VerifyEnvelope(original) /\ VerifyEnvelope(reloaded) => reloaded = original

\* All that VerifyEnvelope asks for, but the order.
HoldsUnordered(e) ==
    /\ SourceHolds(e)
    /\ e.primary.id = ArtifactID(0)
    /\ ObjectHolds(e, e.primary, MaxPrimaryBytes)
    /\ Len(e.artifacts) <= DefaultMaxArtifacts /\ Len(e.artifacts) <= MaxArtifacts
    /\ \A i \in DOMAIN e.artifacts : /\ e.artifacts[i].id = ArtifactID(i)
                                    /\ ObjectHolds(e, e.artifacts[i], MaxArtifactBytes)
    /\ Total(e) <= MaxTotalArtifactBytes
    /\ IdentifiersDiffer(e) /\ ProvenanceHolds(e)
    /\ FactsHold(e) /\ WarningsHold(e)
    /\ OwnershipHolds(e)

\* What an artifact is and where it comes from, whatever it is called.
Sense(refs, a) ==
    <<ReferenceKey(a), {<<Meaning(refs, l.from), l.kind, l.occurrence>> : l \in Links(a)}>>

\* Whatever is between two others looks like no third, and no two artifacts
\* are alike in everything.
Unambiguous(e) ==
    LET refs == Referents(e)
        As == e.artifacts
    IN  /\ \A i \in DOMAIN As : \A l \in Links(As[i]) : Resolves(refs, l.from)
        /\ \A i, j \in DOMAIN As : Sense(refs, As[i]) = Sense(refs, As[j]) => i = j

(* And there is one: artifacts that can be told apart without their        *)
(* identifiers have an order that verifies, also when two of them hold the *)
(* same bytes under the same name and only their occurrences differ.       *)
ArrangementExists ==
    damage = 0 /\ ~renumbered /\ HoldsUnordered(original) /\ Unambiguous(original)
        => \E p \in Orders(Len(original.artifacts)) : VerifyEnvelope(Renumbered(original, p))
=============================================================================
