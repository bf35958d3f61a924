------------------------ MODULE RequestBudgetProofs ------------------------
(***************************************************************************)
(* Facts about single RequestBudget calls, for every choice of limits.     *)
(* RequestLedgerProofs and ContainerWalkProofs build their invariants on   *)
(* them.                                                                   *)
(***************************************************************************)
EXTENDS RequestBudget, TLAPS

\* A call that either refuses without effect, or charges within the limits
\* and lowers nothing.
Charges(b, call) ==
    /\ call.err \in Verdict
    /\ call.ledger \in Ledger
    /\ WithinLimits(call.ledger)
    /\ call.err # "nil" => call.ledger = b
    /\ b.sourceBytes      <= call.ledger.sourceBytes
    /\ b.primaryBytes     <= call.ledger.primaryBytes
    /\ b.artifactCount    <= call.ledger.artifactCount
    /\ b.artifactBytes    <= call.ledger.artifactBytes
    /\ b.containerEntries <= call.ledger.containerEntries
    /\ b.expandedBytes    <= call.ledger.expandedBytes
    /\ b.containerDepth   <= call.ledger.containerDepth

(* The limits are integers, the byte limits positive.                      *)
LEMMA LimitTypes ==
    /\ {MaxInt64, MaxSourceBytes, MaxPrimaryBytes, MaxArtifactBytes,
        MaxTotalArtifactBytes, MaxContainerEntries, MaxContainerEntryBytes,
        MaxExpandedBytes} \subseteq Nat \ {0}
    /\ {MaxArtifacts, MaxContainerDepth} \subseteq Nat
  BY ValidLimits

(* checkedAdd computes the true sum whenever it reports success: the guard *)
(* before the addition keeps it inside int64 (budget.go:208-213).          *)
LEMMA CheckedAdd ==
    ASSUME NEW x \in Nat, NEW n \in Int
    PROVE  /\ checkedAdd(x, n).ok => checkedAdd(x, n).sum = x + n /\ n >= 0
           /\ checkedAdd(x, n).ok <=> n >= 0 /\ x + n <= MaxInt64
  BY ValidLimits DEF checkedAdd, Int64Add

(* A total that ExceedsTotal lets pass is the true sum and within the      *)
(* limit.                                                                  *)
LEMMA TotalFits ==
    ASSUME NEW x \in Nat, NEW n \in Int, NEW limit \in Int,
           ~ExceedsTotal(x, n, limit)
    PROVE  /\ checkedAdd(x, n).sum = x + n
           /\ x + n \in Nat
           /\ x <= x + n
           /\ x + n <= limit
  BY CheckedAdd DEF ExceedsTotal

(* The empty ledger is within every limit.                                 *)
LEMMA ZeroLedgerFits == ZeroLedger \in Ledger /\ WithinLimits(ZeroLedger)
  BY ValidLimits DEF ZeroLedger, Ledger, WithinLimits

(* AdmitSource and AdmitPrimary (budget.go:94-101, 183-195).               *)
LEMMA SourceCharges ==
    ASSUME NEW b \in Ledger, WithinLimits(b), NEW n \in Int
    PROVE  Charges(b, AdmitSource(b, n))
<1> USE DEF Ledger, WithinLimits, Refuse, Accept, Verdict
<1>1. CASE n < 0 \/ ExceedsTotal(b.sourceBytes, n, MaxSourceBytes)
  BY <1>1 DEF Charges, AdmitSource
<1>2. CASE ~(n < 0 \/ ExceedsTotal(b.sourceBytes, n, MaxSourceBytes))
  <2>1a. b.sourceBytes \in Nat /\ MaxSourceBytes \in Int
    BY LimitTypes
  <2>1. /\ checkedAdd(b.sourceBytes, n).sum \in Nat
        /\ b.sourceBytes <= checkedAdd(b.sourceBytes, n).sum
        /\ checkedAdd(b.sourceBytes, n).sum <= MaxSourceBytes
    BY <1>2, <2>1a, TotalFits
  <2>2. AdmitSource(b, n) = Accept([b EXCEPT !.sourceBytes = checkedAdd(@, n).sum])
    BY <1>2 DEF AdmitSource
  <2>3. QED
    BY <2>1, <2>2 DEF Charges
<1>3. QED
  BY <1>1, <1>2

LEMMA PrimaryCharges ==
    ASSUME NEW b \in Ledger, WithinLimits(b), NEW n \in Int
    PROVE  Charges(b, AdmitPrimary(b, n))
<1> USE DEF Ledger, WithinLimits, Refuse, Accept, Verdict
<1>1. CASE n < 0 \/ ExceedsTotal(b.primaryBytes, n, MaxPrimaryBytes)
  BY <1>1 DEF Charges, AdmitPrimary
<1>2. CASE ~(n < 0 \/ ExceedsTotal(b.primaryBytes, n, MaxPrimaryBytes))
  <2>1a. b.primaryBytes \in Nat /\ MaxPrimaryBytes \in Int
    BY LimitTypes
  <2>1. /\ checkedAdd(b.primaryBytes, n).sum \in Nat
        /\ b.primaryBytes <= checkedAdd(b.primaryBytes, n).sum
        /\ checkedAdd(b.primaryBytes, n).sum <= MaxPrimaryBytes
    BY <1>2, <2>1a, TotalFits
  <2>2. AdmitPrimary(b, n) = Accept([b EXCEPT !.primaryBytes = checkedAdd(@, n).sum])
    BY <1>2 DEF AdmitPrimary
  <2>3. QED
    BY <2>1, <2>2 DEF Charges
<1>3. QED
  BY <1>1, <1>2

(* AdmitArtifact moves the count and the bytes together or not at all      *)
(* (budget.go:104-119).                                                    *)
LEMMA ArtifactCharges ==
    ASSUME NEW b \in Ledger, WithinLimits(b), NEW n \in Int
    PROVE  Charges(b, AdmitArtifact(b, n))
<1> USE DEF Ledger, WithinLimits, Refuse, Accept, Verdict
<1> DEFINE refused == \/ n < 0
                      \/ n > MaxArtifactBytes
                      \/ b.artifactCount >= MaxArtifacts
                      \/ ExceedsTotal(b.artifactBytes, n, MaxTotalArtifactBytes)
<1>1. CASE refused
  BY <1>1 DEF Charges, AdmitArtifact
<1>2. CASE ~refused
  <2> DEFINE total == checkedAdd(b.artifactBytes, n).sum
             count == b.artifactCount + 1
             next == [b EXCEPT !.artifactCount = count, !.artifactBytes = total]
  <2>1. ~ExceedsTotal(b.artifactBytes, n, MaxTotalArtifactBytes)
    BY <1>2
  <2>2. b.artifactBytes \in Nat /\ MaxTotalArtifactBytes \in Int
    BY LimitTypes
  <2>3. total \in Nat /\ b.artifactBytes <= total /\ total <= MaxTotalArtifactBytes
    <3> HIDE DEF Ledger, WithinLimits
    <3>1. QED
      BY <2>1, <2>2, TotalFits
  <2>4. b.artifactCount \in Nat /\ MaxArtifacts \in Nat
    BY LimitTypes
  <2>5. count \in Nat /\ b.artifactCount <= count /\ count <= MaxArtifacts
    BY <1>2, <2>4
  <2>6. /\ AdmitArtifact(b, n).ledger = next
        /\ AdmitArtifact(b, n).err = "nil"
    BY <1>2 DEF AdmitArtifact
  <2> HIDE DEF total, count
  <2>7. /\ next \in Ledger
        /\ next.artifactCount = count
        /\ next.artifactBytes = total
        /\ next.sourceBytes = b.sourceBytes
        /\ next.primaryBytes = b.primaryBytes
        /\ next.containerEntries = b.containerEntries
        /\ next.expandedBytes = b.expandedBytes
        /\ next.containerDepth = b.containerDepth
    BY <2>3, <2>5
  <2> HIDE DEF next, Ledger
  <2>8. WithinLimits(next)
    BY <2>3, <2>5, <2>7
  <2>9. b.artifactCount <= next.artifactCount /\ b.artifactBytes <= next.artifactBytes
    BY <2>3, <2>5, <2>7
  <2>10. /\ b.sourceBytes \in Int /\ b.primaryBytes \in Int /\ b.containerEntries \in Int
         /\ b.expandedBytes \in Int /\ b.containerDepth \in Int
    BY DEF Ledger
  <2>11. QED
    BY <2>6, <2>7, <2>8, <2>9, <2>10 DEF Charges
<1>3. QED
  BY <1>1, <1>2

(* AdmitContainerEntry: whatever a member declares, what is committed is   *)
(* its actual size, once, within both container limits                     *)
(* (budget.go:147-173).                                                    *)
LEMMA EntryCharges ==
    ASSUME NEW b \in Ledger, WithinLimits(b),
           NEW declared \in Int, NEW compressed \in Int, NEW n \in Int
    PROVE  Charges(b, AdmitContainerEntry(b, declared, compressed, n))
<1> USE DEF Ledger, WithinLimits, Refuse, Accept, Verdict
<1> DEFINE refused == \/ declared < -1 \/ compressed < 0 \/ n < 0
                      \/ EntryExceeds(b, declared, compressed, n)
<1>1. CASE refused
  BY <1>1 DEF Charges, AdmitContainerEntry
<1>2. CASE ~refused
  <2> DEFINE total == checkedAdd(b.expandedBytes, n).sum
             count == b.containerEntries + 1
             next == [b EXCEPT !.containerEntries = count, !.expandedBytes = total]
  <2>1. ~ExceedsTotal(b.expandedBytes, n, MaxExpandedBytes)
    BY <1>2 DEF EntryExceeds
  <2>2. b.expandedBytes \in Nat /\ MaxExpandedBytes \in Int
    BY LimitTypes
  <2>3. total \in Nat /\ b.expandedBytes <= total /\ total <= MaxExpandedBytes
    <3> HIDE DEF Ledger, WithinLimits
    <3>1. QED
      BY <2>1, <2>2, TotalFits
  <2>4. b.containerEntries \in Nat /\ MaxContainerEntries \in Nat
    BY LimitTypes
  <2>5. count \in Nat /\ b.containerEntries <= count /\ count <= MaxContainerEntries
    BY <1>2, <2>4 DEF EntryExceeds
  <2>6. /\ AdmitContainerEntry(b, declared, compressed, n).ledger = next
        /\ AdmitContainerEntry(b, declared, compressed, n).err = "nil"
    BY <1>2 DEF AdmitContainerEntry
  <2> HIDE DEF total, count
  <2>7. /\ next \in Ledger
        /\ next.containerEntries = count
        /\ next.expandedBytes = total
        /\ next.sourceBytes = b.sourceBytes
        /\ next.primaryBytes = b.primaryBytes
        /\ next.artifactCount = b.artifactCount
        /\ next.artifactBytes = b.artifactBytes
        /\ next.containerDepth = b.containerDepth
    BY <2>3, <2>5
  <2> HIDE DEF next, Ledger
  <2>8. WithinLimits(next)
    BY <2>3, <2>5, <2>7
  <2>9. b.containerEntries <= next.containerEntries /\ b.expandedBytes <= next.expandedBytes
    BY <2>3, <2>5, <2>7
  <2>10. /\ b.sourceBytes \in Int /\ b.primaryBytes \in Int /\ b.artifactCount \in Int
         /\ b.artifactBytes \in Int /\ b.containerDepth \in Int
    BY DEF Ledger
  <2>11. QED
    BY <2>6, <2>7, <2>8, <2>9, <2>10 DEF Charges
<1>3. QED
  BY <1>1, <1>2

(* EnterContainer (budget.go:123-131).                                     *)
LEMMA EnterCharges ==
    ASSUME NEW b \in Ledger, WithinLimits(b)
    PROVE  Charges(b, EnterContainer(b))
  BY ValidLimits
     DEF Charges, EnterContainer, Ledger, WithinLimits, Refuse, Accept, Verdict

(* LeaveContainer gives back one level or refuses at zero                  *)
(* (budget.go:134-142).                                                    *)
LEMMA LeaveReleases ==
    ASSUME NEW b \in Ledger, WithinLimits(b)
    PROVE  LET call == LeaveContainer(b)
           IN  /\ call.err \in Verdict
               /\ call.ledger \in Ledger
               /\ WithinLimits(call.ledger)
               /\ call.err # "nil" => call.ledger = b
               /\ call.err = "nil" <=> b.containerDepth > 0
               /\ call.err = "nil" =>
                     call.ledger = [b EXCEPT !.containerDepth = b.containerDepth - 1]
  BY ValidLimits DEF LeaveContainer, Ledger, WithinLimits, Refuse, Accept, Verdict

\* Only these two move the depth, by one, and only when they succeed.
LEMMA EnterDeepens ==
    ASSUME NEW b \in Ledger
    PROVE  EnterContainer(b).err = "nil"
              => EnterContainer(b).ledger.containerDepth = b.containerDepth + 1
  BY DEF EnterContainer, Ledger, Refuse, Accept

LEMMA EntryKeepsDepth ==
    ASSUME NEW b \in Ledger, NEW declared, NEW compressed, NEW n
    PROVE  AdmitContainerEntry(b, declared, compressed, n).ledger.containerDepth
              = b.containerDepth
  BY DEF AdmitContainerEntry, Ledger, Refuse, Accept

\* How the gauges of the meter move when the ledger does.
LEMMA ReadingOfCharge ==
    ASSUME NEW b \in Ledger, NEW call, Charges(b, call)
    PROVE  /\ Reading(call.ledger) \in [Gauges -> Nat]
           /\ \A g \in Gauges : /\ Reading(b)[g] <= Reading(call.ledger)[g]
                                /\ Reading(call.ledger)[g] <= LimitOf[g]
<1> DEFINE after == call.ledger
<1>1. after \in Ledger /\ WithinLimits(after)
  BY DEF Charges
<1>2. /\ b.sourceBytes      <= after.sourceBytes
      /\ b.primaryBytes     <= after.primaryBytes
      /\ b.artifactCount    <= after.artifactCount
      /\ b.artifactBytes    <= after.artifactBytes
      /\ b.containerEntries <= after.containerEntries
      /\ b.expandedBytes    <= after.expandedBytes
      /\ b.containerDepth   <= after.containerDepth
  BY DEF Charges
<1> HIDE DEF after
<1>3. ASSUME NEW g \in Gauges
      PROVE  /\ Reading(after)[g] \in Nat
             /\ Reading(b)[g] <= Reading(after)[g]
             /\ Reading(after)[g] <= LimitOf[g]
  <2> USE <1>1, <1>2 DEF Reading, LimitOf, Gauges, Ledger, WithinLimits
  <2>1. CASE g = "source"         BY <2>1
  <2>2. CASE g = "primary"        BY <2>2
  <2>3. CASE g = "artifacts"      BY <2>3
  <2>4. CASE g = "artifactBytes"  BY <2>4
  <2>5. CASE g = "entries"        BY <2>5
  <2>6. CASE g = "expanded"       BY <2>6
  <2>7. CASE g = "depth"          BY <2>7
  <2>8. QED
    BY <2>1, <2>2, <2>3, <2>4, <2>5, <2>6, <2>7 DEF Gauges
<1>4. Reading(after) \in [Gauges -> Nat]
  BY <1>1 DEF Reading, Gauges, Ledger
<1>5. QED
  BY <1>3, <1>4 DEF after

LEMMA ReadingOfLeave ==
    ASSUME NEW b \in Ledger, WithinLimits(b)
    PROVE  LET after == LeaveContainer(b).ledger
           IN  \/ after = b
               \/ /\ Reading(b)["depth"] > 0
                  /\ Reading(after) = [Reading(b) EXCEPT !["depth"] = @ - 1]
<1> DEFINE after == LeaveContainer(b).ledger
<1>1. CASE b.containerDepth = 0
  BY <1>1 DEF LeaveContainer, Refuse
<1>2. CASE b.containerDepth > 0
  <2>1. after = [b EXCEPT !.containerDepth = b.containerDepth - 1]
    BY <1>2, LeaveReleases
  <2>2. /\ after.containerDepth = b.containerDepth - 1
        /\ after.sourceBytes = b.sourceBytes
        /\ after.primaryBytes = b.primaryBytes
        /\ after.artifactCount = b.artifactCount
        /\ after.artifactBytes = b.artifactBytes
        /\ after.containerEntries = b.containerEntries
        /\ after.expandedBytes = b.expandedBytes
    BY <2>1 DEF Ledger
  <2> HIDE DEF after
  <2>3. Reading(after) = [Reading(b) EXCEPT !["depth"] = @ - 1]
    BY <2>2 DEF Reading, Gauges
  <2>4. Reading(b)["depth"] > 0
    BY <1>2 DEF Reading, Gauges
  <2>5. QED
    BY <2>3, <2>4 DEF after
<1>3. QED
  BY <1>1, <1>2 DEF Ledger
=============================================================================
