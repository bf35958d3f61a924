--------------------------- MODULE RequestBudget ---------------------------
(***************************************************************************)
(* The accounting authority of one ingestion request                       *)
(* (internal/ingestion/budget.go): every method of RequestBudget as an     *)
(* operator from the ledger it locks to the ledger it unlocks and the      *)
(* class of the error it returns.  Each method body is one critical        *)
(* section of b.mu, so a module that composes them takes one step per      *)
(* call.                                                                   *)
(***************************************************************************)
EXTENDS Integers

CONSTANTS
    MaxInt64,               \* math.MaxInt64
    MaxSourceBytes, MaxPrimaryBytes,
    MaxArtifacts, MaxArtifactBytes, MaxTotalArtifactBytes,
    MaxContainerEntries, MaxContainerEntryBytes, MaxExpandedBytes,
    MaxContainerDepth,
    RatioNum, RatioDen      \* MaxExpansionRatio, a finite float64, as a fraction

\* The limits NewRequestBudget accepts: int64 values that validateLimits admits.
ASSUME ValidLimits ==
    /\ MaxInt64 \in Nat \ {0}
    /\ {MaxSourceBytes, MaxPrimaryBytes, MaxArtifactBytes, MaxTotalArtifactBytes,
        MaxContainerEntries, MaxContainerEntryBytes, MaxExpandedBytes}
            \subseteq 1..MaxInt64
    /\ {MaxArtifacts, MaxContainerDepth} \subseteq 0..MaxInt64
    /\ RatioDen \in Nat \ {0}
    /\ RatioNum \in Nat
    /\ RatioNum >= RatioDen

\* BudgetSnapshot, and the zero value a new budget starts from.
Ledger == [sourceBytes : Nat, primaryBytes : Nat,
           artifactCount : Nat, artifactBytes : Nat,
           containerEntries : Nat, expandedBytes : Nat, containerDepth : Nat]

ZeroLedger == [sourceBytes |-> 0, primaryBytes |-> 0,
               artifactCount |-> 0, artifactBytes |-> 0,
               containerEntries |-> 0, expandedBytes |-> 0, containerDepth |-> 0]

Verdict == {"nil", "limit", "integrity"}

-----------------------------------------------------------------------------
\* Addition of two non-negative int64 values, which wraps around in Go.
Int64Add(x, y) ==
    IF x + y > MaxInt64 THEN x + y - 2 * (MaxInt64 + 1) ELSE x + y

checkedAdd(current, amount) ==
    IF amount < 0 \/ current > MaxInt64 - amount
    THEN [sum |-> 0, ok |-> FALSE]
    ELSE [sum |-> Int64Add(current, amount), ok |-> TRUE]

\* The sum overflows or passes the limit.
ExceedsTotal(current, amount, limit) ==
    LET next == checkedAdd(current, amount)
    IN  ~next.ok \/ next.sum > limit

exceedsRatio(actual, compressed) ==
    /\ actual # 0
    /\ compressed = 0 \/ actual * RatioDen > RatioNum * compressed

-----------------------------------------------------------------------------
\* A call that returns an error leaves the ledger as it found it.
Refuse(b, class) == [ledger |-> b, err |-> class]
Accept(b)        == [ledger |-> b, err |-> "nil"]

\* AdmitSource and AdmitPrimary, both through admitBytes.
AdmitSource(b, actual) ==
    IF actual < 0 THEN Refuse(b, "integrity")
    ELSE IF ExceedsTotal(b.sourceBytes, actual, MaxSourceBytes) THEN Refuse(b, "limit")
    ELSE Accept([b EXCEPT !.sourceBytes = checkedAdd(@, actual).sum])

AdmitPrimary(b, actual) ==
    IF actual < 0 THEN Refuse(b, "integrity")
    ELSE IF ExceedsTotal(b.primaryBytes, actual, MaxPrimaryBytes) THEN Refuse(b, "limit")
    ELSE Accept([b EXCEPT !.primaryBytes = checkedAdd(@, actual).sum])

\* Mutation: the artifact is counted before its bytes are checked.
AdmitArtifact_countedFirst(b, actual) ==
    LET counted == [b EXCEPT !.artifactCount = @ + 1]
    IN  IF actual < 0 THEN Refuse(b, "integrity")
        ELSE IF actual > MaxArtifactBytes \/ b.artifactCount >= MaxArtifacts
        THEN Refuse(b, "limit")
        ELSE IF ExceedsTotal(b.artifactBytes, actual, MaxTotalArtifactBytes)
        THEN Refuse(counted, "limit")
        ELSE Accept([counted EXCEPT !.artifactBytes = checkedAdd(@, actual).sum])

AdmitArtifact(b, actual) ==
    IF actual < 0 THEN Refuse(b, "integrity")
    ELSE IF \/ actual > MaxArtifactBytes
            \/ b.artifactCount >= MaxArtifacts
            \/ ExceedsTotal(b.artifactBytes, actual, MaxTotalArtifactBytes)
         THEN Refuse(b, "limit")
    ELSE Accept([b EXCEPT !.artifactCount = @ + 1,
                          !.artifactBytes = checkedAdd(@, actual).sum])

EnterContainer(b) ==
    IF b.containerDepth >= MaxContainerDepth THEN Refuse(b, "limit")
    ELSE Accept([b EXCEPT !.containerDepth = @ + 1])

\* Mutation: leaving the outermost container resets the container counters.
LeaveContainer_resets(b) ==
    IF b.containerDepth = 0 THEN Refuse(b, "integrity")
    ELSE IF b.containerDepth = 1
    THEN Accept([b EXCEPT !.containerDepth = 0, !.containerEntries = 0, !.expandedBytes = 0])
    ELSE Accept([b EXCEPT !.containerDepth = @ - 1])

LeaveContainer(b) ==
    IF b.containerDepth = 0 THEN Refuse(b, "integrity")
    ELSE Accept([b EXCEPT !.containerDepth = @ - 1])

\* declared is -1 when the format makes no size claim.
EntryExceeds(b, declared, compressed, actual) ==
    \/ b.containerEntries >= MaxContainerEntries
    \/ declared > MaxContainerEntryBytes
    \/ actual > MaxContainerEntryBytes
    \/ exceedsRatio(actual, compressed)
    \/ ExceedsTotal(b.expandedBytes, actual, MaxExpandedBytes)
    \/ declared >= 0 /\ ExceedsTotal(b.expandedBytes, declared, MaxExpandedBytes)

\* Mutation: the admission trusts the caller's preflight.
AdmitContainerEntry_afterPreflight(b, declared, compressed, actual) ==
    IF declared < -1 \/ compressed < 0 \/ actual < 0 THEN Refuse(b, "integrity")
    ELSE IF actual > MaxContainerEntryBytes \/ exceedsRatio(actual, compressed)
    THEN Refuse(b, "limit")
    ELSE Accept([b EXCEPT !.containerEntries = @ + 1, !.expandedBytes = @ + actual])

AdmitContainerEntry(b, declared, compressed, actual) ==
    IF declared < -1 \/ compressed < 0 \/ actual < 0 THEN Refuse(b, "integrity")
    ELSE IF EntryExceeds(b, declared, compressed, actual) THEN Refuse(b, "limit")
    ELSE Accept([b EXCEPT !.containerEntries = @ + 1,
                          !.expandedBytes = checkedAdd(@, actual).sum])

RemainingExpandedBytes(b) == MaxExpandedBytes - b.expandedBytes

-----------------------------------------------------------------------------
(* What the ledger promises its callers: no counter ever passes the limit  *)
(* the request was given.                                                  *)
WithinLimits(b) ==
    /\ b.sourceBytes      <= MaxSourceBytes
    /\ b.primaryBytes     <= MaxPrimaryBytes
    /\ b.artifactCount    <= MaxArtifacts
    /\ b.artifactBytes    <= MaxTotalArtifactBytes
    /\ b.containerEntries <= MaxContainerEntries
    /\ b.expandedBytes    <= MaxExpandedBytes
    /\ b.containerDepth   <= MaxContainerDepth
-----------------------------------------------------------------------------
\* The counters of a ledger, read as the gauges of a CappedMeter.
Gauges == {"source", "primary", "artifacts", "artifactBytes",
           "entries", "expanded", "depth"}

Reading(b) ==
    [g \in Gauges |-> CASE g = "source"        -> b.sourceBytes
                        [] g = "primary"       -> b.primaryBytes
                        [] g = "artifacts"     -> b.artifactCount
                        [] g = "artifactBytes" -> b.artifactBytes
                        [] g = "entries"       -> b.containerEntries
                        [] g = "expanded"      -> b.expandedBytes
                        [] g = "depth"         -> b.containerDepth]

LimitOf ==
    [g \in Gauges |-> CASE g = "source"        -> MaxSourceBytes
                        [] g = "primary"       -> MaxPrimaryBytes
                        [] g = "artifacts"     -> MaxArtifacts
                        [] g = "artifactBytes" -> MaxTotalArtifactBytes
                        [] g = "entries"       -> MaxContainerEntries
                        [] g = "expanded"      -> MaxExpandedBytes
                        [] g = "depth"         -> MaxContainerDepth]
=============================================================================
