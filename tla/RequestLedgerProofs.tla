------------------------ MODULE RequestLedgerProofs ------------------------
(***************************************************************************)
(* What holds of a RequestBudget for all limits and all arguments.         *)
(***************************************************************************)
EXTENDS RequestLedger, RequestBudgetProofs

\* What a single call does to the ledger: it charges, or it leaves a container.
LEMMA EveryCall ==
    ASSUME ledger \in Ledger, WithinLimits(ledger), Next
    PROVE  \/ Charges(ledger, [ledger |-> ledger', err |-> err'])
           \/ Leave
<1> USE AmountsAssumption DEF Return
<1>1. CASE Source
  BY <1>1, SourceCharges DEF Source, Charges
<1>2. CASE Primary
  BY <1>2, PrimaryCharges DEF Primary, Charges
<1>3. CASE Artifact
  BY <1>3, ArtifactCharges DEF Artifact, Charges
<1>4. CASE Enter
  BY <1>4, EnterCharges DEF Enter, Charges
<1>5. CASE Entry
  BY <1>5, EntryCharges DEF Entry, Charges
<1>6. QED
  BY <1>1, <1>2, <1>3, <1>4, <1>5 DEF Next

\* The inductive invariant: types and limits need each other, since a sum is
\* a natural number only while the counter it starts from is within its limit.
LedgerInv == TypeOK /\ LimitsHold

LEMMA LedgerInvInductive ==
    ASSUME LedgerInv, [Next]_vars
    PROVE  LedgerInv'
<1> USE DEF LedgerInv, TypeOK, LimitsHold
<1>1. CASE Charges(ledger, [ledger |-> ledger', err |-> err'])
  BY <1>1 DEF Charges
<1>2. CASE Leave
  BY <1>2, LeaveReleases DEF Leave, Return
<1>3. CASE UNCHANGED vars
  BY <1>3 DEF vars
<1>4. QED
  BY <1>1, <1>2, <1>3, EveryCall

(* Type correctness, and that no sequence of calls takes any counter past  *)
(* its limit (budget.go:64-67).                                            *)
THEOREM LedgerSafe == Spec => [](TypeOK /\ LimitsHold)
<1>1. Init => LedgerInv
  BY ZeroLedgerFits DEF Init, LedgerInv, TypeOK, LimitsHold, Verdict
<1>2. LedgerInv /\ [Next]_vars => LedgerInv'
  BY LedgerInvInductive
<1>3. QED
  BY <1>1, <1>2, PTL DEF Spec, LedgerInv

(* A refused call leaves the ledger exactly as it was, for every method    *)
(* and every argument.                                                     *)
THEOREM RefusalIsAtomic == Spec => RefusalLeavesLedger
<1>1. LedgerInv /\ [Next]_vars => [err' # "nil" => ledger' = ledger]_vars
  <2> SUFFICES ASSUME LedgerInv, Next
               PROVE  err' # "nil" => ledger' = ledger
    OBVIOUS
  <2> USE DEF LedgerInv, TypeOK, LimitsHold
  <2>1. CASE Charges(ledger, [ledger |-> ledger', err |-> err'])
    BY <2>1 DEF Charges
  <2>2. CASE Leave
    BY <2>2, LeaveReleases DEF Leave, Return
  <2>3. QED
    BY <2>1, <2>2, EveryCall
<1>2. Spec => []LedgerInv
  BY LedgerSafe, PTL DEF LedgerInv
<1>3. QED
  BY <1>1, <1>2, PTL DEF Spec, RefusalLeavesLedger

(* The ledger implements the capped meter: nothing but container depth is  *)
(* ever given back.                                                        *)
THEOREM LedgerImplementsMeter == Spec => ImplementsMeter
<1>1. Init => Meter!Init
  BY DEF Init, Meter!Init, Reading, ZeroLedger, Gauges
<1>2. LedgerInv /\ [Next]_vars => [Meter!Next]_(Reading(ledger))
  <2> SUFFICES ASSUME LedgerInv, [Next]_vars
               PROVE  [Meter!Next]_(Reading(ledger))
    OBVIOUS
  <2> USE DEF LedgerInv, TypeOK, LimitsHold
  <2>1. CASE Charges(ledger, [ledger |-> ledger', err |-> err'])
    BY <2>1, ReadingOfCharge DEF Meter!Next, Meter!Charge
  <2>2. CASE Leave
    <3>1. ledger' = LeaveContainer(ledger).ledger
      BY <2>2 DEF Leave, Return
    <3>2. QED
      BY <3>1, ReadingOfLeave DEF Meter!Next, Meter!Release, Gauges
  <2>3. CASE UNCHANGED vars
    BY <2>3 DEF vars
  <2>4. QED
    BY <2>1, <2>2, <2>3, EveryCall
<1>3. Spec => []LedgerInv
  BY LedgerSafe, PTL DEF LedgerInv
<1>4. QED
  BY <1>1, <1>2, <1>3, PTL DEF Spec, ImplementsMeter, Meter!Spec
=============================================================================
