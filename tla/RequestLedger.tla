--------------------------- MODULE RequestLedger ---------------------------
(***************************************************************************)
(* One RequestBudget used by any number of cooperating goroutines: since   *)
(* every method body is a critical section of b.mu, a behaviour is any     *)
(* sequence of calls with any int64 arguments.  The module also states     *)
(* that the ledger implements CappedMeter, the promise its callers rely    *)
(* on.                                                                     *)
(***************************************************************************)
EXTENDS RequestBudget

CONSTANT Amounts        \* the int64 values callers pass

ASSUME AmountsAssumption == Amounts \subseteq Int

VARIABLES
    ledger,             \* b.snapshot
    err                 \* the class of the error the last call returned

vars == <<ledger, err>>

TypeOK == /\ ledger \in Ledger
          /\ err \in Verdict

Init == /\ ledger = ZeroLedger
        /\ err = "nil"

Return(call) == /\ ledger' = call.ledger
                /\ err' = call.err

Source   == \E n \in Amounts : Return(AdmitSource(ledger, n))
Primary  == \E n \in Amounts : Return(AdmitPrimary(ledger, n))
Artifact == \E n \in Amounts : Return(AdmitArtifact(ledger, n))
Enter    == Return(EnterContainer(ledger))
Leave    == Return(LeaveContainer(ledger))
Entry    == \E declared, compressed, actual \in Amounts :
                Return(AdmitContainerEntry(ledger, declared, compressed, actual))

Next == Source \/ Primary \/ Artifact \/ Enter \/ Leave \/ Entry

Spec == Init /\ [][Next]_vars

-----------------------------------------------------------------------------
(* No sequence of calls, whatever its arguments, takes a counter past its  *)
(* limit: neither two admissions that each fit alone, nor an addition that *)
(* overflows int64 (budget.go:160-169, 189-193, 208-213).                  *)
LimitsHold == WithinLimits(ledger)

(* A refused call changes nothing.  AdmitArtifact and AdmitContainerEntry  *)
(* move two counters after several checks; a refusal between them must not *)
(* leave one of the two charged (budget.go:104-119, 147-173).              *)
RefusalLeavesLedger == [][err' # "nil" => ledger' = ledger]_vars

-----------------------------------------------------------------------------
Meter == INSTANCE CappedMeter
            WITH Held <- {"depth"}, Cap <- LimitOf, used <- Reading(ledger)

(* The budget implements the capped meter: apart from container depth,     *)
(* which LeaveContainer gives back one level at a time, nothing a call     *)
(* does ever lowers a counter, so a request can never win back budget it   *)
(* has spent.                                                              *)
ImplementsMeter == Meter!Spec
=============================================================================
