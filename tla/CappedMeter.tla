---------------------------- MODULE CappedMeter ----------------------------
(***************************************************************************)
(* What a request budget promises, without its methods: a bank of gauges,  *)
(* each with a cap.  Charges are never handed back, except on the gauges   *)
(* that count something currently held, which give back one unit at a      *)
(* time; no gauge ever reads more than its cap.                            *)
(***************************************************************************)
EXTENDS Integers

CONSTANTS
    Gauges,     \* what is metered
    Held,       \* the gauges whose units can be given back, some of Gauges
    Cap         \* the cap of every gauge, a function from Gauges to Nat

VARIABLE used

Init == used = [g \in Gauges |-> 0]

\* Some gauges advance together, none past its cap.
Charge ==
    /\ used' \in [Gauges -> Nat]
    /\ \A g \in Gauges : used[g] <= used'[g] /\ used'[g] <= Cap[g]

\* One unit of one held gauge is given back; the others stay.
Release ==
    \E g \in Held : /\ used[g] > 0
                    /\ used' = [used EXCEPT ![g] = @ - 1]

Next == Charge \/ Release

Spec == Init /\ [][Next]_used
=============================================================================
