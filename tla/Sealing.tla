------------------------------ MODULE Sealing ------------------------------
(***************************************************************************)
(* What sealing promises, without drafts, numbers or stores: one decision. *)
(* Either all that was asked for is delivered, each thing as it was and    *)
(* each reference to the thing it meant, and stays so; or nothing is, for  *)
(* a reason that holds.                                                    *)
(***************************************************************************)
CONSTANT Nothing

VARIABLES
    request,        \* [content, sound, fits]: what is to be delivered, whether
                    \* it is well formed, whether it is within the limits
    cancelled,      \* the context is done
    outcome,        \* "pending", then the decision
    delivered       \* what the caller holds

vars == <<request, cancelled, outcome, delivered>>

Init == /\ cancelled = FALSE
        /\ outcome = "pending"
        /\ delivered = Nothing

Deliver == /\ request.sound /\ request.fits /\ ~cancelled
           /\ outcome' = "ok"
           /\ delivered' = request.content

Refuse == /\ \/ outcome' = "limit" /\ ~request.fits
             \/ outcome' = "integrity" /\ ~request.sound
             \/ outcome' = "cancelled" /\ cancelled
          /\ UNCHANGED delivered

Cancel == /\ ~cancelled /\ outcome = "pending"
          /\ cancelled' = TRUE
          /\ UNCHANGED <<request, outcome, delivered>>

Next == \/ /\ outcome = "pending"
           /\ Deliver \/ Refuse
           /\ UNCHANGED <<request, cancelled>>
        \/ Cancel

Spec == Init /\ [][Next]_vars
=============================================================================
