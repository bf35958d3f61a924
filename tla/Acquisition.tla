---------------------------- MODULE Acquisition ----------------------------
(***************************************************************************)
(* What acquiring bytes under a limit promises, without reads, buffers or  *)
(* goroutines: one decision, taken once, about the whole stream.  Bytes    *)
(* are delivered whole or not at all; a limit failure means the stream is  *)
(* longer than the limit, an integrity failure means the reader broke its  *)
(* contract, and a cancellation means somebody cancelled.                  *)
(***************************************************************************)
EXTENDS Integers

VARIABLES
    limit,          \* the byte limit of the call
    stream,         \* [size, ending]: the bytes there are and what follows them
    cancelled,      \* the context is done
    outcome         \* "pending", then the decision

vars == <<limit, stream, cancelled, outcome>>

Init == /\ cancelled \in BOOLEAN
        /\ outcome = "pending"

Justified(o) ==
    \/ o = "policy" /\ limit < 0
    \/ o = "ok" /\ stream.ending = "eof" /\ stream.size <= limit
    \/ o = "limit" /\ limit >= 0 /\ stream.size > limit
    \/ o = "integrity" /\ stream.ending \in {"fault", "stall", "rogue"} /\ stream.size <= limit
    \/ o = "cancelled" /\ (cancelled \/ stream.ending = "deadline")

Decide == /\ outcome = "pending"
          /\ Justified(outcome')
          /\ UNCHANGED <<limit, stream, cancelled>>

Cancel == /\ ~cancelled
          /\ cancelled'
          /\ UNCHANGED <<limit, stream, outcome>>

Next == Decide \/ Cancel

Spec == Init /\ [][Next]_vars
=============================================================================
