---------------------------- MODULE WatchedRead ----------------------------
(***************************************************************************)
(* Reading a source of unknown length into owned bytes, with a limit and   *)
(* a cancellation watcher.  ReadBounded (internal/ingestion/bounded.go)    *)
(* loops over a caller's reader; readSourceBounded (source.go) and         *)
(* readRemoteBody (internal/ingestion/remote.go) run it next to a          *)
(* goroutine that closes the reader when the context ends, so that a read  *)
(* that blocks is interrupted; OwnBounded copies bytes already in memory.  *)
(* One step is one checkpoint with what follows it up to the next blocking *)
(* operation, one answer of the reader, or one step of the watcher.        *)
(***************************************************************************)
EXTENDS Integers

CONSTANTS
    Limits,         \* the limits callers pass
    Streams,        \* the streams there are
    Chunk           \* boundedReadChunkSize

(***************************************************************************)
(* size   : the bytes the reader has                                       *)
(* ending : what it answers after them: io.EOF, an error, a deadline error *)
(*          of its own, (0, nil), a count larger than the buffer, or       *)
(*          nothing at all while it is open                                *)
(* yields : closing it makes a Read return                                 *)
(***************************************************************************)
Ending == {"eof", "fault", "deadline", "stall", "rogue", "hang"}
Stream == [size : Nat, ending : Ending, yields : BOOLEAN]

ASSUME ReadAssumption ==
    /\ Limits \subseteq Int
    /\ Streams \subseteq Stream
    /\ Chunk \in Nat \ {0}

\* bytes: OwnBounded; plain: ReadBounded alone (a reader that is no io.Closer,
\* a data URI, a container member); source: readSourceBounded; remote:
\* readRemoteBody.
Mode == {"bytes", "plain", "source", "remote"}

VARIABLES
    mode, limit, stream,    \* the call
    cancelled,              \* ctx.Done() is closed
    left,                   \* bytes still in the reader
    accepted, capacity,     \* len and cap of the accepted slice
    readSize,               \* length of the buffer handed to Read
    got,                    \* what Read returned
    pc,                     \* where the calling goroutine is
    held,                   \* what ReadBounded returned
    watcher,                \* the watcher goroutine
    stopped,                \* the stop channel is closed
    closes,                 \* Close calls on the reader
    outcome                 \* what the caller gets

vars == <<mode, limit, stream, cancelled, left, accepted, capacity, readSize,
          got, pc, held, watcher, stopped, closes, outcome>>

call == <<mode, limit, stream>>
buffers == <<accepted, capacity, readSize>>
control == <<watcher, stopped, closes>>

Watched == mode \in {"source", "remote"}
Class == {"ok", "limit", "integrity", "cancelled", "policy"}
Lesser(x, y) == IF x < y THEN x ELSE y

Init ==
    /\ mode \in Mode
    /\ limit \in Limits
    /\ stream \in {s \in Streams : mode = "bytes" => s.ending = "eof"}
    /\ cancelled = FALSE
    /\ left = stream.size
    /\ accepted = 0 /\ capacity = 0 /\ readSize = 0
    /\ got = [n |-> 0, err |-> "nil"]
    /\ pc = "start"
    /\ held = "pending"
    /\ watcher = IF Watched THEN "waiting" ELSE "gone"
    /\ stopped = FALSE
    /\ closes = 0
    /\ outcome = "pending"

Cancel ==
    /\ ~cancelled /\ pc # "returned"
    /\ cancelled' = TRUE
    /\ UNCHANGED <<call, left, buffers, got, pc, held, control, outcome>>

\* OwnBounded or ReadBounded returns o: to the caller, or to the function
\* that runs the watcher.
Conclude(o) ==
    /\ held' = o
    /\ pc' = IF Watched THEN "stop" ELSE "returned"
    /\ outcome' = IF Watched THEN outcome ELSE o

-----------------------------------------------------------------------------
\* validateByteLimit, then the two slices are made.
Start ==
    /\ pc = "start"
    /\ IF limit < 0 THEN Conclude("policy") /\ UNCHANGED capacity
       ELSE /\ capacity' = IF mode = "bytes" THEN 0 ELSE Lesser(limit, Chunk)
            /\ pc' = IF mode = "bytes" THEN "own" ELSE "check"
            /\ UNCHANGED <<held, outcome>>
    /\ UNCHANGED <<call, cancelled, left, accepted, readSize, got, control>>

\* OwnBounded: checkpoint, length, copy ...
Own ==
    /\ pc = "own"
    /\ IF cancelled THEN Conclude("cancelled") /\ UNCHANGED <<left, accepted, capacity>>
       ELSE IF stream.size > limit
       THEN Conclude("limit") /\ UNCHANGED <<left, accepted, capacity>>
       ELSE /\ left' = 0
            /\ accepted' = stream.size
            /\ capacity' = stream.size
            /\ pc' = "copied"
            /\ UNCHANGED <<held, outcome>>
    /\ UNCHANGED <<call, cancelled, readSize, got, control>>

\* ... and a second checkpoint.
Copied ==
    /\ pc = "copied"
    /\ Conclude(IF cancelled THEN "cancelled" ELSE "ok")
    /\ UNCHANGED <<call, cancelled, left, buffers, got, control>>

boundedScratchCapacity == IF limit < Chunk THEN limit + 1 ELSE Chunk

\* At most one byte more than the limit has room for.
NextReadSize ==
    LET remaining == limit - accepted
    IN  IF remaining < Chunk - 1 THEN remaining + 1 ELSE Chunk

\* The head of the read loop.
Check ==
    /\ pc = "check"
    /\ IF cancelled THEN Conclude("cancelled") /\ UNCHANGED readSize
       ELSE /\ readSize' = NextReadSize
            /\ pc' = "reading"
            /\ UNCHANGED <<held, outcome>>
    /\ UNCHANGED <<call, cancelled, left, accepted, capacity, got, control>>

-----------------------------------------------------------------------------
\* The reader, which is the caller's, answers a Read.
Answer(n, err) ==
    /\ got' = [n |-> n, err |-> err]
    /\ pc' = "taking"
    /\ UNCHANGED <<call, cancelled, buffers, held, control, outcome>>

\* Some bytes, the last ones possibly together with what follows them.
Data ==
    /\ pc = "reading"
    /\ \E n \in 1..Lesser(left, readSize) :
          /\ left' = left - n
          /\ \/ Answer(n, "nil")
             \/ n = left /\ stream.ending \in {"eof", "fault", "deadline"}
                         /\ Answer(n, stream.ending)

End ==
    /\ pc = "reading"
    /\ left = 0
    /\ \/ stream.ending = "rogue" /\ Answer(readSize + 1, "nil")
       \/ stream.ending = "stall" /\ Answer(0, "nil")
       \/ stream.ending \in {"eof", "fault", "deadline"} /\ Answer(0, stream.ending)
    /\ UNCHANGED left

\* A closed reader gives up.
GiveUp ==
    /\ pc = "reading"
    /\ closes > 0 /\ stream.yields
    /\ Answer(0, "fault")
    /\ UNCHANGED left

Reader == Data \/ End \/ GiveUp

-----------------------------------------------------------------------------
\* Mutation: the slice may grow to twice its capacity, whatever the limit.
Grown_uncapped(length) ==
    IF length <= capacity THEN capacity
    ELSE IF capacity * 2 < length THEN length ELSE capacity * 2

\* appendAccepted: the capacity after growing to hold length bytes.
Grown(length) ==
    IF length <= capacity THEN capacity
    ELSE Lesser(limit, IF capacity * 2 < length THEN length ELSE capacity * 2)

\* Mutation: a slice that is full is taken for the whole stream.
Use_fullIsWhole ==
    IF got.n < 0 \/ got.n > readSize THEN Conclude("integrity") /\ UNCHANGED <<accepted, capacity>>
    ELSE /\ accepted' = Lesser(accepted + got.n, limit)
         /\ capacity' = IF got.n > 0 THEN Grown(accepted') ELSE capacity
         /\ CASE got.err = "eof" \/ accepted' = limit -> Conclude("ok")
              [] got.err = "deadline" -> Conclude("cancelled")
              [] got.err = "fault"    -> Conclude("integrity")
              [] got.err = "nil" /\ got.n = 0 -> Conclude("integrity")
              [] OTHER -> pc' = "check" /\ UNCHANGED <<held, outcome>>

\* What the loop does with an answer that the context did not overtake.
Use ==
    IF got.n < 0 \/ got.n > readSize THEN Conclude("integrity") /\ UNCHANGED <<accepted, capacity>>
    ELSE IF got.n > 0 /\ accepted > limit - got.n
    THEN Conclude("limit") /\ UNCHANGED <<accepted, capacity>>
    ELSE /\ accepted' = accepted + got.n
         /\ capacity' = IF got.n > 0 THEN Grown(accepted + got.n) ELSE capacity
         /\ CASE got.err = "eof"      -> Conclude("ok")
              [] got.err = "deadline" -> Conclude("cancelled")
              [] got.err = "fault"    -> Conclude("integrity")
              [] got.err = "nil" /\ got.n = 0 -> Conclude("integrity")
              [] OTHER -> pc' = "check" /\ UNCHANGED <<held, outcome>>

\* The checkpoint after Read, and the rest of the loop body.
Take ==
    /\ pc = "taking"
    /\ IF cancelled THEN Conclude("cancelled") /\ UNCHANGED <<accepted, capacity>> ELSE Use
    /\ UNCHANGED <<call, cancelled, left, readSize, got, control>>

-----------------------------------------------------------------------------
\* Mutation: nobody waits for the watcher.
Stop_unjoined ==
    /\ pc = "stop"
    /\ stopped' = TRUE
    /\ pc' = IF mode = "remote" THEN "close" ELSE "final"
    /\ UNCHANGED <<call, cancelled, left, buffers, got, held, watcher, closes, outcome>>

\* close(stop); readRemoteBody then closes the body itself.
Stop ==
    /\ pc = "stop"
    /\ stopped' = TRUE
    /\ pc' = IF mode = "remote" THEN "close" ELSE "join"
    /\ UNCHANGED <<call, cancelled, left, buffers, got, held, watcher, closes, outcome>>

CloseBody ==
    /\ pc = "close"
    /\ closes' = closes + 1
    /\ pc' = "join"
    /\ UNCHANGED <<call, cancelled, left, buffers, got, held, watcher, stopped, outcome>>

\* <-joined
Join ==
    /\ pc = "join"
    /\ watcher = "gone"
    /\ pc' = "final"
    /\ UNCHANGED <<call, cancelled, left, buffers, got, held, control, outcome>>

\* Mutation: what ReadBounded returned is returned.
Final_unchecked ==
    /\ pc = "final"
    /\ outcome' = held
    /\ pc' = "returned"
    /\ UNCHANGED <<call, cancelled, left, buffers, got, held, control>>

\* A context that has ended by now takes the place of the result.
Final ==
    /\ pc = "final"
    /\ outcome' = IF cancelled THEN "cancelled" ELSE held
    /\ pc' = "returned"
    /\ UNCHANGED <<call, cancelled, left, buffers, got, held, control>>

Caller == Start \/ Own \/ Copied \/ Check \/ Take \/ Stop \/ CloseBody \/ Join \/ Final

-----------------------------------------------------------------------------
\* Mutation: the watcher looks at the context only when the read is over.
Interrupt_late ==
    /\ watcher = "waiting" /\ cancelled /\ stopped
    /\ watcher' = "closing"
    /\ UNCHANGED <<stopped, closes>>

\* The watcher's select: either ready case may be taken.
Interrupt ==
    /\ watcher = "waiting" /\ cancelled
    /\ watcher' = "closing"
    /\ UNCHANGED <<stopped, closes>>

Dismiss ==
    /\ watcher = "waiting" /\ stopped
    /\ watcher' = "gone"
    /\ UNCHANGED <<stopped, closes>>

CloseReader ==
    /\ watcher = "closing"
    /\ closes' = closes + 1
    /\ watcher' = "gone"
    /\ UNCHANGED stopped

Watcher ==
    /\ Interrupt \/ Dismiss \/ CloseReader
    /\ UNCHANGED <<call, cancelled, left, buffers, got, pc, held, outcome>>

\* The call is over, or its reader never answers.
Rest ==
    /\ \/ pc = "returned"
       \/ pc = "reading" /\ stream.ending = "hang" /\ left = 0
    /\ UNCHANGED vars

Next == Cancel \/ Caller \/ Reader \/ Watcher \/ Rest

Spec == Init /\ [][Next]_vars

\* Goroutines that can run do, and a reader answers unless it hangs; nothing
\* makes a context end.
FairSpec == Spec /\ WF_vars(Caller) /\ WF_vars(Reader) /\ WF_vars(Watcher)

-----------------------------------------------------------------------------
TypeOK ==
    /\ mode \in Mode /\ limit \in Limits /\ stream \in Streams
    /\ cancelled \in BOOLEAN /\ stopped \in BOOLEAN
    /\ left \in Nat /\ accepted \in Nat /\ capacity \in Nat /\ readSize \in Nat
    /\ got \in [n : Nat, err : {"nil", "eof", "fault", "deadline"}]
    /\ pc \in {"start", "own", "copied", "check", "reading", "taking",
               "stop", "close", "join", "final", "returned"}
    /\ held \in Class \cup {"pending"} /\ outcome \in Class \cup {"pending"}
    /\ watcher \in {"waiting", "closing", "gone"}
    /\ closes \in 0..2

(* A reader is asked for at most one byte more than the limit allows, in   *)
(* total, and no more is held than the limit: what has been taken and what *)
(* the next Read may fill never exceed limit + 1, the accepted slice never *)
(* grows past the limit, and no Read is handed more than the scratch       *)
(* buffer has (bounded.go:63-64, 117-122, 140-160).                        *)
BoundedFootprint ==
    limit >= 0 =>
        /\ accepted <= limit /\ accepted <= capacity /\ capacity <= limit
        /\ pc = "reading" => /\ accepted + readSize <= limit + 1
                             /\ readSize \in 1..boundedScratchCapacity

(* A caller gets its reader back untouched by anyone: when the call has    *)
(* returned its watcher is gone, so nothing is closed later, and a reader  *)
(* given to readSourceBounded has been closed only if the context ended    *)
(* (source.go:424-434).                                                    *)
ReaderHandedBack ==
    /\ pc = "returned" => watcher = "gone"
    /\ mode \in {"bytes", "plain"} => closes = 0
    /\ mode = "source" /\ closes > 0 => cancelled

(* What a Read delivers after the context has ended is not used; and a     *)
(* watched read whose context ended before it returned reports a           *)
(* cancellation, neither the bytes nor the error that the closed reader    *)
(* made of it (bounded.go:91-93, source.go:435-437, remote.go:292-294).    *)
CancelWins ==
    [][cancelled =>
         /\ pc = "taking" /\ pc' # pc => accepted' = accepted /\ held' = "cancelled"
         /\ Watched /\ pc # "returned" /\ pc' = "returned" => outcome' = "cancelled"]_vars

(* A read comes to an end: one whose reader answers, since caller and      *)
(* watcher never wait for each other; and a watched one once its context   *)
(* has ended, a blocking reader or response body included (NFR-007,        *)
(* spec.md:128).                                                           *)
ReadReturns ==
    (stream.ending # "hang" \/ (cancelled /\ Watched /\ stream.yields)) ~> (pc = "returned")

-----------------------------------------------------------------------------
Promise == INSTANCE Acquisition

(* The loop, its buffers and its watcher implement one decision about the  *)
(* whole stream: never a prefix, never a limit failure for a stream that   *)
(* fits, never an integrity failure that our own Close caused.             *)
ImplementsAcquisition == Promise!Spec
=============================================================================
