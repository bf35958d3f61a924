------------------------- MODULE WatchedReadProofs -------------------------
(***************************************************************************)
(* WatchedRead for every limit, every stream and every chunk size: the     *)
(* footprint bound, the life of the watcher, the priority of cancellation, *)
(* and the refinement of Acquisition.                                      *)
(***************************************************************************)
EXTENDS WatchedRead, TLAPS

Looping == {"check", "reading", "taking"}
Closing == {"stop", "close", "join", "final"}

\* Where a call can be, given its mode and its limit.
Stages ==
    /\ mode = "bytes" => stream.ending = "eof" /\ pc \in {"start", "own", "copied", "returned"}
    /\ mode = "plain" => pc \in Looping \cup {"start", "returned"}
    /\ Watched => pc \in Looping \cup Closing \cup {"start", "returned"}
    /\ pc = "close" => mode = "remote"
    /\ pc \in Looping \cup {"own", "copied"} => limit >= 0
    /\ pc = "start" => accepted = 0 /\ capacity = 0

\* Every byte is in the reader, in the buffer or accepted.
Books ==
    /\ pc \in {"check", "reading"} => accepted + left = stream.size
    /\ pc = "start" => left = stream.size
    /\ pc = "taking" =>
          \/ got.n > readSize /\ stream.ending = "rogue" /\ accepted = stream.size
          \/ got.n <= readSize /\ accepted + got.n + left = stream.size
    /\ pc = "copied" => accepted = stream.size

\* What an answer says about the stream, unless the reader has been closed.
Answers ==
    pc = "taking" /\ ~cancelled =>
        /\ got.err # "nil" => got.err = stream.ending /\ left = 0
        /\ got.err = "nil" /\ got.n = 0 => stream.ending = "stall" /\ left = 0

\* Every result on its way is one the abstract decision allows.
Verdicts ==
    /\ pc \in Closing => held \in Class /\ Promise!Justified(held)
    /\ pc = "returned" => outcome \in Class /\ Promise!Justified(outcome)
    /\ pc # "returned" => outcome = "pending"

\* Who has closed the reader.
Closes ==
    /\ ~Watched => watcher = "gone" /\ closes = 0
    /\ watcher = "closing" => cancelled
    /\ closes > 0 /\ ~(mode = "remote" /\ pc \in {"join", "final", "returned"}) => cancelled
    /\ closes <= (IF watcher = "gone" THEN 1 ELSE 0)
                 + (IF mode = "remote" /\ pc \in {"join", "final", "returned"} THEN 1 ELSE 0)
    /\ pc \in {"final", "returned"} => watcher = "gone"

ReadInv == /\ TypeOK
           /\ BoundedFootprint
           /\ Stages
           /\ Books
           /\ Answers
           /\ Verdicts
           /\ Closes

-----------------------------------------------------------------------------
\* The abstract decision only becomes easier to justify as time passes.
LEMMA JustifiedStays ==
    ASSUME NEW o, Promise!Justified(o), UNCHANGED call, cancelled => cancelled'
    PROVE  Promise!Justified(o)'
BY DEF Promise!Justified, call

\* A concluded call: what is left to show of the invariant.
LEMMA ConcludeKeeps ==
    ASSUME ReadInv, NEW o \in Class, Promise!Justified(o), Conclude(o),
           pc \in Looping \cup {"start", "own", "copied"},
           UNCHANGED <<call, cancelled, control, readSize, got>>,
           left' \in Nat, accepted' \in Nat, capacity' \in Nat,
           limit >= 0 => accepted' <= limit /\ accepted' <= capacity' /\ capacity' <= limit
    PROVE  ReadInv'
<1>1. TypeOK'
  BY DEF ReadInv, TypeOK, Conclude, call, control
<1>2. BoundedFootprint'
  BY DEF BoundedFootprint, Conclude, call, boundedScratchCapacity
<1>3. Stages'
  BY DEF ReadInv, TypeOK, Mode, Stages, Conclude, call, Watched, Looping, Closing
<1>4. Books' /\ Answers'
  BY DEF Books, Answers, Conclude
<1>5. Verdicts'
  <2>1. Promise!Justified(o)'
    BY JustifiedStays
  <2>2. QED
    BY <2>1 DEF ReadInv, Verdicts, Conclude, Closing, Looping, call, Watched
<1>6. Closes'
  BY DEF ReadInv, TypeOK, Closes, Conclude, control, call, Looping, Watched, Stages
<1>7. QED
  BY <1>1, <1>2, <1>3, <1>4, <1>5, <1>6 DEF ReadInv

-----------------------------------------------------------------------------
LEMMA InitHolds == Init => ReadInv
<1> SUFFICES ASSUME Init PROVE ReadInv
  OBVIOUS
<1>1. stream \in Streams /\ stream.size \in Nat
  BY ReadAssumption DEF Init, Stream
<1>2. TypeOK
  <2>1. /\ left \in Nat /\ accepted \in Nat /\ capacity \in Nat /\ readSize \in Nat
        /\ closes \in 0..2
    BY <1>1 DEF Init
  <2>2. got \in [n : Nat, err : {"nil", "eof", "fault", "deadline"}]
    BY DEF Init
  <2>3. /\ pc = "start" /\ held = "pending" /\ outcome = "pending"
        /\ watcher \in {"waiting", "closing", "gone"}
    BY DEF Init
  <2>4. mode \in Mode /\ limit \in Limits /\ cancelled \in BOOLEAN /\ stopped \in BOOLEAN
    BY DEF Init
  <2>5. QED
    BY <1>1, <2>1, <2>2, <2>3, <2>4 DEF TypeOK
<1>3. BoundedFootprint
  BY DEF Init, BoundedFootprint
<1>4. Stages /\ Books /\ Answers
  BY DEF Init, Stages, Books, Answers, Watched, Looping, Closing, Mode
<1>5. Verdicts /\ Closes
  BY DEF Init, Verdicts, Closes, Watched, Closing
<1>6. QED
  BY <1>2, <1>3, <1>4, <1>5 DEF ReadInv

LEMMA CancelKeeps == ReadInv /\ Cancel => ReadInv'
<1> SUFFICES ASSUME ReadInv, Cancel PROVE ReadInv'
  OBVIOUS
<1> USE DEF Cancel, call, buffers, control
<1>2. TypeOK' /\ BoundedFootprint'
  BY DEF ReadInv, TypeOK, BoundedFootprint, boundedScratchCapacity
<1>3. Stages' /\ Books' /\ Answers'
  BY DEF ReadInv, Stages, Books, Answers, Watched
<1>4. Closes'
  BY DEF ReadInv, TypeOK, Closes, Watched
<1>5. Verdicts'
  <2>1. Promise!Justified(held) => Promise!Justified(held)'
    BY DEF Promise!Justified
  <2>2. Promise!Justified(outcome) => Promise!Justified(outcome)'
    BY DEF Promise!Justified
  <2>3. QED
    BY <2>1, <2>2 DEF ReadInv, Verdicts
<1>6. QED
  BY <1>2, <1>3, <1>4, <1>5 DEF ReadInv

LEMMA StartKeeps == ReadInv /\ Start => ReadInv'
<1>1. SUFFICES ASSUME ReadInv, Start PROVE ReadInv'
  OBVIOUS
<1>2. limit \in Int /\ Chunk \in Nat \ {0} /\ stream.size \in Nat
  BY <1>1, ReadAssumption DEF ReadInv, TypeOK, Stream
<1>3. CASE limit < 0
  <2>1. Conclude("policy") /\ UNCHANGED <<capacity, call, cancelled, left, accepted, readSize, got, control>>
    BY <1>1, <1>3 DEF Start
  <2>2. Promise!Justified("policy")
    BY <1>3 DEF Promise!Justified
  <2>3. QED
    BY <1>1, <1>2, <1>3, <2>1, <2>2, ConcludeKeeps DEF ReadInv, TypeOK, Start, Class
<1>4. CASE limit >= 0
  <2> USE <1>1, <1>2, <1>4 DEF Start, call, control
  <2>1. TypeOK'
    BY DEF ReadInv, TypeOK, Lesser
  <2>2. BoundedFootprint'
    BY DEF ReadInv, TypeOK, Stages, BoundedFootprint, Lesser
  <2>3. Stages' /\ Books' /\ Answers'
    BY DEF ReadInv, TypeOK, Mode, Stages, Books, Answers, Watched, Looping, Closing
  <2>4. Verdicts' /\ Closes'
    BY DEF ReadInv, TypeOK, Verdicts, Closes, Watched, Closing
  <2>5. QED
    BY <2>1, <2>2, <2>3, <2>4 DEF ReadInv
<1>5. QED
  BY <1>2, <1>3, <1>4

LEMMA OwnKeeps == ReadInv /\ Own => ReadInv'
<1>1. SUFFICES ASSUME ReadInv, Own PROVE ReadInv'
  OBVIOUS
<1>2. limit \in Nat /\ stream.size \in Nat
  BY <1>1, ReadAssumption DEF ReadInv, TypeOK, Stream, Stages, Own
<1>3. CASE cancelled \/ stream.size > limit
  <2>1. PICK o \in {"cancelled", "limit"} :
            /\ Conclude(o) /\ (o = "cancelled" => cancelled) /\ (o = "limit" => stream.size > limit)
            /\ UNCHANGED <<left, accepted, capacity>>
    BY <1>1, <1>3 DEF Own
  <2>2. Promise!Justified(o)
    BY <1>2, <2>1 DEF Promise!Justified
  <2>3. QED
    BY <1>1, <1>2, <2>1, <2>2, ConcludeKeeps DEF ReadInv, TypeOK, Own, Class, BoundedFootprint
<1>4. CASE ~(cancelled \/ stream.size > limit)
  <2> USE <1>1, <1>2, <1>4 DEF Own, call, control
  <2>1. TypeOK' /\ BoundedFootprint'
    BY DEF ReadInv, TypeOK, BoundedFootprint
  <2>2. Stages' /\ Books' /\ Answers'
    BY DEF ReadInv, TypeOK, Mode, Stages, Books, Answers, Watched, Looping, Closing
  <2>3. Verdicts' /\ Closes'
    BY DEF ReadInv, TypeOK, Verdicts, Closes, Watched, Closing
  <2>4. QED
    BY <2>1, <2>2, <2>3 DEF ReadInv
<1>5. QED
  BY <1>3, <1>4

LEMMA CopiedKeeps == ReadInv /\ Copied => ReadInv'
<1>1. SUFFICES ASSUME ReadInv, Copied PROVE ReadInv'
  OBVIOUS
<1>2. limit \in Nat /\ stream.size \in Nat /\ accepted = stream.size /\ accepted <= limit
  BY <1>1, ReadAssumption DEF ReadInv, TypeOK, Stream, Stages, Books, BoundedFootprint, Copied
<1>3. stream.ending = "eof"
  BY <1>1 DEF ReadInv, TypeOK, Mode, Stages, Copied, Watched, Looping, Closing
<1>4. PICK o \in {"cancelled", "ok"} : Conclude(o) /\ (o = "cancelled" => cancelled)
  BY <1>1 DEF Copied
<1>5. Promise!Justified(o)
  BY <1>2, <1>3, <1>4 DEF Promise!Justified
<1>6. QED
  BY <1>1, <1>2, <1>4, <1>5, ConcludeKeeps
  DEF ReadInv, TypeOK, Copied, Class, BoundedFootprint, buffers

LEMMA CheckKeeps == ReadInv /\ Check => ReadInv'
<1>1. SUFFICES ASSUME ReadInv, Check PROVE ReadInv'
  OBVIOUS
<1>2. limit \in Nat /\ Chunk \in Nat \ {0} /\ accepted \in Nat /\ accepted <= limit
  BY <1>1, ReadAssumption DEF ReadInv, TypeOK, Stages, Looping, BoundedFootprint, Check
<1>3. CASE cancelled
  <2>1. Conclude("cancelled") /\ UNCHANGED readSize
    BY <1>1, <1>3 DEF Check
  <2>2. Promise!Justified("cancelled")
    BY <1>3 DEF Promise!Justified
  <2>3. QED
    BY <1>1, <1>2, <2>1, <2>2, ConcludeKeeps
    DEF ReadInv, TypeOK, Check, Class, BoundedFootprint, Looping
<1>4. CASE ~cancelled
  <2>1. readSize' = NextReadSize /\ pc' = "reading" /\ UNCHANGED <<held, outcome>>
    BY <1>1, <1>4 DEF Check
  <2>2. /\ readSize' \in Nat \ {0} /\ accepted + readSize' <= limit + 1
        /\ readSize' <= boundedScratchCapacity
    BY <1>2, <2>1 DEF NextReadSize, boundedScratchCapacity
  <2> USE <1>1, <1>2, <2>1, <2>2 DEF Check, call, control
  <2>3. TypeOK'
    BY DEF ReadInv, TypeOK
  <2>4. BoundedFootprint'
    <3>1. boundedScratchCapacity \in Nat /\ boundedScratchCapacity' = boundedScratchCapacity
      BY DEF boundedScratchCapacity
    <3>2. QED
      BY <3>1 DEF ReadInv, BoundedFootprint
  <2>5. Stages' /\ Books' /\ Answers'
    BY DEF ReadInv, TypeOK, Mode, Stages, Books, Answers, Watched, Looping, Closing
  <2>6. Verdicts' /\ Closes'
    BY DEF ReadInv, TypeOK, Verdicts, Closes, Watched, Closing
  <2>7. QED
    BY <2>3, <2>4, <2>5, <2>6 DEF ReadInv
<1>5. QED
  BY <1>3, <1>4

-----------------------------------------------------------------------------
\* The reader's three answers leave everything but got and left alone.
LEMMA AnswerKeeps ==
    ASSUME ReadInv, pc = "reading", NEW n \in Nat,
           NEW err \in {"nil", "eof", "fault", "deadline"}, Answer(n, err),
           left' \in Nat,
           \/ n > readSize /\ stream.ending = "rogue" /\ accepted = stream.size
           \/ n <= readSize /\ accepted + n + left' = stream.size,
           ~cancelled => /\ err # "nil" => err = stream.ending /\ left' = 0
                         /\ err = "nil" /\ n = 0 => stream.ending = "stall" /\ left' = 0
    PROVE  ReadInv'
<1> USE DEF Answer, call, buffers, control
<1>1. TypeOK'
  BY DEF ReadInv, TypeOK
<1>2. BoundedFootprint'
  BY DEF ReadInv, BoundedFootprint, boundedScratchCapacity
<1>3. Stages'
  BY DEF ReadInv, Stages, Watched, Looping, Closing
<1>4. Books'
  BY DEF Books
<1>5. Answers'
  BY DEF Answers
<1>6. Verdicts' /\ Closes'
  BY DEF ReadInv, Verdicts, Closes, Watched, Closing
<1>7. QED
  BY <1>1, <1>2, <1>3, <1>4, <1>5, <1>6 DEF ReadInv

LEMMA ReaderKeeps == ReadInv /\ Reader => ReadInv'
<1>1. SUFFICES ASSUME ReadInv, Reader PROVE ReadInv'
  OBVIOUS
<1>2. /\ left \in Nat /\ readSize \in Nat /\ accepted \in Nat /\ stream.size \in Nat
      /\ stream.ending \in Ending
  BY <1>1, ReadAssumption DEF ReadInv, TypeOK, Stream
<1>3. pc = "reading" => accepted + left = stream.size
  BY <1>1 DEF ReadInv, Books
<1>4. CASE Data
  <2>1. PICK n \in 1..Lesser(left, readSize) :
            /\ left' = left - n
            /\ \/ Answer(n, "nil")
               \/ n = left /\ stream.ending \in {"eof", "fault", "deadline"}
                           /\ Answer(n, stream.ending)
    BY <1>4 DEF Data
  <2>2. n \in Nat /\ n > 0 /\ n <= left /\ n <= readSize
    BY <1>2, <2>1 DEF Lesser
  <2>3. left' \in Nat /\ accepted + n + left' = stream.size
    BY <1>2, <1>3, <1>4, <2>1, <2>2 DEF Data
  <2>4. CASE Answer(n, "nil")
    BY <1>1, <1>2, <1>4, <2>2, <2>3, <2>4, AnswerKeeps DEF Data
  <2>5. CASE n = left /\ stream.ending \in {"eof", "fault", "deadline"} /\ Answer(n, stream.ending)
    <3>1. left' = 0
      BY <1>2, <2>1, <2>2, <2>5
    <3>2. QED
      BY <1>1, <1>2, <1>4, <2>2, <2>3, <2>5, <3>1, AnswerKeeps DEF Data
  <2>6. QED
    BY <2>1, <2>4, <2>5
<1>5. CASE End
  <2>1. pc = "reading" /\ left = 0 /\ left' = 0 /\ accepted = stream.size
    BY <1>2, <1>3, <1>5 DEF End
  <2>2. CASE stream.ending = "rogue"
    <3>1. Answer(readSize + 1, "nil")
      BY <1>5, <2>2 DEF End
    <3>2. readSize + 1 \in Nat /\ readSize + 1 > readSize /\ readSize + 1 # 0
      BY <1>2
    <3>3. QED
      BY <1>1, <1>2, <2>1, <2>2, <3>1, <3>2, AnswerKeeps
  <2>3. CASE stream.ending = "stall"
    <3>1. Answer(0, "nil")
      BY <1>5, <2>3 DEF End
    <3>2. QED
      BY <1>1, <1>2, <2>1, <2>3, <3>1, AnswerKeeps
  <2>4. CASE stream.ending \in {"eof", "fault", "deadline"}
    <3>1. Answer(0, stream.ending)
      BY <1>5, <2>4 DEF End
    <3>2. QED
      BY <1>1, <1>2, <2>1, <2>4, <3>1, AnswerKeeps
  <2>5. QED
    BY <1>2, <1>5, <2>2, <2>3, <2>4 DEF End, Ending
<1>6. CASE GiveUp
  <2>1. pc = "reading" /\ closes > 0 /\ Answer(0, "fault") /\ left' = left
    BY <1>6 DEF GiveUp
  <2>2. cancelled
    BY <1>1, <2>1 DEF ReadInv, Closes
  <2>3. QED
    BY <1>1, <1>2, <1>3, <2>1, <2>2, AnswerKeeps
<1>7. QED
  BY <1>1, <1>4, <1>5, <1>6 DEF Reader

-----------------------------------------------------------------------------
LEMMA GrownBounds ==
    ASSUME limit \in Nat, capacity \in Nat, NEW length \in Nat,
           length <= limit, capacity <= limit
    PROVE  /\ Grown(length) \in Nat
           /\ length <= Grown(length) /\ Grown(length) <= limit
BY DEF Grown, Lesser

LEMMA TakeKeeps == ReadInv /\ Take => ReadInv'
<1>1. SUFFICES ASSUME ReadInv, Take PROVE ReadInv'
  OBVIOUS
<1>2. /\ limit \in Nat /\ stream.size \in Nat /\ stream.ending \in Ending
      /\ accepted \in Nat /\ capacity \in Nat /\ left \in Nat /\ readSize \in Nat
      /\ got.n \in Nat /\ got.err \in {"nil", "eof", "fault", "deadline"}
  BY <1>1, ReadAssumption DEF ReadInv, TypeOK, Stream, Stages, Looping, Take
<1>3. /\ pc = "taking" /\ pc \in Looping
      /\ UNCHANGED <<call, cancelled, left, readSize, got, control>>
  BY <1>1 DEF Take, Looping
<1>4. accepted <= limit /\ accepted <= capacity /\ capacity <= limit
  BY <1>1, <1>2 DEF ReadInv, BoundedFootprint
<1>5. left' \in Nat
  BY <1>2, <1>3
<1>6. CASE cancelled
  <2>1. Conclude("cancelled") /\ UNCHANGED <<accepted, capacity>>
    BY <1>1, <1>6 DEF Take
  <2>2. Promise!Justified("cancelled")
    BY <1>6 DEF Promise!Justified
  <2>3. QED
    BY <1>1, <1>2, <1>3, <1>4, <1>5, <2>1, <2>2, ConcludeKeeps DEF Class
<1>7. CASE ~cancelled
  <2>1. Use
    BY <1>1, <1>7 DEF Take
  <2>2. \/ got.n > readSize /\ stream.ending = "rogue" /\ accepted = stream.size
        \/ got.n <= readSize /\ accepted + got.n + left = stream.size
    BY <1>1, <1>3 DEF ReadInv, Books
  <2>3. /\ got.err # "nil" => got.err = stream.ending /\ left = 0
        /\ got.err = "nil" /\ got.n = 0 => stream.ending = "stall" /\ left = 0
    BY <1>1, <1>3, <1>7 DEF ReadInv, Answers
  <2>4. CASE got.n > readSize
    <3>1. Conclude("integrity") /\ UNCHANGED <<accepted, capacity>>
      BY <2>1, <2>4 DEF Use
    <3>2. Promise!Justified("integrity")
      BY <1>2, <1>4, <2>2, <2>4 DEF Promise!Justified
    <3>3. QED
      BY <1>1, <1>2, <1>3, <1>4, <1>5, <3>1, <3>2, ConcludeKeeps DEF Class
  <2>5. CASE got.n <= readSize /\ got.n > 0 /\ accepted > limit - got.n
    <3>1. Conclude("limit") /\ UNCHANGED <<accepted, capacity>>
      BY <1>2, <2>1, <2>5 DEF Use
    <3>2. Promise!Justified("limit")
      BY <1>2, <2>2, <2>5 DEF Promise!Justified
    <3>3. QED
      BY <1>1, <1>2, <1>3, <1>4, <1>5, <3>1, <3>2, ConcludeKeeps DEF Class
  <2>6. CASE got.n <= readSize /\ ~(got.n > 0 /\ accepted > limit - got.n)
    <3>1. /\ accepted' = accepted + got.n
          /\ capacity' = IF got.n > 0 THEN Grown(accepted + got.n) ELSE capacity
      BY <1>2, <2>1, <2>6 DEF Use
    <3>2. accepted + got.n \in Nat /\ accepted + got.n <= limit
      BY <1>2, <1>4, <2>6
    <3>3. /\ accepted' \in Nat /\ capacity' \in Nat
          /\ accepted' <= limit /\ accepted' <= capacity' /\ capacity' <= limit
      BY <1>2, <1>4, <2>6, <3>1, <3>2, GrownBounds
    <3>4. accepted + got.n + left = stream.size
      BY <1>2, <2>2, <2>6
    <3>5. CASE got.err # "nil" \/ got.n = 0
      <4>1. PICK o \in {"ok", "cancelled", "integrity"} :
                /\ Conclude(o)
                /\ o = "ok" => got.err = "eof"
                /\ o = "cancelled" => got.err = "deadline"
                /\ o = "integrity" => got.err = "fault" \/ (got.err = "nil" /\ got.n = 0)
        BY <1>2, <2>1, <2>6, <3>5 DEF Use
      <4>2. stream.size <= limit
        BY <1>2, <2>3, <3>2, <3>4, <3>5
      <4>3. Promise!Justified(o)
        BY <2>3, <4>1, <4>2 DEF Promise!Justified
      <4>4. QED
        BY <1>1, <1>2, <1>3, <1>5, <3>3, <4>1, <4>3, ConcludeKeeps DEF Class
    <3>6. CASE got.err = "nil" /\ got.n # 0
      <4>1. pc' = "check" /\ UNCHANGED <<held, outcome>>
        BY <1>2, <2>1, <2>6, <3>6 DEF Use
      <4>2. accepted' + left' = stream'.size
        BY <1>3, <3>1, <3>4 DEF call
      <4> USE DEF call, control
      <4>3. TypeOK'
        BY <1>1, <1>3, <3>3, <4>1 DEF ReadInv, TypeOK
      <4>4. BoundedFootprint' /\ Books' /\ Answers'
        BY <1>3, <3>3, <4>1, <4>2 DEF BoundedFootprint, Books, Answers
      <4>5. Stages'
        BY <1>1, <1>3, <4>1 DEF ReadInv, Stages, Watched, Looping, Closing
      <4>6. Verdicts' /\ Closes'
        BY <1>1, <1>3, <4>1 DEF ReadInv, TypeOK, Verdicts, Closes, Watched, Closing
      <4>7. QED
        BY <4>3, <4>4, <4>5, <4>6 DEF ReadInv
    <3>7. QED
      BY <3>5, <3>6
  <2>7. QED
    BY <1>2, <2>4, <2>5, <2>6
<1>8. QED
  BY <1>6, <1>7

-----------------------------------------------------------------------------
\* The steps after ReadBounded has returned, in the watched modes.
LEMMA ClosingKeeps == ReadInv /\ (Stop \/ CloseBody \/ Join \/ Final) => ReadInv'
<1> SUFFICES ASSUME ReadInv, Stop \/ CloseBody \/ Join \/ Final PROVE ReadInv'
  OBVIOUS
<1>1. /\ pc \in Closing /\ Watched
      /\ held \in Class /\ Promise!Justified(held) /\ outcome = "pending"
  BY DEF ReadInv, TypeOK, Mode, Stages, Verdicts, Stop, CloseBody, Join, Final,
         Closing, Looping, Watched
<1>2. /\ UNCHANGED <<call, cancelled, left, buffers, got, held>>
      /\ pc' \in Closing \cup {"returned"}
      /\ pc' = "close" => mode = "remote"
  BY DEF Stop, CloseBody, Join, Final, Closing
<1> USE DEF call, buffers
<1>3. Promise!Justified(held)' /\ held' \in Class
  BY <1>1, <1>2 DEF Promise!Justified
<1>4. /\ pc' = "returned" => /\ outcome' = IF cancelled THEN "cancelled" ELSE held
                             /\ pc = "final"
      /\ pc' # "returned" => outcome' = outcome
  BY DEF Stop, CloseBody, Join, Final
<1>5. Verdicts'
  <2>1. ASSUME pc' = "returned" PROVE outcome' \in Class /\ Promise!Justified(outcome)'
    <3>1. CASE cancelled
      BY <1>2, <1>4, <2>1, <3>1 DEF Class, Promise!Justified
    <3>2. CASE ~cancelled
      BY <1>1, <1>2, <1>4, <2>1, <3>2 DEF Promise!Justified
    <3>3. QED
      BY <3>1, <3>2
  <2>2. QED
    BY <1>1, <1>2, <1>3, <1>4, <2>1 DEF Verdicts
<1>6. Closes'
  <2>1. CASE Stop
    BY <2>1 DEF ReadInv, TypeOK, Closes, Stop, Watched
  <2>2. CASE CloseBody
    BY <2>2 DEF ReadInv, TypeOK, Stages, Closes, CloseBody, Watched
  <2>3. CASE Join
    BY <2>3 DEF ReadInv, TypeOK, Closes, Join, Watched, control
  <2>4. CASE Final
    BY <2>4 DEF ReadInv, TypeOK, Closes, Final, Watched, control
  <2>5. QED
    BY <2>1, <2>2, <2>3, <2>4
<1>7. TypeOK'
  <2>1. outcome' \in Class \cup {"pending"} /\ pc' \in Closing \cup {"returned"}
    BY <1>1, <1>2, <1>4 DEF Class
  <2>2. stopped' \in BOOLEAN /\ watcher' = watcher
    BY DEF ReadInv, TypeOK, Stop, CloseBody, Join, Final, control
  <2>3. closes' \in 0..2
    <3>1. closes' \in Nat /\ watcher' \in {"waiting", "closing", "gone"}
      BY <2>2 DEF ReadInv, TypeOK, Stop, CloseBody, Join, Final, control
    <3>2. closes' <= 2
      BY <1>6, <3>1 DEF Closes
    <3>3. QED
      BY <3>1, <3>2
  <2>4. QED
    BY <1>2, <1>3, <2>1, <2>2, <2>3 DEF ReadInv, TypeOK, Closing
<1>8. BoundedFootprint' /\ Books' /\ Answers'
  BY <1>1, <1>2 DEF ReadInv, BoundedFootprint, boundedScratchCapacity, Books, Answers, Closing
<1>9. Stages'
  BY <1>1, <1>2 DEF ReadInv, Stages, Watched, Looping, Closing
<1>10. QED
  BY <1>5, <1>6, <1>7, <1>8, <1>9 DEF ReadInv

LEMMA WatcherKeeps == ReadInv /\ Watcher => ReadInv'
<1> SUFFICES ASSUME ReadInv, Watcher PROVE ReadInv'
  OBVIOUS
<1> USE DEF call, buffers
<1>1. UNCHANGED <<call, cancelled, left, buffers, got, pc, held, outcome, stopped>>
  BY DEF Watcher, Interrupt, Dismiss, CloseReader
<1>2. Closes'
  <2>1. CASE Interrupt
    BY <1>1, <2>1 DEF ReadInv, TypeOK, Closes, Interrupt, Watched
  <2>2. CASE Dismiss
    BY <1>1, <2>2 DEF ReadInv, TypeOK, Closes, Dismiss, Watched
  <2>3. CASE CloseReader
    BY <1>1, <2>3 DEF ReadInv, TypeOK, Closes, CloseReader, Watched
  <2>4. QED
    BY <2>1, <2>2, <2>3 DEF Watcher
<1>3. TypeOK'
  <2>1. watcher' \in {"waiting", "closing", "gone"} /\ closes' \in Nat
    BY DEF ReadInv, TypeOK, Watcher, Interrupt, Dismiss, CloseReader
  <2>2. closes' <= 2
    BY <1>2, <2>1 DEF Closes
  <2>3. QED
    BY <1>1, <2>1, <2>2 DEF ReadInv, TypeOK
<1>4. BoundedFootprint' /\ Stages' /\ Books' /\ Answers'
  BY <1>1 DEF ReadInv, BoundedFootprint, boundedScratchCapacity, Stages, Books, Answers, Watched
<1>5. Verdicts'
  BY <1>1 DEF ReadInv, Verdicts, Promise!Justified
<1>6. QED
  BY <1>2, <1>3, <1>4, <1>5 DEF ReadInv

LEMMA StutterKeeps == ReadInv /\ UNCHANGED vars => ReadInv'
<1> SUFFICES ASSUME ReadInv, UNCHANGED vars PROVE ReadInv'
  OBVIOUS
<1> USE DEF vars
<1>1. TypeOK' /\ BoundedFootprint' /\ Stages' /\ Books' /\ Answers' /\ Closes'
  BY DEF ReadInv, TypeOK, BoundedFootprint, boundedScratchCapacity, Stages, Books, Answers,
         Closes, Watched
<1>2. Verdicts'
  BY DEF ReadInv, Verdicts, Promise!Justified
<1>3. QED
  BY <1>1, <1>2 DEF ReadInv

LEMMA StepKeeps == ReadInv /\ [Next]_vars => ReadInv'
<1> SUFFICES ASSUME ReadInv, [Next]_vars PROVE ReadInv'
  OBVIOUS
<1>1. CASE Cancel
  BY <1>1, CancelKeeps
<1>2. CASE Caller
  BY <1>2, StartKeeps, OwnKeeps, CopiedKeeps, CheckKeeps, TakeKeeps, ClosingKeeps DEF Caller
<1>3. CASE Reader
  BY <1>3, ReaderKeeps
<1>4. CASE Watcher
  BY <1>4, WatcherKeeps
<1>5. CASE Rest \/ UNCHANGED vars
  BY <1>5, StutterKeeps DEF Rest
<1>6. QED
  BY <1>1, <1>2, <1>3, <1>4, <1>5 DEF Next

\* What a step can do to the call, its context and its outcome.
LEMMA StepShape ==
    ASSUME ReadInv, [Next]_vars
    PROVE  /\ UNCHANGED call
           /\ ~Cancel => cancelled' = cancelled
           /\ outcome' # outcome => pc # "returned" /\ pc' = "returned"
           /\ Watched /\ pc # "returned" /\ pc' = "returned" => Final
<1>1. CASE Cancel
  BY <1>1 DEF Cancel
<1>2. CASE Start
  BY <1>2 DEF Start, Conclude
<1>3. CASE Own \/ Copied
  BY <1>3 DEF Own, Copied, Conclude
<1>4. CASE Check
  BY <1>4 DEF Check, Conclude
<1>5. CASE Take
  <2>1. pc = "taking" /\ UNCHANGED <<call, cancelled>>
    BY <1>5 DEF Take
  <2>2. \/ pc' = "check" /\ UNCHANGED outcome
        \/ \E o \in Class : Conclude(o)
    <3>1. CASE cancelled
      BY <1>5, <3>1 DEF Take, Class
    <3>2. CASE ~cancelled
      <4>1. Use
        BY <1>5, <3>2 DEF Take
      <4>2. QED
        BY <4>1 DEF Use, Class
    <3>3. QED
      BY <3>1, <3>2
  <2>3. QED
    BY <2>1, <2>2 DEF Conclude
<1>6. CASE Stop \/ CloseBody \/ Join \/ Final
  BY <1>6 DEF Stop, CloseBody, Join, Final
<1>7. CASE Reader
  BY <1>7 DEF Reader, Data, End, GiveUp, Answer
<1>8. CASE Watcher
  BY <1>8 DEF Watcher
<1>9. CASE Rest \/ UNCHANGED vars
  BY <1>9 DEF Rest, vars, call
<1>10. QED
  BY <1>1, <1>2, <1>3, <1>4, <1>5, <1>6, <1>7, <1>8, <1>9 DEF Next, Caller

LEMMA ReadInvHolds == Spec => []ReadInv
BY InitHolds, StepKeeps, PTL DEF Spec

-----------------------------------------------------------------------------
(* Whatever the limit, the chunk size and the stream, no read asks for     *)
(* more than one byte past the limit and no more than the limit is held    *)
(* (BoundedFootprint; bounded.go:63-64).                                   *)
THEOREM ReadIsBounded == Spec => [](TypeOK /\ BoundedFootprint)
<1>1. ReadInv => TypeOK /\ BoundedFootprint
  BY DEF ReadInv
<1>2. QED
  BY <1>1, ReadInvHolds, PTL

(* The caller gets its reader back with no watcher left, closed only if    *)
(* its context ended (ReaderHandedBack; source.go:424-434).                *)
THEOREM ReaderIsHandedBack == Spec => []ReaderHandedBack
<1>1. ReadInv => ReaderHandedBack
  BY DEF ReadInv, TypeOK, Mode, Closes, ReaderHandedBack, Watched
<1>2. QED
  BY <1>1, ReadInvHolds, PTL

(* A watched read whose context ended before it returned reports a         *)
(* cancellation (CancelWins; source.go:435-437, remote.go:292-294).        *)
THEOREM CancellationWins == Spec => CancelWins
<1>1. ReadInv /\ [Next]_vars
        => [cancelled =>
              /\ pc = "taking" /\ pc' # pc => accepted' = accepted /\ held' = "cancelled"
              /\ Watched /\ pc # "returned" /\ pc' = "returned" => outcome' = "cancelled"]_vars
  <2> SUFFICES ASSUME ReadInv, [Next]_vars, cancelled
               PROVE  /\ pc = "taking" /\ pc' # pc => accepted' = accepted /\ held' = "cancelled"
                      /\ Watched /\ pc # "returned" /\ pc' = "returned" => outcome' = "cancelled"
    OBVIOUS
  <2>1. ASSUME pc = "taking", pc' # pc
        PROVE  accepted' = accepted /\ held' = "cancelled"
    <3>1. Take
      BY <2>1 DEF Next, Caller, vars, Start, Own, Copied, Check, Stop, CloseBody, Join, Final,
                  Cancel, Reader, Watcher, Data, End, GiveUp, Interrupt, Dismiss, CloseReader, Rest
    <3>2. QED
      BY <3>1 DEF Take, Conclude
  <2>2. ASSUME Watched, pc # "returned", pc' = "returned"
        PROVE  outcome' = "cancelled"
    <3>1. Final
      BY <2>2, StepShape
    <3>2. QED
      BY <3>1 DEF Final
  <2>3. QED
    BY <2>1, <2>2
<1>2. QED
  BY <1>1, ReadInvHolds, PTL DEF Spec, CancelWins

(* The read implements Acquisition: one decision about the whole stream,   *)
(* whole bytes or none, and every failure class earned by the stream, the  *)
(* limit or the context (ImplementsAcquisition; bounded.go:63-115).        *)
THEOREM ReadImplementsAcquisition == Spec => ImplementsAcquisition
<1>1. Init => Promise!Init
  BY DEF Init, Promise!Init
<1>2. ReadInv /\ ReadInv' /\ [Next]_vars => [Promise!Next]_(Promise!vars)
  <2> SUFFICES ASSUME ReadInv, ReadInv', [Next]_vars
               PROVE  [Promise!Next]_(Promise!vars)
    OBVIOUS
  <2>1. CASE Cancel
    BY <2>1 DEF Cancel, call, Promise!Next, Promise!Cancel
  <2>2. CASE ~Cancel
    <3>1. UNCHANGED <<limit, stream, cancelled>>
      BY <2>2, StepShape DEF call
    <3>2. CASE outcome' = outcome
      BY <3>1, <3>2 DEF Promise!vars
    <3>3. CASE outcome' # outcome
      <4>1. pc # "returned" /\ pc' = "returned"
        BY <3>3, StepShape
      <4>2. outcome = "pending" /\ Promise!Justified(outcome)'
        BY <4>1 DEF ReadInv, Verdicts
      <4>3. Promise!Justified(outcome')
        BY <3>1, <4>2 DEF Promise!Justified
      <4>4. QED
        BY <3>1, <4>2, <4>3 DEF Promise!Next, Promise!Decide
    <3>4. QED
      BY <3>2, <3>3
  <2>3. QED
    BY <2>1, <2>2
<1>3. QED
  BY <1>1, <1>2, ReadInvHolds, PTL DEF Spec, ImplementsAcquisition, Promise!Spec
=============================================================================
