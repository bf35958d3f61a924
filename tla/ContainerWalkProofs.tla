------------------------ MODULE ContainerWalkProofs ------------------------
(***************************************************************************)
(* The safety of shared-ledger container conversion, for every catalog of  *)
(* archives, every set of walkers and all limits.                          *)
(***************************************************************************)
EXTENDS ContainerWalk, RequestBudgetProofs, FiniteSetTheorems, SequenceTheorems,
        WellFoundedInduction

\* A converter function has entered its container and not yet left it.
Inside == {"entry", "snapshot", "remaining", "bound", "read", "admit", "ingest", "leave"}

\* The member loop is at a member, and not past the last one.
AtMember == {"snapshot", "remaining", "bound", "read", "admit", "ingest"}

(* How a walker's stack s and its position l go together: the stack is     *)
(* empty exactly when the walk is over, every dispatch but the innermost   *)
(* one is inside its container, and the innermost one is if l says so.     *)
Fits(s, l) ==
    /\ s \in Seq(Frame)
    /\ l \in Label
    /\ l = "done" <=> Len(s) = 0
    /\ \A i \in 1..Len(s) : s[i].next >= 1
    /\ l \in AtMember => s[Len(s)].next <= Len(Catalog[s[Len(s)].archive].members)
    /\ \A i \in 1..Len(s) : s[i].open <=> (i < Len(s) \/ l \in Inside)

\* The number of containers such a walker holds open.
Holds(s, l) == IF l \in Inside THEN Len(s) ELSE IF l = "done" THEN 0 ELSE Len(s) - 1

\* The walkers' own part of the invariant.
WalkTypes ==
    /\ cancelled \in BOOLEAN
    /\ root \in Requests
    /\ bound \in [Walkers -> Int]
    /\ outcome \in [Walkers -> Outcome]
    /\ stack \in [Walkers -> Seq(Frame)]
    /\ pc \in [Walkers -> Label]
    /\ \A w \in Walkers : Fits(stack[w], pc[w])

WalkInv ==
    /\ ledger \in Ledger
    /\ WithinLimits(ledger)
    /\ WalkTypes
    /\ IsFiniteSet(OpenContainers)
    /\ ledger.containerDepth = Cardinality(OpenContainers)

-----------------------------------------------------------------------------
LEMMA Cataloged ==
    ASSUME NEW a \in Archives
    PROVE  /\ Catalog[a].members \in Seq(Member)
           /\ Catalog[a].body \in Outcome \ {"none"}
           /\ Len(Catalog[a].members) \in Nat
           /\ \A i \in 1..Len(Catalog[a].members) :
                 /\ Catalog[a].members[i] \in Member
                 /\ Catalog[a].members[i].name \in Names \cup {UnsafeName}
                 /\ Catalog[a].members[i].declared \in Nat
                 /\ Catalog[a].members[i].compressed \in Nat
                 /\ Catalog[a].members[i].actual \in Nat
<1>1. Catalog[a] \in Archive
  BY CatalogAssumption
<1>2. Catalog[a].members \in Seq(Member) /\ Catalog[a].body \in Outcome \ {"none"}
  BY <1>1 DEF Archive, Outcome, Terminal
<1>3. \A i \in 1..Len(Catalog[a].members) : Catalog[a].members[i] \in Member
  BY <1>2
<1>4. ASSUME NEW m \in Member
      PROVE  /\ m.name \in Names \cup {UnsafeName}
             /\ m.declared \in Nat /\ m.compressed \in Nat /\ m.actual \in Nat
  BY <1>4 DEF Member
<1>5. Len(Catalog[a].members) \in Nat
  BY <1>2
<1>6. QED
  BY <1>2, <1>3, <1>4, <1>5

LEMMA FreshFrame ==
    ASSUME NEW a \in Archives
    PROVE  NewFrame(a) \in Frame /\ NewFrame(a).next = 1 /\ NewFrame(a).open = FALSE
  BY DEF NewFrame, Attempt, Frame

LEMMA RetryFrame ==
    ASSUME NEW a \in Archives, NEW k \in Nat, NEW failed \in BOOLEAN
    PROVE  /\ Attempt(a, k, failed) \in Frame
           /\ Attempt(a, k, failed).next >= 1
           /\ ~Attempt(a, k, failed).open
  BY DEF Attempt, Frame

(* Replacing the innermost frame: only its own position and openness need  *)
(* to fit the new label.                                                   *)
LEMMA ReplaceTop ==
    ASSUME NEW s, NEW l, Fits(s, l), l # "done",
           NEW f \in Frame, NEW m \in Label \ {"done"},
           f.next >= 1,
           m \in AtMember => f.next <= Len(Catalog[f.archive].members),
           f.open <=> m \in Inside
    PROVE  /\ Fits([s EXCEPT ![Len(s)] = f], m)
           /\ Len([s EXCEPT ![Len(s)] = f]) = Len(s)
<1> DEFINE n == Len(s)
           t == [s EXCEPT ![n] = f]
<1>1. n \in Nat /\ n >= 1 /\ s \in Seq(Frame)
  BY DEF Fits
<1>2. t \in Seq(Frame) /\ Len(t) = n
  BY <1>1
<1>3. \A i \in 1..n : t[i] = IF i = n THEN f ELSE s[i]
  BY <1>1
<1> HIDE DEF n, t
<1>4. \A i \in 1..n : t[i].next >= 1
  BY <1>3 DEF Fits, n
<1>5. \A i \in 1..n : t[i].open <=> (i < n \/ m \in Inside)
  BY <1>1, <1>3 DEF Fits, n
<1>6. t[n] = f
  BY <1>1, <1>3
<1>7. Fits(t, m)
  BY <1>1, <1>2, <1>4, <1>5, <1>6 DEF Fits
<1>8. QED
  BY <1>2, <1>7 DEF t, n

\* A nested dispatch begins.
LEMMA PushFrame ==
    ASSUME NEW s, NEW l \in Inside, Fits(s, l), NEW a \in Archives
    PROVE  /\ Fits(Append(s, NewFrame(a)), "dispatch")
           /\ Len(Append(s, NewFrame(a))) = Len(s) + 1
<1> DEFINE n == Len(s)
           t == Append(s, NewFrame(a))
<1>1. n \in Nat /\ s \in Seq(Frame)
  BY DEF Fits
<1>2. NewFrame(a) \in Frame /\ NewFrame(a).next = 1 /\ NewFrame(a).open = FALSE
  BY FreshFrame
<1>3. t \in Seq(Frame) /\ Len(t) = n + 1
  BY <1>1, <1>2
<1>4. \A i \in 1..(n + 1) : t[i] = IF i = n + 1 THEN NewFrame(a) ELSE s[i]
  BY <1>1
<1> HIDE DEF n, t
<1>5. \A i \in 1..(n + 1) : t[i].next >= 1
  BY <1>1, <1>2, <1>4 DEF Fits, n
<1>6. \A i \in 1..(n + 1) : t[i].open <=> i < n + 1
  BY <1>1, <1>2, <1>4 DEF Fits, n
<1>7. Fits(t, "dispatch")
  BY <1>1, <1>3, <1>5, <1>6 DEF Fits, Label, Inside, AtMember
<1>8. QED
  BY <1>3, <1>7 DEF t, n

\* The stack once the innermost dispatch is over, and when the member loop
\* around it goes on besides.
Below(s) == SubSeq(s, 1, Len(s) - 1)

Resumed(s) ==
    LET outer == s[Len(s) - 1]
    IN  Append(SubSeq(s, 1, Len(s) - 2),
               [outer EXCEPT !.next = @ + 1])

\* A dispatch is over: the frame around it is inside its container.
LEMMA PopFrame ==
    ASSUME NEW s, NEW l \in Label \ Inside, Fits(s, l), Len(s) >= 2
    PROVE  Fits(Below(s), "leave") /\ Len(Below(s)) = Len(s) - 1
<1> DEFINE n == Len(s)
           t == SubSeq(s, 1, n - 1)
<1>1. n \in Nat /\ n >= 2 /\ s \in Seq(Frame)
  BY DEF Fits
<1>2. t \in Seq(Frame) /\ Len(t) = n - 1
  BY <1>1
<1>3. \A i \in 1..(n - 1) : t[i] = s[i]
  BY <1>1
<1> HIDE DEF n, t
<1>4. \A i \in 1..(n - 1) : t[i].next >= 1 /\ t[i].open
  BY <1>1, <1>3 DEF Fits, n
<1>5. Fits(t, "leave")
  BY <1>1, <1>2, <1>4 DEF Fits, Label, Inside, AtMember
<1>6. QED
  BY <1>2, <1>5 DEF t, n, Below

\* ... and its member loop goes on.
LEMMA PopAndContinue ==
    ASSUME NEW s, NEW l \in Label \ Inside, Fits(s, l), Len(s) >= 2
    PROVE  Fits(Resumed(s), "entry") /\ Len(Resumed(s)) = Len(s) - 1
<1> DEFINE n == Len(s)
           outer == s[n - 1]
           next == outer.next + 1
           f == [outer EXCEPT !.next = next]
           t == Append(SubSeq(s, 1, n - 2), f)
<1>1. n \in Nat /\ n >= 2 /\ s \in Seq(Frame) /\ n - 2 \in Nat /\ n - 1 \in 1..n
  BY DEF Fits
<1>2. outer \in Frame /\ outer.next >= 1 /\ outer.open
  BY <1>1 DEF Fits
<1>3. outer.next \in Nat /\ next \in Nat /\ next >= 1 /\ next = outer.next + 1
  BY <1>2 DEF Frame
<1> HIDE DEF outer, next
<1>4. f \in Frame /\ f.next = next /\ f.open
  BY <1>2, <1>3 DEF Frame
<1> HIDE DEF f
<1>5. t \in Seq(Frame) /\ Len(t) = n - 1
  <2> DEFINE below == SubSeq(s, 1, n - 2)
  <2>1. below \in Seq(Frame) /\ Len(below) = n - 2
    <3>1. 1 \in Int /\ n - 2 \in Int /\ \A i \in 1..(n - 2) : s[i] \in Frame
      BY <1>1
    <3> HIDE DEF n
    <3>2. QED
      BY <1>1, <3>1, SubSeqProperties
  <2> HIDE DEF below
  <2>2. Append(below, f) \in Seq(Frame) /\ Len(Append(below, f)) = n - 1
    BY <1>1, <1>4, <2>1
  <2>3. QED
    BY <2>2 DEF below
<1>6. \A i \in 1..(n - 1) : t[i] = IF i = n - 1 THEN f ELSE s[i]
  BY <1>1, <1>4
<1> HIDE DEF n, t
<1>7. \A i \in 1..(n - 1) : t[i].next >= 1 /\ t[i].open
  BY <1>1, <1>3, <1>4, <1>6 DEF Fits, n
<1>8. Fits(t, "entry")
  BY <1>1, <1>5, <1>7 DEF Fits, Label, Inside, AtMember
<1>9. QED
  BY <1>5, <1>8 DEF t, n, f, outer, next, Resumed

-----------------------------------------------------------------------------
Held(w) == Holds(stack[w], pc[w])

\* Only walker w moves, and its stack and position go together afterwards.
Local(w) ==
    /\ stack' = [stack EXCEPT ![w] = stack'[w]]
    /\ pc' = [pc EXCEPT ![w] = pc'[w]]
    /\ Fits(stack'[w], pc'[w])
    /\ bound' \in [Walkers -> Int]
    /\ outcome' \in [Walkers -> Outcome]

\* The innermost frame is replaced by f, and the walker moves to m.
LEMMA ReplaceIsLocal ==
    ASSUME WalkTypes, NEW w \in Walkers, pc[w] # "done",
           NEW f \in Frame, NEW m \in Label \ {"done"},
           f.next >= 1,
           m \in AtMember => f.next <= Len(Catalog[f.archive].members),
           f.open <=> m \in Inside,
           stack' = Replace(w, f), pc' = At(w, m),
           bound' \in [Walkers -> Int], outcome' \in [Walkers -> Outcome]
    PROVE  /\ Local(w)
           /\ Len(stack'[w]) = Len(stack[w])
           /\ pc'[w] = m
<1>1. Fits(stack[w], pc[w])
  BY DEF WalkTypes
<1>2. stack'[w] = [stack[w] EXCEPT ![Len(stack[w])] = f]
  BY DEF Replace, WalkTypes
<1>3. pc'[w] = m
  BY DEF At, WalkTypes
<1>4. Fits(stack'[w], m) /\ Len(stack'[w]) = Len(stack[w])
  BY <1>1, <1>2, ReplaceTop
<1>5. stack' = [stack EXCEPT ![w] = stack'[w]] /\ pc' = [pc EXCEPT ![w] = pc'[w]]
  BY <1>2, <1>3 DEF Replace, At, WalkTypes
<1>6. QED
  BY <1>3, <1>4, <1>5 DEF Local

\* The walker moves to m with its stack as it is.
LEMMA MoveIsLocal ==
    ASSUME WalkTypes, NEW w \in Walkers, pc[w] # "done",
           NEW m \in Label \ {"done"},
           m \in Inside <=> pc[w] \in Inside,
           m \in AtMember => pc[w] \in AtMember,
           stack' = stack, pc' = At(w, m),
           bound' \in [Walkers -> Int], outcome' \in [Walkers -> Outcome]
    PROVE  Local(w) /\ Held(w)' = Held(w)
<1>1. Fits(stack[w], pc[w]) /\ stack'[w] = stack[w]
  BY DEF WalkTypes
<1>2. pc'[w] = m
  BY DEF At, WalkTypes
<1>3. Fits(stack'[w], m)
  BY <1>1 DEF Fits
<1>4. stack' = [stack EXCEPT ![w] = stack'[w]] /\ pc' = [pc EXCEPT ![w] = pc'[w]]
  BY <1>1, <1>2 DEF At, WalkTypes
<1>5. QED
  BY <1>1, <1>2, <1>3, <1>4 DEF Local, Held, Holds

\* The innermost frame of a walker that is not done.
LEMMA Innermost ==
    ASSUME WalkTypes, NEW w \in Walkers, pc[w] # "done"
    PROVE  /\ Here(w) \in Frame
           /\ Here(w).archive \in Archives
           /\ Here(w).attempt \in Nat
           /\ Here(w).next \in Nat /\ Here(w).next >= 1
           /\ Here(w).open <=> pc[w] \in Inside
           /\ pc[w] \in AtMember =>
                 /\ Here(w).next <= Len(Listing(w))
                 /\ This(w).declared \in Nat
                 /\ This(w).compressed \in Nat
                 /\ This(w).actual \in Nat
           /\ Len(stack[w]) \in Nat \ {0}
           /\ Len(Listing(w)) \in Nat
<1>1. Fits(stack[w], pc[w])
  BY DEF WalkTypes
<1>2. Len(stack[w]) \in Nat \ {0}
  BY <1>1 DEF Fits
<1>3. /\ Here(w) \in Frame
      /\ Here(w).next >= 1
      /\ Here(w).open <=> pc[w] \in Inside
      /\ pc[w] \in AtMember => Here(w).next <= Len(Catalog[Here(w).archive].members)
  BY <1>1, <1>2 DEF Fits, Here
<1>4. Here(w).archive \in Archives /\ Here(w).next \in Nat /\ Here(w).attempt \in Nat
  BY <1>3 DEF Frame
<1>5. pc[w] \in AtMember => Here(w).next \in 1..Len(Listing(w))
  BY <1>3, <1>4, Cataloged DEF Listing
<1>6. QED
  BY <1>2, <1>3, <1>4, <1>5, Cataloged DEF Listing, This

LEMMA ConcludeIsLocal ==
    ASSUME WalkTypes, NEW w \in Walkers, pc[w] \in Inside,
           NEW o \in Outcome, Conclude(w, o)
    PROVE  Local(w) /\ Held(w)' = Held(w)
<1>1. pc[w] # "done" /\ "leave" \in Inside \ AtMember /\ "leave" \in Label \ {"done"}
  BY DEF Inside, AtMember, Label
<1>2. /\ stack' = stack /\ pc' = At(w, "leave")
      /\ bound' \in [Walkers -> Int] /\ outcome' \in [Walkers -> Outcome]
  BY DEF Conclude, Result, WalkTypes
<1>3. QED
  BY <1>1, <1>2, MoveIsLocal

LEMMA ProceedIsLocal ==
    ASSUME WalkTypes, NEW w \in Walkers, pc[w] # "done",
           NEW m \in Label \ {"done"},
           m \in Inside <=> pc[w] \in Inside,
           m \in AtMember => pc[w] \in AtMember,
           Proceed(w, m)
    PROVE  Local(w) /\ Held(w)' = Held(w)
<1>1. /\ stack' = stack /\ pc' = At(w, m)
      /\ bound' \in [Walkers -> Int] /\ outcome' \in [Walkers -> Outcome]
  BY DEF Proceed, WalkTypes
<1>2. QED
  BY <1>1, MoveIsLocal

LEMMA ContinueIsLocal ==
    ASSUME WalkTypes, NEW w \in Walkers, pc[w] \in AtMember, Continue(w)
    PROVE  Local(w) /\ Held(w)' = Held(w)
<1> DEFINE f == Here(w)
           next == f.next + 1
           g == [f EXCEPT !.next = next]
<1>1. pc[w] # "done" /\ pc[w] \in Inside /\ "entry" \in Inside \ AtMember
      /\ "entry" \in Label \ {"done"}
  BY DEF Inside, AtMember, Label
<1>2. f \in Frame /\ f.next \in Nat /\ f.next >= 1 /\ f.open
  BY <1>1, Innermost
<1>3. stack' = Replace(w, g) /\ pc' = At(w, "entry")
  BY DEF Continue
<1>4. bound' \in [Walkers -> Int] /\ outcome' \in [Walkers -> Outcome]
  BY DEF Continue, WalkTypes
<1>5. next \in Nat /\ next >= 1
  BY <1>2 DEF Frame
<1> HIDE DEF f, next
<1>6. g \in Frame /\ g.next = next /\ g.open
  BY <1>2, <1>5 DEF Frame
<1> HIDE DEF g
<1>7. Local(w) /\ Len(stack'[w]) = Len(stack[w]) /\ pc'[w] = "entry"
  BY <1>1, <1>3, <1>4, <1>5, <1>6, ReplaceIsLocal
<1>8. QED
  BY <1>1, <1>7 DEF Held, Holds

LEMMA FinishIsLocal ==
    ASSUME WalkTypes, NEW w \in Walkers, pc[w] \in {"dispatch", "returned"},
           NEW o \in Outcome, Finish(w, o), UNCHANGED bound
    PROVE  Local(w) /\ Held(w)' = Held(w)
<1> DEFINE n == Len(stack[w])
<1>1. /\ Fits(stack[w], pc[w]) /\ pc[w] \in Label \ Inside /\ pc[w] # "done"
      /\ bound' \in [Walkers -> Int] /\ outcome' \in [Walkers -> Outcome]
  BY DEF WalkTypes, Label, Inside, Finish, Result, Outcome
<1>2. n \in Nat /\ n >= 1
  BY <1>1, Innermost
<1>2a. Held(w) = n - 1
  BY <1>1 DEF Held, Holds, Inside
<1>3. CASE n = 1
  <2>1. stack' = [stack EXCEPT ![w] = <<>>] /\ pc' = At(w, "done")
    BY <1>3 DEF Finish
  <2>2. /\ stack'[w] = <<>> /\ stack' = [stack EXCEPT ![w] = stack'[w]]
        /\ pc'[w] = "done" /\ pc' = [pc EXCEPT ![w] = pc'[w]]
    BY <2>1 DEF At, WalkTypes
  <2>3. Fits(<<>>, "done")
    BY DEF Fits, Label, AtMember, Inside
  <2>4. QED
    BY <1>1, <1>2, <1>2a, <1>3, <2>2, <2>3 DEF Local, Held, Holds, Inside
<1>4. CASE n # 1 /\ o \in Terminal
  <2> DEFINE t == Below(stack[w])
  <2>1. stack' = [stack EXCEPT ![w] = t] /\ pc' = At(w, "leave")
    BY <1>4 DEF Finish, Below
  <2>2. Fits(t, "leave") /\ Len(t) = n - 1
    <3>1. n >= 2
      <4> HIDE DEF n
      <4>1. QED  BY <1>2, <1>4
    <3>2. QED
      BY <1>1, <3>1, PopFrame
  <2>3. /\ stack'[w] = t /\ stack' = [stack EXCEPT ![w] = stack'[w]]
        /\ pc'[w] = "leave" /\ pc' = [pc EXCEPT ![w] = pc'[w]]
    BY <2>1 DEF At, WalkTypes
  <2>4. QED
    BY <1>1, <1>2, <1>2a, <2>2, <2>3 DEF Local, Held, Holds, Inside
<1>5. CASE n # 1 /\ o \notin Terminal
  <2> DEFINE t == Resumed(stack[w])
  <2>1. stack' = [stack EXCEPT ![w] = t] /\ pc' = At(w, "entry")
    BY <1>5 DEF Finish, Resumed
  <2>2. Fits(t, "entry") /\ Len(t) = n - 1
    <3>1. n >= 2
      <4> HIDE DEF n
      <4>1. QED  BY <1>2, <1>5
    <3>2. QED
      BY <1>1, <3>1, PopAndContinue
  <2> HIDE DEF t
  <2>3. /\ stack'[w] = t /\ stack' = [stack EXCEPT ![w] = stack'[w]]
        /\ pc'[w] = "entry" /\ pc' = [pc EXCEPT ![w] = pc'[w]]
    BY <2>1 DEF At, WalkTypes
  <2>4. QED
    BY <1>1, <1>2, <1>2a, <2>2, <2>3 DEF Local, Held, Holds, Inside
<1>6. QED
  BY <1>3, <1>4, <1>5

-----------------------------------------------------------------------------
\* The ledger stays a ledger within its limits, and its depth follows the
\* number of containers that w holds.
Balanced(w) ==
    /\ ledger' \in Ledger
    /\ WithinLimits(ledger')
    /\ \/ /\ Held(w)' = Held(w)
          /\ ledger'.containerDepth = ledger.containerDepth
       \/ /\ Held(w)' = Held(w) + 1
          /\ ledger'.containerDepth = ledger.containerDepth + 1
       \/ /\ Held(w)' = Held(w) - 1
          /\ ledger'.containerDepth = ledger.containerDepth - 1

\* What every action of a walker does.
StepEffect(w) ==
    /\ Local(w)
    /\ Balanced(w)
    /\ cancelled' = cancelled
    /\ root' = root

LEMMA QuietStep ==
    ASSUME WalkInv, NEW w \in Walkers,
           Local(w), Held(w)' = Held(w), UNCHANGED <<ledger, cancelled, root>>
    PROVE  StepEffect(w)
  BY DEF StepEffect, Balanced, WalkInv

LEMMA DispatchEffect ==
    ASSUME WalkInv, NEW w \in Walkers, Dispatch(w)
    PROVE  StepEffect(w)
<1> USE DEF WalkInv
<1>1. pc[w] = "dispatch" /\ UNCHANGED <<ledger, cancelled, root>>
  BY DEF Dispatch
<1>2. ASSUME NEW o \in Outcome, Finish(w, o), UNCHANGED bound
      PROVE  StepEffect(w)
  BY <1>1, <1>2, FinishIsLocal, QuietStep
<1>3. CASE Proceed(w, "enter")
  BY <1>1, <1>3, ProceedIsLocal, QuietStep DEF Label, Inside, AtMember
<1>4. ASSUME NEW o \in Outcome, outcome' = Result(w, o),
             pc' = At(w, "returned"), UNCHANGED <<stack, bound>>
      PROVE  StepEffect(w)
  <2>1. bound' \in [Walkers -> Int] /\ outcome' \in [Walkers -> Outcome]
    BY <1>4 DEF WalkTypes, Result
  <2>2. Local(w) /\ Held(w)' = Held(w)
    BY <1>1, <1>4, <2>1, MoveIsLocal DEF Label, Inside, AtMember
  <2>3. QED
    BY <1>1, <2>2, QuietStep
<1>5. {"cancelled", "failed", "unsupported", "integrity", "malformed"} \subseteq Outcome
  BY DEF Outcome, Terminal
<1>6. QED
  BY <1>2, <1>3, <1>4, <1>5 DEF Dispatch

LEMMA EnterEffect ==
    ASSUME WalkInv, NEW w \in Walkers, Enter(w)
    PROVE  StepEffect(w)
<1> DEFINE call == EnterContainer(ledger)
<1>1. /\ pc[w] = "enter" /\ ledger' = call.ledger /\ UNCHANGED <<cancelled, root, bound>>
      /\ WalkTypes /\ ledger \in Ledger /\ WithinLimits(ledger)
  BY DEF Enter, WalkInv
<1>2. /\ call.err \in Outcome \cup {"nil"}
      /\ call.ledger \in Ledger /\ WithinLimits(call.ledger)
      /\ call.err # "nil" => call.ledger = ledger
      /\ call.err = "nil" => call.ledger.containerDepth = ledger.containerDepth + 1
  BY <1>1, EnterCharges, EnterDeepens DEF Charges, Verdict, Outcome, Terminal
<1>3. bound' \in [Walkers -> Int]
  BY <1>1 DEF WalkTypes
<1>4. CASE call.err # "nil"
  <2>1. /\ outcome' = Result(w, call.err)
        /\ pc' = At(w, "returned") /\ stack' = stack
    BY <1>4 DEF Enter
  <2>2. outcome' \in [Walkers -> Outcome]
    BY <1>1, <1>2, <1>4, <2>1 DEF WalkTypes, Result
  <2>3. Local(w) /\ Held(w)' = Held(w)
    BY <1>1, <1>3, <2>1, <2>2, MoveIsLocal DEF Label, Inside, AtMember
  <2>4. QED
    BY <1>1, <1>2, <1>4, <2>3, QuietStep
<1>5. CASE call.err = "nil"
  <2> DEFINE f == [Here(w) EXCEPT !.open = TRUE]
  <2>1. stack' = Replace(w, f) /\ pc' = At(w, "entry") /\ outcome' \in [Walkers -> Outcome]
    BY <1>1, <1>5 DEF Enter, WalkTypes
  <2>2. pc[w] # "done" /\ Here(w) \in Frame /\ Here(w).next >= 1
    BY <1>1, Innermost
  <2>3. f \in Frame /\ f.next >= 1 /\ f.open
    BY <2>2 DEF Frame
  <2> HIDE DEF f
  <2>4. Local(w) /\ Len(stack'[w]) = Len(stack[w]) /\ pc'[w] = "entry"
    BY <1>1, <1>3, <2>1, <2>2, <2>3, ReplaceIsLocal DEF Label, Inside, AtMember
  <2>5. Held(w)' = Held(w) + 1
    <3>1. Held(w)' = Len(stack[w]) /\ Held(w) = Len(stack[w]) - 1
      BY <1>1, <2>4 DEF Held, Holds, Inside
    <3>2. Len(stack[w]) \in Nat
      BY <1>1, <2>2, Innermost
    <3>3. QED
      BY <3>1, <3>2
  <2>6. QED
    BY <1>1, <1>2, <1>5, <2>4, <2>5 DEF StepEffect, Balanced
<1>6. QED
  BY <1>4, <1>5

LEMMA EntryEffect ==
    ASSUME WalkInv, NEW w \in Walkers, Entry(w)
    PROVE  StepEffect(w)
<1>1. /\ pc[w] = "entry" /\ UNCHANGED <<ledger, cancelled, root>> /\ WalkTypes
  BY DEF Entry, WalkInv
<1>2. pc[w] # "done" /\ pc[w] \in Inside
  BY <1>1 DEF Inside
<1>3. /\ Here(w) \in Frame /\ Here(w).archive \in Archives /\ Here(w).open
      /\ Here(w).next \in Nat /\ Here(w).next >= 1
  BY <1>1, <1>2, Innermost
<1>4. ASSUME NEW o \in Outcome, Conclude(w, o)
      PROVE  StepEffect(w)
  BY <1>1, <1>2, <1>4, ConcludeIsLocal, QuietStep
<1>5. {"ok", "cancelled", "integrity", "malformed", Catalog[Here(w).archive].body}
         \subseteq Outcome
  BY <1>3, Cataloged DEF Outcome, Terminal
<1>6. CASE /\ Here(w).next <= Len(Listing(w))
           /\ stack' = Replace(w, [Here(w) EXCEPT !.seen = @ \cup {This(w).name}])
           /\ pc' = At(w, "snapshot")
           /\ UNCHANGED <<bound, outcome>>
  <2> DEFINE seen == Here(w).seen \cup {This(w).name}
             f == [Here(w) EXCEPT !.seen = seen]
  <2>1. This(w).name \in Names \cup {UnsafeName}
    BY <1>3, <1>6, Cataloged DEF Listing, This
  <2>2. seen \in SUBSET (Names \cup {UnsafeName})
    BY <1>3, <2>1 DEF Frame
  <2> HIDE DEF seen
  <2>3. f \in Frame /\ f.open /\ f.next = Here(w).next /\ f.archive = Here(w).archive
    BY <1>3, <2>2 DEF Frame
  <2>4. stack' = Replace(w, f)
    BY <1>6 DEF seen
  <2> HIDE DEF f
  <2>5. bound' \in [Walkers -> Int] /\ outcome' \in [Walkers -> Outcome]
    BY <1>1, <1>6 DEF WalkTypes
  <2>6. f.next >= 1 /\ f.next <= Len(Catalog[f.archive].members)
    BY <1>3, <1>6, <2>3 DEF Listing
  <2>7. Local(w) /\ Len(stack'[w]) = Len(stack[w]) /\ pc'[w] = "snapshot"
    BY <1>1, <1>2, <1>6, <2>3, <2>4, <2>5, <2>6, ReplaceIsLocal DEF Label, Inside
  <2>8. Held(w)' = Held(w)
    BY <1>1, <2>7 DEF Held, Holds, Inside
  <2>9. QED
    BY <1>1, <2>7, <2>8, QuietStep
<1>7. Here(w).next > Len(Listing(w)) \/ Here(w).next <= Len(Listing(w))
  BY <1>1, <1>2, Innermost
<1>8. QED
  BY <1>4, <1>5, <1>6, <1>7 DEF Entry

LEMMA SnapshotEffect ==
    ASSUME WalkInv, NEW w \in Walkers, Snapshot(w)
    PROVE  StepEffect(w)
<1>1. /\ pc[w] = "snapshot" /\ UNCHANGED <<ledger, cancelled, root>> /\ WalkTypes
      /\ Conclude(w, "limit") \/ Proceed(w, "remaining")
  BY DEF Snapshot, WalkInv
<1>2. "limit" \in Outcome
  BY DEF Outcome, Terminal
<1>3. Local(w) /\ Held(w)' = Held(w)
  BY <1>1, <1>2, ConcludeIsLocal, ProceedIsLocal DEF Label, Inside, AtMember
<1>4. QED
  BY <1>1, <1>3, QuietStep

LEMMA RemainingEffect ==
    ASSUME WalkInv, NEW w \in Walkers, Remaining(w)
    PROVE  StepEffect(w)
<1>1. /\ pc[w] = "remaining" /\ UNCHANGED <<ledger, cancelled, root>> /\ WalkTypes
      /\ Conclude(w, "limit") \/ Proceed(w, "admit") \/ Proceed(w, "bound")
  BY DEF Remaining, WalkInv
<1>2. "limit" \in Outcome
  BY DEF Outcome, Terminal
<1>3. Local(w) /\ Held(w)' = Held(w)
  BY <1>1, <1>2, ConcludeIsLocal, ProceedIsLocal DEF Label, Inside, AtMember
<1>4. QED
  BY <1>1, <1>3, QuietStep

LEMMA BoundEffect ==
    ASSUME WalkInv, NEW w \in Walkers, Bound(w)
    PROVE  StepEffect(w)
<1> DEFINE room == Lesser(MaxContainerEntryBytes, RemainingExpandedBytes(ledger))
           b == IF Converter(w) = "package"
                THEN Lesser(room, expansionReadLimit(This(w).compressed))
                ELSE room
<1>1. /\ pc[w] = "bound" /\ UNCHANGED <<ledger, cancelled, root, stack, outcome>>
      /\ WalkTypes /\ ledger \in Ledger
      /\ bound' = [bound EXCEPT ![w] = b] /\ pc' = At(w, "read")
  BY DEF Bound, WalkInv
<1>2. This(w).compressed \in Nat
  BY <1>1, Innermost DEF AtMember
<1>3. room \in Int
  BY <1>1, LimitTypes DEF Lesser, RemainingExpandedBytes, Ledger
<1>4. expansionReadLimit(This(w).compressed) \in Int
  <2>1. ASSUME NEW n \in Nat PROVE expansionReadLimit(n) \in Int
    <3>1. n * RatioNum \in Int
      BY ValidLimits
    <3>2. QED
      BY <3>1, ValidLimits DEF expansionReadLimit
  <2>2. QED
    BY <1>2, <2>1
<1> HIDE DEF room
<1>5. b \in Int
  BY <1>3, <1>4 DEF Lesser
<1> HIDE DEF b
<1>6. bound' \in [Walkers -> Int] /\ outcome' \in [Walkers -> Outcome]
  BY <1>1, <1>5 DEF WalkTypes
<1>7. Local(w) /\ Held(w)' = Held(w)
  BY <1>1, <1>6, MoveIsLocal DEF Label, Inside, AtMember
<1>8. QED
  BY <1>1, <1>7, QuietStep

LEMMA ReadEffect ==
    ASSUME WalkInv, NEW w \in Walkers, Read(w)
    PROVE  StepEffect(w)
<1>1. /\ pc[w] = "read" /\ UNCHANGED <<ledger, cancelled, root>> /\ WalkTypes
      /\ \/ Conclude(w, "cancelled") \/ Conclude(w, "limit") \/ Conclude(w, "integrity")
         \/ Proceed(w, "admit")
  BY DEF Read, WalkInv
<1>2. {"cancelled", "limit", "integrity"} \subseteq Outcome
  BY DEF Outcome, Terminal
<1>3. Local(w) /\ Held(w)' = Held(w)
  BY <1>1, <1>2, ConcludeIsLocal, ProceedIsLocal DEF Label, Inside, AtMember
<1>4. QED
  BY <1>1, <1>3, QuietStep

LEMMA AdmitEffect ==
    ASSUME WalkInv, NEW w \in Walkers, Admit(w)
    PROVE  StepEffect(w)
<1> DEFINE size == IF Skipped(w) THEN 0 ELSE This(w).actual
           call == AdmitContainerEntry(ledger, This(w).declared, This(w).compressed, size)
<1>1. /\ pc[w] = "admit" /\ UNCHANGED <<cancelled, root>> /\ WalkTypes
      /\ ledger' = call.ledger /\ ledger \in Ledger /\ WithinLimits(ledger)
      /\ pc[w] # "done" /\ pc[w] \in AtMember /\ pc[w] \in Inside
  BY DEF Admit, WalkInv, AtMember, Inside
<1>2. This(w).declared \in Nat /\ This(w).compressed \in Nat /\ This(w).actual \in Nat
  BY <1>1, Innermost
<1>3. size \in Nat
  BY <1>2
<1> HIDE DEF size
<1>4. /\ call.err \in Outcome \cup {"nil"}
      /\ call.ledger \in Ledger /\ WithinLimits(call.ledger)
      /\ call.ledger.containerDepth = ledger.containerDepth
  <2>1. Charges(ledger, call)
    BY <1>1, <1>2, <1>3, EntryCharges
  <2>2. QED
    BY <1>1, <2>1, EntryKeepsDepth DEF Charges, Verdict, Outcome, Terminal
<1>5. /\ call.err # "nil" => Conclude(w, call.err)
      /\ call.err = "nil" => Proceed(w, "ingest") \/ Continue(w)
  BY DEF Admit, size
<1> HIDE DEF call
<1>6. Local(w) /\ Held(w)' = Held(w)
  BY <1>1, <1>4, <1>5, ConcludeIsLocal, ProceedIsLocal, ContinueIsLocal
     DEF Label, Inside, AtMember
<1>7. QED
  BY <1>1, <1>4, <1>6 DEF StepEffect, Balanced

LEMMA IngestEffect ==
    ASSUME WalkInv, NEW w \in Walkers, Ingest(w)
    PROVE  StepEffect(w)
<1>1. /\ pc[w] = "ingest" /\ UNCHANGED <<ledger, cancelled, root>> /\ WalkTypes
      /\ pc[w] # "done" /\ pc[w] \in AtMember /\ pc[w] \in Inside
  BY DEF Ingest, WalkInv, AtMember, Inside
<1>2. {"cancelled", "limit", "malformed"} \subseteq Outcome
  BY DEF Outcome, Terminal
<1>3. CASE \/ Conclude(w, "cancelled") \/ Conclude(w, "limit") \/ Conclude(w, "malformed")
           \/ Continue(w)
  <2>1. Local(w) /\ Held(w)' = Held(w)
    BY <1>1, <1>2, <1>3, ConcludeIsLocal, ContinueIsLocal
  <2>2. QED
    BY <1>1, <2>1, QuietStep
<1>4. CASE /\ This(w).content \in Archives
           /\ stack' = [stack EXCEPT ![w] = Append(@, NewFrame(This(w).content))]
           /\ pc' = At(w, "dispatch")
           /\ UNCHANGED <<bound, outcome>>
  <2> DEFINE t == Append(stack[w], NewFrame(This(w).content))
  <2>1. /\ stack'[w] = t /\ stack' = [stack EXCEPT ![w] = stack'[w]]
        /\ pc'[w] = "dispatch" /\ pc' = [pc EXCEPT ![w] = pc'[w]]
    BY <1>1, <1>4 DEF At, WalkTypes
  <2>2. Fits(stack[w], pc[w])
    BY <1>1 DEF WalkTypes
  <2>3. Fits(t, "dispatch") /\ Len(t) = Len(stack[w]) + 1
    BY <1>1, <1>4, <2>2, PushFrame
  <2> HIDE DEF t
  <2>4. Local(w)
    BY <1>1, <1>4, <2>1, <2>3 DEF Local, WalkTypes
  <2>5. Held(w)' = Held(w)
    <3>1. Held(w)' = Len(t) - 1 /\ Held(w) = Len(stack[w])
      BY <1>1, <2>1 DEF Held, Holds, Inside
    <3>2. Len(stack[w]) \in Nat
      BY <1>1, Innermost
    <3>3. QED
      BY <2>3, <3>1, <3>2
  <2>6. QED
    BY <1>1, <2>4, <2>5, QuietStep
<1>5. QED
  BY <1>3, <1>4 DEF Ingest

LEMMA ReturnedEffect ==
    ASSUME WalkInv, NEW w \in Walkers, Returned(w)
    PROVE  StepEffect(w)
<1>1. /\ pc[w] = "returned" /\ UNCHANGED <<ledger, cancelled, root, bound>> /\ WalkTypes
      /\ pc[w] # "done" /\ outcome[w] \in Outcome /\ "cancelled" \in Outcome
  BY DEF Returned, WalkInv, WalkTypes, Outcome, Terminal
<1>2. ASSUME NEW o \in Outcome, Finish(w, o)
      PROVE  StepEffect(w)
  BY <1>1, <1>2, FinishIsLocal, QuietStep
<1>3. CASE /\ stack' = Replace(w, Attempt(Here(w).archive, Here(w).attempt + 1,
                                        Here(w).failed \/ outcome[w] = "failed"))
           /\ pc' = At(w, "dispatch")
           /\ outcome' = Result(w, "none")
  <2> DEFINE attempt == Here(w).attempt + 1
             failed == Here(w).failed \/ outcome[w] = "failed"
             f == Attempt(Here(w).archive, attempt, failed)
  <2>1. Here(w).archive \in Archives /\ Here(w).attempt \in Nat /\ Here(w) \in Frame
    BY <1>1, Innermost
  <2>2. attempt \in Nat /\ failed \in BOOLEAN
    BY <2>1 DEF Frame
  <2>4. stack' = Replace(w, f)
    BY <1>3
  <2> HIDE DEF attempt, failed
  <2>5. f \in Frame /\ f.next >= 1 /\ ~f.open
    BY <2>1, <2>2, RetryFrame
  <2> HIDE DEF f
  <2>6. bound' \in [Walkers -> Int] /\ outcome' \in [Walkers -> Outcome]
    BY <1>1, <1>3 DEF WalkTypes, Result, Outcome
  <2>7. Local(w) /\ Len(stack'[w]) = Len(stack[w]) /\ pc'[w] = "dispatch"
    BY <1>1, <1>3, <2>4, <2>5, <2>6, ReplaceIsLocal DEF Label, Inside, AtMember
  <2>8. Held(w)' = Held(w)
    BY <1>1, <2>7 DEF Held, Holds, Inside
  <2>9. QED
    BY <1>1, <2>7, <2>8, QuietStep
<1>4. QED
  BY <1>1, <1>2, <1>3 DEF Returned

-----------------------------------------------------------------------------
LEMMA HoldsIsNat ==
    ASSUME NEW s, NEW l, Fits(s, l)
    PROVE  Holds(s, l) \in Nat
<1> DEFINE n == Len(s)
<1>1. n \in Nat /\ (l = "done" <=> n = 0)
  BY DEF Fits
<1>2. Holds(s, l) = IF l \in Inside THEN n ELSE IF l = "done" THEN 0 ELSE n - 1
  BY DEF Holds
<1> HIDE DEF n
<1>3. QED
  BY <1>1, <1>2

\* The open containers of all walkers' stacks s.
OpenIn(s) == UNION {{<<w, i>> : i \in {j \in DOMAIN s[w] : s[w][j].open}} : w \in Walkers}

\* They are the outermost levels of every walker, as many as it holds.
LEMMA OpenIsHeld ==
    ASSUME NEW s, NEW p, \A v \in Walkers : Fits(s[v], p[v])
    PROVE  \A x : x \in OpenIn(s)
              <=> \E v \in Walkers : \E i \in 1..Holds(s[v], p[v]) : x = <<v, i>>
<1>1. ASSUME NEW v \in Walkers
      PROVE  \A i : i \in 1..Holds(s[v], p[v]) <=> (i \in DOMAIN s[v] /\ s[v][i].open)
  <2> DEFINE n == Len(s[v])
  <2>1. /\ Fits(s[v], p[v]) /\ n \in Nat /\ DOMAIN s[v] = 1..n
    BY DEF Fits
  <2>2. \A i \in 1..n : s[v][i].open <=> (i < n \/ p[v] \in Inside)
    BY <2>1 DEF Fits
  <2>3. p[v] = "done" <=> n = 0
    BY <2>1 DEF Fits
  <2> HIDE DEF n
  <2>4. Holds(s[v], p[v]) = IF p[v] \in Inside THEN n ELSE IF p[v] = "done" THEN 0 ELSE n - 1
    BY DEF Holds, n
  <2>5. CASE p[v] \in Inside
    BY <2>1, <2>2, <2>4, <2>5
  <2>6. CASE p[v] \notin Inside /\ n = 0
    BY <2>1, <2>2, <2>3, <2>4, <2>6
  <2>7. CASE p[v] \notin Inside /\ n # 0
    BY <2>1, <2>2, <2>3, <2>4, <2>7
  <2>8. QED
    BY <2>5, <2>6, <2>7
<1>2. \A x : x \in OpenIn(s)
              <=> \E v \in Walkers : \E i : /\ i \in DOMAIN s[v] /\ s[v][i].open
                                            /\ x = <<v, i>>
  BY DEF OpenIn
<1>3. QED
  BY <1>1, <1>2

\* A converter about to leave its container finds a positive depth.
LEMMA LeaveSucceeds ==
    ASSUME WalkInv, NEW w \in Walkers, pc[w] = "leave"
    PROVE  LeaveContainer(ledger).err = "nil" /\ ledger.containerDepth > 0
<1>1. WalkTypes /\ IsFiniteSet(OpenContainers) /\ ledger \in Ledger
      /\ ledger.containerDepth = Cardinality(OpenContainers) /\ WithinLimits(ledger)
  BY DEF WalkInv
<1>2. Held(w) \in Nat /\ Held(w) # 0
  <2>1. Held(w) = Len(stack[w])
    BY DEF Held, Holds, Inside
  <2>2. pc[w] # "done" /\ Fits(stack[w], pc[w])
    BY <1>1 DEF WalkTypes
  <2>3. QED
    BY <1>1, <2>1, <2>2, HoldsIsNat DEF Fits, Held
<1>3. 1 \in 1..Held(w)
  BY <1>2
<1>4. <<w, 1>> \in OpenContainers
  <2>1. \A v \in Walkers : Fits(stack[v], pc[v])
    BY <1>1 DEF WalkTypes
  <2>2. <<w, 1>> \in OpenIn(stack)
    BY <1>3, <2>1, OpenIsHeld DEF Held
  <2>3. QED
    BY <2>2 DEF OpenIn, OpenContainers
<1>5. Cardinality(OpenContainers) # 0 /\ Cardinality(OpenContainers) \in Nat
  BY <1>1, <1>4, FS_EmptySet, FS_CardinalityType
<1>6. ledger.containerDepth > 0
  <2> DEFINE c == Cardinality(OpenContainers)
  <2>1. c # 0 /\ c \in Nat /\ ledger.containerDepth = c
    BY <1>1, <1>5
  <2> HIDE DEF c
  <2>2. QED
    BY <2>1
<1>7. QED
  BY <1>1, <1>6, LeaveReleases

LEMMA LeaveEffect ==
    ASSUME WalkInv, NEW w \in Walkers, Leave(w)
    PROVE  StepEffect(w)
<1> DEFINE call == LeaveContainer(ledger)
           f == [Here(w) EXCEPT !.open = FALSE]
<1>1. /\ pc[w] = "leave" /\ ledger' = call.ledger /\ UNCHANGED <<cancelled, root, bound>>
      /\ stack' = Replace(w, f) /\ pc' = At(w, "returned")
      /\ WalkTypes /\ ledger \in Ledger /\ WithinLimits(ledger)
  BY DEF Leave, WalkInv
<1>2. call.err = "nil" /\ ledger.containerDepth > 0
  BY <1>1, LeaveSucceeds
<1>3. /\ call.ledger \in Ledger /\ WithinLimits(call.ledger)
      /\ call.ledger = [ledger EXCEPT !.containerDepth = ledger.containerDepth - 1]
  BY <1>1, <1>2, LeaveReleases
<1>4. outcome' = outcome
  BY <1>2 DEF Leave
<1>5. pc[w] # "done" /\ Here(w) \in Frame /\ Here(w).next >= 1
  BY <1>1, Innermost
<1>6. f \in Frame /\ f.next >= 1 /\ ~f.open
  BY <1>5 DEF Frame
<1> HIDE DEF f, call
<1>7. bound' \in [Walkers -> Int] /\ outcome' \in [Walkers -> Outcome]
  BY <1>1, <1>4 DEF WalkTypes
<1>8. Local(w) /\ Len(stack'[w]) = Len(stack[w]) /\ pc'[w] = "returned"
  BY <1>1, <1>5, <1>6, <1>7, ReplaceIsLocal DEF Label, Inside, AtMember
<1>9. Held(w)' = Held(w) - 1
  BY <1>1, <1>8 DEF Held, Holds, Inside
<1>10. ledger'.containerDepth = ledger.containerDepth - 1
  BY <1>1, <1>3 DEF Ledger
<1>11. QED
  BY <1>1, <1>3, <1>8, <1>9, <1>10 DEF StepEffect, Balanced

-----------------------------------------------------------------------------
LEMMA AnyStepEffect ==
    ASSUME WalkInv, NEW w \in Walkers, Step(w)
    PROVE  StepEffect(w)
<1>1. CASE Dispatch(w)   BY <1>1, DispatchEffect
<1>2. CASE Enter(w)      BY <1>2, EnterEffect
<1>3. CASE Entry(w)      BY <1>3, EntryEffect
<1>4. CASE Snapshot(w)   BY <1>4, SnapshotEffect
<1>5. CASE Remaining(w)  BY <1>5, RemainingEffect
<1>6. CASE Bound(w)      BY <1>6, BoundEffect
<1>7. CASE Read(w)       BY <1>7, ReadEffect
<1>8. CASE Admit(w)      BY <1>8, AdmitEffect
<1>9. CASE Ingest(w)     BY <1>9, IngestEffect
<1>10. CASE Leave(w)     BY <1>10, LeaveEffect
<1>11. CASE Returned(w)  BY <1>11, ReturnedEffect
<1>12. QED
  BY <1>1, <1>2, <1>3, <1>4, <1>5, <1>6, <1>7, <1>8, <1>9, <1>10, <1>11 DEF Step

LEMMA TypesFollow ==
    ASSUME WalkInv, NEW w \in Walkers, StepEffect(w)
    PROVE  WalkTypes' /\ \A v \in Walkers \ {w} : Held(v)' = Held(v)
<1>1. WalkTypes /\ Local(w) /\ cancelled' = cancelled /\ root' = root
  BY DEF WalkInv, StepEffect
<1>2. Fits(stack'[w], pc'[w]) /\ stack'[w] \in Seq(Frame) /\ pc'[w] \in Label
  BY <1>1 DEF Local, Fits
<1>3. stack' \in [Walkers -> Seq(Frame)] /\ pc' \in [Walkers -> Label]
  BY <1>1, <1>2 DEF Local, WalkTypes
<1>4. \A v \in Walkers \ {w} : stack'[v] = stack[v] /\ pc'[v] = pc[v]
  BY <1>1 DEF Local, WalkTypes
<1>5. \A v \in Walkers : Fits(stack'[v], pc'[v])
  BY <1>1, <1>2, <1>4 DEF WalkTypes
<1>6. QED
  BY <1>1, <1>3, <1>4, <1>5 DEF WalkTypes, Local, Held

LEMMA DepthFollows ==
    ASSUME WalkInv, NEW w \in Walkers, StepEffect(w)
    PROVE  /\ IsFiniteSet(OpenContainers')
           /\ ledger'.containerDepth = Cardinality(OpenContainers')
<1> DEFINE here == Held(w)
           there == Held(w)'
           before == OpenContainers
           after == OpenContainers'
<1>1. WalkTypes' /\ \A v \in Walkers \ {w} : Held(v)' = Held(v)
  BY TypesFollow
<1>2. /\ WalkTypes /\ IsFiniteSet(before) /\ ledger.containerDepth = Cardinality(before)
  BY DEF WalkInv
<1>3. \A x : x \in before <=> \E v \in Walkers : \E i \in 1..Held(v) : x = <<v, i>>
  <2>1. \A v \in Walkers : Fits(stack[v], pc[v])
    BY <1>2 DEF WalkTypes
  <2>2. before = OpenIn(stack)
    BY DEF OpenIn, OpenContainers
  <2>3. QED
    BY <2>1, <2>2, OpenIsHeld DEF Held
<1>4. \A x : x \in after <=> \E v \in Walkers : \E i \in 1..(Held(v)') : x = <<v, i>>
  <2>1. \A v \in Walkers : Fits(stack'[v], pc'[v])
    BY <1>1 DEF WalkTypes
  <2>2. after = OpenIn(stack')
    BY DEF OpenIn, OpenContainers
  <2>3. QED
    BY <2>1, <2>2, OpenIsHeld DEF Held
<1>5. here \in Nat /\ there \in Nat
  <2>1. Fits(stack[w], pc[w]) /\ Fits(stack'[w], pc'[w])
    BY <1>1, <1>2 DEF WalkTypes
  <2>2. QED
    BY <2>1, HoldsIsNat DEF Held
<1>6. \A v \in Walkers : v # w => Held(v)' = Held(v)
  BY <1>1
<1>7. Balanced(w)
  BY DEF StepEffect
<1> HIDE DEF before, after
<1>8. CASE there = here /\ ledger'.containerDepth = ledger.containerDepth
  <2>1. after = before
    BY <1>3, <1>4, <1>6, <1>8
  <2>2. QED
    BY <1>2, <1>8, <2>1 DEF after
<1>9. CASE there = here + 1 /\ ledger'.containerDepth = ledger.containerDepth + 1
  <2> DEFINE new == <<w, here + 1>>
  <2>1. \A i : i \in 1..there <=> i \in 1..here \/ i = here + 1
    <3> HIDE DEF here, there
    <3>1. QED
      BY <1>5, <1>9
  <2>2. after = before \cup {new} /\ new \notin before
    <3>1. here + 1 \notin 1..here
      BY <1>5
    <3>2. QED
      BY <1>3, <1>4, <1>6, <2>1, <3>1
  <2>3. IsFiniteSet(after) /\ Cardinality(after) = Cardinality(before) + 1
    BY <1>2, <2>2, FS_AddElement
  <2>4. QED
    BY <1>2, <1>9, <2>3 DEF after
<1>10. CASE there = here - 1 /\ ledger'.containerDepth = ledger.containerDepth - 1
  <2> DEFINE old == <<w, here>>
  <2>1. \A i : i \in 1..there <=> i \in 1..here /\ i # here
    <3> HIDE DEF here, there
    <3>1. QED
      BY <1>5, <1>10
  <2>2. after = before \ {old} /\ old \in before
    <3>1. here \in 1..here
      <4> HIDE DEF here, there
      <4>1. QED
        BY <1>5, <1>10
    <3>2. QED
      BY <1>3, <1>4, <1>6, <2>1, <3>1
  <2>3. IsFiniteSet(after) /\ Cardinality(after) = Cardinality(before) - 1
    BY <1>2, <2>2, FS_RemoveElement
  <2>4. QED
    BY <1>2, <1>10, <2>3 DEF after
<1>11. QED
  BY <1>7, <1>8, <1>9, <1>10 DEF Balanced

-----------------------------------------------------------------------------
LEMMA WalkInvInitially == Init => WalkInv
<1> SUFFICES ASSUME Init PROVE WalkInv
  OBVIOUS
<1>1. \A w \in Walkers : root[w] \in Archives
  BY CatalogAssumption DEF Init
<1>2. ASSUME NEW w \in Walkers
      PROVE  /\ Fits(stack[w], pc[w]) /\ stack[w] \in Seq(Frame)
             /\ \A i \in DOMAIN stack[w] : ~stack[w][i].open
  <2> DEFINE f == NewFrame(root[w])
  <2>1. f \in Frame /\ f.next = 1 /\ f.open = FALSE
    BY <1>1, FreshFrame
  <2>2. stack[w] = <<f>> /\ pc[w] = "dispatch"
    BY DEF Init
  <2> HIDE DEF f
  <2>3. QED
    BY <2>1, <2>2 DEF Fits, Label, AtMember, Inside
<1>3. OpenContainers = {}
  BY <1>2 DEF OpenContainers
<1>4. stack \in [Walkers -> Seq(Frame)]
  <2>1. stack = [w \in Walkers |-> stack[w]]
    BY DEF Init
  <2>2. QED
    BY <1>2, <2>1
<1>5. WalkTypes
  <2>1. cancelled \in BOOLEAN /\ root \in Requests
    BY DEF Init
  <2>2. pc \in [Walkers -> Label]
    BY DEF Init, Label
  <2>3. bound \in [Walkers -> Int]
    BY DEF Init
  <2>4. outcome \in [Walkers -> Outcome]
    BY DEF Init, Outcome
  <2>5. QED
    BY <1>2, <1>4, <2>1, <2>2, <2>3, <2>4 DEF WalkTypes
<1>6. QED
  BY <1>3, <1>5, ZeroLedgerFits, FS_EmptySet DEF WalkInv, Init, ZeroLedger

LEMMA WalkInvInductive ==
    ASSUME WalkInv, [Next]_vars
    PROVE  WalkInv'
<1>1. ASSUME NEW w \in Walkers, Step(w)
      PROVE  WalkInv'
  <2>1. StepEffect(w)
    BY <1>1, AnyStepEffect
  <2>2. QED
    BY <2>1, TypesFollow, DepthFollows DEF WalkInv, StepEffect, Balanced
<1>2. ASSUME UNCHANGED <<ledger, root, stack, pc, bound, outcome>>, cancelled' \in BOOLEAN
      PROVE  WalkInv'
  <2>1. WalkTypes'
    BY <1>2 DEF WalkInv, WalkTypes
  <2>2. OpenContainers' = OpenContainers
    BY <1>2 DEF OpenContainers
  <2>3. QED
    BY <1>2, <2>1, <2>2 DEF WalkInv
<1>3. CASE Cancel
  BY <1>2, <1>3 DEF Cancel
<1>4. CASE UNCHANGED vars
  BY <1>2, <1>4 DEF vars, WalkInv, WalkTypes
<1>5. QED
  BY <1>1, <1>3, <1>4 DEF Next, Finished

LEMMA WalkInvAlways == Spec => []WalkInv
  BY WalkInvInitially, WalkInvInductive, PTL DEF Spec

(* Type correctness, and that no interleaving of walkers, preflights, read *)
(* bounds, admissions and cancellations takes the shared ledger past a     *)
(* limit (budget.go:64-67, 147-173).                                       *)
THEOREM WalkSafe == Spec => [](TypeOK /\ LimitsHold)
<1>1. WalkInv => TypeOK /\ LimitsHold
  BY DEF WalkInv, WalkTypes, TypeOK, LimitsHold
<1>2. QED
  BY <1>1, WalkInvAlways, PTL

(* On every path, container depth is exactly the number of containers that *)
(* are open, so a deferred LeaveContainer always succeeds                  *)
(* (zip.go:120-126, package.go:47-52).                                     *)
THEOREM DepthIsExact == Spec => []DepthCountsOpenContainers
<1>1. WalkInv => DepthCountsOpenContainers
  <2> SUFFICES ASSUME WalkInv PROVE DepthCountsOpenContainers
    OBVIOUS
  <2>1. \A w \in Walkers : pc[w] = "leave" => LeaveContainer(ledger).err = "nil"
    BY LeaveSucceeds
  <2>2. QED
    BY <2>1 DEF WalkInv, DepthCountsOpenContainers
<1>2. QED
  BY <1>1, WalkInvAlways, PTL

-----------------------------------------------------------------------------
\* A step leaves the ledger alone, charges it, or leaves a container.
LEMMA LedgerMoves ==
    ASSUME WalkInv, [Next]_vars
    PROVE  \/ ledger' = ledger
           \/ \E call : Charges(ledger, call) /\ ledger' = call.ledger
           \/ ledger' = LeaveContainer(ledger).ledger
<1>1. ASSUME NEW w \in Walkers, Enter(w)
      PROVE  \E call : Charges(ledger, call) /\ ledger' = call.ledger
  BY <1>1, EnterCharges DEF Enter, WalkInv
<1>2. ASSUME NEW w \in Walkers, Admit(w)
      PROVE  \E call : Charges(ledger, call) /\ ledger' = call.ledger
  <2> DEFINE size == IF Skipped(w) THEN 0 ELSE This(w).actual
  <2>1. /\ This(w).declared \in Nat /\ This(w).compressed \in Nat
        /\ This(w).actual \in Nat
    BY <1>2, Innermost DEF Admit, AtMember, WalkInv
  <2>2. size \in Int
    BY <2>1
  <2>3. ledger' = AdmitContainerEntry(ledger, This(w).declared, This(w).compressed,
                                      size).ledger
    BY <1>2 DEF Admit
  <2> HIDE DEF size
  <2>4. QED
    BY <2>1, <2>2, <2>3, EntryCharges DEF WalkInv
<1>3. ASSUME NEW w \in Walkers, Leave(w)
      PROVE  ledger' = LeaveContainer(ledger).ledger
  BY <1>3 DEF Leave
<1>4. ASSUME NEW w \in Walkers, Step(w), ~Enter(w), ~Admit(w), ~Leave(w)
      PROVE  ledger' = ledger
  BY <1>4 DEF Step, Dispatch, Entry, Snapshot, Remaining, Bound, Read, Ingest, Returned
<1>5. QED
  BY <1>1, <1>2, <1>3, <1>4 DEF Next, Cancel, Finished, vars

(* Container conversion implements the capped meter: only container depth  *)
(* is ever given back.                                                     *)
THEOREM WalkImplementsMeter == Spec => ImplementsMeter
<1>1. Init => Meter!Init
  BY DEF Init, Meter!Init, Reading, ZeroLedger, Gauges
<1>2. WalkInv /\ [Next]_vars => [Meter!Next]_(Reading(ledger))
  <2> SUFFICES ASSUME WalkInv, [Next]_vars
               PROVE  [Meter!Next]_(Reading(ledger))
    OBVIOUS
  <2>1. ledger \in Ledger /\ WithinLimits(ledger)
    BY DEF WalkInv
  <2>2. CASE ledger' = ledger
    BY <2>2
  <2>3. ASSUME NEW call, Charges(ledger, call), ledger' = call.ledger
        PROVE  Meter!Charge
    BY <2>1, <2>3, ReadingOfCharge DEF Meter!Charge
  <2>4. CASE ledger' = LeaveContainer(ledger).ledger
    BY <2>1, <2>4, ReadingOfLeave DEF Meter!Next, Meter!Release
  <2>5. QED
    BY <2>2, <2>3, <2>4, LedgerMoves DEF Meter!Next
<1>3. QED
  BY <1>1, <1>2, WalkInvAlways, PTL DEF Spec, ImplementsMeter, Meter!Spec

-----------------------------------------------------------------------------
(* The invariant behind TerminalFailureSticks: a terminal class is only    *)
(* ever held by a walker on its way out of a converter or of the request.  *)
OnTheWayOut == {"leave", "returned", "done"}

TerminalPlace == \A w \in Walkers : outcome[w] \in Terminal => pc[w] \in OnTheWayOut

\* What a step of w does to outcomes.
Reports(w) ==
    /\ outcome' = [outcome EXCEPT ![w] = outcome'[w]]
    /\ pc' = [pc EXCEPT ![w] = pc'[w]]
    /\ outcome'[w] \in Terminal => pc'[w] \in OnTheWayOut
    /\ outcome[w] \in Terminal => outcome'[w] \in {outcome[w], "cancelled"}

LEMMA ConcludeReports ==
    ASSUME WalkTypes, TerminalPlace, NEW w \in Walkers, pc[w] \notin OnTheWayOut,
           NEW o, Conclude(w, o)
    PROVE  Reports(w)
  BY DEF Conclude, Result, At, Reports, WalkTypes, TerminalPlace, OnTheWayOut

LEMMA FinishReports ==
    ASSUME WalkTypes, TerminalPlace, NEW w \in Walkers,
           NEW o \in Outcome, Finish(w, o),
           outcome[w] \in Terminal => o \in {outcome[w], "cancelled"}
    PROVE  Reports(w)
<1>1. CASE Len(stack[w]) = 1
  BY <1>1 DEF Finish, Result, At, Reports, WalkTypes, OnTheWayOut
<1>2. CASE Len(stack[w]) # 1 /\ o \in Terminal
  BY <1>2 DEF Finish, Result, At, Reports, WalkTypes, OnTheWayOut
<1>3. CASE Len(stack[w]) # 1 /\ o \notin Terminal
  <2>1. outcome[w] \notin Terminal
    BY <1>3 DEF Terminal
  <2>2. outcome' = Result(w, "none") /\ pc' = At(w, "entry")
    BY <1>3 DEF Finish
  <2>3. QED
    BY <2>1, <2>2 DEF Result, At, Reports, WalkTypes, Terminal
<1>4. QED
  BY <1>1, <1>2, <1>3

\* A step that leaves the outcome alone, away from any way out.
LEMMA SilentReports ==
    ASSUME WalkTypes, TerminalPlace, NEW w \in Walkers, pc[w] \notin OnTheWayOut,
           outcome' = outcome, NEW m, pc' = At(w, m)
    PROVE  Reports(w)
  BY DEF At, Reports, WalkTypes, TerminalPlace

LEMMA StepReports ==
    ASSUME WalkInv, TerminalPlace, NEW w \in Walkers, Step(w)
    PROVE  Reports(w)
<1> USE DEF WalkInv
<1>1. CASE Dispatch(w)
  <2>1. pc[w] = "dispatch" /\ outcome[w] \notin Terminal
    BY <1>1 DEF Dispatch, TerminalPlace, OnTheWayOut
  <2>2. ASSUME NEW o \in Outcome, Finish(w, o) PROVE Reports(w)
    BY <2>1, <2>2, FinishReports
  <2>3. CASE Proceed(w, "enter")
    BY <2>1, <2>3, SilentReports DEF Proceed, OnTheWayOut
  <2>4. ASSUME NEW o, outcome' = Result(w, o), pc' = At(w, "returned") PROVE Reports(w)
    BY <2>1, <2>4 DEF Result, At, Reports, WalkTypes, OnTheWayOut
  <2>5. {"cancelled", "failed", "unsupported"} \subseteq Outcome
    BY DEF Outcome, Terminal
  <2>6. QED
    BY <1>1, <2>2, <2>3, <2>4, <2>5 DEF Dispatch
<1>2. CASE Enter(w)
  <2>1. pc[w] = "enter" /\ outcome[w] \notin Terminal
    BY <1>2 DEF Enter, TerminalPlace, OnTheWayOut
  <2>2. ASSUME NEW o, outcome' = Result(w, o), pc' = At(w, "returned") PROVE Reports(w)
    BY <2>1, <2>2 DEF Result, At, Reports, WalkTypes, OnTheWayOut
  <2>3. CASE outcome' = outcome /\ pc' = At(w, "entry")
    BY <2>1, <2>3, SilentReports DEF OnTheWayOut
  <2>4. QED
    BY <1>2, <2>2, <2>3 DEF Enter
<1>3. CASE Entry(w) \/ Snapshot(w) \/ Remaining(w) \/ Read(w)
  <2>1. pc[w] \notin OnTheWayOut
    BY <1>3 DEF Entry, Snapshot, Remaining, Read, OnTheWayOut
  <2>2. ASSUME NEW o, Conclude(w, o) PROVE Reports(w)
    BY <2>1, <2>2, ConcludeReports
  <2>3. ASSUME NEW m, outcome' = outcome, pc' = At(w, m) PROVE Reports(w)
    BY <2>1, <2>3, SilentReports
  <2>4. QED
    BY <1>3, <2>2, <2>3 DEF Entry, Snapshot, Remaining, Read, Proceed
<1>4. CASE Bound(w)
  BY <1>4, SilentReports DEF Bound, OnTheWayOut
<1>5. CASE Admit(w) \/ Ingest(w)
  <2>1. pc[w] \notin OnTheWayOut
    BY <1>5 DEF Admit, Ingest, OnTheWayOut
  <2>2. ASSUME NEW o, Conclude(w, o) PROVE Reports(w)
    BY <2>1, <2>2, ConcludeReports
  <2>3. ASSUME NEW m, outcome' = outcome, pc' = At(w, m) PROVE Reports(w)
    BY <2>1, <2>3, SilentReports
  <2>4. QED
    BY <1>5, <2>2, <2>3 DEF Admit, Ingest, Proceed, Continue
<1>6. CASE Leave(w)
  <2>1. pc[w] = "leave" /\ outcome' = outcome /\ pc' = At(w, "returned")
    BY <1>6, LeaveSucceeds DEF Leave
  <2>2. QED
    BY <2>1 DEF At, Reports, WalkTypes, OnTheWayOut
<1>7. CASE Returned(w)
  <2>1. outcome[w] \in Outcome /\ "cancelled" \in Outcome
    BY DEF WalkTypes, Outcome, Terminal
  <2>2. ASSUME NEW o \in {outcome[w], "cancelled"}, Finish(w, o) PROVE Reports(w)
    BY <2>1, <2>2, FinishReports
  <2>3. CASE /\ outcome[w] \in {"unsupported", "failed"}
             /\ outcome' = Result(w, "none") /\ pc' = At(w, "dispatch")
    BY <2>3 DEF Result, At, Reports, WalkTypes, Terminal
  <2>4. QED
    BY <1>7, <2>2, <2>3 DEF Returned
<1>8. QED
  BY <1>1, <1>2, <1>3, <1>4, <1>5, <1>6, <1>7 DEF Step

(* A limit, integrity, malformed-input or cancellation failure travels up  *)
(* through every enclosing archive and out of the request; nothing turns   *)
(* it into a fallback, a warning or a success                              *)
(* (zip.go:202-204, ingestion.go:202-216).                                 *)
THEOREM TerminalFailuresStick == Spec => TerminalFailureSticks
<1>1. Init => TerminalPlace
  BY DEF Init, TerminalPlace, Terminal
<1>2. WalkInv /\ TerminalPlace /\ [Next]_vars
         => /\ TerminalPlace'
            /\ [\A w \in Walkers :
                   outcome[w] \in Terminal => outcome'[w] \in {outcome[w], "cancelled"}]_vars
  <2> SUFFICES ASSUME WalkInv, TerminalPlace, [Next]_vars
               PROVE  /\ TerminalPlace'
                      /\ \A w \in Walkers : outcome[w] \in Terminal
                                               => outcome'[w] \in {outcome[w], "cancelled"}
    OBVIOUS
  <2>1. ASSUME NEW w \in Walkers, Step(w)
        PROVE  /\ TerminalPlace'
               /\ \A v \in Walkers : outcome[v] \in Terminal
                                        => outcome'[v] \in {outcome[v], "cancelled"}
    <3>1. Reports(w)
      BY <2>1, StepReports
    <3>2. \A v \in Walkers \ {w} : outcome'[v] = outcome[v] /\ pc'[v] = pc[v]
      BY <3>1 DEF Reports, WalkInv, WalkTypes
    <3>3. QED
      BY <3>1, <3>2 DEF Reports, TerminalPlace
  <2>2. CASE UNCHANGED <<pc, outcome>>
    BY <2>2 DEF TerminalPlace
  <2>3. QED
    BY <2>1, <2>2 DEF Next, Cancel, Finished, vars
<1>3. QED
  BY <1>1, <1>2, WalkInvAlways, PTL DEF Spec, TerminalFailureSticks

\* Only Finish takes a walker to its end, and it reports no success then.
LEMMA CancelledEnd ==
    ASSUME WalkInv, NEW w \in Walkers, Step(w), cancelled, pc'[w] = "done"
    PROVE  outcome'[w] # "ok"
<1> USE DEF WalkInv
<1>1. ASSUME NEW o \in {"cancelled", "failed", "unsupported"}, Finish(w, o)
      PROVE  outcome'[w] # "ok"
  BY <1>1 DEF Finish, Result, WalkTypes
<1>2. ASSUME NEW m, pc' = At(w, m)
      PROVE  m = "done"
  BY <1>2 DEF At, WalkTypes
<1>3. ASSUME NEW o, Conclude(w, o)
      PROVE  FALSE
  BY <1>2, <1>3 DEF Conclude
<1>4. ASSUME NEW m, Proceed(w, m)
      PROVE  m = "done"
  BY <1>2, <1>4 DEF Proceed
<1>5. ASSUME Continue(w)
      PROVE  FALSE
  BY <1>2, <1>5 DEF Continue
<1>6. CASE Dispatch(w) \/ Returned(w)
  BY <1>1, <1>6 DEF Dispatch, Returned
<1>7. CASE Enter(w)
  BY <1>2, <1>7 DEF Enter
<1>8. CASE Entry(w)
  BY <1>2, <1>3, <1>8 DEF Entry
<1>9. CASE Snapshot(w) \/ Remaining(w) \/ Read(w)
  BY <1>3, <1>4, <1>9 DEF Snapshot, Remaining, Read
<1>10. CASE Bound(w) \/ Leave(w)
  BY <1>2, <1>10 DEF Bound, Leave
<1>11. CASE Admit(w)
  BY <1>3, <1>4, <1>5, <1>11 DEF Admit
<1>12. CASE Ingest(w)
  BY <1>2, <1>3, <1>5, <1>12 DEF Ingest
<1>13. QED
  BY <1>6, <1>7, <1>8, <1>9, <1>10, <1>11, <1>12 DEF Step

(* A request cancelled before it returned does not return a conversion:    *)
(* the checkpoint before the converter and the one after it both report    *)
(* the cancellation (ingestion.go:179-181, 195-197).                       *)
THEOREM CancelledNeverSucceeds == Spec => NoSuccessAfterCancel
<1>1. WalkInv /\ [Next]_vars
         => [\A w \in Walkers : cancelled /\ pc[w] # "done" /\ pc'[w] = "done"
                                  => outcome'[w] # "ok"]_vars
  <2> SUFFICES ASSUME WalkInv, [Next]_vars, NEW w \in Walkers,
                      cancelled, pc[w] # "done", pc'[w] = "done"
               PROVE  outcome'[w] # "ok"
    OBVIOUS
  <2>1. ASSUME NEW v \in Walkers, Step(v)
        PROVE  outcome'[w] # "ok"
    <3>1. CASE v = w
      BY <2>1, <3>1, CancelledEnd
    <3>2. CASE v # w
      <4>1. Local(v)
        BY <2>1, AnyStepEffect DEF StepEffect
      <4>2. pc'[w] = pc[w]
        BY <3>2, <4>1 DEF Local, WalkInv, WalkTypes
      <4>3. QED
        BY <4>2
    <3>3. QED
      BY <3>1, <3>2
  <2>2. CASE UNCHANGED pc
    BY <2>2
  <2>3. QED
    BY <2>1, <2>2 DEF Next, Cancel, Finished, vars
<1>2. QED
  BY <1>1, WalkInvAlways, PTL DEF Spec, NoSuccessAfterCancel

-----------------------------------------------------------------------------
(* The invariant behind LedgerIsSumOfCharges: no position is admitted      *)
(* twice, since a walker only moves forward.  A charged position p is in   *)
(* the past of a walker with stack s at label l if it comes first at the   *)
(* outermost level where they differ, if it is the member an inner         *)
(* dispatch belongs to, or if it lies at or inside a member that the       *)
(* walker has admitted and is about to leave.                              *)
Levels(p) == Len(p.path)
Agrees(p, s, n) == \A i \in 1..n : p.path[i] = s[i].next /\ p.attempt[i] = s[i].attempt
Earlier(p, s, i) ==
    \/ p.attempt[i] < s[i].attempt
    \/ p.attempt[i] = s[i].attempt /\ p.path[i] < s[i].next
Admitted(p, n, l) == l \in {"leave", "returned"} \/ (l = "ingest" /\ Levels(p) = n)
Past(p, s, n, l) ==
    \/ \E i \in 1..n : i <= Levels(p) /\ Agrees(p, s, i - 1) /\ Earlier(p, s, i)
    \/ Levels(p) < n /\ Agrees(p, s, Levels(p))
    \/ Levels(p) >= n /\ Agrees(p, s, n) /\ Admitted(p, n, l)

IsPosition(p) ==
    /\ Levels(p) \in Nat
    /\ \A i \in 1..Levels(p) : p.path[i] \in Nat /\ p.attempt[i] \in Nat
Counts(s, n) == \A i \in 1..n : s[i].next \in Nat /\ s[i].attempt \in Nat
SameBelow(s, t, n) == \A i \in 1..n : t[i].next = s[i].next /\ t[i].attempt = s[i].attempt
IsLater(f, g) == f.attempt < g.attempt \/ (f.attempt = g.attempt /\ f.next < g.next)

LEMMA AgreesBelow ==
    ASSUME NEW p, NEW s, NEW t, NEW n \in Nat, SameBelow(s, t, n)
    PROVE  \A j \in Nat : j <= n /\ Agrees(p, s, j) => Agrees(p, t, j)
BY DEF Agrees, SameBelow

LEMMA EarlierBelow ==
    ASSUME NEW p, NEW s, NEW t, NEW n \in Nat, SameBelow(s, t, n), NEW i \in 1..n, Earlier(p, s, i)
    PROVE  Earlier(p, t, i)
BY DEF Earlier, SameBelow

\* What is past stays so when the innermost frame stays or moves forward,
LEMMA PastKept ==
    ASSUME NEW p, IsPosition(p), NEW l, NEW m, NEW s, NEW t, NEW n \in Nat \ {0},
           Counts(s, n), Counts(t, n), SameBelow(s, t, n - 1),
           \/ SameBelow(s, t, n) /\ (Admitted(p, n, l) => Admitted(p, n, m))
           \/ IsLater(s[n], t[n]),
           Past(p, s, n, l)
    PROVE  Past(p, t, n, m)
<1>1. n - 1 \in Nat /\ Levels(p) \in Nat
  BY DEF IsPosition
<1>2. \A j \in Nat : j <= n - 1 /\ Agrees(p, s, j) => Agrees(p, t, j)
  BY <1>1, AgreesBelow
<1>3. ASSUME NEW i \in 1..n, i <= Levels(p), Agrees(p, s, i - 1), Earlier(p, s, i)
      PROVE  Past(p, t, n, m)
  <2>1. i - 1 \in Nat /\ i - 1 <= n - 1 /\ i \in 1..Levels(p)
    BY <1>1, <1>3
  <2>2. Agrees(p, t, i - 1)
    BY <1>2, <1>3, <2>1
  <2>3. CASE i \in 1..(n - 1)
    <3>1. Earlier(p, t, i)
      BY <1>1, <1>3, <2>3, EarlierBelow
    <3> QED BY <1>3, <2>2, <3>1 DEF Past
  <2>4. CASE i = n
    <3>1. /\ p.attempt[n] \in Nat /\ p.path[n] \in Nat
          /\ s[n].attempt \in Nat /\ s[n].next \in Nat /\ t[n].attempt \in Nat /\ t[n].next \in Nat
      BY <2>1, <2>4 DEF IsPosition, Counts
    <3>2. \/ t[n].next = s[n].next /\ t[n].attempt = s[n].attempt
          \/ IsLater(s[n], t[n])
      BY DEF SameBelow
    <3>3. Earlier(p, t, n)
      BY <1>3, <2>4, <3>1, <3>2 DEF Earlier, IsLater
    <3> QED BY <1>3, <2>2, <2>4, <3>3 DEF Past
  <2> QED BY <2>3, <2>4
<1>4. CASE Levels(p) < n /\ Agrees(p, s, Levels(p))
  <2>1. Agrees(p, t, Levels(p))
    BY <1>1, <1>2, <1>4
  <2> QED BY <1>4, <2>1 DEF Past
<1>5. CASE Levels(p) >= n /\ Agrees(p, s, n) /\ Admitted(p, n, l)
  <2>1. CASE SameBelow(s, t, n) /\ Admitted(p, n, m)
    <3>1. Agrees(p, t, n)
      BY <1>5, <2>1 DEF Agrees, SameBelow
    <3> QED BY <1>5, <2>1, <3>1 DEF Past
  <2>2. CASE IsLater(s[n], t[n])
    <3>1. n \in 1..n
      OBVIOUS
    <3>2. Agrees(p, s, n - 1)
      BY <1>5 DEF Agrees
    <3>3. Agrees(p, t, n - 1)
      BY <1>1, <1>2, <3>2
    <3>4. Earlier(p, t, n)
      BY <1>5, <2>2, <3>1 DEF Agrees, Earlier, IsLater
    <3> QED BY <1>5, <3>1, <3>3, <3>4 DEF Past
  <2> QED BY <1>5, <2>1, <2>2
<1> QED BY <1>3, <1>4, <1>5 DEF Past

\* ... when the member just admitted is dispatched,
LEMMA PastPushed ==
    ASSUME NEW p, IsPosition(p), NEW s, NEW t, NEW n \in Nat, SameBelow(s, t, n),
           Past(p, s, n, "ingest")
    PROVE  Past(p, t, n + 1, "dispatch")
<1>1. Levels(p) \in Nat
  BY DEF IsPosition
<1>2. \A j \in Nat : j <= n /\ Agrees(p, s, j) => Agrees(p, t, j)
  BY AgreesBelow
<1>3. ASSUME NEW i \in 1..n, i <= Levels(p), Agrees(p, s, i - 1), Earlier(p, s, i)
      PROVE  Past(p, t, n + 1, "dispatch")
  <2>1. i \in 1..(n + 1) /\ i - 1 \in Nat /\ i - 1 <= n
    OBVIOUS
  <2>2. Earlier(p, t, i) /\ Agrees(p, t, i - 1)
    BY <1>2, <1>3, <2>1, EarlierBelow
  <2> QED BY <1>3, <2>1, <2>2 DEF Past
<1>4. CASE Levels(p) <= n /\ Agrees(p, s, Levels(p))
  <2>1. Levels(p) < n + 1 /\ Agrees(p, t, Levels(p))
    BY <1>1, <1>2, <1>4
  <2> QED BY <2>1 DEF Past
<1>5. CASE Levels(p) >= n /\ Agrees(p, s, n) /\ Admitted(p, n, "ingest")
  BY <1>1, <1>4, <1>5 DEF Admitted
<1> QED BY <1>1, <1>3, <1>4, <1>5 DEF Past

\* ... and when a dispatch is over.
LEMMA PastPopped ==
    ASSUME NEW p, IsPosition(p), NEW l, NEW s, NEW t, NEW n \in Nat, SameBelow(s, t, n),
           Past(p, s, n + 1, l)
    PROVE  Past(p, t, n, "leave")
<1>1. Levels(p) \in Nat
  BY DEF IsPosition
<1>2. \A j \in Nat : j <= n /\ Agrees(p, s, j) => Agrees(p, t, j)
  BY AgreesBelow
<1>3. ASSUME Levels(p) >= n, Agrees(p, s, n) PROVE Past(p, t, n, "leave")
  <2>1. Agrees(p, t, n)
    BY <1>2, <1>3
  <2> QED BY <1>3, <2>1 DEF Past, Admitted
<1>4. ASSUME NEW i \in 1..(n + 1), i <= Levels(p), Agrees(p, s, i - 1), Earlier(p, s, i)
      PROVE  Past(p, t, n, "leave")
  <2>1. CASE i = n + 1
    <3>1. Agrees(p, s, n) /\ Levels(p) >= n
      BY <1>1, <1>4, <2>1 DEF Agrees
    <3> QED BY <1>3, <3>1
  <2>2. CASE i \in 1..n
    <3>1. i - 1 \in Nat /\ i - 1 <= n
      BY <2>2
    <3>2. Earlier(p, t, i) /\ Agrees(p, t, i - 1)
      BY <1>2, <1>4, <2>2, <3>1, EarlierBelow
    <3> QED BY <1>4, <2>2, <3>2 DEF Past
  <2> QED BY <2>1, <2>2
<1>5. CASE Levels(p) < n + 1 /\ Agrees(p, s, Levels(p))
  <2>1. CASE Levels(p) = n
    BY <1>1, <1>3, <1>5, <2>1
  <2>2. CASE Levels(p) < n
    <3>1. Agrees(p, t, Levels(p))
      BY <1>1, <1>2, <1>5, <2>2
    <3> QED BY <2>2, <3>1 DEF Past
  <2> QED BY <1>1, <1>5, <2>1, <2>2
<1>6. CASE Levels(p) >= n + 1 /\ Agrees(p, s, n + 1)
  <2>1. Agrees(p, s, n) /\ Levels(p) >= n
    BY <1>1, <1>6 DEF Agrees
  <2> QED BY <1>3, <2>1
<1> QED BY <1>4, <1>5, <1>6 DEF Past

-----------------------------------------------------------------------------
\* No step of a walker takes a position out of its past.
Onward(w) ==
    \A p : IsPosition(p) /\ Past(p, stack[w], Len(stack[w]), pc[w])
              => pc'[w] = "done" \/ Past(p, stack'[w], Len(stack'[w]), pc'[w])

LEMMA StacksCount ==
    ASSUME WalkTypes, NEW w \in Walkers, pc[w] # "done"
    PROVE  /\ stack[w] \in Seq(Frame) /\ Len(stack[w]) \in Nat \ {0}
           /\ Counts(stack[w], Len(stack[w]))
<1>1. stack[w] \in Seq(Frame) /\ Len(stack[w]) \in Nat \ {0}
  BY Innermost DEF WalkTypes
<1>2. \A i \in 1..Len(stack[w]) : stack[w][i] \in Frame
  BY <1>1
<1> QED BY <1>1, <1>2 DEF Counts, Frame

LEMMA MoveIsOnward ==
    ASSUME WalkTypes, NEW w \in Walkers, pc[w] # "done", NEW m, stack' = stack, pc' = At(w, m),
           m \in {"leave", "returned"} \/ pc[w] \notin {"ingest", "leave", "returned"}
    PROVE  Onward(w)
<1>1. pc'[w] = m
  BY DEF At, WalkTypes
<1> QED BY <1>1 DEF Onward, Past, Admitted

LEMMA ReplaceIsOnward ==
    ASSUME WalkTypes, NEW w \in Walkers, pc[w] # "done", NEW f \in Frame, NEW m,
           stack' = Replace(w, f), pc' = At(w, m),
           \/ /\ f.next = Here(w).next /\ f.attempt = Here(w).attempt
              /\ m \in {"leave", "returned"} \/ pc[w] \notin {"ingest", "leave", "returned"}
           \/ IsLater(Here(w), f)
    PROVE  /\ Onward(w)
           /\ IsLater(Here(w), f) =>
                \A p : IsPosition(p) /\ Past(p, stack[w], Len(stack[w]), "leave")
                          => Past(p, stack'[w], Len(stack'[w]), pc'[w])
<1> DEFINE n == Len(stack[w])
<1>1. n \in Nat \ {0} /\ Counts(stack[w], n) /\ stack[w] \in Seq(Frame)
  BY StacksCount
<1>2. pc'[w] = m
  BY DEF At, WalkTypes
<1>3. /\ stack'[w] = [stack[w] EXCEPT ![n] = f]
      /\ Here(w) = stack[w][n]
  BY DEF Replace, WalkTypes, Here
<1>4. /\ Len(stack'[w]) = n
      /\ \A i \in 1..n : stack'[w][i] = IF i = n THEN f ELSE stack[w][i]
  BY <1>1, <1>3
<1> HIDE DEF n
<1>5. f.next \in Nat /\ f.attempt \in Nat
  BY DEF Frame
<1>6. Counts(stack'[w], n) /\ SameBelow(stack[w], stack'[w], n - 1)
  BY <1>1, <1>4, <1>5 DEF Counts, SameBelow
<1>7. \/ /\ SameBelow(stack[w], stack'[w], n)
         /\ m \in {"leave", "returned"} \/ pc[w] \notin {"ingest", "leave", "returned"}
      \/ IsLater(stack[w][n], stack'[w][n])
  BY <1>1, <1>3, <1>4 DEF SameBelow
<1>8. ASSUME NEW p, IsPosition(p), NEW l, Past(p, stack[w], n, l),
             l = pc[w] \/ IsLater(stack[w][n], stack'[w][n])
      PROVE  Past(p, stack'[w], n, m)
  <2>1. \/ SameBelow(stack[w], stack'[w], n) /\ (Admitted(p, n, l) => Admitted(p, n, m))
        \/ IsLater(stack[w][n], stack'[w][n])
    BY <1>7, <1>8 DEF Admitted
  <2> QED BY <1>1, <1>6, <1>8, <2>1, PastKept
<1>9. Onward(w)
  BY <1>2, <1>4, <1>8 DEF Onward, n
<1>10. ASSUME IsLater(Here(w), f) PROVE IsLater(stack[w][n], stack'[w][n])
  BY <1>1, <1>3, <1>4, <1>10
<1> QED BY <1>2, <1>4, <1>8, <1>9, <1>10 DEF n

LEMMA ConcludeIsOnward ==
    ASSUME WalkTypes, NEW w \in Walkers, pc[w] # "done", NEW o, Conclude(w, o)
    PROVE  Onward(w)
BY MoveIsOnward DEF Conclude

LEMMA ProceedIsOnward ==
    ASSUME WalkTypes, NEW w \in Walkers, pc[w] \notin {"ingest", "leave", "returned", "done"},
           NEW m, Proceed(w, m)
    PROVE  Onward(w)
BY MoveIsOnward DEF Proceed

LEMMA ContinueIsOnward ==
    ASSUME WalkTypes, NEW w \in Walkers, pc[w] # "done", Continue(w)
    PROVE  /\ Onward(w)
           /\ \A p : IsPosition(p) /\ Past(p, stack[w], Len(stack[w]), "leave")
                        => Past(p, stack'[w], Len(stack'[w]), pc'[w])
<1> DEFINE next == Here(w).next + 1
           f == [Here(w) EXCEPT !.next = next]
<1>1. Here(w) \in Frame /\ Here(w).next \in Nat /\ Here(w).attempt \in Nat
  BY Innermost
<1>2. next \in Nat /\ next > Here(w).next
  BY <1>1
<1>3. stack' = Replace(w, f) /\ pc' = At(w, "entry")
  BY DEF Continue
<1> HIDE DEF next
<1>4. f \in Frame /\ f.next = next /\ f.attempt = Here(w).attempt
  BY <1>1, <1>2 DEF Frame
<1> HIDE DEF f
<1>5. IsLater(Here(w), f)
  BY <1>1, <1>2, <1>4 DEF IsLater
<1> QED BY <1>3, <1>4, <1>5, ReplaceIsOnward

LEMMA FinishIsOnward ==
    ASSUME WalkTypes, NEW w \in Walkers, pc[w] # "done", NEW o, Finish(w, o)
    PROVE  Onward(w)
<1> DEFINE n == Len(stack[w])
           s == stack[w]
<1>1. n \in Nat \ {0} /\ Counts(s, n) /\ s \in Seq(Frame)
  BY StacksCount
<1>2. CASE n = 1
  BY <1>2 DEF Finish, At, WalkTypes, Onward
<1>3. CASE n # 1 /\ o \in Terminal
  <2>1. stack'[w] = Below(s) /\ pc'[w] = "leave"
    BY <1>3 DEF Finish, At, WalkTypes, Below
  <2>2. Len(Below(s)) = n - 1 /\ \A i \in 1..(n - 1) : Below(s)[i] = s[i]
    BY <1>1 DEF Below
  <2>3. n - 1 \in Nat /\ (n - 1) + 1 = n
    BY <1>1
  <2> HIDE DEF n, s
  <2>4. SameBelow(s, Below(s), n - 1)
    BY <2>2 DEF SameBelow
  <2>5. ASSUME NEW p, IsPosition(p), Past(p, s, n, pc[w])
        PROVE  Past(p, Below(s), n - 1, "leave")
    BY <2>3, <2>4, <2>5, PastPopped
  <2> QED BY <2>1, <2>2, <2>5 DEF Onward, n, s
<1>4. CASE n # 1 /\ o \notin Terminal
  <2> DEFINE outer == s[n - 1]
             next == outer.next + 1
             f == [outer EXCEPT !.next = next]
             below == SubSeq(s, 1, n - 2)
             t == Append(below, f)
  <2>1. stack'[w] = t /\ pc'[w] = "entry"
    BY <1>4 DEF Finish, At, WalkTypes
  <2>2. n - 2 \in Nat /\ n - 1 \in Nat \ {0} /\ n - 1 \in 1..n /\ (n - 1) + 1 = n /\ (n - 2) + 1 = n - 1
    <3> HIDE DEF n, s
    <3> QED BY <1>1, <1>4
  <2>3. Len(below) = n - 2 /\ \A i \in 1..(n - 2) : below[i] = s[i]
    <3>1. 1 \in Int /\ n - 2 \in Int /\ \A i \in 1..(n - 2) : s[i] \in Frame
      BY <1>1, <2>2
    <3> HIDE DEF n
    <3> QED BY <2>2, <3>1, SubSeqProperties
  <2>4. Len(t) = n - 1 /\ \A i \in 1..(n - 1) : t[i] = IF i = n - 1 THEN f ELSE s[i]
    <3>1. below \in Seq(Frame)
      BY <1>1, <2>2
    <3> HIDE DEF below, f, n
    <3> QED BY <2>2, <2>3, <3>1
  <2>5. outer \in Frame /\ outer.next \in Nat /\ outer.attempt \in Nat
    BY <1>1, <2>2 DEF Counts
  <2>6. next \in Nat /\ next > outer.next
    BY <2>5
  <2> HIDE DEF next
  <2>7. f.next = next /\ f.attempt = outer.attempt
    BY <2>5, <2>6 DEF Frame
  <2> HIDE DEF n, s, t, f
  <2>8. Counts(s, n - 1) /\ Counts(t, n - 1)
    BY <1>1, <2>2, <2>4, <2>5, <2>6, <2>7 DEF Counts
  <2>9. SameBelow(s, t, (n - 1) - 1) /\ SameBelow(s, s, n - 1)
    BY <2>2, <2>4 DEF SameBelow
  <2>10. IsLater(s[n - 1], t[n - 1])
    BY <2>2, <2>4, <2>5, <2>6, <2>7 DEF IsLater
  <2>11. ASSUME NEW p, IsPosition(p), Past(p, s, n, pc[w])
         PROVE  Past(p, t, n - 1, "entry")
    <3>1. Past(p, s, n - 1, "leave")
      BY <2>2, <2>9, <2>11, PastPopped
    <3> QED BY <2>2, <2>8, <2>9, <2>10, <2>11, <3>1, PastKept
  <2> QED BY <2>1, <2>4, <2>11 DEF Onward, n, s, t
<1> QED BY <1>2, <1>3, <1>4

LEMMA StepIsOnward ==
    ASSUME WalkInv, NEW w \in Walkers, Step(w)
    PROVE  Onward(w)
<1>1. WalkTypes /\ pc[w] # "done"
  BY DEF WalkInv, Step, Dispatch, Enter, Entry, Snapshot, Remaining, Bound, Read, Admit, Ingest,
         Leave, Returned
<1>2. /\ Here(w) \in Frame /\ Here(w).archive \in Archives
      /\ Here(w).next \in Nat /\ Here(w).attempt \in Nat
  BY <1>1, Innermost
<1>3. ASSUME NEW m, stack' = stack, pc' = At(w, m),
             m = "returned" \/ pc[w] \notin {"ingest", "leave", "returned"}
      PROVE  Onward(w)
  BY <1>1, <1>3, MoveIsOnward
<1>4. ASSUME NEW o, Conclude(w, o) PROVE Onward(w)
  BY <1>1, <1>4, ConcludeIsOnward
<1>5. ASSUME NEW m, Proceed(w, m), pc[w] \notin {"ingest", "leave", "returned"} PROVE Onward(w)
  BY <1>1, <1>5, ProceedIsOnward
<1>6. ASSUME Continue(w) PROVE Onward(w)
  BY <1>1, <1>6, ContinueIsOnward
<1>7. ASSUME NEW o, Finish(w, o) PROVE Onward(w)
  BY <1>1, <1>7, FinishIsOnward
<1>8. CASE Dispatch(w)
  BY <1>3, <1>5, <1>7, <1>8 DEF Dispatch
<1>9. CASE Enter(w)
  <2>1. pc[w] = "enter"
    BY <1>9 DEF Enter
  <2>2. CASE stack' = Replace(w, [Here(w) EXCEPT !.open = TRUE]) /\ pc' = At(w, "entry")
    <3> DEFINE f == [Here(w) EXCEPT !.open = TRUE]
    <3>1. f \in Frame /\ f.next = Here(w).next /\ f.attempt = Here(w).attempt
      BY <1>2 DEF Frame
    <3> HIDE DEF f
    <3> QED BY <1>1, <2>1, <2>2, <3>1, ReplaceIsOnward DEF f
  <2> QED BY <1>3, <1>9, <2>1, <2>2 DEF Enter
<1>10. CASE Entry(w)
  <2>1. pc[w] = "entry" /\ pc[w] \in Inside
    BY <1>10 DEF Entry, Inside
  <2>2. CASE /\ stack' = Replace(w, [Here(w) EXCEPT !.seen = @ \cup {This(w).name}])
             /\ pc' = At(w, "snapshot") /\ Here(w).next <= Len(Listing(w))
    <3> DEFINE seen == Here(w).seen \cup {This(w).name}
               f == [Here(w) EXCEPT !.seen = seen]
    <3>1. This(w).name \in Names \cup {UnsafeName}
      <4>1. Here(w).next >= 1
        BY <1>1, Innermost
      <4> QED BY <1>2, <2>2, <4>1, Cataloged DEF Listing, This
    <3>2. seen \in SUBSET (Names \cup {UnsafeName})
      BY <1>2, <3>1 DEF Frame
    <3>3. stack' = Replace(w, f)
      BY <2>2
    <3> HIDE DEF seen
    <3>4. f \in Frame /\ f.next = Here(w).next /\ f.attempt = Here(w).attempt
      BY <1>2, <3>2 DEF Frame
    <3> HIDE DEF f
    <3> QED BY <1>1, <2>1, <2>2, <3>3, <3>4, ReplaceIsOnward
  <2>3. Here(w).next > Len(Listing(w)) \/ Here(w).next <= Len(Listing(w))
    BY <1>1, Innermost
  <2> QED BY <1>4, <1>10, <2>2, <2>3 DEF Entry
<1>11. CASE Snapshot(w) \/ Remaining(w) \/ Read(w)
  BY <1>4, <1>5, <1>11 DEF Snapshot, Remaining, Read
<1>12. CASE Bound(w)
  BY <1>3, <1>12 DEF Bound
<1>13. CASE Admit(w)
  BY <1>4, <1>5, <1>6, <1>13 DEF Admit
<1>14. CASE Ingest(w)
  <2>1. CASE /\ stack' = [stack EXCEPT ![w] = Append(@, NewFrame(This(w).content))]
             /\ pc' = At(w, "dispatch")
    <3> DEFINE s == stack[w]
               t == Append(s, NewFrame(This(w).content))
    <3>1. s \in Seq(Frame) /\ Len(s) \in Nat
      BY <1>1, StacksCount
    <3>2. stack'[w] = t /\ pc'[w] = "dispatch" /\ pc[w] = "ingest"
      BY <1>1, <1>14, <2>1 DEF At, WalkTypes, Ingest
    <3>3. Len(t) = Len(s) + 1 /\ \A i \in 1..Len(s) : t[i] = s[i]
      BY <3>1
    <3> HIDE DEF s, t
    <3>4. SameBelow(s, t, Len(s))
      BY <3>3 DEF SameBelow
    <3>5. ASSUME NEW p, IsPosition(p), Past(p, s, Len(s), "ingest")
          PROVE  Past(p, t, Len(t), "dispatch")
      BY <3>1, <3>3, <3>4, <3>5, PastPushed
    <3> QED BY <3>2, <3>5 DEF Onward, s
  <2> QED BY <1>4, <1>6, <1>14, <2>1 DEF Ingest
<1>15. CASE Leave(w)
  <2> DEFINE f == [Here(w) EXCEPT !.open = FALSE]
  <2>1. f \in Frame /\ f.next = Here(w).next /\ f.attempt = Here(w).attempt
    BY <1>2 DEF Frame
  <2>2. stack' = Replace(w, f) /\ pc' = At(w, "returned")
    BY <1>15 DEF Leave
  <2> HIDE DEF f
  <2> QED BY <1>1, <2>1, <2>2, ReplaceIsOnward
<1>16. CASE Returned(w)
  <2>1. CASE /\ stack' = Replace(w, Attempt(Here(w).archive, Here(w).attempt + 1,
                                          Here(w).failed \/ outcome[w] = "failed"))
             /\ pc' = At(w, "dispatch")
    <3> DEFINE attempt == Here(w).attempt + 1
               failed == Here(w).failed \/ outcome[w] = "failed"
               f == Attempt(Here(w).archive, attempt, failed)
    <3>1. attempt \in Nat /\ attempt > Here(w).attempt /\ failed \in BOOLEAN
      BY <1>2 DEF Frame
    <3>2. stack' = Replace(w, f)
      BY <2>1
    <3> HIDE DEF attempt, failed
    <3>3. f \in Frame /\ f.attempt = attempt
      BY <1>2, <3>1, RetryFrame DEF Attempt
    <3> HIDE DEF f
    <3>4. IsLater(Here(w), f)
      BY <1>2, <3>1, <3>3 DEF IsLater
    <3> QED BY <1>1, <2>1, <3>2, <3>3, <3>4, ReplaceIsOnward
  <2> QED BY <1>7, <1>16, <2>1 DEF Returned
<1> QED BY <1>8, <1>9, <1>10, <1>11, <1>12, <1>13, <1>14, <1>15, <1>16 DEF Step

\* A position is not in the past when its member is about to be admitted,
\* and is when it has been.
LEMMA PositionOf ==
    ASSUME WalkTypes, NEW w \in Walkers, pc[w] # "done"
    PROVE  /\ IsPosition(Position(w)) /\ Levels(Position(w)) = Len(stack[w])
           /\ Position(w).walker = w
           /\ Agrees(Position(w), stack[w], Len(stack[w]))
<1>1. /\ stack[w] \in Seq(Frame) /\ Len(stack[w]) \in Nat /\ Counts(stack[w], Len(stack[w]))
      /\ DOMAIN stack[w] = 1..Len(stack[w])
  BY StacksCount
<1>2. \A i \in 1..Len(stack[w]) : /\ Position(w).path[i] = stack[w][i].next
                                  /\ Position(w).attempt[i] = stack[w][i].attempt
  BY <1>1 DEF Position
<1>3. Levels(Position(w)) = Len(stack[w])
  BY <1>1 DEF Levels, Position
<1> QED BY <1>1, <1>2, <1>3 DEF Position, IsPosition, Agrees, Counts

LEMMA AdmittedOnce ==
    ASSUME WalkTypes, NEW w \in Walkers, pc[w] = "admit"
    PROVE  /\ ~ Past(Position(w), stack[w], Len(stack[w]), "admit")
           /\ Past(Position(w), stack[w], Len(stack[w]), "ingest")
           /\ Past(Position(w), stack[w], Len(stack[w]), "leave")
<1> DEFINE n == Len(stack[w])
           p == Position(w)
<1>1. /\ n \in Nat /\ Counts(stack[w], n) /\ Levels(p) = n /\ Agrees(p, stack[w], n)
  BY StacksCount, PositionOf
<1> HIDE DEF n, p
<1>2. \A i \in 1..n : ~ Earlier(p, stack[w], i)
  BY <1>1 DEF Agrees, Earlier, Counts
<1>3. ~ Past(p, stack[w], n, "admit")
  BY <1>1, <1>2 DEF Past, Admitted
<1>4. Past(p, stack[w], n, "ingest") /\ Past(p, stack[w], n, "leave")
  BY <1>1 DEF Past, Admitted
<1> QED BY <1>3, <1>4 DEF n, p
-----------------------------------------------------------------------------
(* Sums over charges.  The library's induction theorems take an operator,  *)
(* so induction on the size of a set is by the least counterexample.       *)
LEMMA LeastNat ==
    ASSUME NEW T \in SUBSET Nat, T # {}
    PROVE  \E x \in T : \A y \in T : x <= y
<1>1. PICK x \in T : \A y \in T : ~(<<y, x>> \in OpToRel(<, Nat))
  BY NatLessThanWellFounded, WFMin
<1>2. \A y \in T : ~(y < x)
  BY <1>1 DEF OpToRel
<1> QED BY <1>2

Pick(s) == CHOOSE x \in s : TRUE

\* t holds the sums of all subsets of S.
Tallies(t, S) ==
    \A s \in SUBSET S : t[s] = IF s = {} THEN 0 ELSE Pick(s).bytes + t[s \ {Pick(s)}]

Billed(S) == IsFiniteSet(S) /\ \A c \in S : c.bytes \in Nat

LEMMA PickedFrom ==
    ASSUME NEW s, s # {}, IsFiniteSet(s)
    PROVE  /\ Pick(s) \in s
           /\ \A c \in s : /\ IsFiniteSet(s \ {c})
                           /\ Cardinality(s \ {c}) \in Nat /\ Cardinality(s) \in Nat
                           /\ Cardinality(s \ {c}) < Cardinality(s)
<1>1. Pick(s) \in s
  BY DEF Pick
<1>2. ASSUME NEW c \in s
      PROVE  IsFiniteSet(s \ {c}) /\ Cardinality(s \ {c}) = Cardinality(s) - 1
  BY FS_RemoveElement
<1>3. \A c \in s : Cardinality(s \ {c}) \in Nat /\ Cardinality(s) \in Nat
  BY <1>2, FS_CardinalityType
<1> QED BY <1>1, <1>2, <1>3

LEMMA TallyExists ==
    ASSUME NEW S, Billed(S)
    PROVE  \E t \in [SUBSET S -> Nat] : Tallies(t, S)
<1> DEFINE Upto(n) == {s \in SUBSET S : Cardinality(s) <= n}
           Good(n, t) == /\ t \in [SUBSET S -> Nat]
                         /\ \A s \in Upto(n) :
                               t[s] = IF s = {} THEN 0 ELSE Pick(s).bytes + t[s \ {Pick(s)}]
           Bad == {n \in Nat : ~ \E t : Good(n, t)}
<1>1. \A s \in SUBSET S : IsFiniteSet(s) /\ Cardinality(s) \in Nat /\ Cardinality(s) <= Cardinality(S)
  BY FS_Subset, FS_CardinalityType DEF Billed
<1>2. Bad = {}
  <2> SUFFICES ASSUME Bad # {} PROVE FALSE
    OBVIOUS
  <2>1. PICK n \in Bad : \A m \in Bad : n <= m
    <3> HIDE DEF Good
    <3> QED BY LeastNat
  <2>2. n \in Nat /\ ~ \E t : Good(n, t)
    BY <2>1
  <2>3. CASE n = 0
    <3>1. \A s \in Upto(0) : s = {}
      BY <1>1, FS_EmptySet
    <3>2. Good(0, [s \in SUBSET S |-> 0])
      BY <3>1
    <3> QED BY <2>2, <2>3, <3>2
  <2>4. CASE n # 0
    <3>1. n - 1 \in Nat /\ n - 1 < n
      BY <2>2, <2>4
    <3>2. PICK t : Good(n - 1, t)
      <4> HIDE DEF Good
      <4> QED BY <2>1, <2>2, <3>1
    <3> DEFINE u == [s \in SUBSET S |-> IF s \in Upto(n - 1) THEN t[s]
                                         ELSE Pick(s).bytes + t[s \ {Pick(s)}]]
    <3>3. \A s \in SUBSET S : s # {} =>
             /\ Pick(s).bytes \in Nat /\ s \ {Pick(s)} \in SUBSET S
             /\ Cardinality(s \ {Pick(s)}) < Cardinality(s)
      BY <1>1, PickedFrom DEF Billed
    <3>4. {} \in Upto(n - 1)
      BY <3>1, FS_EmptySet
    <3>5. u \in [SUBSET S -> Nat]
      <4>1. ASSUME NEW s \in SUBSET S, s \notin Upto(n - 1)
            PROVE  Pick(s).bytes + t[s \ {Pick(s)}] \in Nat
        <5>1. s # {}
          BY <3>4, <4>1
        <5>2. Pick(s).bytes \in Nat /\ s \ {Pick(s)} \in SUBSET S
          BY <3>3, <5>1
        <5>3. t[s \ {Pick(s)}] \in Nat
          BY <3>2, <5>2
        <5> QED BY <5>2, <5>3
      <4> HIDE DEF Upto
      <4> QED BY <3>2, <4>1
    <3>6. ASSUME NEW s \in Upto(n)
          PROVE  u[s] = IF s = {} THEN 0 ELSE Pick(s).bytes + u[s \ {Pick(s)}]
      <4>1. CASE s = {}
        BY <3>2, <3>4, <4>1
      <4>2. CASE s # {}
        <5> DEFINE r == s \ {Pick(s)}
        <5>1. r \in SUBSET S /\ Cardinality(r) < Cardinality(s) /\ Cardinality(s) <= n
              /\ Cardinality(r) \in Nat /\ Cardinality(s) \in Nat
          BY <1>1, <3>3, <3>6, <4>2
        <5>2. r \in Upto(n - 1)
          BY <2>2, <5>1
        <5>3. u[r] = t[r]
          BY <5>1, <5>2
        <5>4. s \in Upto(n - 1) => t[s] = Pick(s).bytes + t[r]
          BY <3>2, <4>2
        <5>5. u[s] = Pick(s).bytes + t[r]
          BY <3>6, <5>4
        <5> QED BY <4>2, <5>3, <5>5
      <4> QED BY <4>1, <4>2
    <3>7. Good(n, u)
      BY <3>5, <3>6
    <3> QED BY <2>2, <3>7
  <2> QED BY <2>3, <2>4
<1>3. Cardinality(S) \in Nat
  BY FS_CardinalityType DEF Billed
<1>4. PICK t : Good(Cardinality(S), t)
  BY <1>2, <1>3
<1>5. Tallies(t, S)
  BY <1>1, <1>4 DEF Tallies
<1> QED BY <1>4, <1>5

LEMMA SumIsTally ==
    ASSUME NEW S, Billed(S)
    PROVE  \E t : Tallies(t, S) /\ MapThenSumSet(LAMBDA c : c.bytes, S) = t[S]
<1> DEFINE Sums(u) == u = [s \in SUBSET S |-> IF s = {} THEN 0 ELSE Pick(s).bytes + u[s \ {Pick(s)}]]
<1>1. PICK t \in [SUBSET S -> Nat] : Tallies(t, S)
  BY TallyExists
<1>2. Sums(t)
  BY <1>1 DEF Tallies
<1>3. Sums(CHOOSE u : Sums(u))
  <2> HIDE DEF Sums
  <2> QED BY <1>2
<1>4. MapThenSumSet(LAMBDA c : c.bytes, S) = (CHOOSE u : Sums(u))[S]
  BY DEF MapThenSumSet, MapThenFoldSet, Pick
<1>5. PICK u : Sums(u) /\ MapThenSumSet(LAMBDA c : c.bytes, S) = u[S]
  <2> HIDE DEF Sums
  <2> QED BY <1>3, <1>4
<1>6. Tallies(u, S)
  BY <1>5 DEF Tallies
<1> QED BY <1>5, <1>6

\* The sums do not depend on the order of the choices: any element may be
\* the one that is added last, and two tallies agree.
LEMMA TallyOfOneMore ==
    ASSUME NEW S, Billed(S), NEW t, Tallies(t, S)
    PROVE  \A s \in SUBSET S : /\ t[s] \in Nat
                               /\ \A c \in s : t[s] = c.bytes + t[s \ {c}]
<1> DEFINE Right(s) == t[s] \in Nat /\ \A c \in s : t[s] = c.bytes + t[s \ {c}]
           Wrong == {n \in Nat : \E s \in SUBSET S : Cardinality(s) = n /\ ~ Right(s)}
<1>1. \A s \in SUBSET S : IsFiniteSet(s) /\ Cardinality(s) \in Nat
  BY FS_Subset, FS_CardinalityType DEF Billed
<1>2. Wrong = {}
  <2> SUFFICES ASSUME Wrong # {} PROVE FALSE
    OBVIOUS
  <2>1. PICK n \in Wrong : \A m \in Wrong : n <= m
    <3> HIDE DEF Right
    <3> QED BY LeastNat
  <2>2. PICK s \in SUBSET S : Cardinality(s) = n /\ ~ Right(s)
    <3> HIDE DEF Right
    <3> QED BY <2>1
  <2>3. \A r \in SUBSET S : Cardinality(r) < n => Right(r)
    <3> HIDE DEF Right
    <3> QED BY <1>1, <2>1
  <2>4. CASE s = {}
    BY <2>2, <2>4 DEF Tallies
  <2>5. CASE s # {}
    <3> DEFINE x == Pick(s)
    <3>1. x \in s /\ t[s] = x.bytes + t[s \ {x}]
      BY <1>1, <2>5, PickedFrom DEF Tallies
    <3>2. \A c \in s : s \ {c} \in SUBSET S /\ Cardinality(s \ {c}) < n /\ c.bytes \in Nat
      BY <1>1, <2>2, <2>5, PickedFrom DEF Billed
    <3>3. \A c \in s : Right(s \ {c})
      <4> HIDE DEF Right
      <4> QED BY <2>3, <3>2
    <3> HIDE DEF x
    <3>4. t[s] \in Nat
      <4>1. t[s \ {x}] \in Nat
        BY <3>1, <3>3
      <4>2. x.bytes \in Nat
        BY <3>1, <3>2
      <4> HIDE DEF Right
      <4> QED BY <3>1, <4>1, <4>2
    <3>5. ASSUME NEW c \in s
          PROVE  t[s] = c.bytes + t[s \ {c}]
      <4>1. CASE c = x
        BY <3>1, <4>1
      <4>2. CASE c # x
        <5> DEFINE both == (s \ {x}) \ {c}
        <5>1. both = (s \ {c}) \ {x}
          OBVIOUS
        <5>2. t[s \ {x}] = c.bytes + t[both] /\ t[s \ {x}] \in Nat
          BY <3>1, <3>3, <4>2
        <5>3. t[s \ {c}] = x.bytes + t[both] /\ t[s \ {c}] \in Nat
          <6>1. x \in s \ {c} /\ Right(s \ {c})
            BY <3>1, <3>3, <4>2
          <6> QED BY <5>1, <6>1
        <5>4. t[both] \in Nat
          <6>1. both \in SUBSET S /\ Cardinality(both) < Cardinality(s \ {c}) /\ Cardinality(both) \in Nat
                /\ Cardinality(s \ {c}) \in Nat /\ Cardinality(s) \in Nat
            BY <1>1, <3>1, <3>2, <4>2, <5>1, PickedFrom
          <6>2. Cardinality(both) < n
            <7> HIDE DEF both, Right
            <7>1. Cardinality(s \ {c}) < n
              BY <3>2
            <7> QED BY <2>2, <6>1, <7>1
          <6>3. Right(both)
            <7> HIDE DEF Right, both
            <7> QED BY <2>3, <6>1, <6>2
          <6> QED BY <6>3
        <5> HIDE DEF both
        <5>5. c.bytes \in Nat /\ x.bytes \in Nat
          BY <3>1, <3>2
        <5> QED BY <3>1, <5>2, <5>3, <5>4, <5>5
      <4> QED BY <4>1, <4>2
    <3> QED BY <2>2, <3>4, <3>5
  <2> QED BY <2>4, <2>5
<1>3. \A s \in SUBSET S : Right(s)
  <2> HIDE DEF Right
  <2> QED BY <1>1, <1>2
<1> QED BY <1>3

LEMMA TalliesAgree ==
    ASSUME NEW S, Billed(S), NEW t, Tallies(t, S), NEW u, Tallies(u, S)
    PROVE  t[S] = u[S]
<1> DEFINE Wrong == {n \in Nat : \E s \in SUBSET S : Cardinality(s) = n /\ t[s] # u[s]}
<1>1. \A s \in SUBSET S : IsFiniteSet(s) /\ Cardinality(s) \in Nat
  BY FS_Subset, FS_CardinalityType DEF Billed
<1>2. Wrong = {}
  <2> SUFFICES ASSUME Wrong # {} PROVE FALSE
    OBVIOUS
  <2>1. PICK n \in Wrong : \A m \in Wrong : n <= m
    BY LeastNat
  <2>2. PICK s \in SUBSET S : Cardinality(s) = n /\ t[s] # u[s]
    BY <2>1
  <2>3. CASE s = {}
    BY <2>2, <2>3 DEF Tallies
  <2>4. CASE s # {}
    <3> DEFINE r == s \ {Pick(s)}
    <3>1. r \in SUBSET S /\ Cardinality(r) < n /\ Cardinality(r) \in Nat
      BY <1>1, <2>2, <2>4, PickedFrom
    <3>2. t[r] = u[r]
      <4> HIDE DEF r
      <4> QED BY <2>1, <3>1
    <3>3. t[s] = Pick(s).bytes + t[r] /\ u[s] = Pick(s).bytes + u[r]
      BY <2>4 DEF Tallies
    <3> QED BY <2>2, <3>2, <3>3
  <2> QED BY <2>3, <2>4
<1>3. S \in SUBSET S /\ Cardinality(S) \in Nat
  BY <1>1
<1> QED BY <1>2, <1>3

LEMMA SumOfOneMore ==
    ASSUME NEW S, Billed(S), NEW c, c \notin S, c.bytes \in Nat
    PROVE  /\ MapThenSumSet(LAMBDA d : d.bytes, S) \in Nat
           /\ MapThenSumSet(LAMBDA d : d.bytes, S \cup {c})
                 = MapThenSumSet(LAMBDA d : d.bytes, S) + c.bytes
<1> DEFINE T == S \cup {c}
<1>1. Billed(T)
  BY FS_AddElement DEF Billed
<1>2. PICK t : Tallies(t, T) /\ MapThenSumSet(LAMBDA d : d.bytes, T) = t[T]
  <2> HIDE DEF T
  <2> QED BY <1>1, SumIsTally
<1>3. PICK u : Tallies(u, S) /\ MapThenSumSet(LAMBDA d : d.bytes, S) = u[S]
  BY SumIsTally
<1>4. t[T] = c.bytes + t[S]
  <2>1. T \in SUBSET T /\ c \in T /\ T \ {c} = S
    OBVIOUS
  <2> HIDE DEF T
  <2>2. t[T] = c.bytes + t[T \ {c}]
    BY <1>1, <1>2, <2>1, TallyOfOneMore
  <2> QED BY <2>1, <2>2
<1>5. Tallies(t, S)
  BY <1>2 DEF Tallies
<1>6. t[S] = u[S]
  BY <1>3, <1>5, TalliesAgree
<1>7. u[S] \in Nat
  <2>1. S \in SUBSET S
    OBVIOUS
  <2> QED BY <1>3, <2>1, TallyOfOneMore
<1>8. MapThenSumSet(LAMBDA d : d.bytes, S) \in Nat
  BY <1>3, <1>7, Zenon
<1>9. MapThenSumSet(LAMBDA d : d.bytes, T) = MapThenSumSet(LAMBDA d : d.bytes, S) + c.bytes
  <2>1. t[T] = u[S] + c.bytes
    <3> HIDE DEF T
    <3> QED BY <1>4, <1>6, <1>7
  <2> HIDE DEF T
  <2> QED BY <1>2, <1>3, <2>1, Zenon
<1> QED BY <1>8, <1>9, Zenon

-----------------------------------------------------------------------------
\* The sum the ledger is compared with, under a name of its own.
SumBilled(S) == MapThenSumSet(LAMBDA c : c.bytes, S)

LEMMA LedgerReads ==
    LedgerIsSumOfCharges <=> /\ ledger.containerEntries = Cardinality(charged)
                             /\ ledger.expandedBytes = SumBilled(charged)
BY Zenon DEF LedgerIsSumOfCharges, SumBilled

LEMMA LedgerReadsNext ==
    LedgerIsSumOfCharges' <=> /\ ledger'.containerEntries = Cardinality(charged')
                              /\ ledger'.expandedBytes = SumBilled(charged')
<1>1. (LedgerIsSumOfCharges <=> /\ ledger.containerEntries = Cardinality(charged)
                                /\ ledger.expandedBytes = SumBilled(charged))'
  BY LedgerReads, PTL
<1> QED BY <1>1

LEMMA SumBilledOneMore ==
    ASSUME NEW S, Billed(S), NEW c, c \notin S, c.bytes \in Nat
    PROVE  SumBilled(S \cup {c}) = SumBilled(S) + c.bytes
BY SumOfOneMore, Zenon DEF SumBilled

\* Every charge lies in the past of the walker that made it, and the ledger
\* is their sum.
ChargesInv ==
    /\ Billed(charged)
    /\ \A c \in charged : IsPosition(c.at) /\ c.at.walker \in Walkers
    /\ \A c \in charged : LET w == c.at.walker
                          IN  pc[w] # "done" => Past(c.at, stack[w], Len(stack[w]), pc[w])
    /\ LedgerIsSumOfCharges

LEMMA EntryAdds ==
    ASSUME NEW b \in Ledger, WithinLimits(b),
           NEW declared \in Int, NEW compressed \in Int, NEW n \in Int,
           AdmitContainerEntry(b, declared, compressed, n).err = "nil"
    PROVE  LET after == AdmitContainerEntry(b, declared, compressed, n).ledger
           IN  /\ after.containerEntries = b.containerEntries + 1
               /\ after.expandedBytes = b.expandedBytes + n
<1> DEFINE total == checkedAdd(b.expandedBytes, n).sum
           call == AdmitContainerEntry(b, declared, compressed, n)
<1>1. ~ EntryExceeds(b, declared, compressed, n)
      /\ call = Accept([b EXCEPT !.containerEntries = @ + 1, !.expandedBytes = total])
  BY DEF AdmitContainerEntry, Refuse, Accept
<1>2. b.expandedBytes \in Nat /\ MaxExpandedBytes \in Int
  BY LimitTypes DEF Ledger
<1>3. total = b.expandedBytes + n
  BY <1>1, <1>2, TotalFits DEF EntryExceeds
<1>4. call.ledger = [b EXCEPT !.containerEntries = @ + 1, !.expandedBytes = total]
  <2> HIDE DEF total
  <2> QED BY <1>1 DEF Accept
<1> HIDE DEF total
<1>5. call.ledger.containerEntries = b.containerEntries + 1
      /\ call.ledger.expandedBytes = total
  <2> HIDE DEF call
  <2> QED BY <1>4 DEF Ledger
<1> QED BY <1>3, <1>5

\* Where a step charges nothing, the sum is as it was.
LEMMA ChargesStay ==
    ASSUME ChargesInv, UNCHANGED charged,
           ledger'.containerEntries = ledger.containerEntries,
           ledger'.expandedBytes = ledger.expandedBytes
    PROVE  LedgerIsSumOfCharges' /\ Billed(charged')
           /\ \A c \in charged' : IsPosition(c.at) /\ c.at.walker \in Walkers
BY LedgerReads, LedgerReadsNext DEF ChargesInv

LEMMA AdmitAddsUp ==
    ASSUME WalkInv, ChargesInv, NEW w \in Walkers, Admit(w)
    PROVE  /\ LedgerIsSumOfCharges' /\ Billed(charged')
           /\ \A c \in charged' : IsPosition(c.at) /\ c.at.walker \in Walkers
           /\ \A c \in charged' \ charged :
                 /\ c.at.walker = w
                 /\ Past(c.at, stack'[w], Len(stack'[w]), pc'[w])
<1> DEFINE size == IF Skipped(w) THEN 0 ELSE This(w).actual
           call == AdmitContainerEntry(ledger, This(w).declared, This(w).compressed, size)
           c == [at |-> Position(w), bytes |-> size]
<1>1. /\ pc[w] = "admit" /\ pc[w] # "done" /\ WalkTypes /\ ledger \in Ledger /\ WithinLimits(ledger)
      /\ ledger' = call.ledger
  BY DEF Admit, WalkInv
<1>2. This(w).declared \in Nat /\ This(w).compressed \in Nat /\ This(w).actual \in Nat
  BY <1>1, Innermost DEF AtMember
<1>3. size \in Nat
  BY <1>2
<1>4. CASE call.err # "nil"
  <2>1. charged' = charged
    BY <1>4 DEF Admit
  <2>2. Charges(ledger, call)
    <3> HIDE DEF size
    <3> QED BY <1>1, <1>2, <1>3, EntryCharges
  <2>3. ledger' = ledger
    BY <1>1, <1>4, <2>2 DEF Charges
  <2> QED BY <2>1, <2>3, ChargesStay
<1>5. CASE call.err = "nil"
  <2>1. charged' = charged \cup {c} /\ (Proceed(w, "ingest") \/ Continue(w))
    BY <1>5 DEF Admit
  <2> HIDE DEF size
  <2>2. c.at = Position(w) /\ c.bytes = size
    OBVIOUS
  <2>3. c \notin charged
    <3>1. Position(w).walker = w
      BY <1>1, PositionOf
    <3> QED BY <1>1, <2>2, <3>1, AdmittedOnce DEF ChargesInv
  <2>4. IsPosition(c.at) /\ c.at.walker = w
    BY <1>1, <2>2, PositionOf
  <2>5. Past(c.at, stack'[w], Len(stack'[w]), pc'[w])
    <3>1. CASE Proceed(w, "ingest")
      <4>1. stack' = stack /\ pc'[w] = "ingest"
        BY <1>1, <3>1 DEF Proceed, At, WalkTypes
      <4> QED BY <1>1, <2>2, <4>1, AdmittedOnce
    <3>2. CASE Continue(w)
      BY <1>1, <2>2, <2>4, <3>2, AdmittedOnce, ContinueIsOnward
    <3> QED BY <2>1, <3>1, <3>2
  <2>6. /\ ledger'.containerEntries = ledger.containerEntries + 1
        /\ ledger'.expandedBytes = ledger.expandedBytes + size
    BY <1>1, <1>2, <1>3, <1>5, EntryAdds
  <2> HIDE DEF c
  <2>7. Billed(charged) /\ LedgerIsSumOfCharges
    BY DEF ChargesInv
  <2>8. Cardinality(charged \cup {c}) = Cardinality(charged) + 1 /\ IsFiniteSet(charged \cup {c})
    BY <2>3, <2>7, FS_AddElement DEF Billed
  <2>9. Billed(charged')
    BY <1>3, <2>1, <2>2, <2>7, <2>8 DEF Billed
  <2>10. SumBilled(charged \cup {c}) = SumBilled(charged) + size
    <3>1. c.bytes \in Nat
      BY <1>3, <2>2
    <3> QED BY <2>2, <2>3, <2>7, <3>1, SumBilledOneMore
  <2>11. LedgerIsSumOfCharges'
    BY <2>1, <2>6, <2>7, <2>8, <2>10, LedgerReads, LedgerReadsNext
  <2>12. \A d \in charged' : IsPosition(d.at) /\ d.at.walker \in Walkers
    BY <2>1, <2>4 DEF ChargesInv
  <2>13. \A d \in charged' \ charged : d = c
    BY <2>1
  <2> QED BY <2>4, <2>5, <2>9, <2>11, <2>12, <2>13
<1> QED BY <1>4, <1>5

LEMMA ChargesInvInductive ==
    ASSUME WalkInv, ChargesInv, [Next]_vars
    PROVE  ChargesInv'
<1>1. ASSUME NEW w \in Walkers, Step(w)
      PROVE  ChargesInv'
  <2>1. Local(w) /\ Onward(w) /\ WalkTypes
    BY <1>1, AnyStepEffect, StepIsOnward DEF StepEffect, WalkInv
  <2>2. \A v \in Walkers \ {w} : stack'[v] = stack[v] /\ pc'[v] = pc[v]
    BY <2>1 DEF Local, WalkTypes
  <2>3. /\ LedgerIsSumOfCharges' /\ Billed(charged')
        /\ \A c \in charged' : IsPosition(c.at) /\ c.at.walker \in Walkers
        /\ \A c \in charged' \ charged :
              c.at.walker = w /\ Past(c.at, stack'[w], Len(stack'[w]), pc'[w])
    <3>1. CASE Admit(w)
      BY <1>1, <3>1, AdmitAddsUp
    <3>2. CASE ~Admit(w)
      <4>1. charged' = charged
        BY <1>1, <3>2 DEF Step, Dispatch, Enter, Entry, Snapshot, Remaining, Bound, Read, Ingest,
              Leave, Returned
      <4>2. /\ ledger'.containerEntries = ledger.containerEntries
            /\ ledger'.expandedBytes = ledger.expandedBytes
        <5>1. ledger' \in {ledger, EnterContainer(ledger).ledger, LeaveContainer(ledger).ledger}
          BY <1>1, <3>2 DEF Step, Dispatch, Enter, Entry, Snapshot, Remaining, Bound, Read, Ingest,
                Leave, Returned
        <5> QED BY <5>1 DEF EnterContainer, LeaveContainer, Refuse, Accept, WalkInv, Ledger
      <4> QED BY <4>1, <4>2, ChargesStay
    <3> QED BY <3>1, <3>2
  <2>4. ASSUME NEW c \in charged', pc'[c.at.walker] # "done"
        PROVE  Past(c.at, stack'[c.at.walker], Len(stack'[c.at.walker]), pc'[c.at.walker])
    <3>1. CASE c \notin charged
      BY <2>3, <3>1
    <3>2. CASE c \in charged /\ c.at.walker # w
      <4>1. c.at.walker \in Walkers \ {w}
        BY <2>3, <3>2
      <4> QED BY <2>2, <2>4, <3>2, <4>1 DEF ChargesInv
    <3>3. CASE c \in charged /\ c.at.walker = w
      <4>1. pc[w] # "done"
        BY <1>1 DEF Step, Dispatch, Enter, Entry, Snapshot, Remaining, Bound, Read, Admit, Ingest,
              Leave, Returned
      <4>2. IsPosition(c.at) /\ Past(c.at, stack[w], Len(stack[w]), pc[w])
        BY <3>3, <4>1 DEF ChargesInv
      <4> QED BY <2>1, <2>4, <3>3, <4>2 DEF Onward
    <3> QED BY <3>1, <3>2, <3>3
  <2> QED BY <2>3, <2>4 DEF ChargesInv
<1>2. CASE UNCHANGED <<ledger, stack, pc, charged>>
  <2>1. LedgerIsSumOfCharges'
    BY <1>2, ChargesStay
  <2> QED BY <1>2, <2>1 DEF ChargesInv
<1> QED BY <1>1, <1>2 DEF Next, Cancel, Finished, vars

LEMMA ChargesInvInitially == Init => ChargesInv
<1> SUFFICES ASSUME Init PROVE ChargesInv
  OBVIOUS
<1>1. charged = {} /\ Billed({}) /\ Cardinality({}) = 0
  BY FS_EmptySet DEF Init, Billed
<1>2. PICK t : Tallies(t, {}) /\ MapThenSumSet(LAMBDA c : c.bytes, {}) = t[{}]
  BY <1>1, SumIsTally
<1>3. t[{}] = 0
  BY <1>2 DEF Tallies
<1>4. MapThenSumSet(LAMBDA c : c.bytes, {}) = 0
  BY <1>2, <1>3, Zenon
<1>5. ledger.containerEntries = 0 /\ ledger.expandedBytes = 0
  BY DEF Init, ZeroLedger
<1>6. LedgerIsSumOfCharges
  BY <1>1, <1>4, <1>5, Zenon DEF LedgerIsSumOfCharges
<1> QED BY <1>1, <1>6 DEF ChargesInv

(* No charge is lost and no member is charged twice: however many walkers  *)
(* nest, fall back, fail and are cancelled on one ledger, its entries and  *)
(* its expanded bytes are those of the admissions that were made           *)
(* (budget.go:147-173).                                                    *)
THEOREM NoChargeIsLost == Spec => []LedgerIsSumOfCharges
<1>1. ChargesInv => LedgerIsSumOfCharges
  BY DEF ChargesInv
<1>2. Init => WalkInv /\ ChargesInv
  BY WalkInvInitially, ChargesInvInitially
<1>3. (WalkInv /\ ChargesInv) /\ [Next]_vars => (WalkInv /\ ChargesInv)'
  BY WalkInvInductive, ChargesInvInductive
<1> QED BY <1>1, <1>2, <1>3, PTL DEF Spec
-----------------------------------------------------------------------------
(* Sharing refuses nobody without need.  The inductive invariant says that *)
(* a fitting request has only been served so far: every walker is at one   *)
(* of the places the request asks for, in the first converter's attempt,   *)
(* and has charged only what the places ask for.  What a walker is about   *)
(* to charge or to open is then asked for and not yet charged or open, so  *)
(* whatever the other walkers did in between, there is room for it.        *)

\* The places no member leads to, and the rule that Places follows.
Start(r) == {[walker |-> w, path |-> <<>>, archive |-> r[w]] : w \in Walkers}
Nth(r, at, n) == IF n = 0 THEN Start(r) ELSE UNION {PlacesIn(p) : p \in at[n - 1]}

\* The recursive function of Places exists, by the least depth for which it
\* would not.
LEMMA PlacesByDepth ==
    ASSUME NEW r
    PROVE  /\ Places(r)[0] = Start(r)
           /\ \A n \in 1..MaxContainerDepth :
                 Places(r)[n] = UNION {PlacesIn(p) : p \in Places(r)[n - 1]}
<1> DEFINE D == 0..MaxContainerDepth
           Right(at) == at = [n \in D |-> Nth(r, at, n)]
           Upto(n, at) == at = [k \in D |-> IF k <= n THEN Nth(r, at, k) ELSE {}]
           Bad == {n \in Nat : ~ \E at : Upto(n, at)}
<1>1. MaxContainerDepth \in Nat
  BY LimitTypes
<1>2. Bad = {}
  <2> SUFFICES ASSUME Bad # {} PROVE FALSE
    OBVIOUS
  <2>1. PICK n \in Bad : \A m \in Bad : n <= m
    <3> HIDE DEF Upto
    <3> QED BY LeastNat
  <2>2. n \in Nat /\ ~ \E at : Upto(n, at)
    BY <2>1
  <2>3. CASE n = 0
    <3> DEFINE at == [k \in D |-> IF k = 0 THEN Start(r) ELSE {}]
    <3>1. Upto(0, at)
      BY <1>1 DEF Nth
    <3> QED BY <2>2, <2>3, <3>1
  <2>4. CASE n # 0
    <3>1. n - 1 \in Nat /\ ~(n <= n - 1)
      BY <2>2, <2>4
    <3>2. PICK at : Upto(n - 1, at)
      <4>1. n - 1 \notin Bad
        BY <2>1, <3>1
      <4> HIDE DEF Upto
      <4> QED BY <3>1, <4>1
    <3> DEFINE new == [k \in D |-> IF k <= n THEN Nth(r, at, k) ELSE {}]
    <3>3. \A k \in D : k <= n => Nth(r, new, k) = Nth(r, at, k)
      <4>1. ASSUME NEW k \in D, k <= n, k # 0
            PROVE  new[k - 1] = at[k - 1]
        <5>1. k - 1 \in D /\ k - 1 <= n - 1 /\ k - 1 <= n
          BY <1>1, <2>2, <4>1
        <5> QED BY <3>2, <5>1
      <4> QED BY <4>1 DEF Nth
    <3>4. Upto(n, new)
      BY <3>3
    <3> QED BY <2>2, <3>4
  <2> QED BY <2>3, <2>4
<1>3. PICK at : Upto(MaxContainerDepth, at)
  BY <1>1, <1>2
<1>4. Right(at)
  BY <1>1, <1>3
<1>5. Places(r) = CHOOSE f : Right(f)
  BY Zenon DEF Places, Nth, Start
<1>6. Right(Places(r))
  <2> HIDE DEF Right
  <2> QED BY <1>4, <1>5
<1> HIDE DEF Right
<1>7. \A n \in D : Places(r)[n] = Nth(r, Places(r), n)
  BY <1>6, Zenon DEF Right
<1>8. 0 \in D /\ \A n \in 1..MaxContainerDepth : n \in D /\ n # 0
  BY <1>1
<1> QED BY <1>7, <1>8 DEF Nth

\* A finite set has finitely many images (FS_Image takes an operator).
LEMMA ImageIsFinite ==
    ASSUME NEW S, IsFiniteSet(S), NEW f
    PROVE  IsFiniteSet({f[x] : x \in S})
<1> DEFINE g == [x \in S |-> f[x]]
           T == {f[x] : x \in S}
<1>1. g \in Surjection(S, T)
  BY DEF Surjection
<1> QED BY <1>1, FS_Surjection

\* A place n deep.
Placed(p, n) ==
    /\ p.walker \in Walkers /\ p.archive \in Archives
    /\ p.path \in Seq(Nat) /\ Len(p.path) = n

\* Archives nest finitely often in one archive, so there are finitely many
\* places, bills and depths.
LEMMA NestedMembers ==
    ASSUME NEW a \in Archives
    PROVE  /\ IsFiniteSet(NestedIn(a))
           /\ \A i \in NestedIn(a) : /\ i \in Nat /\ i \in DOMAIN Catalog[a].members
                                     /\ Catalog[a].members[i].content \in Archives
<1>1. /\ Catalog[a].members \in Seq(Member) /\ Len(Catalog[a].members) \in Nat
  BY Cataloged
<1>2. DOMAIN Catalog[a].members = 1..Len(Catalog[a].members)
  BY <1>1
<1>3. IsFiniteSet(1..Len(Catalog[a].members))
  BY <1>1, FS_Interval
<1>4. NestedIn(a) \subseteq 1..Len(Catalog[a].members)
  BY <1>2 DEF NestedIn
<1>5. IsFiniteSet(NestedIn(a))
  BY <1>3, <1>4, FS_Subset
<1> QED BY <1>1, <1>2, <1>4, <1>5 DEF NestedIn

LEMMA PlacesInOne ==
    ASSUME NEW n \in Nat, NEW p, Placed(p, n)
    PROVE  IsFiniteSet(PlacesIn(p)) /\ \A q \in PlacesIn(p) : Placed(q, n + 1)
<1> DEFINE S == NestedIn(p.archive)
           In(i) == [walker |-> p.walker, path |-> Append(p.path, i),
                     archive |-> Catalog[p.archive].members[i].content]
<1>1. IsFiniteSet(S) /\ \A i \in S : i \in Nat /\ Catalog[p.archive].members[i].content \in Archives
  BY NestedMembers DEF Placed
<1>2. PlacesIn(p) = {In(i) : i \in S}
  BY DEF PlacesIn
<1> HIDE DEF S, In
<1>3. IsFiniteSet({In(i) : i \in S})
  <2> DEFINE f == [i \in S |-> In(i)]
  <2>1. {f[i] : i \in S} = {In(i) : i \in S}
    OBVIOUS
  <2> HIDE DEF f
  <2> QED BY <1>1, <2>1, ImageIsFinite
<1>4. ASSUME NEW i \in S PROVE Placed(In(i), n + 1)
  <2>1. /\ In(i).walker = p.walker /\ In(i).path = Append(p.path, i)
        /\ In(i).archive = Catalog[p.archive].members[i].content
    BY DEF In
  <2>2. p.path \in Seq(Nat) /\ Len(p.path) = n /\ i \in Nat
    BY <1>1 DEF Placed
  <2>3. Append(p.path, i) \in Seq(Nat) /\ Len(Append(p.path, i)) = n + 1
    BY <2>2
  <2> QED BY <1>1, <2>1, <2>3 DEF Placed
<1> QED BY <1>2, <1>3, <1>4

LEMMA PlacesAreFinite ==
    ASSUME NEW r \in Requests
    PROVE  \A n \in 0..MaxContainerDepth :
              IsFiniteSet(Places(r)[n]) /\ \A p \in Places(r)[n] : Placed(p, n)
<1> DEFINE Good(n) == IsFiniteSet(Places(r)[n]) /\ \A p \in Places(r)[n] : Placed(p, n)
           Bad == {n \in 0..MaxContainerDepth : ~ Good(n)}
<1> SUFFICES ASSUME Bad # {} PROVE FALSE
  OBVIOUS
<1>1. MaxContainerDepth \in Nat /\ Bad \in SUBSET Nat
  BY LimitTypes
<1>2. PICK n \in Bad : \A m \in Bad : n <= m
  <2> HIDE DEF Good
  <2> QED BY <1>1, LeastNat
<1>3. n \in 0..MaxContainerDepth /\ n \in Nat /\ ~ Good(n)
  BY <1>1, <1>2
<1>4. CASE n = 0
  <2>1. IsFiniteSet(Walkers) /\ \A w \in Walkers : r[w] \in Archives
    BY CatalogAssumption
  <2> DEFINE P(w) == [walker |-> w, path |-> <<>>, archive |-> r[w]]
  <2>2. Places(r)[0] = {P(w) : w \in Walkers}
    BY PlacesByDepth DEF Start
  <2>3. \A w \in Walkers : Placed(P(w), 0)
    BY <2>1 DEF Placed
  <2> HIDE DEF P
  <2>4. IsFiniteSet({P(w) : w \in Walkers})
    <3> DEFINE f == [w \in Walkers |-> P(w)]
    <3>1. {f[w] : w \in Walkers} = {P(w) : w \in Walkers}
      OBVIOUS
    <3> HIDE DEF f
    <3> QED BY <2>1, <3>1, ImageIsFinite
  <2> QED BY <1>3, <1>4, <2>2, <2>3, <2>4
<1>5. CASE n # 0
  <2>1. n - 1 \in 0..MaxContainerDepth /\ n - 1 < n /\ n \in 1..MaxContainerDepth /\ n - 1 \in Nat
    BY <1>1, <1>3, <1>5
  <2>2. Good(n - 1)
    <3> HIDE DEF Good
    <3> QED BY <1>2, <1>3, <2>1
  <2> DEFINE outer == Places(r)[n - 1]
             sets == {PlacesIn(p) : p \in outer}
  <2>3. Places(r)[n] = UNION sets
    BY <2>1, PlacesByDepth
  <2>4. IsFiniteSet(outer) /\ \A p \in outer : Placed(p, n - 1)
    BY <2>2
  <2> HIDE DEF outer
  <2>5. \A p \in outer : IsFiniteSet(PlacesIn(p)) /\ \A q \in PlacesIn(p) : Placed(q, n)
    <3>1. \A p \in outer : IsFiniteSet(PlacesIn(p)) /\ \A q \in PlacesIn(p) : Placed(q, (n - 1) + 1)
      BY <2>1, <2>4, PlacesInOne
    <3>2. (n - 1) + 1 = n
      BY <2>1
    <3> QED BY <3>1, <3>2
  <2>6. IsFiniteSet(sets)
    <3> DEFINE f == [p \in outer |-> PlacesIn(p)]
    <3>1. {f[p] : p \in outer} = sets
      OBVIOUS
    <3> HIDE DEF f, sets
    <3> QED BY <2>4, <3>1, ImageIsFinite
  <2>7. IsFiniteSet(UNION sets)
    BY <2>5, <2>6, FS_UNION
  <2> QED BY <1>3, <2>3, <2>5, <2>7
<1> QED BY <1>4, <1>5

LEMMA AllPlacesFinite ==
    ASSUME NEW r \in Requests
    PROVE  /\ IsFiniteSet(AllPlaces(r))
           /\ \A p \in AllPlaces(r) : p.archive \in Archives /\ Len(p.path) \in Nat
<1> DEFINE D == 0..MaxContainerDepth
           f == [n \in D |-> Places(r)[n]]
<1>1. IsFiniteSet(D) /\ \A n \in D : n \in Nat
  BY LimitTypes, FS_Interval
<1>2. \A n \in D : IsFiniteSet(f[n]) /\ \A p \in f[n] : Placed(p, n)
  BY PlacesAreFinite
<1>3. AllPlaces(r) = UNION {f[n] : n \in D}
  BY DEF AllPlaces
<1> HIDE DEF D, f
<1>4. IsFiniteSet({f[n] : n \in D})
  BY <1>1, ImageIsFinite
<1>5. IsFiniteSet(UNION {f[n] : n \in D})
  BY <1>2, <1>4, FS_UNION
<1> QED BY <1>1, <1>2, <1>3, <1>5 DEF Placed

LEMMA AskedIsBilled ==
    ASSUME NEW r \in Requests
    PROVE  Billed(Asked(r))
<1> DEFINE S == AllPlaces(r)
           f == [p \in S |-> BillsOf(p)]
<1>1. IsFiniteSet(S) /\ \A p \in S : p.archive \in Archives
  BY AllPlacesFinite
<1>2. ASSUME NEW p \in S
      PROVE  IsFiniteSet(BillsOf(p)) /\ \A c \in BillsOf(p) : c.bytes \in Nat
  <2> DEFINE a == p.archive
             members == Catalog[a].members
             D == DOMAIN members
             g == [i \in D |-> Bill(p, i)]
  <2>1. /\ members \in Seq(Member) /\ D = 1..Len(members) /\ Len(members) \in Nat
        /\ \A i \in D : members[i].actual \in Nat
    BY <1>1, Cataloged
  <2>2. \A i \in D : Size(members[i], Head(Catalog[a].converters)) \in Nat
    BY <2>1 DEF Size
  <2>3. \A i \in D : g[i].bytes \in Nat
    BY <2>2 DEF Bill
  <2>4. BillsOf(p) = {g[i] : i \in D}
    BY DEF BillsOf
  <2>5. IsFiniteSet(D)
    BY <2>1, FS_Interval
  <2> HIDE DEF g, D
  <2> QED BY <2>3, <2>4, <2>5, ImageIsFinite
<1>3. Asked(r) = UNION {f[p] : p \in S}
  BY DEF Asked
<1>4. \A p \in S : IsFiniteSet(f[p]) /\ \A c \in f[p] : c.bytes \in Nat
  BY <1>2
<1> HIDE DEF S, f
<1>5. IsFiniteSet({f[p] : p \in S})
  BY <1>1, ImageIsFinite
<1>6. IsFiniteSet(UNION {f[p] : p \in S})
  BY <1>4, <1>5, FS_UNION
<1> QED BY <1>3, <1>4, <1>6 DEF Billed

LEMMA DepthsAreFinite ==
    ASSUME NEW r \in Requests
    PROVE  IsFiniteSet(Depths(r))
<1> DEFINE S == AllPlaces(r)
           f == [p \in S |-> <<p.walker, Len(p.path) + 1>>]
<1>1. IsFiniteSet(S)
  BY AllPlacesFinite
<1>2. Depths(r) = {f[p] : p \in S}
  BY DEF Depths
<1> HIDE DEF S, f
<1> QED BY <1>1, <1>2, ImageIsFinite

\* A sum over charges grows with the set, by the smallest difference for
\* which it would not.
LEMMA LargerSumsMore ==
    ASSUME NEW T, Billed(T)
    PROVE  \A S \in SUBSET T : SumBilled(S) \in Nat /\ SumBilled(S) <= SumBilled(T)
<1> DEFINE Wrong(S) == ~(SumBilled(S) <= SumBilled(T))
           Bad == {n \in Nat : \E S \in SUBSET T : Cardinality(T \ S) = n /\ Wrong(S)}
<1>1. \A S \in SUBSET T : Billed(S) /\ IsFiniteSet(T \ S) /\ Cardinality(T \ S) \in Nat
  BY FS_Subset, FS_CardinalityType DEF Billed
<1>2. \A S \in SUBSET T : SumBilled(S) \in Nat
  <2> SUFFICES ASSUME NEW S \in SUBSET T PROVE SumBilled(S) \in Nat
    OBVIOUS
  <2>1. CASE S = T
    <3>1. CASE T = {}
      <4>1. PICK t : Tallies(t, {}) /\ MapThenSumSet(LAMBDA c : c.bytes, {}) = t[{}]
        BY <1>1, SumIsTally
      <4>2. t[{}] = 0
        BY <4>1 DEF Tallies
      <4>3. SumBilled({}) = 0
        BY <4>1, <4>2, Zenon DEF SumBilled
      <4> QED BY <2>1, <3>1, <4>3
    <3>2. CASE T # {}
      <4>1. PICK c \in T : TRUE
        BY <3>2
      <4>2. Billed(T \ {c}) /\ c.bytes \in Nat /\ T = (T \ {c}) \cup {c}
        BY <1>1 DEF Billed
      <4>3. MapThenSumSet(LAMBDA d : d.bytes, T \ {c}) \in Nat
        BY <4>2, SumOfOneMore
      <4>4. SumBilled(T \ {c}) \in Nat
        BY <4>3, Zenon DEF SumBilled
      <4>5. SumBilled((T \ {c}) \cup {c}) = SumBilled(T \ {c}) + c.bytes
        BY <4>2, SumBilledOneMore
      <4>6. SumBilled(T) = SumBilled(T \ {c}) + c.bytes
        BY <4>2, <4>5, Zenon
      <4> QED BY <2>1, <4>2, <4>4, <4>6
    <3> QED BY <3>1, <3>2
  <2>2. CASE S # T
    <3>1. PICK c \in T : c \notin S
      BY <2>2
    <3>2. Billed(S) /\ c.bytes \in Nat
      BY <1>1 DEF Billed
    <3>3. MapThenSumSet(LAMBDA d : d.bytes, S) \in Nat
      BY <3>1, <3>2, SumOfOneMore
    <3> QED BY <3>3, Zenon DEF SumBilled
  <2> QED BY <2>1, <2>2
<1>3. Bad = {}
  <2> SUFFICES ASSUME Bad # {} PROVE FALSE
    OBVIOUS
  <2>1. PICK n \in Bad : \A m \in Bad : n <= m
    <3> HIDE DEF Wrong
    <3> QED BY LeastNat
  <2>2. PICK S \in SUBSET T : Cardinality(T \ S) = n /\ Wrong(S)
    <3> HIDE DEF Wrong
    <3> QED BY <2>1
  <2>3. S # T
    BY <1>2, <2>2
  <2>4. PICK c \in T : c \notin S
    BY <2>3
  <2> DEFINE R == S \cup {c}
  <2>5. R \in SUBSET T /\ T \ R = (T \ S) \ {c} /\ c \in T \ S
    BY <2>4
  <2>6. Cardinality(T \ R) < n /\ Cardinality(T \ R) \in Nat
    <3>1. Cardinality((T \ S) \ {c}) = Cardinality(T \ S) - 1
      BY <1>1, <2>5, FS_RemoveElement
    <3>2. Cardinality(T \ R) \in Nat /\ Cardinality(T \ S) \in Nat
      BY <1>1, <2>5
    <3> HIDE DEF R
    <3> QED BY <2>2, <2>5, <3>1, <3>2
  <2>7. ~ Wrong(R)
    <3>1. n \in Nat
      BY <2>1
    <3> HIDE DEF Wrong, R
    <3>2. ASSUME Wrong(R) PROVE Cardinality(T \ R) \in Bad
      BY <2>5, <2>6, <3>2
    <3>3. Cardinality(T \ R) \in Bad => n <= Cardinality(T \ R)
      BY <2>1
    <3> HIDE DEF Bad
    <3> QED BY <2>6, <3>1, <3>2, <3>3
  <2>8. SumBilled(R) = SumBilled(S) + c.bytes /\ c.bytes \in Nat
    <3>1. Billed(S) /\ c.bytes \in Nat
      BY <1>1 DEF Billed
    <3> QED BY <2>4, <3>1, SumBilledOneMore
  <2>9. SumBilled(S) \in Nat /\ SumBilled(T) \in Nat
    BY <1>2
  <2> HIDE DEF R
  <2> QED BY <2>2, <2>7, <2>8, <2>9
<1>4. \A S \in SUBSET T : ~ Wrong(S)
  <2> HIDE DEF Wrong
  <2> QED BY <1>1, <1>3
<1> QED BY <1>2, <1>4

\* While something asked for is not charged, neither limit is reached.
LEMMA RoomForOneMore ==
    ASSUME NEW T, Billed(T), NEW S \in SUBSET T, NEW c \in T, c \notin S
    PROVE  /\ Cardinality(S) + 1 <= Cardinality(T)
           /\ SumBilled(S) + c.bytes <= SumBilled(T)
<1> DEFINE R == S \cup {c}
<1>1. R \in SUBSET T
  OBVIOUS
<1>2. Billed(S) /\ c.bytes \in Nat
  BY FS_Subset DEF Billed
<1>3. SumBilled(R) = SumBilled(S) + c.bytes
  BY <1>2, SumBilledOneMore
<1>4. Cardinality(R) = Cardinality(S) + 1
  BY <1>2, FS_AddElement DEF Billed
<1>5. SumBilled(R) <= SumBilled(T)
  BY <1>1, LargerSumsMore
<1>6. Cardinality(R) <= Cardinality(T)
  BY <1>1, FS_Subset DEF Billed
<1> HIDE DEF R
<1> QED BY <1>3, <1>4, <1>5, <1>6

\* The place of the archive that the i-th frame of stack s dispatches.
PlaceAt(w, s, i) ==
    [walker |-> w, path |-> [j \in 1..(i - 1) |-> s[j].next], archive |-> s[i].archive]

\* Every frame is at a place the request r asks for.
Trail(r, w, s) ==
    \A i \in 1..Len(s) : i <= MaxContainerDepth /\ PlaceAt(w, s, i) \in Places(r)[i - 1]

\* No converter but the first has been tried, unless the archive has no other.
FirstTries(s, l) ==
    \A i \in 1..Len(s) :
        \/ s[i].attempt = 1
        \/ /\ i = Len(s) /\ l = "dispatch"
           /\ s[i].attempt > Len(Catalog[s[i].archive].converters)

TopMember(s) == Catalog[s[Len(s)].archive].members[s[Len(s)].next]
TopConverter(s) == Catalog[s[Len(s)].archive].converters[s[Len(s)].attempt]

\* Nothing has been refused, and what the next step needs to refuse nothing.
Served(w, s, l, o, b) ==
    /\ o # "limit"
    /\ l = "ingest" => ~TopMember(s).directory /\ TopConverter(s) = "zip"
    /\ l = "read" => TopMember(s).actual <= b
    /\ l \in {"leave", "returned"} /\ o \in {"unsupported", "failed"}
          => Len(Catalog[s[Len(s)].archive].converters) = 1

ServedBy(r, w) ==
    /\ Trail(r, w, stack[w])
    /\ FirstTries(stack[w], pc[w])
    /\ Served(w, stack[w], pc[w], outcome[w], bound[w])

\* The inductive invariant.
FitInv ==
    RequestFits(root) =>
        /\ \A w \in Walkers : ServedBy(root, w)
        /\ charged \subseteq Asked(root)

\* What a fitting request's walker meets.
LEMMA PlaceIsAsked ==
    ASSUME NEW r \in Requests, RequestFits(r), NEW w \in Walkers, NEW s, Trail(r, w, s),
           NEW i \in 1..Len(s)
    PROVE  /\ i - 1 \in 0..MaxContainerDepth
           /\ PlaceAt(w, s, i) \in AllPlaces(r)
           /\ WellBehaved(s[i].archive)
           /\ <<w, i>> \in Depths(r)
<1> DEFINE p == PlaceAt(w, s, i)
<1>1. MaxContainerDepth \in Nat
  BY LimitTypes
<1>2. i <= MaxContainerDepth /\ p \in Places(r)[i - 1]
  BY DEF Trail
<1>3. i - 1 \in 0..MaxContainerDepth
  BY <1>1, <1>2
<1>4. p \in AllPlaces(r)
  BY <1>2, <1>3 DEF AllPlaces
<1>5. /\ p.walker = w /\ p.archive = s[i].archive
  BY DEF PlaceAt
<1>6. Len(p.path) + 1 = i
  <2>1. Placed(p, i - 1)
    BY <1>2, <1>3, PlacesAreFinite
  <2> QED BY <2>1 DEF Placed
<1> HIDE DEF p
<1>7. <<w, i>> \in Depths(r)
  BY <1>4, <1>5, <1>6 DEF Depths
<1> QED BY <1>3, <1>4, <1>5, <1>7 DEF RequestFits, p

\* The admission of the member at hand is one the request asks for.
LEMMA BillIsAsked ==
    ASSUME WalkTypes, RequestFits(root), NEW w \in Walkers, pc[w] \in AtMember,
           ServedBy(root, w)
    PROVE  /\ [at |-> Position(w), bytes |-> IF Skipped(w) THEN 0 ELSE This(w).actual] \in Asked(root)
           /\ Honest(This(w), Converter(w))
<1> DEFINE s == stack[w]
           n == Len(s)
           a == s[n].archive
           i == s[n].next
           p == PlaceAt(w, s, n)
<1>1. /\ pc[w] # "done" /\ s \in Seq(Frame) /\ n \in Nat \ {0} /\ DOMAIN s = 1..n
      /\ a \in Archives /\ i \in Nat /\ i >= 1 /\ i <= Len(Catalog[a].members)
      /\ root \in Requests
  BY Innermost, StacksCount DEF AtMember, Here, Listing, WalkTypes
<1>2. p \in AllPlaces(root) /\ WellBehaved(a)
  <2>1. Trail(root, w, s) /\ n \in 1..Len(s)
    BY <1>1 DEF ServedBy
  <2> HIDE DEF s, n
  <2> QED BY <1>1, <2>1, PlaceIsAsked
<1>3. \A j \in 1..n : s[j].attempt = 1
  BY DEF ServedBy, FirstTries, AtMember
<1>4. i \in DOMAIN Catalog[a].members
  <2>1. Catalog[a].members \in Seq(Member)
    BY <1>1, Cataloged
  <2> QED BY <1>1, <2>1
<1>5. Converter(w) = Head(Catalog[a].converters)
  BY <1>1, <1>3 DEF Converter, Here
<1>6. This(w) = Catalog[a].members[i]
  BY DEF This, Listing, Here
<1>6a. i = s[n].next /\ \A j \in 1..n : s[j] \in Frame
  BY <1>1
<1>7. p.archive = a /\ p.walker = w /\ p.path = [j \in 1..(n - 1) |-> s[j].next]
  BY DEF PlaceAt
<1>8. Position(w) = [walker |-> w, path |-> [j \in 1..n |-> s[j].next],
                     attempt |-> [j \in 1..n |-> s[j].attempt]]
  BY <1>1 DEF Position
<1> HIDE DEF s, n, a, p, i
<1>9. Append(p.path, i) = [j \in 1..n |-> s[j].next] /\ Len(p.path) + 1 = n
  <2> DEFINE path == [j \in 1..(n - 1) |-> s[j].next]
  <2>1. \A j \in 1..n : s[j].next \in Nat
    BY <1>6a DEF Frame
  <2>2. path \in Seq(Nat) /\ Len(path) = n - 1
    <3>1. n - 1 \in Nat /\ \A j \in 1..(n - 1) : j \in 1..n
      BY <1>1
    <3> QED BY <2>1, <3>1
  <2>3. Append(path, i) = [j \in 1..n |-> s[j].next]
    <3>1. \A j \in 1..(n - 1) : path[j] = s[j].next
      OBVIOUS
    <3> HIDE DEF path
    <3>2. Append(path, i) \in Seq(Nat) /\ Len(Append(path, i)) = n
      BY <1>1, <2>2
    <3>3. DOMAIN Append(path, i) = 1..n
      BY <3>2
    <3>4. ASSUME NEW j \in 1..n PROVE Append(path, i)[j] = s[j].next
      <4>1. CASE j = n
        BY <1>1, <1>6a, <2>2, <4>1
      <4>2. CASE j # n
        <5>1. j \in 1..(n - 1)
          BY <1>1, <4>2
        <5>2. Append(path, i)[j] = path[j]
          BY <1>1, <2>2, <5>1
        <5> QED BY <3>1, <5>1, <5>2
      <4> QED BY <4>1, <4>2
    <3> DEFINE all == [j \in 1..n |-> s[j].next]
    <3>5. all \in Seq(Nat) /\ Len(all) = n /\ \A j \in 1..n : all[j] = s[j].next
      BY <1>1, <2>1
    <3> HIDE DEF all
    <3>6. Append(path, i) = all
      BY <3>2, <3>4, <3>5, SeqEqual
    <3> QED BY <3>6 DEF all
  <2> QED BY <1>1, <1>7, <2>2, <2>3
<1>10. [j \in 1..n |-> s[j].attempt] = [j \in 1..n |-> 1]
  BY <1>3 DEF n, s
<1>11. (IF Skipped(w) THEN 0 ELSE This(w).actual)
          = Size(Catalog[a].members[i], Head(Catalog[a].converters))
  BY <1>5, <1>6 DEF Skipped, Size
<1>12. Bill(p, i) = [at |-> Position(w), bytes |-> IF Skipped(w) THEN 0 ELSE This(w).actual]
  BY <1>7, <1>8, <1>9, <1>10, <1>11, Zenon DEF Bill
<1>13. Bill(p, i) \in Asked(root)
  BY <1>2, <1>4, <1>7 DEF Asked, BillsOf
<1>14. Honest(This(w), Converter(w))
  BY <1>2, <1>4, <1>5, <1>6, Zenon DEF WellBehaved
<1> QED BY <1>12, <1>13, <1>14

\* A member the walker has not got past is not charged.
LEMMA NotYetCharged ==
    ASSUME WalkTypes, ChargesInv, NEW w \in Walkers, pc[w] \in AtMember \ {"ingest"}
    PROVE  \A c \in charged : c.at # Position(w)
<1> DEFINE n == Len(stack[w])
           p == Position(w)
<1>1. /\ pc[w] # "done" /\ n \in Nat /\ Counts(stack[w], n) /\ Levels(p) = n
      /\ Agrees(p, stack[w], n) /\ p.walker = w
  BY StacksCount, PositionOf DEF AtMember
<1> HIDE DEF n, p
<1>2. \A i \in 1..n : ~ Earlier(p, stack[w], i)
  BY <1>1 DEF Agrees, Earlier, Counts
<1>3. ~ Past(p, stack[w], n, pc[w])
  BY <1>1, <1>2 DEF Past, Admitted, AtMember
<1> QED BY <1>1, <1>3 DEF n, p, ChargesInv

\* So there is room for it,
LEMMA RoomForThis ==
    ASSUME WalkInv, ChargesInv, RequestFits(root), NEW w \in Walkers,
           pc[w] \in AtMember \ {"ingest"}, ServedBy(root, w), charged \subseteq Asked(root)
    PROVE  /\ ledger.containerEntries + 1 <= MaxContainerEntries
           /\ ledger.expandedBytes + (IF Skipped(w) THEN 0 ELSE This(w).actual) <= MaxExpandedBytes
<1> DEFINE c == [at |-> Position(w), bytes |-> IF Skipped(w) THEN 0 ELSE This(w).actual]
           T == Asked(root)
<1>1. WalkTypes /\ root \in Requests
  BY DEF WalkInv, WalkTypes
<1>2. c \in T
  BY <1>1, BillIsAsked
<1>3. c \notin charged
  <2>1. c.at = Position(w)
    OBVIOUS
  <2> QED BY <1>1, <2>1, NotYetCharged
<1>4. Billed(T)
  BY <1>1, AskedIsBilled
<1>5. Cardinality(T) <= MaxContainerEntries /\ SumBilled(T) <= MaxExpandedBytes
  BY Zenon DEF RequestFits, SumBilled
<1>6. Cardinality(charged) + 1 <= Cardinality(T) /\ SumBilled(charged) + c.bytes <= SumBilled(T)
  BY <1>2, <1>3, <1>4, RoomForOneMore
<1>7. ledger.containerEntries = Cardinality(charged) /\ ledger.expandedBytes = SumBilled(charged)
  BY LedgerReads DEF ChargesInv
<1>8. ledger.containerEntries \in Nat /\ ledger.expandedBytes \in Nat /\ Cardinality(T) \in Nat
      /\ SumBilled(T) \in Nat /\ MaxContainerEntries \in Nat /\ MaxExpandedBytes \in Nat
  BY <1>4, LargerSumsMore, FS_CardinalityType, LimitTypes DEF WalkInv, Ledger, Billed
<1>9. c.bytes = (IF Skipped(w) THEN 0 ELSE This(w).actual) /\ c.bytes \in Nat
  BY <1>2, <1>4 DEF Billed
<1> HIDE DEF c, T
<1> QED BY <1>5, <1>6, <1>7, <1>8, <1>9

\* The member at hand is what its directory entry says, and fits alone.
LEMMA MemberIsHonest ==
    ASSUME WalkTypes, RequestFits(root), NEW w \in Walkers, pc[w] \in AtMember, ServedBy(root, w)
    PROVE  /\ This(w).declared = This(w).actual
           /\ Skipped(w) => This(w).actual = 0
           /\ This(w).actual \in Nat /\ This(w).compressed \in Nat
           /\ This(w).actual <= MaxContainerEntryBytes /\ This(w).actual <= MaxSourceBytes
           /\ ~ exceedsRatio(This(w).actual, This(w).compressed)
<1> DEFINE a == Here(w).archive
           i == Here(w).next
           m == This(w)
<1>1. /\ pc[w] # "done" /\ a \in Archives /\ i \in Nat /\ i >= 1 /\ i <= Len(Catalog[a].members)
      /\ m.declared \in Nat /\ m.compressed \in Nat /\ m.actual \in Nat
  BY Innermost DEF AtMember, Listing
<1>2. m = Catalog[a].members[i] /\ i \in DOMAIN Catalog[a].members
  <2>1. Catalog[a].members \in Seq(Member)
    BY <1>1, Cataloged
  <2> QED BY <1>1, <2>1 DEF This, Listing
<1>3. Honest(m, Converter(w))
  BY BillIsAsked
<1>4. /\ m.actual <= m.declared
      /\ m.directory => m.actual = 0
  BY <1>1, <1>2, ReaderAssumption
<1>5. MaxContainerEntryBytes \in Nat /\ MaxSourceBytes \in Nat
  BY LimitTypes
<1>6. Skipped(w) => m.directory
  BY DEF Skipped
<1> HIDE DEF m
<1>7. CASE m.declared = 0
  BY <1>1, <1>4, <1>5, <1>7 DEF exceedsRatio, m
<1>8. CASE m.declared # 0
  BY <1>1, <1>3, <1>4, <1>6, <1>8 DEF Honest, m
<1> QED BY <1>7, <1>8

\* The ratio's read limit is no lower than what the ratio admits.
LEMMA RatioLeavesRoom ==
    ASSUME NEW actual \in Nat, NEW compressed \in Nat, ~ exceedsRatio(actual, compressed)
    PROVE  expansionReadLimit(compressed) \in Nat /\ actual <= expansionReadLimit(compressed)
<1>1. RatioNum \in Nat /\ RatioDen \in Nat \ {0}
  BY ValidLimits
<1>2. actual * RatioDen <= compressed * RatioNum
  BY <1>1 DEF exceedsRatio
<1>3. compressed * RatioNum \in Nat /\ actual * RatioDen \in Nat
  BY <1>1
<1>4. \A x, y \in Nat : \A d \in Nat \ {0} : x * d <= y => x <= y \div d /\ y \div d \in Nat
  OBVIOUS
<1> QED BY <1>1, <1>2, <1>3, <1>4 DEF expansionReadLimit

-----------------------------------------------------------------------------
\* The n outermost frames are first tries.
Early(s, n) == \A i \in 1..n : s[i].attempt = 1

LEMMA EarlyFrames ==
    ASSUME NEW s, NEW l, Len(s) \in Nat, FirstTries(s, l)
    PROVE  /\ Early(s, Len(s) - 1)
           /\ l # "dispatch" => Early(s, Len(s))
BY DEF Early, FirstTries

\* A stack that loses its top or moves its top forward stays on the trail.
LEMMA TrailKept ==
    ASSUME NEW r, NEW w, NEW s, NEW t, Len(s) \in Nat, Len(t) \in Nat, Len(t) <= Len(s),
           \A i \in 1..Len(t) : t[i].archive = s[i].archive,
           \A i \in 1..(Len(t) - 1) : t[i].next = s[i].next,
           Trail(r, w, s)
    PROVE  Trail(r, w, t)
<1> SUFFICES ASSUME NEW i \in 1..Len(t)
             PROVE  i <= MaxContainerDepth /\ PlaceAt(w, t, i) \in Places(r)[i - 1]
  BY DEF Trail
<1>1. i \in 1..Len(s) /\ \A j \in 1..(i - 1) : j \in 1..(Len(t) - 1)
  OBVIOUS
<1>2. [j \in 1..(i - 1) |-> t[j].next] = [j \in 1..(i - 1) |-> s[j].next]
  BY <1>1
<1>3. PlaceAt(w, t, i) = PlaceAt(w, s, i)
  BY <1>2 DEF PlaceAt
<1> QED BY <1>1, <1>3 DEF Trail

LEMMA TopKeepsTrail ==
    ASSUME NEW r, NEW w, NEW s \in Seq(Frame), Len(s) \in Nat \ {0}, NEW f,
           f.archive = s[Len(s)].archive, Trail(r, w, s)
    PROVE  Trail(r, w, [s EXCEPT ![Len(s)] = f])
<1> DEFINE t == [s EXCEPT ![Len(s)] = f]
<1>1. \A i \in 1..Len(s) : t[i] = IF i = Len(s) THEN f ELSE s[i]
  OBVIOUS
<1>2. Len(t) = Len(s)
  OBVIOUS
<1> HIDE DEF t
<1>3. \A i \in 1..Len(t) : t[i].archive = s[i].archive
  BY <1>1, <1>2
<1>4. \A i \in 1..(Len(t) - 1) : t[i].next = s[i].next
  BY <1>1, <1>2
<1>5. Trail(r, w, t)
  BY <1>2, <1>3, <1>4, TrailKept
<1> QED BY <1>5 DEF t

\* Only the frame that replaces the innermost one can be another try.
LEMMA TopTries ==
    ASSUME NEW s \in Seq(Frame), Len(s) \in Nat \ {0}, NEW f, NEW l,
           Early(s, Len(s) - 1),
           f.attempt = 1 \/ (l = "dispatch" /\ f.attempt > Len(Catalog[f.archive].converters))
    PROVE  FirstTries([s EXCEPT ![Len(s)] = f], l)
<1> DEFINE t == [s EXCEPT ![Len(s)] = f]
<1>1. \A i \in 1..Len(s) : t[i] = IF i = Len(s) THEN f ELSE s[i]
  OBVIOUS
<1>2. Len(t) = Len(s)
  OBVIOUS
<1> HIDE DEF t
<1>3. \A i \in 1..(Len(s) - 1) : s[i].attempt = 1
  BY DEF Early
<1>4. FirstTries(t, l)
  BY <1>1, <1>2, <1>3 DEF FirstTries
<1> QED BY <1>4 DEF t

\* The request fits and every walker has been served so far.
Serving ==
    /\ WalkInv /\ ChargesInv
    /\ RequestFits(root)
    /\ \A w \in Walkers : ServedBy(root, w)
    /\ charged \subseteq Asked(root)

\* ServedBy(root, w)' of a step that leaves root alone.
Onwards(w) ==
    /\ Trail(root, w, stack'[w])
    /\ FirstTries(stack'[w], pc'[w])
    /\ Served(w, stack'[w], pc'[w], outcome'[w], bound'[w])

\* What the invariant says of a walker that is not done.
LEMMA WalkerHere ==
    ASSUME Serving, NEW w \in Walkers, pc[w] # "done"
    PROVE  /\ WalkTypes /\ root \in Requests
           /\ stack[w] \in Seq(Frame) /\ Len(stack[w]) \in Nat \ {0}
           /\ Trail(root, w, stack[w])
           /\ Early(stack[w], Len(stack[w]) - 1)
           /\ pc[w] # "dispatch" => Early(stack[w], Len(stack[w]))
           /\ pc[w] # "dispatch" => Here(w).attempt = 1
           /\ Here(w) \in Frame /\ Here(w).archive \in Archives
           /\ WellBehaved(Here(w).archive)
           /\ outcome[w] # "limit"
<1>1. WalkTypes /\ root \in Requests
  BY DEF Serving, WalkInv, WalkTypes
<1>2. stack[w] \in Seq(Frame) /\ Len(stack[w]) \in Nat \ {0}
  BY <1>1, StacksCount
<1>3. /\ Trail(root, w, stack[w]) /\ FirstTries(stack[w], pc[w]) /\ outcome[w] # "limit"
  BY DEF Serving, ServedBy, Served
<1>4. Early(stack[w], Len(stack[w]) - 1) /\ (pc[w] # "dispatch" => Early(stack[w], Len(stack[w])))
  BY <1>2, <1>3, EarlyFrames
<1>5. pc[w] # "dispatch" => Here(w).attempt = 1
  BY <1>2, <1>4 DEF Early, Here
<1>6. Here(w) \in Frame /\ Here(w).archive \in Archives
  BY <1>1, Innermost
<1>7. WellBehaved(Here(w).archive)
  <2>1. Len(stack[w]) \in 1..Len(stack[w])
    BY <1>2
  <2> QED BY <1>1, <1>3, <2>1, PlaceIsAsked DEF Serving, Here
<1> QED BY <1>1, <1>2, <1>3, <1>4, <1>5, <1>6, <1>7

\* The walker moves with its stack as it is,
LEMMA MoveServes ==
    ASSUME Serving, NEW w \in Walkers, pc[w] # "done", stack' = stack, NEW m \in Label,
           pc'[w] = m, Early(stack[w], Len(stack[w])),
           outcome'[w] # "limit",
           m = "ingest" => ~This(w).directory /\ Converter(w) = "zip",
           m = "read" => This(w).actual <= bound'[w],
           m \in {"leave", "returned"} /\ outcome'[w] \in {"unsupported", "failed"}
              => Len(Catalog[Here(w).archive].converters) = 1
    PROVE  Onwards(w)
<1>1. Trail(root, w, stack'[w])
  BY WalkerHere
<1>2. FirstTries(stack'[w], pc'[w])
  BY DEF FirstTries, Early
<1>3. TopMember(stack'[w]) = This(w) /\ TopConverter(stack'[w]) = Converter(w)
      /\ stack'[w][Len(stack'[w])] = Here(w)
  BY DEF TopMember, TopConverter, This, Converter, Here, Listing
<1> QED BY <1>1, <1>2, <1>3 DEF Onwards, Served

\* ... with its innermost frame replaced,
LEMMA ReplaceServes ==
    ASSUME Serving, NEW w \in Walkers, pc[w] # "done", NEW f, stack' = Replace(w, f),
           f.archive = Here(w).archive,
           pc'[w] \in {"entry", "snapshot", "returned", "dispatch"},
           f.attempt = 1 \/ (pc'[w] = "dispatch" /\ f.attempt > Len(Catalog[f.archive].converters)),
           outcome'[w] # "limit",
           pc'[w] = "returned" /\ outcome'[w] \in {"unsupported", "failed"}
              => Len(Catalog[f.archive].converters) = 1
    PROVE  Onwards(w)
<1>1. /\ WalkTypes /\ stack[w] \in Seq(Frame) /\ Len(stack[w]) \in Nat \ {0}
      /\ Trail(root, w, stack[w]) /\ Early(stack[w], Len(stack[w]) - 1)
  BY WalkerHere
<1>2. stack'[w] = [stack[w] EXCEPT ![Len(stack[w])] = f]
  BY <1>1 DEF Replace, WalkTypes
<1>3. Trail(root, w, stack'[w])
  BY <1>1, <1>2, TopKeepsTrail DEF Here
<1>4. FirstTries(stack'[w], pc'[w])
  BY <1>1, <1>2, TopTries
<1>5. stack'[w][Len(stack'[w])] = f
  BY <1>1, <1>2
<1>6. Served(w, stack'[w], pc'[w], outcome'[w], bound'[w])
  BY <1>5 DEF Served
<1> QED BY <1>3, <1>4, <1>6 DEF Onwards

\* ... and when its innermost dispatch is over.
LEMMA FinishServes ==
    ASSUME Serving, NEW w \in Walkers, pc[w] \in {"dispatch", "returned"},
           NEW o \in Outcome \ {"limit"}, Finish(w, o)
    PROVE  Onwards(w)
<1> DEFINE s == stack[w]
           n == Len(s)
<1>1. /\ WalkTypes /\ s \in Seq(Frame) /\ n \in Nat \ {0}
      /\ Trail(root, w, s) /\ Early(s, n - 1)
  BY WalkerHere
<1>2. \A t : stack' = [stack EXCEPT ![w] = t] => stack'[w] = t
  BY <1>1 DEF WalkTypes
<1>3. \A l : pc' = At(w, l) => pc'[w] = l
  BY <1>1 DEF WalkTypes, At
<1>4. \A x : outcome' = Result(w, x) => outcome'[w] = x
  BY <1>1 DEF WalkTypes, Result
<1>5. CASE n = 1
  <2>1. stack'[w] = <<>> /\ pc'[w] = "done" /\ outcome'[w] = o
    BY <1>2, <1>3, <1>4, <1>5 DEF Finish
  <2> QED BY <2>1 DEF Onwards, Trail, FirstTries, Served
<1>6. CASE n # 1 /\ o \in Terminal
  <2> DEFINE t == SubSeq(s, 1, n - 1)
  <2>1. stack'[w] = t /\ pc'[w] = "leave" /\ outcome'[w] = o
    BY <1>2, <1>3, <1>4, <1>6 DEF Finish
  <2> HIDE DEF s, n
  <2>2. Len(t) = n - 1 /\ \A i \in 1..(n - 1) : t[i] = s[i]
    BY <1>1, <1>6
  <2> HIDE DEF t
  <2>3. Trail(root, w, t)
    BY <1>1, <2>2, TrailKept DEF n
  <2>4. FirstTries(t, "leave")
    BY <1>1, <2>2 DEF FirstTries, Early
  <2>5. o # "limit" /\ o \notin {"unsupported", "failed"}
    BY <1>6 DEF Terminal
  <2> QED BY <2>1, <2>3, <2>4, <2>5 DEF Onwards, Served
<1>7. CASE n # 1 /\ o \notin Terminal
  <2> DEFINE t == Resumed(s)
  <2>1. stack'[w] = t /\ pc'[w] = "entry" /\ outcome'[w] = "none"
    BY <1>2, <1>3, <1>4, <1>7 DEF Finish, Resumed
  <2>2. /\ Len(t) = n - 1
        /\ \A i \in 1..(n - 2) : t[i] = s[i]
        /\ t[n - 1].archive = s[n - 1].archive /\ t[n - 1].attempt = s[n - 1].attempt
    <3> DEFINE below == SubSeq(s, 1, n - 2)
               outer == [s[n - 1] EXCEPT !.next = @ + 1]
    <3>1. n >= 2 /\ n - 2 \in Nat /\ n - 1 \in 1..n
      <4> HIDE DEF n
      <4> QED BY <1>1, <1>7
    <3>2. s[n - 1] \in Frame
      BY <1>1, <3>1
    <3>3. outer.archive = s[n - 1].archive /\ outer.attempt = s[n - 1].attempt
      BY <3>2 DEF Frame
    <3>3a. outer \in Frame
      <4> DEFINE f == s[n - 1]
                 next == f.next + 1
      <4>1. f \in Frame
        BY <3>2
      <4>2. next \in Nat
        BY <4>1 DEF Frame
      <4> HIDE DEF f, next
      <4>3. [f EXCEPT !.next = next] \in Frame
        BY <4>1, <4>2 DEF Frame
      <4> QED BY <4>3 DEF f, next
    <3>4. Len(below) = n - 2 /\ \A i \in 1..(n - 2) : below[i] = s[i]
      BY <1>1, <3>1
    <3>4a. below \in Seq(Frame)
      <4>1. 1 \in Int /\ n - 2 \in Int /\ \A i \in 1..(n - 2) : s[i] \in Frame
        BY <1>1, <3>1
      <4> HIDE DEF n, s
      <4> QED BY <1>1, <3>1, <4>1, SubSeqProperties
    <3>5. t = Append(below, outer)
      BY DEF Resumed
    <3> HIDE DEF below, outer, n, s, t
    <3>6. Len(t) = n - 1 /\ t[n - 1] = outer /\ \A i \in 1..(n - 2) : t[i] = below[i]
      BY <1>1, <3>1, <3>3a, <3>4, <3>4a, <3>5 DEF n, s
    <3> QED BY <3>3, <3>4, <3>6
  <2> HIDE DEF t, s
  <2>3. n >= 2
    <3> HIDE DEF n
    <3> QED BY <1>1, <1>7
  <2>4. \A i \in 1..(n - 1) : t[i].archive = s[i].archive /\ t[i].attempt = s[i].attempt
    <3> HIDE DEF n
    <3>1. \A i \in 1..(n - 1) : i \in 1..(n - 2) \/ i = n - 1
      BY <1>1, <2>3
    <3> QED BY <2>2, <3>1
  <2>5. Trail(root, w, t)
    <3>1. Len(t) \in Nat /\ Len(t) <= n /\ Len(t) = n - 1
      <4> HIDE DEF n
      <4> QED BY <1>1, <2>2, <2>3
    <3>2. \A i \in 1..(Len(t) - 1) : t[i].next = s[i].next
      <4> HIDE DEF n
      <4> QED BY <1>1, <2>2, <3>1
    <3> QED BY <1>1, <2>4, <3>1, <3>2, TrailKept
  <2>6. FirstTries(t, "entry")
    BY <1>1, <2>2, <2>4 DEF FirstTries, Early
  <2> QED BY <2>1, <2>5, <2>6 DEF Onwards, Served
<1> QED BY <1>5, <1>6, <1>7

\* The same for the three ways a converter function goes on.
LEMMA ConcludeServes ==
    ASSUME Serving, NEW w \in Walkers, pc[w] \in Inside, NEW o, o # "limit",
           o \in {"unsupported", "failed"} => Len(Catalog[Here(w).archive].converters) = 1,
           Conclude(w, o)
    PROVE  Onwards(w)
<1>1. WalkTypes /\ pc[w] # "done" /\ Early(stack[w], Len(stack[w]))
  BY WalkerHere DEF Inside
<1>2. stack' = stack /\ pc'[w] = "leave" /\ outcome'[w] = o
  BY <1>1 DEF Conclude, At, Result, WalkTypes
<1> QED BY <1>1, <1>2, MoveServes DEF Label

LEMMA ProceedServes ==
    ASSUME Serving, NEW w \in Walkers, pc[w] \notin {"done", "leave", "returned"},
           Early(stack[w], Len(stack[w])),
           NEW m \in Label \ {"leave", "returned", "read"}, Proceed(w, m),
           m = "ingest" => ~This(w).directory /\ Converter(w) = "zip"
    PROVE  Onwards(w)
<1>1. WalkTypes /\ pc[w] # "done" /\ outcome[w] # "limit"
  BY WalkerHere
<1>2. stack' = stack /\ pc'[w] = m /\ outcome'[w] = outcome[w]
  BY <1>1 DEF Proceed, At, WalkTypes
<1> QED BY <1>1, <1>2, MoveServes

LEMMA ContinueServes ==
    ASSUME Serving, NEW w \in Walkers, pc[w] \in AtMember, Continue(w)
    PROVE  Onwards(w)
<1> DEFINE f == [Here(w) EXCEPT !.next = @ + 1]
<1>1. /\ WalkTypes /\ pc[w] # "done" /\ outcome[w] # "limit" /\ Here(w) \in Frame
      /\ Here(w).attempt = 1
  BY WalkerHere DEF AtMember
<1>2. f.archive = Here(w).archive /\ f.attempt = Here(w).attempt
  BY <1>1 DEF Frame
<1>3. stack' = Replace(w, f) /\ pc'[w] = "entry" /\ outcome'[w] = outcome[w]
  BY <1>1 DEF Continue, At, WalkTypes
<1> HIDE DEF f
<1> QED BY <1>1, <1>2, <1>3, ReplaceServes

\* One lemma per action: a converter is tried only while it is the first.
LEMMA DispatchServes ==
    ASSUME Serving, NEW w \in Walkers, Dispatch(w)
    PROVE  Onwards(w)
<1> DEFINE a == Catalog[Here(w).archive]
<1>1. pc[w] = "dispatch" /\ WalkTypes /\ stack[w] \in Seq(Frame) /\ Len(stack[w]) \in Nat \ {0}
      /\ outcome[w] # "limit"
  BY WalkerHere DEF Dispatch
<1>2. CASE Finish(w, "cancelled")
  BY <1>1, <1>2, FinishServes DEF Outcome, Terminal
<1>3. CASE Finish(w, IF Here(w).failed THEN "failed" ELSE "unsupported")
  BY <1>1, <1>3, FinishServes DEF Outcome, Terminal
<1>4. CASE Here(w).attempt <= Len(a.converters) /\ ~ Finish(w, "cancelled")
           /\ ~ Finish(w, IF Here(w).failed THEN "failed" ELSE "unsupported")
  <2>1. Early(stack[w], Len(stack[w]))
    <3>1. FirstTries(stack[w], pc[w])
      BY DEF Serving, ServedBy
    <3>2. Here(w).attempt \in Nat /\ Len(a.converters) \in Nat
      <4>1. Here(w).archive \in Archives /\ Here(w) \in Frame
        BY <1>1, WalkerHere
      <4>2. Catalog[Here(w).archive] \in Archive
        BY <4>1, CatalogAssumption
      <4>3. a.converters \in Seq(Kind)
        BY <4>2 DEF Archive
      <4> QED BY <4>1, <4>3 DEF Frame
    <3>3. Here(w).attempt = 1
      <4>1. Len(stack[w]) \in 1..Len(stack[w])
        BY <1>1
      <4> HIDE DEF a
      <4> QED BY <1>4, <3>1, <3>2, <4>1 DEF FirstTries, Here, a
    <3>4. Early(stack[w], Len(stack[w]) - 1)
      BY <1>1, WalkerHere
    <3> QED BY <1>1, <3>3, <3>4 DEF Early, Here
  <2>2. CASE Proceed(w, "enter")
    BY <1>1, <2>1, <2>2, ProceedServes DEF Label
  <2>3. CASE /\ outcome' = Result(w, IF Converter(w) = "package" THEN "integrity" ELSE "malformed")
             /\ pc' = At(w, "returned") /\ UNCHANGED <<stack, bound>>
    <3>1. stack' = stack /\ pc'[w] = "returned" /\ outcome'[w] \in {"integrity", "malformed"}
      BY <1>1, <2>3 DEF At, Result, WalkTypes
    <3> QED BY <1>1, <2>1, <3>1, MoveServes DEF Label
  <2> QED BY <1>4, <2>2, <2>3, Zenon DEF Dispatch
<1> QED BY <1>2, <1>3, <1>4, Zenon DEF Dispatch

\* The open containers are levels of places, and the one to be entered is
\* another: the depth is not used up.
LEMMA DepthIsLeft ==
    ASSUME Serving, NEW w \in Walkers, pc[w] = "enter"
    PROVE  ledger.containerDepth < MaxContainerDepth
<1> DEFINE n == Len(stack[w])
           T == Depths(root)
           O == OpenContainers
<1>1. /\ WalkInv /\ WalkTypes /\ root \in Requests /\ n \in Nat \ {0}
      /\ IsFiniteSet(O) /\ ledger.containerDepth = Cardinality(O)
  BY WalkerHere DEF Serving, WalkInv
<1>2. \A v \in Walkers : Fits(stack[v], pc[v]) /\ Trail(root, v, stack[v])
  BY <1>1 DEF WalkTypes, Serving, ServedBy
<1>3. \A x : x \in O <=> \E v \in Walkers : \E i \in 1..Held(v) : x = <<v, i>>
  <2>1. O = OpenIn(stack)
    BY DEF OpenIn, OpenContainers
  <2>2. \A v \in Walkers : Fits(stack[v], pc[v])
    BY <1>2
  <2> QED BY <2>1, <2>2, OpenIsHeld DEF Held
<1>4. O \subseteq T
  <2> SUFFICES ASSUME NEW v \in Walkers, NEW i \in 1..Held(v) PROVE <<v, i>> \in T
    BY <1>3
  <2>1. i \in 1..Len(stack[v])
    <3> DEFINE k == Len(stack[v])
    <3>1. k \in Nat /\ (pc[v] = "done" <=> k = 0)
      BY <1>2 DEF Fits
    <3>2. Held(v) = IF pc[v] \in Inside THEN k ELSE IF pc[v] = "done" THEN 0 ELSE k - 1
      BY DEF Held, Holds
    <3> HIDE DEF k
    <3>3. i \in 1..k
      BY <3>1, <3>2
    <3> QED BY <3>3 DEF k
  <2> QED BY <1>1, <1>2, <2>1, PlaceIsAsked DEF Serving
<1>5. <<w, n>> \in T
  <2>1. n \in 1..Len(stack[w])
    BY <1>1
  <2> QED BY <1>1, <1>2, <2>1, PlaceIsAsked DEF Serving
<1>6. <<w, n>> \notin O
  <2>1. Held(w) = n - 1
    BY DEF Held, Holds, Inside
  <2>2. n \notin 1..Held(w)
    <3> HIDE DEF n
    <3> QED BY <1>1, <2>1
  <2> HIDE DEF n
  <2> QED BY <1>3, <2>2
<1>7. IsFiniteSet(T) /\ Cardinality(T) <= MaxContainerDepth
  BY <1>1, DepthsAreFinite DEF Serving, RequestFits
<1> DEFINE R == O \cup {<<w, n>>}
<1>8. R \subseteq T
  BY <1>4, <1>5
<1>9. Cardinality(R) = Cardinality(O) + 1 /\ Cardinality(R) <= Cardinality(T)
  BY <1>1, <1>6, <1>7, <1>8, FS_AddElement, FS_Subset
<1>10. Cardinality(O) \in Nat /\ Cardinality(T) \in Nat /\ MaxContainerDepth \in Nat
  BY <1>1, <1>7, FS_CardinalityType, LimitTypes
<1> HIDE DEF O, T, R
<1> QED BY <1>1, <1>7, <1>9, <1>10

LEMMA EnterServes ==
    ASSUME Serving, NEW w \in Walkers, Enter(w)
    PROVE  Onwards(w)
<1> DEFINE f == [Here(w) EXCEPT !.open = TRUE]
<1>1. pc[w] = "enter"
  BY DEF Enter
<1>2. EnterContainer(ledger).err = "nil"
  <2>1. ledger.containerDepth \in Nat /\ MaxContainerDepth \in Nat
    BY LimitTypes DEF Serving, WalkInv, Ledger
  <2>2. ~ (ledger.containerDepth >= MaxContainerDepth)
    BY <1>1, <2>1, DepthIsLeft
  <2> QED BY <2>2 DEF EnterContainer, Accept
<1>3. WalkTypes /\ outcome[w] # "limit" /\ Here(w).attempt = 1 /\ Here(w) \in Frame
  BY <1>1, WalkerHere
<1>4. stack' = Replace(w, f) /\ pc'[w] = "entry" /\ outcome'[w] = outcome[w]
  BY <1>2, <1>3 DEF Enter, At, WalkTypes
<1>5. f.archive = Here(w).archive /\ f.attempt = 1
  BY <1>3 DEF Frame
<1> HIDE DEF f
<1> QED BY <1>1, <1>3, <1>4, <1>5, ReplaceServes

LEMMA EntryServes ==
    ASSUME Serving, NEW w \in Walkers, Entry(w)
    PROVE  Onwards(w)
<1> DEFINE a == Catalog[Here(w).archive]
           f == [Here(w) EXCEPT !.seen = @ \cup {This(w).name}]
           o == IF Converter(w) = "zip" THEN "ok" ELSE a.body
<1>1. pc[w] = "entry"
  BY DEF Entry
<1>2. /\ WalkTypes /\ outcome[w] # "limit" /\ Here(w).attempt = 1 /\ Here(w) \in Frame
      /\ Here(w).archive \in Archives /\ WellBehaved(Here(w).archive)
  BY <1>1, WalkerHere
<1>3. CASE Conclude(w, o)
  <2>1. a \in Archive
    BY <1>2, CatalogAssumption
  <2>2. a.body # "limit" /\ a.converters \in Seq(Kind)
    BY <2>1 DEF Archive
  <2>3. o # "limit"
    BY <2>2
  <2>4. Converter(w) = Head(a.converters)
    <3>1. a.converters # <<>>
      BY <1>2 DEF WellBehaved
    <3> QED BY <1>2, <2>2, <3>1 DEF Converter
  <2>5. o \in {"unsupported", "failed"} => Len(a.converters) = 1
    BY <1>2, <2>4 DEF WellBehaved
  <2> HIDE DEF o
  <2> QED BY <1>1, <1>3, <2>3, <2>5, ConcludeServes DEF Inside
<1>4. CASE Conclude(w, "cancelled") \/ Conclude(w, "integrity") \/ Conclude(w, "malformed")
  BY <1>1, <1>4, ConcludeServes DEF Inside
<1>5. CASE stack' = Replace(w, f) /\ pc' = At(w, "snapshot") /\ UNCHANGED <<bound, outcome>>
  <2>1. stack' = Replace(w, f) /\ pc'[w] = "snapshot" /\ outcome'[w] = outcome[w]
    BY <1>2, <1>5 DEF At, WalkTypes
  <2>2. f.archive = Here(w).archive /\ f.attempt = 1
    BY <1>2 DEF Frame
  <2> HIDE DEF f
  <2> QED BY <1>1, <1>2, <2>1, <2>2, ReplaceServes
<1> HIDE DEF o, f
<1> QED BY <1>3, <1>4, <1>5, Zenon DEF Entry, o, f

\* What the invariant says of a walker at a member.
LEMMA ServedMember ==
    ASSUME Serving, NEW w \in Walkers, pc[w] \in AtMember
    PROVE  /\ WalkTypes /\ pc[w] # "done" /\ pc[w] \in Inside /\ outcome[w] # "limit"
           /\ Early(stack[w], Len(stack[w]))
           /\ Here(w) \in Frame /\ Here(w).archive \in Archives /\ Here(w).attempt = 1
           /\ WellBehaved(Here(w).archive)
           /\ This(w).declared = This(w).actual
           /\ Skipped(w) => This(w).actual = 0
           /\ This(w).actual \in Nat /\ This(w).compressed \in Nat
           /\ This(w).actual <= MaxContainerEntryBytes /\ This(w).actual <= MaxSourceBytes
           /\ ~ exceedsRatio(This(w).actual, This(w).compressed)
           /\ pc[w] # "ingest" =>
                 /\ ledger.containerEntries + 1 <= MaxContainerEntries
                 /\ ledger.expandedBytes + This(w).actual <= MaxExpandedBytes
           /\ ledger.containerEntries \in Nat /\ ledger.expandedBytes \in Nat
           /\ ledger \in Ledger
<1>1. /\ WalkTypes /\ pc[w] # "done" /\ pc[w] \in Inside /\ outcome[w] # "limit"
      /\ Early(stack[w], Len(stack[w]))
      /\ Here(w) \in Frame /\ Here(w).archive \in Archives /\ Here(w).attempt = 1
      /\ WellBehaved(Here(w).archive)
  BY WalkerHere DEF AtMember, Inside
<1>2. /\ WalkInv /\ ChargesInv /\ RequestFits(root) /\ ServedBy(root, w)
      /\ charged \subseteq Asked(root)
  BY DEF Serving
<1>3. /\ This(w).declared = This(w).actual
      /\ Skipped(w) => This(w).actual = 0
      /\ This(w).actual \in Nat /\ This(w).compressed \in Nat
      /\ This(w).actual <= MaxContainerEntryBytes /\ This(w).actual <= MaxSourceBytes
      /\ ~ exceedsRatio(This(w).actual, This(w).compressed)
  BY <1>1, <1>2, MemberIsHonest
<1>4. (IF Skipped(w) THEN 0 ELSE This(w).actual) = This(w).actual
  BY <1>3
<1>5. pc[w] # "ingest" =>
        /\ ledger.containerEntries + 1 <= MaxContainerEntries
        /\ ledger.expandedBytes + This(w).actual <= MaxExpandedBytes
  BY <1>2, <1>4, RoomForThis
<1>6. ledger.containerEntries \in Nat /\ ledger.expandedBytes \in Nat /\ ledger \in Ledger
  BY <1>2 DEF WalkInv, Ledger
<1> QED BY <1>1, <1>3, <1>5, <1>6

LEMMA SnapshotServes ==
    ASSUME Serving, NEW w \in Walkers, Snapshot(w)
    PROVE  Onwards(w)
<1>1. pc[w] = "snapshot" /\ pc[w] \in AtMember
  BY DEF Snapshot, AtMember
<1>2. ~ (ledger.containerEntries >= MaxContainerEntries \/ This(w).declared > MaxContainerEntryBytes)
  <2>1. MaxContainerEntries \in Nat /\ MaxContainerEntryBytes \in Nat
    BY LimitTypes
  <2> QED BY <1>1, <2>1, ServedMember
<1>3. Proceed(w, "remaining")
  BY <1>2 DEF Snapshot
<1> QED BY <1>1, <1>3, ServedMember, ProceedServes DEF Label

LEMMA RemainingServes ==
    ASSUME Serving, NEW w \in Walkers, Remaining(w)
    PROVE  Onwards(w)
<1>1. pc[w] = "remaining" /\ pc[w] \in AtMember
  BY DEF Remaining, AtMember
<1>2. ~ (This(w).declared > RemainingExpandedBytes(ledger))
  <2>1. MaxExpandedBytes \in Nat
    BY LimitTypes
  <2> QED BY <1>1, <2>1, ServedMember DEF RemainingExpandedBytes
<1>3. Proceed(w, IF Skipped(w) THEN "admit" ELSE "bound")
  BY <1>2 DEF Remaining
<1> QED BY <1>1, <1>3, ServedMember, ProceedServes DEF Label

LEMMA BoundServes ==
    ASSUME Serving, NEW w \in Walkers, Bound(w)
    PROVE  Onwards(w)
<1> DEFINE rest == RemainingExpandedBytes(ledger)
           room == Lesser(MaxContainerEntryBytes, rest)
           cap == expansionReadLimit(This(w).compressed)
           size == This(w).actual
<1>1. pc[w] = "bound" /\ pc[w] \in AtMember /\ stack' = stack /\ outcome' = outcome
  BY DEF Bound, AtMember
<1>2. MaxExpandedBytes \in Nat /\ MaxContainerEntryBytes \in Nat
  BY LimitTypes
<1>3. /\ size \in Nat /\ size <= MaxContainerEntryBytes
      /\ ledger.expandedBytes \in Nat /\ ledger.expandedBytes + size <= MaxExpandedBytes
      /\ WalkTypes /\ outcome[w] # "limit" /\ Early(stack[w], Len(stack[w])) /\ pc[w] # "done"
  BY <1>1, ServedMember
<1>4. cap \in Nat /\ size <= cap
  BY <1>1, ServedMember, RatioLeavesRoom
<1>5. rest \in Int /\ size <= rest
  BY <1>2, <1>3 DEF RemainingExpandedBytes
<1>6. bound'[w] = (IF Converter(w) = "package" THEN Lesser(room, cap) ELSE room) /\ pc'[w] = "read"
  BY <1>3 DEF Bound, WalkTypes, At
<1> HIDE DEF rest, cap, size
<1>7. size <= bound'[w]
  BY <1>2, <1>3, <1>4, <1>5, <1>6 DEF Lesser
<1> QED BY <1>1, <1>3, <1>6, <1>7, MoveServes DEF Label, size

LEMMA ReadServes ==
    ASSUME Serving, NEW w \in Walkers, Read(w)
    PROVE  Onwards(w)
<1>1. pc[w] = "read" /\ pc[w] \in AtMember
  BY DEF Read, AtMember
<1>2. ~ (This(w).actual > bound[w])
  <2>1. This(w).actual <= bound[w]
    <3>1. TopMember(stack[w]) = This(w)
      BY DEF TopMember, This, Here, Listing
    <3> QED BY <1>1, <3>1 DEF Serving, ServedBy, Served
  <2>2. This(w).actual \in Nat /\ bound[w] \in Int
    BY <1>1, ServedMember DEF WalkTypes
  <2> QED BY <2>1, <2>2
<1>3. Conclude(w, "cancelled") \/ Conclude(w, "integrity") \/ Proceed(w, "admit")
  BY <1>2, Zenon DEF Read
<1>4. CASE Conclude(w, "cancelled") \/ Conclude(w, "integrity")
  BY <1>1, <1>4, ServedMember, ConcludeServes
<1>5. CASE Proceed(w, "admit")
  BY <1>1, <1>5, ServedMember, ProceedServes DEF Label
<1> QED BY <1>3, <1>4, <1>5

\* AdmitContainerEntry refuses nothing there is room for.
LEMMA EntryFits ==
    ASSUME NEW b \in Ledger, NEW n \in Nat, NEW compressed \in Nat,
           b.containerEntries + 1 <= MaxContainerEntries,
           b.expandedBytes + n <= MaxExpandedBytes,
           n <= MaxContainerEntryBytes, ~ exceedsRatio(n, compressed)
    PROVE  AdmitContainerEntry(b, n, compressed, n).err = "nil"
<1>1. /\ b.containerEntries \in Nat /\ b.expandedBytes \in Nat
      /\ MaxContainerEntries \in Nat /\ MaxExpandedBytes \in Nat /\ MaxContainerEntryBytes \in Nat
      /\ MaxInt64 \in Nat
  BY LimitTypes DEF Ledger
<1>2. MaxExpandedBytes <= MaxInt64
  BY ValidLimits
<1>3. checkedAdd(b.expandedBytes, n).ok /\ checkedAdd(b.expandedBytes, n).sum = b.expandedBytes + n
  BY <1>1, <1>2, CheckedAdd
<1>4. ~ ExceedsTotal(b.expandedBytes, n, MaxExpandedBytes)
  BY <1>1, <1>3 DEF ExceedsTotal
<1>5. ~ EntryExceeds(b, n, compressed, n)
  BY <1>1, <1>4 DEF EntryExceeds
<1> QED BY <1>5 DEF AdmitContainerEntry, Accept

LEMMA AdmitServes ==
    ASSUME Serving, NEW w \in Walkers, Admit(w)
    PROVE  Onwards(w) /\ charged' \subseteq Asked(root)
<1> DEFINE m == This(w)
           size == IF Skipped(w) THEN 0 ELSE m.actual
           call == AdmitContainerEntry(ledger, m.declared, m.compressed, size)
           bill == [at |-> Position(w), bytes |-> size]
<1>1. pc[w] = "admit" /\ pc[w] \in AtMember
  BY DEF Admit, AtMember
<1>2. /\ size = m.actual /\ m.declared = m.actual
      /\ m.actual \in Nat /\ m.compressed \in Nat /\ m.actual <= MaxContainerEntryBytes
      /\ ~ exceedsRatio(m.actual, m.compressed) /\ ledger \in Ledger
      /\ ledger.containerEntries + 1 <= MaxContainerEntries
      /\ ledger.expandedBytes + m.actual <= MaxExpandedBytes
  BY <1>1, ServedMember
<1>3. AdmitContainerEntry(ledger, m.actual, m.compressed, m.actual).err = "nil"
  <2> HIDE DEF m
  <2> QED BY <1>2, EntryFits
<1>4. call.err = "nil"
  <2> HIDE DEF m, size
  <2> QED BY <1>2, <1>3
<1>5. /\ charged' = charged \cup {bill}
      /\ \/ Proceed(w, "ingest") /\ Converter(w) = "zip" /\ ~ m.directory
         \/ Continue(w)
  BY <1>4 DEF Admit
<1>6. bill \in Asked(root)
  BY <1>1, BillIsAsked DEF Serving, WalkInv
<1>7. charged' \subseteq Asked(root)
  <2> HIDE DEF bill
  <2> QED BY <1>5, <1>6 DEF Serving
<1>8. CASE Proceed(w, "ingest") /\ Converter(w) = "zip" /\ ~ m.directory
  BY <1>1, <1>7, <1>8, ServedMember, ProceedServes DEF Label
<1>9. CASE Continue(w)
  BY <1>1, <1>7, <1>9, ContinueServes
<1> QED BY <1>5, <1>8, <1>9

\* The archive a member holds is at a place one deeper; none lies as deep as
\* the depth limit, so the stack stays below it.
LEMMA PushServes ==
    ASSUME Serving, NEW w \in Walkers, pc[w] = "ingest", This(w).content \in Archives,
           stack' = [stack EXCEPT ![w] = Append(@, NewFrame(This(w).content))],
           pc'[w] = "dispatch", outcome'[w] = outcome[w]
    PROVE  Onwards(w)
<1> DEFINE s == stack[w]
           n == Len(s)
           f == NewFrame(This(w).content)
           t == Append(s, f)
           a == s[n].archive
           i == s[n].next
           p == PlaceAt(w, s, n)
           q == PlaceAt(w, t, n + 1)
<1>1. /\ WalkTypes /\ root \in Requests /\ s \in Seq(Frame) /\ n \in Nat \ {0}
      /\ Trail(root, w, s) /\ Early(s, n) /\ outcome[w] # "limit" /\ Here(w).attempt = 1
      /\ a \in Archives /\ WellBehaved(a)
  BY WalkerHere DEF Here
<1>2. ~ This(w).directory /\ Converter(w) = "zip"
  <2>1. TopMember(s) = This(w) /\ TopConverter(s) = Converter(w)
    BY DEF TopMember, TopConverter, This, Here, Listing, Converter
  <2> QED BY <2>1 DEF Serving, ServedBy, Served
<1>3. f \in Frame /\ f.archive = This(w).content /\ f.attempt = 1
  BY FreshFrame DEF NewFrame, Attempt
<1>4. stack'[w] = t
  BY <1>1 DEF WalkTypes
<1>5. This(w) = Catalog[a].members[i]
  BY DEF This, Listing, Here
<1>6. i \in NestedIn(a)
  <2>1. i \in DOMAIN Catalog[a].members
    <3>1. i \in Nat /\ i >= 1 /\ i <= Len(Catalog[a].members) /\ Catalog[a].members \in Seq(Member)
      BY <1>1, Innermost, Cataloged DEF AtMember, Here, Listing
    <3> HIDE DEF i, a
    <3> QED BY <3>1
  <2>2. Catalog[a].converters # <<>>
    BY <1>1 DEF WellBehaved
  <2>3. Catalog[a].converters \in Seq(Kind)
    BY <1>1, CatalogAssumption DEF Archive
  <2>4. Head(Catalog[a].converters) = "zip"
    BY <1>1, <1>2, <2>2, <2>3 DEF Converter, Here
  <2> QED BY <1>2, <1>5, <2>1, <2>2, <2>4 DEF NestedIn
<1>7. \A j \in 1..n : t[j] = s[j]
  BY <1>1, <1>3
<1>8. t[n + 1] = f /\ Len(t) = n + 1
  BY <1>1, <1>3
<1>9. p.walker = w /\ p.archive = a /\ p.path = [j \in 1..(n - 1) |-> s[j].next]
  BY DEF PlaceAt
<1>10. q = [walker |-> w, path |-> [j \in 1..n |-> t[j].next], archive |-> f.archive]
  <2>1. (n + 1) - 1 = n
    BY <1>1
  <2> QED BY <1>8, <2>1 DEF PlaceAt
<1>11. n <= MaxContainerDepth /\ p \in Places(root)[n - 1]
  <2>1. n \in 1..Len(s)
    BY <1>1
  <2> QED BY <1>1, <2>1 DEF Trail
<1>12. \A j \in 1..n : s[j].next \in Nat
  <2>1. \A j \in 1..n : s[j] \in Frame
    BY <1>1
  <2> QED BY <2>1 DEF Frame
<1> HIDE DEF s, t, f, a, p, q, n
<1>13. [j \in 1..n |-> t[j].next] = Append(p.path, i)
  <2> DEFINE path == [j \in 1..(n - 1) |-> s[j].next]
             all == [j \in 1..n |-> s[j].next]
  <2>1. path \in Seq(Nat) /\ Len(path) = n - 1
    <3>1. n - 1 \in Nat /\ \A j \in 1..(n - 1) : j \in 1..n
      BY <1>1
    <3> QED BY <1>12, <3>1
  <2>2. all \in Seq(Nat) /\ Len(all) = n /\ \A j \in 1..n : all[j] = s[j].next
    BY <1>1, <1>12
  <2>3. \A j \in 1..(n - 1) : path[j] = s[j].next
    OBVIOUS
  <2>4. i \in Nat
    BY <1>1, <1>12
  <2>5. all = [j \in 1..n |-> t[j].next]
    BY <1>7
  <2> HIDE DEF path, all, i
  <2>6. Append(path, i) \in Seq(Nat) /\ Len(Append(path, i)) = n
    BY <1>1, <2>1, <2>4
  <2>7. ASSUME NEW j \in 1..n PROVE Append(path, i)[j] = all[j]
    <3>1. CASE j = n
      BY <1>1, <2>1, <2>2, <2>4, <3>1 DEF i
    <3>2. CASE j # n
      <4>1. j \in 1..(n - 1)
        BY <1>1, <3>2
      <4>2. Append(path, i)[j] = path[j]
        BY <1>1, <2>1, <2>4, <4>1
      <4> QED BY <2>2, <2>3, <4>1, <4>2
    <3> QED BY <3>1, <3>2
  <2>8. Append(path, i) = all
    BY <2>2, <2>6, <2>7, SeqEqual
  <2> QED BY <1>9, <2>5, <2>8 DEF path
<1>14. q \in PlacesIn(p)
  <2>1. f.archive = Catalog[p.archive].members[i].content
    BY <1>3, <1>5, <1>9
  <2>2. q = [walker |-> p.walker, path |-> Append(p.path, i),
             archive |-> Catalog[p.archive].members[i].content]
    BY <1>9, <1>10, <1>13, <2>1, Zenon
  <2>3. i \in NestedIn(p.archive)
    BY <1>6, <1>9
  <2> QED BY <2>2, <2>3 DEF PlacesIn
<1>15. n \in 1..MaxContainerDepth /\ MaxContainerDepth \in Nat
  BY <1>1, <1>11, LimitTypes
<1>16. q \in Places(root)[n]
  <2>1. Places(root)[n] = UNION {PlacesIn(x) : x \in Places(root)[n - 1]}
    BY <1>1, <1>15, PlacesByDepth
  <2> QED BY <1>11, <1>14, <2>1
<1>17. n + 1 <= MaxContainerDepth
  <2>1. n # MaxContainerDepth
    BY <1>16 DEF Serving, RequestFits
  <2> QED BY <1>1, <1>15, <2>1
<1>18. Trail(root, w, t)
  <2> SUFFICES ASSUME NEW k \in 1..(n + 1)
               PROVE  k <= MaxContainerDepth /\ PlaceAt(w, t, k) \in Places(root)[k - 1]
    BY <1>8 DEF Trail
  <2>1. CASE k = n + 1
    <3>1. (n + 1) - 1 = n
      BY <1>1
    <3> QED BY <1>16, <1>17, <2>1, <3>1 DEF q
  <2>2. CASE k # n + 1
    <3>1. k \in 1..n /\ \A j \in 1..(k - 1) : j \in 1..n
      BY <1>1, <2>2
    <3>2. [j \in 1..(k - 1) |-> t[j].next] = [j \in 1..(k - 1) |-> s[j].next]
      BY <1>7, <3>1
    <3>3. PlaceAt(w, t, k) = PlaceAt(w, s, k)
      BY <1>7, <3>1, <3>2 DEF PlaceAt
    <3> QED BY <1>1, <3>1, <3>3 DEF Trail, n
  <2> QED BY <2>1, <2>2
<1>19. FirstTries(t, "dispatch")
  <2>1. \A j \in 1..(n + 1) : j \in 1..n \/ j = n + 1
    BY <1>1
  <2> QED BY <1>1, <1>3, <1>7, <1>8, <2>1 DEF FirstTries, Early
<1> QED BY <1>1, <1>4, <1>18, <1>19 DEF Onwards, Served

LEMMA IngestServes ==
    ASSUME Serving, NEW w \in Walkers, Ingest(w)
    PROVE  Onwards(w)
<1> DEFINE m == This(w)
<1>1. pc[w] = "ingest" /\ pc[w] \in AtMember
  BY DEF Ingest, AtMember
<1>2. ~ (m.actual > MaxSourceBytes)
  <2>1. MaxSourceBytes \in Nat
    BY LimitTypes
  <2> QED BY <1>1, <2>1, ServedMember
<1>3. \/ Conclude(w, "cancelled") \/ Conclude(w, "malformed")
      \/ Continue(w)
      \/ /\ m.content \in Archives
         /\ stack' = [stack EXCEPT ![w] = Append(@, NewFrame(m.content))]
         /\ pc' = At(w, "dispatch") /\ outcome' = outcome
  BY <1>2, Zenon DEF Ingest
<1>4. CASE Conclude(w, "cancelled") \/ Conclude(w, "malformed")
  BY <1>1, <1>4, ServedMember, ConcludeServes
<1>5. CASE Continue(w)
  BY <1>1, <1>5, ContinueServes
<1>6. CASE /\ m.content \in Archives
           /\ stack' = [stack EXCEPT ![w] = Append(@, NewFrame(m.content))]
           /\ pc' = At(w, "dispatch") /\ outcome' = outcome
  <2>1. pc'[w] = "dispatch" /\ outcome'[w] = outcome[w]
    BY <1>1, <1>6, ServedMember DEF At, WalkTypes
  <2> QED BY <1>1, <1>6, <2>1, PushServes
<1> QED BY <1>3, <1>4, <1>5, <1>6

LEMMA LeaveServes ==
    ASSUME Serving, NEW w \in Walkers, Leave(w)
    PROVE  Onwards(w)
<1> DEFINE f == [Here(w) EXCEPT !.open = FALSE]
<1>1. pc[w] = "leave"
  BY DEF Leave
<1>2. WalkTypes /\ outcome[w] # "limit" /\ Here(w) \in Frame /\ Here(w).attempt = 1
  BY <1>1, WalkerHere
<1>3. LeaveContainer(ledger).err = "nil"
  BY <1>1, LeaveSucceeds DEF Serving
<1>4. stack' = Replace(w, f) /\ pc'[w] = "returned" /\ outcome'[w] = outcome[w]
  BY <1>2, <1>3 DEF Leave, At, WalkTypes
<1>5. f.archive = Here(w).archive /\ f.attempt = 1
  BY <1>2 DEF Frame
<1>6. outcome[w] \in {"unsupported", "failed"} => Len(Catalog[Here(w).archive].converters) = 1
  BY <1>1 DEF Serving, ServedBy, Served, Here
<1> HIDE DEF f
<1> QED BY <1>1, <1>2, <1>4, <1>5, <1>6, ReplaceServes

LEMMA ReturnedServes ==
    ASSUME Serving, NEW w \in Walkers, Returned(w)
    PROVE  Onwards(w)
<1> DEFINE h == Here(w)
           f == Attempt(h.archive, h.attempt + 1, h.failed \/ outcome[w] = "failed")
<1>1. pc[w] = "returned"
  BY DEF Returned
<1>2. /\ WalkTypes /\ outcome[w] \in Outcome \ {"limit"} /\ h \in Frame /\ h.attempt = 1
  BY <1>1, WalkerHere DEF WalkTypes
<1>3. CASE Finish(w, "cancelled")
  BY <1>1, <1>3, FinishServes DEF Outcome, Terminal
<1>4. CASE Finish(w, outcome[w])
  BY <1>1, <1>2, <1>4, FinishServes
<1>5. CASE /\ outcome[w] \in {"unsupported", "failed"}
           /\ stack' = Replace(w, f) /\ pc' = At(w, "dispatch") /\ outcome' = Result(w, "none")
  <2>1. pc'[w] = "dispatch" /\ outcome'[w] = "none"
    BY <1>2, <1>5 DEF At, Result, WalkTypes
  <2>2. Len(Catalog[h.archive].converters) = 1
    BY <1>1, <1>5 DEF Serving, ServedBy, Served, Here
  <2>3. f.archive = h.archive /\ f.attempt = 2
    BY <1>2 DEF Attempt
  <2> HIDE DEF f
  <2>4. f.attempt > Len(Catalog[f.archive].converters)
    <3>1. Len(Catalog[f.archive].converters) = 1
      BY <2>2, <2>3, Zenon
    <3> QED BY <2>3, <3>1
  <2> QED BY <1>1, <1>5, <2>1, <2>3, <2>4, ReplaceServes
<1> QED BY <1>3, <1>4, <1>5, Zenon DEF Returned

-----------------------------------------------------------------------------
LEMMA StepServes ==
    ASSUME Serving, NEW w \in Walkers, Step(w)
    PROVE  Onwards(w) /\ charged' \subseteq Asked(root)
<1>1. ASSUME ~ Admit(w)
      PROVE  charged' = charged
  BY <1>1 DEF Step, Dispatch, Enter, Entry, Snapshot, Remaining, Bound, Read, Ingest, Leave, Returned
<1>2. CASE Admit(w)
  BY <1>2, AdmitServes
<1>3. CASE ~ Admit(w)
  <2>1. charged' \subseteq Asked(root)
    BY <1>1, <1>3 DEF Serving
  <2>2. Onwards(w)
    BY <1>3, DispatchServes, EnterServes, EntryServes, SnapshotServes, RemainingServes, BoundServes,
       ReadServes, IngestServes, LeaveServes, ReturnedServes DEF Step
  <2> QED BY <2>1, <2>2
<1> QED BY <1>2, <1>3

\* A step of w leaves the other walkers' results and read bounds alone.
LEMMA OthersKeep ==
    ASSUME WalkTypes, NEW w \in Walkers, Step(w)
    PROVE  \A v \in Walkers \ {w} : outcome'[v] = outcome[v] /\ bound'[v] = bound[v]
<1>1. \A o : outcome' = Result(w, o) => \A v \in Walkers \ {w} : outcome'[v] = outcome[v]
  BY DEF Result, WalkTypes
<1>2. \A o : Finish(w, o) => \E x : outcome' = Result(w, x)
  BY DEF Finish
<1>3. outcome' = outcome \/ \E x : outcome' = Result(w, x)
  BY <1>2 DEF Step, Dispatch, Enter, Entry, Snapshot, Remaining, Bound, Read, Admit, Ingest, Leave,
     Returned, Conclude, Proceed, Continue
<1>4. bound' = bound \/ \E x : bound' = [bound EXCEPT ![w] = x]
  BY DEF Step, Dispatch, Enter, Entry, Snapshot, Remaining, Bound, Read, Admit, Ingest, Leave,
     Returned, Conclude, Proceed, Continue
<1>5. \A v \in Walkers \ {w} : bound'[v] = bound[v]
  BY <1>4 DEF WalkTypes
<1> QED BY <1>1, <1>3, <1>5

LEMMA FitInvInductive ==
    ASSUME WalkInv, ChargesInv, FitInv, [Next]_vars
    PROVE  FitInv'
<1>1. root' = root
  BY DEF Next, Cancel, Finished, Step, Dispatch, Enter, Entry, Snapshot, Remaining, Bound, Read,
         Admit, Ingest, Leave, Returned, vars
<1> SUFFICES ASSUME RequestFits(root)
             PROVE  /\ \A w \in Walkers : Onwards(w)
                    /\ charged' \subseteq Asked(root)
  BY <1>1, Zenon DEF FitInv, ServedBy, Onwards
<1>2. Serving
  BY DEF Serving, FitInv
<1>3. ASSUME NEW w \in Walkers, Step(w)
      PROVE  /\ \A v \in Walkers : Onwards(v)
             /\ charged' \subseteq Asked(root)
  <2>1. WalkTypes /\ Local(w)
    BY <1>3, AnyStepEffect DEF StepEffect, WalkInv
  <2>2. \A v \in Walkers \ {w} : stack'[v] = stack[v] /\ pc'[v] = pc[v]
    BY <2>1 DEF Local, WalkTypes
  <2>3. \A v \in Walkers \ {w} : outcome'[v] = outcome[v] /\ bound'[v] = bound[v]
    BY <1>3, <2>1, OthersKeep
  <2>4. \A v \in Walkers : ServedBy(root, v)
    BY <1>2 DEF Serving
  <2>5. ASSUME NEW v \in Walkers \ {w} PROVE Onwards(v)
    BY <2>2, <2>3, <2>4 DEF Onwards, ServedBy
  <2> QED BY <1>2, <1>3, <2>5, StepServes
<1>4. CASE UNCHANGED <<stack, pc, outcome, bound, charged>>
  BY <1>2, <1>4 DEF Onwards, ServedBy, Serving
<1> QED BY <1>3, <1>4 DEF Next, Cancel, Finished, vars

LEMMA FitInvInitially == Init => FitInv
<1> SUFFICES ASSUME Init, RequestFits(root)
             PROVE  /\ \A w \in Walkers : ServedBy(root, w)
                    /\ charged \subseteq Asked(root)
  BY DEF FitInv
<1>1. root \in Requests /\ charged = {}
  BY DEF Init
<1>2. MaxContainerDepth \in Nat
  BY LimitTypes
<1>3. ASSUME NEW w \in Walkers PROVE ServedBy(root, w)
  <2> DEFINE f == NewFrame(root[w])
             p == [walker |-> w, path |-> <<>>, archive |-> root[w]]
  <2>1. stack[w] = <<f>> /\ pc[w] = "dispatch" /\ outcome[w] = "none"
    BY DEF Init
  <2>2. f.archive = root[w] /\ f.attempt = 1
    BY DEF NewFrame, Attempt
  <2>3. p \in Places(root)[0]
    BY PlacesByDepth DEF Start
  <2> HIDE DEF f
  <2>4. PlaceAt(w, <<f>>, 1) = p
    <3>1. [j \in 1..(1 - 1) |-> <<f>>[j].next] = <<>>
      OBVIOUS
    <3>2. <<f>>[1] = f
      OBVIOUS
    <3> QED BY <2>2, <3>1, <3>2 DEF PlaceAt
  <2>5. 1 <= MaxContainerDepth
    BY <1>2, <2>3 DEF RequestFits
  <2>6. Trail(root, w, <<f>>)
    BY <2>3, <2>4, <2>5 DEF Trail
  <2>7. FirstTries(<<f>>, "dispatch")
    BY <2>2 DEF FirstTries
  <2>8. Served(w, <<f>>, "dispatch", "none", bound[w])
    BY DEF Served
  <2> QED BY <2>1, <2>6, <2>7, <2>8 DEF ServedBy
<1> QED BY <1>1, <1>3

(* A request whose walks ask for no more than the limits, exactly the      *)
(* limits included, is refused by none of them: no interleaving of walkers *)
(* on the shared ledger makes a preflight, a read bound, a depth check or  *)
(* an admission fail with a limit (budget.go:125-173, zip.go:150-226).     *)
THEOREM FittingIsServed == Spec => []FittingRequestNeverRefused
<1>1. FitInv => FittingRequestNeverRefused
  BY DEF FitInv, ServedBy, Served, FittingRequestNeverRefused
<1>2. Init => WalkInv /\ ChargesInv /\ FitInv
  BY WalkInvInitially, ChargesInvInitially, FitInvInitially
<1>3. (WalkInv /\ ChargesInv /\ FitInv) /\ [Next]_vars => (WalkInv /\ ChargesInv /\ FitInv)'
  BY WalkInvInductive, ChargesInvInductive, FitInvInductive
<1> QED BY <1>1, <1>2, <1>3, PTL DEF Spec
=============================================================================
