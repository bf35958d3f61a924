--------------------------- MODULE ContainerWalk ---------------------------
(***************************************************************************)
(* Container conversion on one shared request ledger.  Cooperating         *)
(* goroutines ("walkers") of one request each ingest an archive: dispatch  *)
(* tries the converters that accept it in priority order, a converter      *)
(* opens the container, checks, reads and admits its members one by one,   *)
(* and the ZIP converter hands every member back to Engine.Ingest, which   *)
(* may dispatch a nested archive before the outer one continues.           *)
(*                                                                         *)
(* One step is one checkpoint, one critical section of the budget's mutex  *)
(* or one bounded read, so that between a preflight and the admission it   *)
(* anticipates the other walkers may charge the same ledger and the caller *)
(* may cancel.                                                             *)
(***************************************************************************)
EXTENDS RequestBudget, FiniteSetsExt, Sequences

CONSTANTS
    Walkers,            \* goroutines that share one request's ledger
    Archives,           \* archive contents
    Catalog,            \* what is known of each archive
    Names,              \* member names, as collision keys
    UnsafeName,         \* a name or a file type the converters reject
    Requests            \* which archive each walker may be asked to ingest

(***************************************************************************)
(* converters : the container converters that accept the archive, in       *)
(*              dispatch order: "zip", "epub", or "package" for the OOXML  *)
(*              converters (docx, xlsx, pptx), which share ooxml.Open      *)
(* readable   : zip.NewReader accepts the bytes                            *)
(* body       : what the epub or OOXML converter makes of the members once *)
(*              it has read them                                           *)
(* members    : the central directory, in order                            *)
(***************************************************************************)
Kind == {"zip", "epub", "package"}
LeafContent == {"document", "blank", "unsupported", "failed", "malformed"}

Member == [name : Names \cup {UnsafeName}, directory : BOOLEAN,
           declared : Nat, compressed : Nat,
           actual : Nat,        \* bytes the member's reader delivers
           sound : BOOLEAN,     \* the reader ends in EOF, Close succeeds
           content : LeafContent \cup Archives]

Archive == [converters : Seq(Kind), readable : BOOLEAN,
            body : {"ok", "unsupported", "failed", "malformed", "integrity"},
            members : Seq(Member)]

\* A request starts finitely many goroutines.
ASSUME CatalogAssumption ==
    /\ Archives \cap LeafContent = {}
    /\ Catalog \in [Archives -> Archive]
    /\ Requests \subseteq [Walkers -> Archives]
    /\ IsFiniteSet(Walkers)

\* archive/zip's readers check the size: they deliver at most what the central
\* directory declares, end in EOF only after exactly that, and deliver nothing
\* of a directory, which is sound when it declares nothing.
ASSUME ReaderAssumption ==
    \A a \in Archives : \A i \in DOMAIN Catalog[a].members :
        LET m == Catalog[a].members[i]
        IN  /\ m.actual <= m.declared
            /\ m.sound => m.actual = m.declared
            /\ m.directory => m.actual = 0 /\ (m.sound <=> m.declared = 0)

VARIABLES
    ledger,             \* the shared RequestBudget
    cancelled,          \* ctx.Done() is closed
    root,               \* the archive each walker ingests
    stack,              \* the dispatches each walker is inside, innermost last
    pc,                 \* where the innermost one is
    bound,              \* the limit passed to ReadBounded
    outcome,            \* the result on its way up, and at last the walker's own
    charged             \* every admission made, for the properties only

vars == <<ledger, cancelled, root, stack, pc, bound, outcome, charged>>

\* One dispatchIngestion call and, while `open`, the converter's member loop.
Frame == [archive : Archives,
          attempt : Nat,        \* index of the converter being tried
          failed : BOOLEAN,     \* an earlier attempt failed
          open : BOOLEAN,       \* between EnterContainer and LeaveContainer
          next : Nat,           \* the member being handled
          seen : SUBSET (Names \cup {UnsafeName})]

Attempt(a, k, failed) == [archive |-> a, attempt |-> k, failed |-> failed,
                          open |-> FALSE, next |-> 1, seen |-> {}]

NewFrame(a) == Attempt(a, 1, FALSE)

Label == {"dispatch", "enter", "entry", "snapshot", "remaining", "bound",
          "read", "admit", "ingest", "leave", "returned", "done"}

\* terminalConverterError and terminalZIPMemberError accept the same classes.
Terminal == {"malformed", "limit", "integrity", "cancelled"}
Outcome == Terminal \cup {"none", "ok", "unsupported", "failed"}

Here(w)      == stack[w][Len(stack[w])]
Converter(w) == Catalog[Here(w).archive].converters[Here(w).attempt]
Listing(w)   == Catalog[Here(w).archive].members
This(w)      == Listing(w)[Here(w).next]

\* The walker's innermost frame replaced by f; the walker moved to label l.
Replace(w, f) == [stack EXCEPT ![w][Len(stack[w])] = f]
At(w, l)      == [pc EXCEPT ![w] = l]
Result(w, o)  == [outcome EXCEPT ![w] = o]

Lesser(x, y) == IF x < y THEN x ELSE y

-----------------------------------------------------------------------------
Init ==
    /\ ledger = ZeroLedger
    /\ cancelled = FALSE
    /\ root \in Requests
    /\ stack = [w \in Walkers |-> <<NewFrame(root[w])>>]
    /\ pc = [w \in Walkers |-> "dispatch"]
    /\ bound = [w \in Walkers |-> 0]
    /\ outcome = [w \in Walkers |-> "none"]
    /\ charged = {}

\* The caller cancels, or the deadline passes.
Cancel ==
    /\ ~cancelled
    /\ \E w \in Walkers : pc[w] # "done"
    /\ cancelled' = TRUE
    /\ UNCHANGED <<ledger, root, stack, pc, bound, outcome, charged>>

\* The converter function returns from inside the container: its deferred
\* LeaveContainer comes next.
Conclude(w, o) ==
    /\ outcome' = Result(w, o)
    /\ pc' = At(w, "leave")
    /\ UNCHANGED <<stack, bound>>

Proceed(w, l) ==
    /\ pc' = At(w, l)
    /\ UNCHANGED <<stack, bound, outcome>>

\* The loop's next iteration.
Continue(w) ==
    /\ stack' = Replace(w, [Here(w) EXCEPT !.next = @ + 1])
    /\ pc' = At(w, "entry")
    /\ UNCHANGED <<bound, outcome>>

\* Mutation: the ZIP loop reports a nested malformed archive as a warning.
Finish_malformedWarned(w, o) ==
    LET n == Len(stack[w])
        outer == stack[w][n - 1]
    IN  IF n = 1 \/ o \in Terminal \ {"malformed"}
        THEN /\ stack' = [stack EXCEPT ![w] = SubSeq(@, 1, n - 1)]
             /\ pc' = At(w, IF n = 1 THEN "done" ELSE "leave")
             /\ outcome' = Result(w, o)
        ELSE /\ stack' = [stack EXCEPT ![w] =
                              Append(SubSeq(@, 1, n - 2), [outer EXCEPT !.next = @ + 1])]
             /\ pc' = At(w, "entry")
             /\ outcome' = Result(w, "none")

\* dispatchIngestion returns o.  To the walker's caller it is the result; to
\* the ZIP loop around it, a part, a warning, or an error it must return.
Finish(w, o) ==
    LET n == Len(stack[w])
        outer == stack[w][n - 1]
    IN  IF n = 1
        THEN /\ stack' = [stack EXCEPT ![w] = <<>>]
             /\ pc' = At(w, "done")
             /\ outcome' = Result(w, o)
        ELSE IF o \in Terminal
        THEN /\ stack' = [stack EXCEPT ![w] = SubSeq(@, 1, n - 1)]
             /\ pc' = At(w, "leave")
             /\ outcome' = Result(w, o)
        ELSE /\ stack' = [stack EXCEPT ![w] =
                              Append(SubSeq(@, 1, n - 2), [outer EXCEPT !.next = @ + 1])]
             /\ pc' = At(w, "entry")
             /\ outcome' = Result(w, "none")

-----------------------------------------------------------------------------
\* The next converter is tried: Accept, reset, ReadBounded over the owned
\* source, zip.NewReader.  When none is left there may be no checkpoint any
\* more: a converter that declines the archive runs one, an accepting one has
\* run its own.
Dispatch(w) ==
    LET f == Here(w)
        a == Catalog[f.archive]
    IN  /\ pc[w] = "dispatch"
        /\ \/ cancelled /\ Finish(w, "cancelled") /\ UNCHANGED bound
           \/ /\ f.attempt > Len(a.converters)
              /\ Finish(w, IF f.failed THEN "failed" ELSE "unsupported")
              /\ UNCHANGED bound
           \/ /\ ~cancelled
              /\ f.attempt <= Len(a.converters)
              /\ IF a.readable THEN Proceed(w, "enter")
                 ELSE /\ outcome' = Result(w, IF Converter(w) = "package" THEN "integrity"
                                                                          ELSE "malformed")
                      /\ pc' = At(w, "returned")
                      /\ UNCHANGED <<stack, bound>>
        /\ UNCHANGED <<ledger, cancelled, root, charged>>

\* Mutation: a container that would be too deep waits for depth to be freed.
Enter_waits(w) ==
    LET call == EnterContainer(ledger)
    IN  /\ pc[w] = "enter"
        /\ call.err = "nil"
        /\ ledger' = call.ledger
        /\ stack' = Replace(w, [Here(w) EXCEPT !.open = TRUE])
        /\ pc' = At(w, "entry")
        /\ UNCHANGED <<cancelled, root, bound, outcome, charged>>

Enter(w) ==
    LET call == EnterContainer(ledger)
    IN  /\ pc[w] = "enter"
        /\ ledger' = call.ledger
        /\ IF call.err # "nil"
           THEN /\ outcome' = Result(w, call.err)
                /\ pc' = At(w, "returned")
                /\ UNCHANGED stack
           ELSE /\ stack' = Replace(w, [Here(w) EXCEPT !.open = TRUE])
                /\ pc' = At(w, "entry")
                /\ UNCHANGED outcome
        /\ UNCHANGED <<cancelled, root, bound, charged>>

\* The head of the member loop: checkpoint, name and type, name collision.
\* After the last member the epub and OOXML converters render what they read.
Entry(w) ==
    /\ pc[w] = "entry"
    /\ IF Here(w).next > Len(Listing(w))
       THEN Conclude(w, IF Converter(w) = "zip" THEN "ok" ELSE Catalog[Here(w).archive].body)
       ELSE IF cancelled THEN Conclude(w, "cancelled")
       ELSE IF This(w).name \in Here(w).seen \cup {UnsafeName}
       THEN Conclude(w, IF Converter(w) = "package" THEN "integrity" ELSE "malformed")
       ELSE /\ stack' = Replace(w, [Here(w) EXCEPT !.seen = @ \cup {This(w).name}])
            /\ pc' = At(w, "snapshot")
            /\ UNCHANGED <<bound, outcome>>
    /\ UNCHANGED <<ledger, cancelled, root, charged>>

\* Mutation: the preflight keeps one entry in reserve.
Snapshot_offByOne(w) ==
    /\ pc[w] = "snapshot"
    /\ IF \/ ledger.containerEntries + 1 >= MaxContainerEntries
          \/ This(w).declared > MaxContainerEntryBytes
       THEN Conclude(w, "limit")
       ELSE Proceed(w, "remaining")
    /\ UNCHANGED <<ledger, cancelled, root, charged>>

\* The preflight reads the ledger twice, under two acquisitions of the mutex.
Snapshot(w) ==
    /\ pc[w] = "snapshot"
    /\ IF \/ ledger.containerEntries >= MaxContainerEntries
          \/ This(w).declared > MaxContainerEntryBytes
       THEN Conclude(w, "limit")
       ELSE Proceed(w, "remaining")
    /\ UNCHANGED <<ledger, cancelled, root, charged>>

\* ooxml.Open reads its directory members as well.
Skipped(w) == This(w).directory /\ Converter(w) # "package"

Remaining(w) ==
    /\ pc[w] = "remaining"
    /\ IF This(w).declared > RemainingExpandedBytes(ledger) THEN Conclude(w, "limit")
       ELSE Proceed(w, IF Skipped(w) THEN "admit" ELSE "bound")
    /\ UNCHANGED <<ledger, cancelled, root, charged>>

expansionReadLimit(compressed) == (compressed * RatioNum) \div RatioDen

Bound(w) ==
    LET room == Lesser(MaxContainerEntryBytes, RemainingExpandedBytes(ledger))
    IN  /\ pc[w] = "bound"
        /\ bound' = [bound EXCEPT ![w] =
                        IF Converter(w) = "package"
                        THEN Lesser(room, expansionReadLimit(This(w).compressed))
                        ELSE room]
        /\ pc' = At(w, "read")
        /\ UNCHANGED <<ledger, cancelled, root, stack, outcome, charged>>

\* ReadBounded and Close.
Read(w) ==
    /\ pc[w] = "read"
    /\ IF cancelled THEN Conclude(w, "cancelled")
       ELSE IF This(w).actual > bound[w] THEN Conclude(w, "limit")
       ELSE IF ~This(w).sound THEN Conclude(w, "integrity")
       ELSE IF Converter(w) = "package" /\ This(w).actual # This(w).declared
       THEN Conclude(w, "integrity")
       ELSE Proceed(w, "admit")
    /\ UNCHANGED <<ledger, cancelled, root, charged>>

\* Which member of which attempt of which nested dispatch this is.
Position(w) == [walker  |-> w,
                path    |-> [i \in DOMAIN stack[w] |-> stack[w][i].next],
                attempt |-> [i \in DOMAIN stack[w] |-> stack[w][i].attempt]]

\* Mutation: the declared size is charged instead of the size read.
Admit_declared(w) ==
    LET m == This(w)
        size == IF Skipped(w) THEN 0 ELSE m.actual
        call == AdmitContainerEntry(ledger, m.declared, m.compressed, m.declared)
    IN  /\ pc[w] = "admit"
        /\ ledger' = call.ledger
        /\ IF call.err # "nil" THEN Conclude(w, call.err) /\ UNCHANGED charged
           ELSE /\ charged' = charged \cup {[at |-> Position(w), bytes |-> size]}
                /\ IF Converter(w) = "zip" /\ ~m.directory THEN Proceed(w, "ingest")
                   ELSE Continue(w)
        /\ UNCHANGED <<cancelled, root>>

Admit(w) ==
    LET m == This(w)
        size == IF Skipped(w) THEN 0 ELSE m.actual
        call == AdmitContainerEntry(ledger, m.declared, m.compressed, size)
    IN  /\ pc[w] = "admit"
        /\ ledger' = call.ledger
        /\ IF call.err # "nil" THEN Conclude(w, call.err) /\ UNCHANGED charged
           ELSE /\ charged' = charged \cup {[at |-> Position(w), bytes |-> size]}
                /\ IF Converter(w) = "zip" /\ ~m.directory THEN Proceed(w, "ingest")
                   ELSE Continue(w)
        /\ UNCHANGED <<cancelled, root>>

\* The ZIP converter ingests the member's bytes under the same context.
Ingest(w) ==
    LET m == This(w)
    IN  /\ pc[w] = "ingest"
        /\ IF cancelled THEN Conclude(w, "cancelled")
           ELSE IF m.actual > MaxSourceBytes THEN Conclude(w, "limit")
           ELSE IF m.content \in Archives
           THEN /\ stack' = [stack EXCEPT ![w] = Append(@, NewFrame(m.content))]
                /\ pc' = At(w, "dispatch")
                /\ UNCHANGED <<bound, outcome>>
           ELSE IF m.content = "malformed" THEN Conclude(w, "malformed")
           ELSE Continue(w)
        /\ UNCHANGED <<ledger, cancelled, root, charged>>

\* Mutation: a converter that fails does not leave its container.
Leave_onSuccess(w) ==
    /\ pc[w] = "leave"
    /\ ledger' = IF outcome[w] = "ok" THEN LeaveContainer(ledger).ledger ELSE ledger
    /\ stack' = Replace(w, [Here(w) EXCEPT !.open = FALSE])
    /\ pc' = At(w, "returned")
    /\ UNCHANGED <<cancelled, root, bound, outcome, charged>>

\* The deferred LeaveContainer; ooxml.Open drops its error.
Leave(w) ==
    LET call == LeaveContainer(ledger)
    IN  /\ pc[w] = "leave"
        /\ ledger' = call.ledger
        /\ stack' = Replace(w, [Here(w) EXCEPT !.open = FALSE])
        /\ outcome' = IF call.err # "nil" /\ outcome[w] = "ok" /\ Converter(w) # "package"
                      THEN Result(w, call.err) ELSE outcome
        /\ pc' = At(w, "returned")
        /\ UNCHANGED <<cancelled, root, bound, charged>>

\* Mutation: no checkpoint after the converter has run.
Returned_unchecked(w) ==
    LET f == Here(w)
    IN  /\ pc[w] = "returned"
        /\ IF outcome[w] \in {"unsupported", "failed"}
           THEN /\ stack' = Replace(w, Attempt(f.archive, f.attempt + 1,
                                              f.failed \/ outcome[w] = "failed"))
                /\ pc' = At(w, "dispatch")
                /\ outcome' = Result(w, "none")
           ELSE Finish(w, outcome[w])
        /\ UNCHANGED <<ledger, cancelled, root, bound, charged>>

\* dispatchIngestion takes the converter's result: the checkpoint after the
\* run (sealing repeats it), then fallback, failure or success.
Returned(w) ==
    LET f == Here(w)
    IN  /\ pc[w] = "returned"
        /\ IF cancelled THEN Finish(w, "cancelled")
           ELSE IF outcome[w] \in {"unsupported", "failed"}
           THEN /\ stack' = Replace(w, Attempt(f.archive, f.attempt + 1,
                                             f.failed \/ outcome[w] = "failed"))
                /\ pc' = At(w, "dispatch")
                /\ outcome' = Result(w, "none")
           ELSE Finish(w, outcome[w])
        /\ UNCHANGED <<ledger, cancelled, root, bound, charged>>

Step(w) == \/ Dispatch(w) \/ Enter(w) \/ Entry(w) \/ Snapshot(w) \/ Remaining(w)
           \/ Bound(w) \/ Read(w) \/ Admit(w) \/ Ingest(w) \/ Leave(w) \/ Returned(w)

\* All walkers have returned to their callers.
Finished ==
    /\ \A w \in Walkers : pc[w] = "done"
    /\ UNCHANGED vars

Next == Cancel \/ Finished \/ \E w \in Walkers : Step(w)

Spec == Init /\ [][Next]_vars

\* A goroutine that is not blocked keeps running; nothing makes a caller cancel.
FairSpec == Spec /\ \A w \in Walkers : WF_vars(Step(w))

-----------------------------------------------------------------------------
TypeOK ==
    /\ ledger \in Ledger
    /\ cancelled \in BOOLEAN
    /\ root \in Requests
    /\ stack \in [Walkers -> Seq(Frame)]
    /\ pc \in [Walkers -> Label]
    /\ bound \in [Walkers -> Int]
    /\ outcome \in [Walkers -> Outcome]

(* However the walkers interleave, the request stays within every limit.   *)
(* The preflight and the read bound are computed from a ledger that other  *)
(* walkers may have charged since; only the admission itself is decisive   *)
(* (budget.go:151-172, zip.go:214-226).                                    *)
LimitsHold == WithinLimits(ledger)

\* The containers open right now, as <<walker, nesting level>>.
OpenContainers ==
    UNION {{<<w, i>> : i \in {j \in DOMAIN stack[w] : stack[w][j].open}} : w \in Walkers}

(* The ledger's depth is the number of containers some converter has       *)
(* entered and not yet left, over all walkers and nesting levels and on    *)
(* every error path; so LeaveContainer never finds a zero depth and no     *)
(* conversion is thrown away by its own deferred call (zip.go:120-126).    *)
DepthCountsOpenContainers ==
    /\ ledger.containerDepth = Cardinality(OpenContainers)
    /\ \A w \in Walkers : pc[w] = "leave" => LeaveContainer(ledger).err = "nil"

(* No charge is lost and none is made twice for one admission: the two     *)
(* container counters are the number and the bytes of the admissions made  *)
(* by all walkers, refused and abandoned conversions included.             *)
LedgerIsSumOfCharges ==
    /\ ledger.containerEntries = Cardinality(charged)
    /\ ledger.expandedBytes = MapThenSumSet(LAMBDA c : c.bytes, charged)

(* What a terminal class says on its way up, the request returns: no       *)
(* enclosing archive turns a limit, integrity, malformed-input or          *)
(* cancellation failure of a member into a warning, a fallback or a        *)
(* success; at most a cancellation takes its place.                        *)
TerminalFailureSticks ==
    [][\A w \in Walkers :
          outcome[w] \in Terminal => outcome'[w] \in {outcome[w], "cancelled"}]_vars

(* A request whose context was cancelled before it returned does not       *)
(* return a conversion.                                                    *)
NoSuccessAfterCancel ==
    [][\A w \in Walkers :
          cancelled /\ pc[w] # "done" /\ pc'[w] = "done" => outcome'[w] # "ok"]_vars

(* Every walker returns to its caller, cancelled or not.                   *)
EveryWalkReturns == <>(\A w \in Walkers : pc[w] = "done")

-----------------------------------------------------------------------------
(* What the walks of the archives r by their first converters ask for.     *)
NestedIn(a) ==
    LET c == Catalog[a]
    IN  IF c.converters # <<>> /\ Head(c.converters) = "zip"
        THEN {i \in DOMAIN c.members : c.members[i].content \in Archives /\ ~c.members[i].directory}
        ELSE {}

\* The archives in the archive at place p, each with the members that lead to it.
PlacesIn(p) ==
    {[walker |-> p.walker, path |-> Append(p.path, i),
      archive |-> Catalog[p.archive].members[i].content] : i \in NestedIn(p.archive)}

\* The archives that lie n deep; the walkers' own lie at depth 0.
Places(r) ==
    LET at[n \in 0..MaxContainerDepth] ==
            IF n = 0 THEN {[walker |-> w, path |-> <<>>, archive |-> r[w]] : w \in Walkers}
            ELSE UNION {PlacesIn(p) : p \in at[n - 1]}
    IN  at

AllPlaces(r) == UNION {Places(r)[n] : n \in 0..MaxContainerDepth}

Size(m, kind) == IF m.directory /\ kind # "package" THEN 0 ELSE m.actual

\* The admission of the i-th member at place p.
Bill(p, i) ==
    LET a == Catalog[p.archive]
    IN  [at |-> [walker  |-> p.walker,
                 path    |-> Append(p.path, i),
                 attempt |-> [j \in 1..(Len(p.path) + 1) |-> 1]],
         bytes |-> Size(a.members[i], Head(a.converters))]

BillsOf(p) == {Bill(p, i) : i \in DOMAIN Catalog[p.archive].members}

Asked(r)  == UNION {BillsOf(p) : p \in AllPlaces(r)}
Depths(r) == {<<p.walker, Len(p.path) + 1>> : p \in AllPlaces(r)}

\* Honest members that each fit alone, converters that keep what they read.
Honest(m, kind) ==
    \/ m.directory /\ kind # "package" /\ m.declared = 0
    \/ /\ m.sound /\ m.declared = m.actual
       /\ m.actual <= MaxContainerEntryBytes
       /\ m.actual <= MaxSourceBytes
       /\ ~exceedsRatio(m.actual, m.compressed)

WellBehaved(a) ==
    LET c == Catalog[a]
    IN  /\ c.converters # <<>>
        /\ \/ Len(c.converters) = 1
           \/ Head(c.converters) = "zip"
           \/ c.body \in {"ok", "malformed", "integrity"}
        /\ \A i \in DOMAIN c.members : Honest(c.members[i], Head(c.converters))

RequestFits(r) ==
    /\ Places(r)[MaxContainerDepth] = {}
    /\ \A p \in AllPlaces(r) : WellBehaved(p.archive)
    /\ Cardinality(Depths(r)) <= MaxContainerDepth
    /\ Cardinality(Asked(r)) <= MaxContainerEntries
    /\ MapThenSumSet(LAMBDA c : c.bytes, Asked(r)) <= MaxExpandedBytes

(* Sharing the ledger refuses nobody without need: if what all walkers     *)
(* together ask for fits the limits exactly or better, no interleaving     *)
(* makes a preflight, a read bound, a depth check or an admission fail     *)
(* with a limit (spec.md SC-003: every boundary passes at the limit).      *)
FittingRequestNeverRefused ==
    (\E w \in Walkers : outcome[w] = "limit") => ~RequestFits(root)

-----------------------------------------------------------------------------
Meter == INSTANCE CappedMeter
            WITH Held <- {"depth"}, Cap <- LimitOf, used <- Reading(ledger)

(* The whole of container conversion implements the capped meter: whatever *)
(* archives it is given, the request's consumption only grows and stays    *)
(* under its caps, and only container depth is given back.                 *)
ImplementsMeter == Meter!Spec
=============================================================================
