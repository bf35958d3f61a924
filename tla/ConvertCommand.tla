--------------------------- MODULE ConvertCommand ---------------------------
(***************************************************************************)
(* `inkbite convert` (cmd/inkbite/main.go:61-204) around one conversion:   *)
(* with --timeout the conversion runs in a goroutine of its own, which     *)
(* hands its result to a channel while the command waits for that or for   *)
(* the deadline; then the Markdown goes to a file or to the standard       *)
(* output.  A library call is the conversion alone, under a context its    *)
(* caller may cancel.                                                      *)
(***************************************************************************)
EXTENDS SourceIntake

VARIABLES
    timeout,        \* --timeout: "none", "invalid" or "set"; "library"
    main,           \* where the command is
    worker,         \* the goroutine that converts, or the command itself
    done,           \* the channel, of capacity one
    received,       \* what runConversion returned
    sink,           \* how much of the Markdown has been written
    exit            \* the exit status

command == <<timeout, main, worker, done, received, sink, exit>>
vars == <<intake, cancelled, command>>

Nothing == "nothing"
Library == timeout = "library"

Init ==
    /\ IntakeInit
    /\ timeout \in {"none", "invalid", "set", "library"}
    \* The command line has a path, a URI or the standard input, and no flag for a name.
    /\ timeout # "library" => /\ call.kind \in {"path", "file", "data", "remote", "seeker"}
                              /\ call.hints.filename = None
    /\ main = IF Library THEN "none" ELSE "parse"
    /\ worker = IF Library THEN "running" ELSE "idle"
    /\ done = Nothing
    /\ received = Nothing
    /\ sink = "untouched"
    /\ exit = -1

-----------------------------------------------------------------------------
\* runConvert returns, and its deferred cancel ends the context.
Exit(code) ==
    /\ main' = "exited"
    /\ exit' = code
    /\ cancelled' = (cancelled \/ timeout = "set")

\* Flags and duration are parsed; runConversion starts the goroutine, or
\* converts where it is.
Parse ==
    /\ main = "parse"
    /\ IF timeout = "invalid" THEN Exit(1) /\ UNCHANGED worker
       ELSE /\ main' = IF timeout = "set" THEN "selecting" ELSE "converting"
            /\ worker' = "running"
            /\ UNCHANGED <<cancelled, exit>>
    /\ UNCHANGED <<intake, timeout, done, received, sink>>

\* The timer fires, or the library's caller cancels.
Expire ==
    /\ ~cancelled
    /\ Library \/ (timeout = "set" /\ main \in {"selecting", "writing"})
    /\ cancelled' = TRUE
    /\ UNCHANGED <<intake, command>>

Convert == worker = "running" /\ IntakeStep /\ UNCHANGED command

Ended == stage \in {"refused", "done"}

\* Mutation: the channel has no buffer, so the result is handed over in person.
Send_unbuffered ==
    /\ worker = "running" /\ Ended /\ main = "selecting"
    /\ done' = outcome
    /\ worker' = "gone"
    /\ UNCHANGED <<intake, cancelled, timeout, main, received, sink, exit>>

\* done <- conversionResult{...}
Send ==
    /\ worker = "running" /\ Ended /\ timeout = "set"
    /\ done' = outcome
    /\ worker' = "gone"
    /\ UNCHANGED <<intake, cancelled, timeout, main, received, sink, exit>>

\* Without a deadline the conversion returns to the command, or the caller.
Return ==
    /\ worker = "running" /\ Ended /\ timeout # "set"
    /\ received' = outcome
    /\ worker' = "gone"
    /\ main' = IF Library THEN "none" ELSE "writing"
    /\ UNCHANGED <<intake, cancelled, timeout, done, sink, exit>>

\* Mutation: the command waits for the conversion, which sees to the deadline.
Select_resultOnly ==
    /\ main = "selecting"
    /\ done # Nothing /\ received' = done
    /\ main' = "writing"
    /\ UNCHANGED <<intake, cancelled, timeout, worker, done, sink, exit>>

\* The select statement: when both cases are ready, either may be taken.
Select ==
    /\ main = "selecting"
    /\ \/ done # Nothing /\ received' = done
       \/ cancelled /\ received' = "deadline"
    /\ main' = "writing"
    /\ UNCHANGED <<intake, cancelled, timeout, worker, done, sink, exit>>

\* Mutation: whatever Markdown there is gets written before the error is looked at.
Write_first ==
    /\ main = "writing"
    /\ \/ sink' = "whole" /\ Exit(IF received = "ok" THEN 0 ELSE 1)
       \/ sink' \in {"untouched", "partial"} /\ Exit(1)
    /\ UNCHANGED <<intake, timeout, worker, done, received>>

\* An error is reported and nothing written.  os.WriteFile may fail to open
\* the file, or truncate it and fail later, and so may writing to the standard
\* output; a newline that cannot be added is not missed.
Write ==
    /\ main = "writing"
    /\ IF received # "ok" THEN Exit(1) /\ UNCHANGED sink
       ELSE \/ sink' = "whole" /\ Exit(0)
            \/ sink' \in {"untouched", "partial"} /\ Exit(1)
    /\ UNCHANGED <<intake, timeout, worker, done, received>>

\* The program ends when the command does; what a goroutine does after that can
\* be seen only where runConversion is called from elsewhere, as its test does.
\* A library call ends, and a source may never answer.
Rest ==
    /\ \/ main = "exited"
       \/ main \in {"none", "converting"} /\ (worker # "running" \/ stage = "read")
    /\ UNCHANGED vars

Main == Parse \/ Select \/ Write
Next == Main \/ Expire \/ Convert \/ Send \/ Return \/ Rest

Spec == Init /\ [][Next]_vars

\* The command and a goroutine with a result to deliver keep running, and the
\* timer of a command fires; nothing is assumed of a conversion, and nothing
\* makes a library's caller cancel.
FairSpec ==
    /\ Spec
    /\ WF_vars(Main) /\ WF_vars(Send)
    /\ WF_vars(timeout = "set" /\ Expire)

-----------------------------------------------------------------------------
(* The exit status and the output tell the same: 0 means that the whole    *)
(* Markdown of a source that was read whole and within its limit has been  *)
(* written; and an output is touched only when the conversion has          *)
(* succeeded, so that a failure, a timeout, or a result that comes too     *)
(* late leaves an earlier output as it was (main.go:151-176, 192-203).     *)
ExitTellsWhatWasWritten ==
    /\ main = "exited" => (exit = 0 <=> sink = "whole")
    /\ sink # "untouched" =>
          /\ received = "ok" /\ outcome = "ok"
          /\ call.stream.ending = "eof" /\ call.stream.size <= MaxSourceBytes

(* A command with a timeout ends, also when the source never answers, not  *)
(* even to being closed (main.go:192-203).                                 *)
TimedCommandReturns ==
    timeout \in {"set", "invalid"} ~> main = "exited"

(* A conversion that ends after its command has given up on it can leave   *)
(* its result behind and end too (main.go:192; spec.md NFR-007).           *)
AbandonedConversionEnds ==
    (timeout = "set" /\ worker = "running" /\ Ended) ~> worker = "gone"
=============================================================================
