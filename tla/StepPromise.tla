---------------------------- MODULE StepPromise ----------------------------
(***************************************************************************)
(* What one host promises the run it takes part in, whichever transport    *)
(* carries it: the steps come in plan order, each script begins at most    *)
(* once, a success is the exit code the script really had, and a step that *)
(* was given up (deadline, interrupt, lost transport) is the only one that *)
(* may still begin after its outcome was reported.                         *)
(*                                                                         *)
(* The code it abstracts: docs/muxy-transport.md section 6 as implemented  *)
(* by crates/shellflow-muxy/src/session.rs and executor/muxy.rs, and the   *)
(* step loop of executor/remote.rs.                                        *)
(***************************************************************************)
EXTENDS Naturals

CONSTANTS NumSteps, HasGuard, ContinueOnError

VARIABLES
  at,       \* the step the run is at
  over,     \* the run schedules no further step
  started,  \* the scripts that began to execute
  exit,     \* how a script that began has exited
  outcome   \* what was reported of each step

vars == <<at, over, started, exit, outcome>>

Steps == 1..NumSteps
Outcomes == {"Ok", "Skipped", "FailedScript", "FailedTransport", "TimedOut",
             "Cancelled"}
Reasons == {"Exited0", "Exited42", "ExitedN", "Signaled", "Ended",
            "ServerStopped", "Unrecognized"}
Failed(s) == outcome[s] \in {"FailedScript", "FailedTransport", "TimedOut"}
GivenUp(s) == outcome[s] \in {"FailedTransport", "TimedOut", "Cancelled"}

Init ==
  /\ at = 1 /\ over = FALSE
  /\ started = {}
  /\ exit = [s \in Steps |-> "none"]
  /\ outcome = [s \in Steps |-> "none"]

Start(s) ==
  /\ s \notin started
  /\ (s = at /\ outcome[s] = "none") \/ GivenUp(s)
  /\ started' = started \cup {s}
  /\ UNCHANGED <<at, over, exit, outcome>>

Exit(s, r) ==
  /\ s \in started /\ exit[s] = "none"
  /\ exit' = [exit EXCEPT ![s] = r]
  /\ UNCHANGED <<at, over, started, outcome>>

Report(o) ==
  /\ ~over /\ outcome[at] = "none"
  /\ o = "Ok" => exit[at] = "Exited0"
  /\ o = "Skipped" => at \in HasGuard /\ exit[at] = "Exited42"
  /\ outcome' = [outcome EXCEPT ![at] = o]
  /\ UNCHANGED <<at, over, started, exit>>

NextStep ==
  /\ ~over /\ outcome[at] # "none" /\ at < NumSteps
  /\ Failed(at) => ContinueOnError
  /\ at' = at + 1
  /\ UNCHANGED <<over, started, exit, outcome>>

End ==
  /\ ~over /\ outcome[at] # "none"
  /\ over' = TRUE
  /\ UNCHANGED <<at, started, exit, outcome>>

Next == \/ \E s \in Steps : Start(s) \/ \E r \in Reasons : Exit(s, r)
        \/ \E o \in Outcomes : Report(o)
        \/ NextStep \/ End

Spec == Init /\ [][Next]_vars
=============================================================================
