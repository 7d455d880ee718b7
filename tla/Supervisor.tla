----------------------------- MODULE Supervisor -----------------------------
(***************************************************************************)
(* `shellflow systemd exec`: a child in a process group of its own, the    *)
(* wait for its readiness condition, READY=1, the watchdog thread that     *)
(* pings on the child's behalf, the signals that are passed on, and the    *)
(* end of all of them.                                                     *)
(***************************************************************************)
EXTENDS Integers, FiniteSets

CONSTANTS
  Conditions,  \* what --ready-port, --ready-url and --ready-file may declare
  Declared,    \* the sets of them a command line declares
  MaxFlips     \* bound: times a condition changes in the world

ASSUME SupervisorAssumption ==
  /\ Declared \subseteq SUBSET Conditions /\ MaxFlips \in Nat

VARIABLES
  ready,     \* the declared conditions
  stubborn,  \* the processes of the group that ignore SIGTERM
  at,        \* where the supervisor is
  child,     \* "none", "runs", "done" (exit 0), "failed", "killed"
  reaped,    \* its status was read
  helpers,   \* processes the child started run in its group
  holds,     \* the conditions that hold in the world
  probed,    \* those found to hold in this round
  overdue,   \* the budget, then the grace of the termination, is spent
  dog,       \* the watchdog thread: "none", "sleeps", "checks", "gone"
  stop,      \* its stop flag
  sent,      \* the supervisor has sent READY=1
  exit,      \* how it ends: "ok", "failed", "timeout", "usage", "killed"
  stopped,   \* systemctl stop: SIGTERM was sent to the supervisor
  flips

childVars == <<child, reaped, helpers>>
worldVars == <<ready, stubborn, holds, flips>>
dogVars == <<dog, stop>>
endVars == <<sent, exit>>
execVars == <<worldVars, childVars, dogVars, endVars, at, probed, overdue, stopped>>

Members == {"child", "helpers"}
Ended == {"done", "failed", "killed"}

-----------------------------------------------------------------------------
(* The child, its group and the world. *)

ChildExits ==
  /\ child = "runs" /\ \E how \in {"done", "failed"} : child' = how
  /\ UNCHANGED <<worldVars, reaped, helpers, dogVars, endVars, at, probed,
                 overdue, stopped>>
ChildForks ==
  /\ child = "runs" /\ ~helpers /\ helpers' = TRUE
  /\ UNCHANGED <<worldVars, child, reaped, dogVars, endVars, at, probed, overdue,
                 stopped>>
\* A port may be another process's, and a file of the last start may remain.
WorldFlips ==
  /\ flips < MaxFlips /\ flips' = flips + 1
  /\ \E c \in ready : holds' = IF c \in holds THEN holds \ {c} ELSE holds \union {c}
  /\ UNCHANGED <<ready, stubborn, childVars, dogVars, endVars, at, probed,
                 overdue, stopped>>

\* A signal to the leader alone, and one to the whole group.
ChildHit(fatal) ==
  child' = IF child = "runs" /\ (fatal \/ "child" \notin stubborn)
           THEN "killed" ELSE child
HelpersHit(fatal) ==
  helpers' = (helpers /\ ~fatal /\ "helpers" \in stubborn)

\* SIGTERM: passed on once the handler is there, the end of the supervisor
\* before.  A child that was already reaped is signalled by its old number.
Passed == at \notin {"start", "spawned", "over"}
\* Slip of Stop: the handler runs before the number of the child is stored.
StopSwallowed ==
  /\ at # "over" /\ ~stopped /\ stopped' = TRUE
  /\ UNCHANGED <<worldVars, childVars, dogVars, endVars, at, probed, overdue>>
Stop ==
  /\ at # "over" /\ ~stopped /\ stopped' = TRUE
  /\ IF Passed THEN ChildHit(FALSE) /\ UNCHANGED <<at, exit>>
     ELSE at' = "over" /\ exit' = "killed" /\ UNCHANGED child
  /\ UNCHANGED <<worldVars, reaped, helpers, dogVars, sent, probed, overdue>>

-----------------------------------------------------------------------------
(* exec *)

ExecGoes(to) == at' = to /\ UNCHANGED exit
EndsWith(code) == at' = "join" /\ exit' = code

Spawn ==
  /\ at = "start"
  /\ \/ child' = "runs" /\ ExecGoes("spawned")
     \/ UNCHANGED child /\ at' = "over" /\ exit' = "usage"
  /\ UNCHANGED <<worldVars, reaped, helpers, dogVars, sent, probed, overdue, stopped>>

\* CHILD_PID, install_signal_forwarding, WatchdogGuard::spawn.  Where the
\* handlers cannot be installed the supervisor ends and the child runs on.
SetUp ==
  /\ at = "spawned"
  /\ \/ ExecGoes("try") /\ dog' \in {"none", "sleeps"}
     \/ at' = "over" /\ exit' = "usage" /\ UNCHANGED dog
  /\ UNCHANGED <<worldVars, childVars, stop, sent, probed, overdue, stopped>>

\* try_wait: a child that exits before it is ready fails the unit.
TryWait ==
  /\ at = "try" /\ probed' = {}
  /\ IF child \in Ended THEN reaped' = TRUE /\ EndsWith("failed")
     ELSE UNCHANGED reaped /\ ExecGoes("probe")
  /\ UNCHANGED <<worldVars, child, helpers, dogVars, sent, overdue, stopped>>

\* Readiness::satisfied, one condition after the other; with none it says no.
Satisfied == probed = ready /\ ready # {}
Probe ==
  /\ at = "probe"
  /\ \E c \in ready \ probed : c \in holds /\ probed' = probed \union {c}
  /\ UNCHANGED <<worldVars, childVars, dogVars, endVars, at, overdue, stopped>>
ProbeFails ==
  /\ at = "probe" /\ ~Satisfied
  /\ ready = {} \/ \E c \in ready \ probed : c \notin holds
  /\ ExecGoes(IF overdue THEN "term" ELSE "try")
  /\ UNCHANGED <<worldVars, childVars, dogVars, sent, probed, overdue, stopped>>

SendReady ==
  /\ at = "probe" /\ Satisfied /\ ExecGoes("wait") /\ sent' = TRUE
  /\ UNCHANGED <<worldVars, childVars, dogVars, probed, overdue, stopped>>

CodeOf(c) == IF c = "done" THEN "ok" ELSE "failed"
Wait ==
  /\ at = "wait" /\ child \in Ended /\ reaped' = TRUE /\ EndsWith(CodeOf(child))
  /\ UNCHANGED <<worldVars, child, helpers, dogVars, sent, probed, overdue, stopped>>

\* terminate_supervised_child: SIGTERM to the group, the grace, SIGKILL.
Terminate ==
  /\ at = "term" /\ ExecGoes("grace") /\ overdue' = FALSE
  /\ ChildHit(FALSE) /\ HelpersHit(FALSE)
  /\ UNCHANGED <<worldVars, reaped, dogVars, sent, probed, stopped>>
GraceWait ==
  /\ at = "grace" /\ child \in Ended /\ reaped' = TRUE /\ EndsWith("timeout")
  /\ UNCHANGED <<worldVars, child, helpers, dogVars, sent, probed, overdue, stopped>>
\* Slip of KillGroup: the wait alone.
WaitOnly ==
  /\ at = "grace" /\ overdue /\ child \in Ended /\ EndsWith("timeout")
  /\ reaped' = TRUE
  /\ UNCHANGED <<worldVars, child, helpers, dogVars, sent, probed, overdue, stopped>>
KillGroup ==
  /\ at = "grace" /\ overdue /\ EndsWith("timeout")
  /\ ChildHit(TRUE) /\ HelpersHit(TRUE) /\ reaped' = TRUE
  /\ UNCHANGED <<worldVars, dogVars, sent, probed, overdue, stopped>>

TimePasses ==
  /\ at \in {"try", "probe", "grace"} /\ ~overdue /\ overdue' = TRUE
  /\ UNCHANGED <<worldVars, childVars, dogVars, endVars, at, probed, stopped>>

-----------------------------------------------------------------------------
(* The watchdog thread and its guard. *)

DogWakes ==
  /\ dog = "sleeps" /\ dog' = "checks"
  /\ UNCHANGED <<worldVars, childVars, stop, endVars, at, probed, overdue, stopped>>
DogPings ==
  /\ dog = "checks" /\ dog' = IF stop THEN "gone" ELSE "sleeps"
  /\ UNCHANGED <<worldVars, childVars, stop, endVars, at, probed, overdue, stopped>>

\* Slip of Dropped: the thread is told, and not waited for.
Detached == at = "join" /\ stop' = TRUE /\ at' = "over"
\* WatchdogGuard::drop: the flag, then the join.
Dropped == at = "join" /\ stop' = TRUE
           /\ at' = IF dog \in {"none", "gone"} THEN "over" ELSE "join"
DropGuard ==
  /\ Dropped
  /\ UNCHANGED <<worldVars, childVars, dog, endVars, probed, overdue, stopped>>

-----------------------------------------------------------------------------
ExecInit ==
  /\ ready \in Declared /\ stubborn \in SUBSET Members
  /\ at = "start" /\ child = "none" /\ reaped = FALSE /\ helpers = FALSE
  /\ holds \in SUBSET ready /\ probed = {} /\ overdue = FALSE
  /\ dog = "none" /\ stop = FALSE /\ sent = FALSE /\ exit = "none"
  /\ stopped = FALSE /\ flips = 0

Exec == \/ Spawn \/ SetUp \/ TryWait \/ Probe \/ ProbeFails \/ SendReady \/ Wait
        \/ Terminate \/ GraceWait \/ KillGroup \/ DropGuard
Dog == DogWakes \/ DogPings
ExecNext == \/ Exec \/ Dog \/ TimePasses \/ Stop
            \/ (at # "over" /\ (ChildExits \/ ChildForks \/ WorldFlips))
ExecSpec == ExecInit /\ [][ExecNext]_execVars

\* The supervisor, its thread and the clock go on.  The child owes nothing.
FairExecSpec ==
  ExecSpec /\ WF_execVars(Exec) /\ WF_execVars(Dog) /\ WF_execVars(TimePasses)

-----------------------------------------------------------------------------
(* Properties. *)

\* Every variable has its type.
ExecTypeOK ==
  /\ ready \in Declared /\ holds \subseteq ready /\ probed \subseteq ready
  /\ stubborn \subseteq Members
  /\ at \in {"start", "spawned", "try", "probe", "wait", "term", "grace", "join",
             "over"}
  /\ child \in {"none", "runs"} \union Ended
  /\ dog \in {"none", "sleeps", "checks", "gone"}
  /\ exit \in {"none", "ok", "failed", "timeout", "usage", "killed"}
  /\ {reaped, helpers, overdue, stop, sent, stopped} \subseteq BOOLEAN
  /\ flips \in 0..MaxFlips

\* When exec has returned its verdict on the child nothing of it is left: the
\* child was reaped and the thread that would keep its unit alive has ended
\* (the doc comments of WatchdogGuard and terminate_supervised_child).  That
\* the handlers could not be installed is no verdict.
NothingOutlivesIt ==
  at = "over" /\ exit \in {"ok", "failed", "timeout"}
    => reaped /\ child \in Ended /\ dog \in {"none", "gone"}

\* Neither a service that is never ready nor one that does not hear SIGTERM
\* holds the supervisor: it ends, or has become ready.
EndsOrServes == <>(at \in {"wait", "over"})

\* systemctl stop ends the supervisor of a child that hears SIGTERM.
StopEnds == (stopped /\ "child" \notin stubborn) ~> (at = "over")
=============================================================================
