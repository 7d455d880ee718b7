---------------------------- MODULE RunScheduler ----------------------------
(***************************************************************************)
(* One run of a playbook: run_plan (bin/shellflow/src/main.rs), the step   *)
(* loop it spawns (execute_plan, executor/remote.rs), the fan-out of a     *)
(* step over its hosts under --parallel, the cooperative interrupt         *)
(* (executor/cancel.rs) and the removal of the staging directory           *)
(* (WorkdirGuard).                                                         *)
(*                                                                         *)
(* The step kinds differ in what their host task does about the interrupt  *)
(* and about a spent budget, so a kind is what a step is made of:          *)
(*   local      @local, and @remote under --local                          *)
(*   remote     @remote            copy      @copy                         *)
(*   localcopy  @copy under --local                                        *)
(*   command    the target verbs (@service, @install, @backup, ...)        *)
(*   wait       @wait_active and @reload                                   *)
(*   assert     the assertions     helper    @helper                       *)
(* A child process group is up exactly while its task is "running" or      *)
(* "closing" (terminated or exited, its output being drained).  Time is    *)
(* counted, in seconds, only while the operator waits for the teardown.    *)
(***************************************************************************)
EXTENDS Integers, Sequences, FiniteSets

CONSTANTS
  Hosts,            \* the targets a playbook names
  Controller,       \* the machine shellflow runs on
  Plans,            \* the playbooks: sequences of the selected steps
  Parallel,         \* --parallel; 0 is unlimited
  ContinueOnError,  \* --continue-on-error
  Faults,           \* which tasks may panic or fail to install
  TeardownBudget,   \* KILL_GRACE and the two DRAIN_GRACEs
  CleanupBudget,    \* the bound of one removal of the staging directory
  InterruptGrace    \* INTERRUPT_GRACE

Kinds == {"local", "remote", "copy", "localcopy", "command", "wait",
          "assert", "helper"}
OnController == {"local", "localcopy"}
Workers == Hosts \union {Controller}

\* bad: the step's target does not resolve, or one of its texts names an
\* unset variable; stage: it copies into the run's staging directory.
StepType == [kind : Kinds, hosts : SUBSET Workers,
             bad : {"no", "target", "unset"},
             stage : BOOLEAN, transfers : 1..2]

ASSUME SchedulerAssumption ==
  /\ Controller \notin Hosts /\ IsFiniteSet(Hosts)
  /\ Parallel \in Nat /\ ContinueOnError \in BOOLEAN
  /\ Faults \subseteq {"host", "executor", "handler"}
  /\ {TeardownBudget, CleanupBudget, InterruptGrace} \subseteq Nat
  /\ Plans \subseteq Seq(StepType)
  /\ \A p \in Plans : \A i \in DOMAIN p :
       /\ p[i].hosts = {Controller} <=> p[i].kind \in OnController
       /\ p[i].kind \notin OnController => p[i].hosts \subseteq Hosts
       /\ p[i].bad = "unset" =>
            p[i].kind \in {"copy", "localcopy", "command", "assert"}

VARIABLES
  plan,        \* the selected steps
  at,          \* the step the loop is at
  exec,        \* where the executor task is
  task,        \* the host task of each worker in the current fan-out
  pending,     \* the result a closing task is about to return
  moved,       \* the transfers of a copy a host has finished
  permits,     \* the free permits of the --parallel semaphore
  results,     \* the hosts collected so far, in completion order
  stats,       \* the results of the steps that were recorded (StepStats)
  failFast,    \* fail_fast_error
  firstError,  \* first_error
  staged,      \* the hosts that hold a staging directory
  touched,     \* WorkdirGuard.hosts
  swept,       \* the hosts whose staging directory a removal was tried on
  cancelled,   \* the watch channel of Cancel
  blocked,     \* the blocking threads at work: the batch of an assertion on
               \* its host, the build of the helper on the controller
  verdict,     \* the RunOutcome of the executor
  main,        \* where run_plan is: "exit" when it returned, "gone" when the
               \* process ended
  grace,       \* the seconds left of INTERRUPT_GRACE
  sweep,       \* the removal task of each host
  timer,       \* the seconds a closing or sweeping task may still take
  sweepFrom,   \* the grace left when the removal of the staging began
  exit,        \* the exit code
  tornDown     \* the claim of the interrupt banner

loopVars == <<at, stats, failFast, firstError>>
taskVars == <<task, pending, moved, permits, timer, blocked>>
stageVars == <<staged, touched, swept, sweep, sweepFrom>>
mainVars == <<main, grace, exit, tornDown>>
vars == <<plan, exec, loopVars, taskVars, results, stageVars, cancelled,
          verdict, mainVars>>

-----------------------------------------------------------------------------
(* Outcomes and errors. *)

NoError == "none"
RunErrors == {"Config", "Plan", "Transport", "Script", "Timeout"}
HostOutcomes == {"Ok", "Skipped", "Config", "Plan", "Transport", "Script",
                 "TimedOut", "Cancelled", "CopyError"}

\* A failed host is named by its RunError; "CopyError" is the Err a local
\* copy returns for every failure.
Result == [host : Workers \union {"unknown"}, outcome : HostOutcomes]

ErrorOf(outcome) ==
  CASE outcome \in {"Config", "Plan", "Transport", "Script"} -> outcome
    [] outcome = "TimedOut" -> "Timeout"
    [] OTHER -> NoError

Good(outcome) == outcome \in {"Ok", "Skipped"}

FailedAt(rs) == {i \in DOMAIN rs : ErrorOf(rs[i].outcome) # NoError}
\* Slip of FirstFailed: the last failure names the exit code.
LastFailed(rs) == CHOOSE i \in FailedAt(rs) : \A j \in FailedAt(rs) : j <= i
FirstFailed(rs) == CHOOSE i \in FailedAt(rs) : \A j \in FailedAt(rs) : i <= j
StepErrorIfFailed(rs) ==
  IF FailedAt(rs) = {} THEN NoError ELSE ErrorOf(rs[FirstFailed(rs)].outcome)

ExitCode(error) ==
  CASE error \in {"Config", "Plan"} -> 1
    [] error = "Transport" -> 3
    [] error = "Script" -> 4
    [] error = "Timeout" -> 5

-----------------------------------------------------------------------------
(* What the kinds make of a child. *)

\* The ways a child or its preparation ends by itself.
Natural(kind) ==
  CASE kind = "local" -> {"Ok", "Skipped", "Script", "Transport"}
    [] kind = "remote" -> {"Ok", "Skipped", "Script", "Transport", "Plan"}
    [] kind = "copy" -> {"Ok", "Transport", "Config"}
    [] kind = "localcopy" -> {"Ok", "CopyError"}
    [] kind = "command" -> {"Ok", "Script", "Transport", "TimedOut", "Plan"}
    [] kind = "wait" -> {"Ok", "Script", "Transport", "TimedOut"}
    [] kind = "assert" -> {"Ok", "Script", "Transport"}
    [] kind = "helper" -> {"Ok", "Transport"}

\* The budget of the step ran out on this host.  An assertion has the same
\* budget twice, in its task and in the watchdog of its batch.
Expired(kind) ==
  CASE kind \in {"local", "remote", "copy", "wait"} -> {"TimedOut"}
    [] kind \in {"command", "helper"} -> {"Transport"}
    [] kind = "assert" -> {"Script", "Transport"}
    [] kind = "localcopy" -> {"CopyError"}

\* The interrupt reached the running child.
Interrupted(kind) ==
  CASE kind = "helper" -> "Transport"
    [] kind = "localcopy" -> "CopyError"
    [] OTHER -> "Cancelled"

\* A batch and a helper transfer are killed outright, without a drain.
Drains(kind) == kind \notin {"assert", "helper"}

ObservesCancel(kind) == kind # "assert"
ChecksCancel(kind) == kind \in {"command", "wait", "assert", "helper"}

Step == plan[at]
Steps == DOMAIN plan
Slotted(kind) == kind \notin OnController /\ Parallel > 0
Live(h) == task[h] \in {"running", "closing"} \/ sweep[h] = "running"
AllDone == \A h \in Workers : task[h] \in {"none", "done"}
AllSwept == \A h \in Workers : sweep[h] \in {"none", "done"}

-----------------------------------------------------------------------------
Init ==
  /\ plan \in Plans
  /\ at = 1 /\ exec = "setup"
  /\ task = [h \in Workers |-> "none"]
  /\ pending = [h \in Workers |-> "Ok"]
  /\ moved = [h \in Workers |-> 0]
  /\ sweep = [h \in Workers |-> "none"]
  /\ timer = [h \in Workers |-> 0]
  /\ permits = Parallel
  /\ results = <<>> /\ stats = <<>>
  /\ failFast = NoError /\ firstError = NoError
  /\ staged = {} /\ touched = {} /\ swept = {}
  /\ sweepFrom = InterruptGrace /\ blocked = {}
  /\ cancelled = FALSE
  /\ verdict = "none"
  /\ main = "select" /\ grace = InterruptGrace
  /\ exit = -1 /\ tornDown = FALSE

-----------------------------------------------------------------------------
(* The step loop. *)

SetupRun ==
  /\ exec = "setup"
  /\ \/ exec' = "loop" /\ UNCHANGED verdict
     \/ exec' = "done" /\ verdict' = "Config"
  /\ UNCHANGED <<plan, loopVars, taskVars, results, stageVars, cancelled,
                 mainVars>>

MayStart == exec = "loop" /\ at \in Steps /\ failFast = NoError /\ ~cancelled

\* A plan failure is not recorded and stops the run, --continue-on-error or
\* not.
PlanFailure ==
  /\ MayStart
  /\ \/ Step.bad = "target"
     \/ Step.bad = "unset" /\ Step.kind \in {"copy", "localcopy", "command"}
  /\ failFast' = "Plan" /\ at' = at + 1
  /\ UNCHANGED <<plan, exec, stats, firstError, taskVars, results, stageVars,
                 cancelled, verdict, mainVars>>

\* Slip of Record: the loop goes on after a failed step.
RecordAndGoOn(rs, error) ==
  /\ stats' = Append(stats, rs)
  /\ firstError' = IF firstError = NoError THEN error ELSE firstError
  /\ at' = at + 1 /\ exec' = "loop" /\ UNCHANGED failFast

\* The step is over with these hosts and this error.
Record(rs, error) ==
  /\ stats' = Append(stats, rs)
  /\ firstError' = IF firstError = NoError THEN error ELSE firstError
  /\ failFast' = IF ContinueOnError THEN failFast ELSE error
  /\ at' = at + 1 /\ exec' = "loop"

Spawn ==
  /\ exec' = "fanout" /\ results' = <<>>
  /\ task' = [h \in Workers |-> IF h \in Step.hosts THEN "queued" ELSE task[h]]
  /\ moved' = [h \in Workers |-> 0]

StartStep ==
  /\ MayStart
  /\ Step.bad = "no" /\ Step.kind # "helper"
  /\ Spawn
  /\ UNCHANGED <<plan, loopVars, pending, permits, timer, blocked, stageVars,
                 cancelled, verdict, mainVars>>

\* The assertion's texts are interpolated by the step itself, as an error.
AssertUnset ==
  /\ MayStart
  /\ Step.bad = "unset" /\ Step.kind = "assert"
  /\ Record(<<>>, "Script")
  /\ UNCHANGED <<plan, taskVars, results, stageVars, cancelled, verdict,
                 mainVars>>

\* The helper is built on a blocking thread, before the fan-out.
StartBuild ==
  /\ MayStart
  /\ Step.bad = "no" /\ Step.kind = "helper"
  /\ exec' = "building" /\ blocked' = {Controller}
  /\ UNCHANGED <<plan, loopVars, task, pending, moved, permits, timer, results,
                 stageVars, cancelled, verdict, mainVars>>

HelperBuilt ==
  /\ exec = "building"
  /\ Spawn /\ blocked' = {}
  /\ UNCHANGED <<plan, loopVars, pending, permits, timer, stageVars,
                 cancelled, verdict, mainVars>>

HelperBuildFails ==
  /\ exec = "building"
  /\ Record(<<>>, "Script") /\ blocked' = {}
  /\ UNCHANGED <<plan, task, pending, moved, permits, timer, results,
                 stageVars, cancelled, verdict, mainVars>>

\* Slip of Settle: an interrupt does not wait for the hosts.
SettleOnCancel ==
  /\ exec = "fanout" /\ (AllDone \/ cancelled)
  /\ Record(results, StepErrorIfFailed(results))
  /\ UNCHANGED <<plan, taskVars, results, stageVars, cancelled, verdict,
                 mainVars>>

\* collect_hosts has every host.  A local copy that failed is an error of
\* the step, which is treated like a plan failure.
Settle ==
  /\ exec = "fanout" /\ AllDone
  /\ IF \E i \in DOMAIN results : results[i].outcome = "CopyError"
     THEN /\ failFast' = "Script" /\ at' = at + 1 /\ exec' = "loop"
          /\ UNCHANGED <<stats, firstError>>
     ELSE Record(results, StepErrorIfFailed(results))
  /\ UNCHANGED <<plan, taskVars, results, stageVars, cancelled, verdict,
                 mainVars>>

BreakLoop ==
  /\ exec = "loop"
  /\ at \notin Steps \/ failFast # NoError \/ cancelled
  /\ exec' = "leaving"
  /\ UNCHANGED <<plan, loopVars, taskVars, results, stageVars, cancelled,
                 verdict, mainVars>>

\* Slips of Conclude: the interrupt does not make the verdict; only a
\* success removes the staging directories.
LoopVerdict == IF failFast # NoError THEN failFast
               ELSE IF firstError # NoError THEN firstError ELSE "Success"
ConcludeDeaf ==
  /\ exec = "leaving"
  /\ verdict' = LoopVerdict
  /\ exec' = "cleanup" /\ sweepFrom' = grace
  /\ sweep' = [h \in Workers |-> IF h \in touched THEN "queued" ELSE "none"]
  /\ UNCHANGED <<plan, loopVars, taskVars, results, staged, touched, swept,
                 cancelled, mainVars>>
ConcludeOnSuccess ==
  /\ exec = "leaving"
  /\ verdict' = IF cancelled THEN "Interrupted" ELSE LoopVerdict
  /\ exec' = "cleanup" /\ sweepFrom' = grace
  /\ sweep' = [h \in Workers |-> IF h \in touched /\ verdict' = "Success"
                                 THEN "queued" ELSE "none"]
  /\ UNCHANGED <<plan, loopVars, taskVars, results, staged, touched, swept,
                 cancelled, mainVars>>

\* The verdict, and one removal task per host that received a copy.
Conclude ==
  /\ exec = "leaving"
  /\ verdict' = IF cancelled THEN "Interrupted" ELSE LoopVerdict
  /\ exec' = "cleanup" /\ sweepFrom' = grace
  /\ sweep' = [h \in Workers |-> IF h \in touched THEN "queued" ELSE "none"]
  /\ UNCHANGED <<plan, loopVars, taskVars, results, staged, touched, swept,
                 cancelled, mainVars>>

CleanupDone ==
  /\ exec = "cleanup" /\ AllSwept
  /\ exec' = "done"
  /\ UNCHANGED <<plan, loopVars, taskVars, results, stageVars, cancelled,
                 verdict, mainVars>>

-----------------------------------------------------------------------------
(* The host tasks of a fan-out. *)

Acquire(h) ==
  /\ exec = "fanout" /\ task[h] = "queued"
  /\ Slotted(Step.kind) => permits > 0
  /\ permits' = IF Slotted(Step.kind) THEN permits - 1 ELSE permits
  /\ task' = [task EXCEPT ![h] = "slotted"]
  /\ UNCHANGED <<plan, exec, loopVars, pending, blocked, moved, timer,
                 results, stageVars, cancelled, verdict, mainVars>>

\* The task of h returns; its permit is dropped.
Finish(h, result) ==
  /\ task' = [task EXCEPT ![h] = "done"]
  /\ results' = Append(results, result)
  /\ permits' = IF Slotted(Step.kind) THEN permits + 1 ELSE permits

Begin(h) ==
  /\ exec = "fanout" /\ task[h] = "slotted"
  /\ IF ChecksCancel(Step.kind) /\ cancelled
     THEN /\ Finish(h, [host |-> h, outcome |-> "Cancelled"])
          /\ UNCHANGED blocked
     ELSE /\ task' = [task EXCEPT ![h] = "running"]
          /\ blocked' = IF Step.kind = "assert" THEN blocked \union {h}
                                               ELSE blocked
          /\ UNCHANGED <<results, permits>>
  /\ UNCHANGED <<plan, exec, loopVars, pending, moved, timer, stageVars,
                 cancelled, verdict, mainVars>>

Working(h) == exec = "fanout" /\ task[h] = "running"

\* rsync and scp create the directory on the target before they transfer.
MakeStaging(h) ==
  /\ Working(h)
  /\ Step.kind = "copy" /\ Step.stage /\ h \notin staged
  /\ staged' = staged \union {h}
  /\ UNCHANGED <<plan, exec, loopVars, taskVars, results, touched, swept,
                 sweep, sweepFrom, cancelled, verdict, mainVars>>

Close(h, outcome) ==
  /\ task' = [task EXCEPT ![h] = "closing"]
  /\ pending' = [pending EXCEPT ![h] = outcome]
  /\ timer' = [timer EXCEPT ![h] =
                 IF Drains(Step.kind) THEN TeardownBudget ELSE 0]
  /\ blocked' = blocked \ {h}
  /\ UNCHANGED <<plan, exec, loopVars, moved, permits, results, stageVars,
                 cancelled, verdict, mainVars>>

ChildExits(h) ==
  /\ Working(h)
  /\ \E outcome \in Natural(Step.kind) :
       /\ outcome = "Ok" /\ Step.kind = "copy" /\ Step.stage => h \in staged
       /\ Close(h, outcome)

BudgetExpires(h) ==
  /\ Working(h)
  /\ \E outcome \in Expired(Step.kind) : Close(h, outcome)

CatchCancel(h) ==
  /\ Working(h) /\ cancelled /\ ObservesCancel(Step.kind)
  /\ Close(h, Interrupted(Step.kind))

MoreToMove(h) ==
  /\ Step.kind \in {"copy", "localcopy"}
  /\ pending[h] = "Ok" /\ moved[h] + 1 < Step.transfers

NextTransfer(h) ==
  /\ exec = "fanout" /\ task[h] = "closing" /\ MoreToMove(h)
  /\ moved' = [moved EXCEPT ![h] = @ + 1]
  /\ task' = [task EXCEPT ![h] = "running"]
  /\ UNCHANGED <<plan, exec, loopVars, pending, blocked, permits, timer,
                 results, stageVars, cancelled, verdict, mainVars>>

\* The child is reaped and its output drained.  Only a host whose transfers
\* all succeeded is entered in the guard.
Closed(h) ==
  /\ exec = "fanout" /\ task[h] = "closing" /\ ~MoreToMove(h)
  /\ Finish(h, [host |-> h, outcome |-> pending[h]])
  /\ touched' = IF Step.kind = "copy" /\ Step.stage /\ pending[h] = "Ok"
                THEN touched \union {h} ELSE touched
  /\ UNCHANGED <<plan, exec, loopVars, pending, blocked, moved, timer, staged,
                 swept, sweep, sweepFrom, cancelled, verdict, mainVars>>

\* A join error: the task unwound, its group guard killed the child.
HostPanics(h) ==
  /\ "host" \in Faults
  /\ Working(h) /\ Step.kind \notin OnController
  /\ Finish(h, [host |-> "unknown", outcome |-> "Transport"])
  /\ UNCHANGED <<plan, exec, loopVars, pending, blocked, moved, timer,
                 stageVars, cancelled, verdict, mainVars>>

-----------------------------------------------------------------------------
(* WorkdirGuard::cleanup: bounded, best effort, deaf to the interrupt. *)

\* Slip of AcquireSweep: the bound does not count the teardown of the ssh
\* it kills.
SweepOverdue(h) ==
  /\ exec = "cleanup" /\ sweep[h] = "queued"
  /\ Parallel > 0 => permits > 0
  /\ permits' = IF Parallel > 0 THEN permits - 1 ELSE permits
  /\ sweep' = [sweep EXCEPT ![h] = "running"]
  /\ timer' = [timer EXCEPT ![h] = CleanupBudget + TeardownBudget]
  /\ UNCHANGED <<plan, exec, loopVars, task, pending, blocked, moved, results,
                 staged, touched, swept, sweepFrom, cancelled, verdict,
                 mainVars>>

AcquireSweep(h) ==
  /\ exec = "cleanup" /\ sweep[h] = "queued"
  /\ Parallel > 0 => permits > 0
  /\ permits' = IF Parallel > 0 THEN permits - 1 ELSE permits
  /\ sweep' = [sweep EXCEPT ![h] = "running"]
  /\ timer' = [timer EXCEPT ![h] = CleanupBudget]
  /\ UNCHANGED <<plan, exec, loopVars, task, pending, blocked, moved, results,
                 staged, touched, swept, sweepFrom, cancelled, verdict,
                 mainVars>>

\* The removal succeeded, or it failed, or its ssh was killed at the bound.
SweepEnds(h) ==
  /\ exec = "cleanup" /\ sweep[h] = "running"
  /\ staged' \in {staged, staged \ {h}}
  /\ swept' = swept \union {h}
  /\ permits' = IF Parallel > 0 THEN permits + 1 ELSE permits
  /\ sweep' = [sweep EXCEPT ![h] = "done"]
  /\ UNCHANGED <<plan, exec, loopVars, task, pending, blocked, moved, timer,
                 results, touched, sweepFrom, cancelled, verdict,
                 mainVars>>

ExecutorPanics ==
  /\ "executor" \in Faults
  /\ exec \notin {"done", "dropped"}
  /\ exec' = "dropped" /\ verdict' = "panic"
  /\ UNCHANGED <<plan, loopVars, taskVars, results, stageVars, cancelled,
                 mainVars>>

-----------------------------------------------------------------------------
(* run_plan: the executor against the signal. *)

Signal ==
  /\ main = "select"
  /\ main' = "grace" /\ cancelled' = TRUE
  /\ UNCHANGED <<plan, exec, loopVars, taskVars, results, stageVars, verdict,
                 grace, exit, tornDown>>

HandlerFails ==
  /\ "handler" \in Faults
  /\ main = "select"
  /\ cancelled' = TRUE
  /\ exec' = "dropped"
  /\ main' = "exit" /\ exit' = ExitCode("Config")
  /\ UNCHANGED <<plan, loopVars, taskVars, results, stageVars, verdict, grace,
                 tornDown>>

\* The executor returned, in time if an interrupt is waiting for it: its
\* outcome is used as it is.
Report ==
  /\ main \in {"select", "grace"} /\ exec = "done"
  /\ main' = "exit"
  /\ exit' = CASE verdict = "Success" -> 0
               [] verdict = "Interrupted" -> 130
               [] OTHER -> ExitCode(verdict)
  /\ tornDown' = (verdict = "Interrupted")
  /\ UNCHANGED <<plan, exec, loopVars, taskVars, results, stageVars,
                 cancelled, verdict, grace>>

ReportPanic ==
  /\ main \in {"select", "grace"} /\ exec = "dropped"
  /\ main' = "exit"
  /\ exit' = IF main = "select" THEN ExitCode("Script") ELSE 130
  /\ UNCHANGED <<plan, exec, loopVars, taskVars, results, stageVars,
                 cancelled, verdict, grace, tornDown>>

\* Slips of GiveUp: the banner claims the teardown; the children are
\* waited for.
GiveUpClaiming ==
  /\ main = "grace" /\ grace = 0 /\ exec \notin {"done", "dropped"}
  /\ exec' = "dropped"
  /\ main' = "exit" /\ exit' = 130 /\ tornDown' = TRUE
  /\ UNCHANGED <<plan, loopVars, taskVars, results, stageVars, cancelled,
                 verdict, grace>>
GiveUpPatiently ==
  /\ main = "grace" /\ grace = 0 /\ exec \notin {"done", "dropped"}
  /\ \A h \in Workers : ~Live(h)
  /\ exec' = "dropped"
  /\ main' = "exit" /\ exit' = 130
  /\ UNCHANGED <<plan, loopVars, taskVars, results, stageVars, cancelled,
                 verdict, grace, tornDown>>

\* The grace period is over: the executor task is aborted where it is.
GiveUp ==
  /\ main = "grace" /\ grace = 0 /\ exec \notin {"done", "dropped"}
  /\ exec' = "dropped"
  /\ main' = "exit" /\ exit' = 130
  /\ UNCHANGED <<plan, loopVars, taskVars, results, stageVars, cancelled,
                 verdict, grace, tornDown>>

Winding(h) == task[h] = "closing" \/ sweep[h] = "running"

\* One second of the grace period: only while everything that could go on
\* is waiting for a child, a blocking thread or a permit.
Tick ==
  /\ main = "grace" /\ grace > 0
  /\ \/ exec = "building"
     \/ exec = "fanout" /\ ~AllDone
     \/ exec = "cleanup" /\ ~AllSwept
  /\ \A h \in Workers :
       /\ Winding(h) => timer[h] > 0
       /\ "queued" \in {task[h], sweep[h]} => Parallel > 0 /\ permits = 0
       /\ task[h] # "slotted"
       /\ task[h] = "running" => ~ObservesCancel(Step.kind)
  /\ grace' = grace - 1
  /\ timer' = [h \in Workers |->
                 IF Winding(h) THEN timer[h] - 1 ELSE timer[h]]
  /\ UNCHANGED <<plan, exec, loopVars, task, pending, blocked, moved, permits,
                 results, stageVars, cancelled, verdict, main, exit,
                 tornDown>>

\* A blocking thread nobody waits for any more ends.
ThreadEnds(w) ==
  /\ w \in blocked
  /\ exec = "dropped" \/ (exec # "building" /\ task[w] # "running")
  /\ blocked' = blocked \ {w}
  /\ UNCHANGED <<plan, exec, loopVars, task, pending, moved, permits, timer,
                 results, stageVars, cancelled, verdict, mainVars>>

\* main returned: the runtime shuts down, which waits for blocking threads.
Shutdown ==
  /\ main = "exit" /\ blocked = {}
  /\ main' = "gone"
  /\ UNCHANGED <<plan, exec, loopVars, taskVars, results, stageVars,
                 cancelled, verdict, grace, exit, tornDown>>

Ended == main = "gone" /\ UNCHANGED vars

Running == main \in {"select", "grace"}

\* What the run does by itself.
Loop == \/ SetupRun \/ PlanFailure \/ StartStep \/ AssertUnset \/ StartBuild
        \/ Settle \/ BreakLoop \/ Conclude \/ CleanupDone
HostTask(h) == \/ Acquire(h) \/ Begin(h) \/ NextTransfer(h) \/ Closed(h)
               \/ CatchCancel(h) \/ AcquireSweep(h) \/ SweepEnds(h)
\* What the children and the targets do.
World == \/ HelperBuilt \/ HelperBuildFails \/ ExecutorPanics
         \/ \E h \in Workers : \/ ChildExits(h) \/ BudgetExpires(h)
                               \/ MakeStaging(h) \/ HostPanics(h)
Main == \/ Signal \/ HandlerFails \/ Report \/ ReportPanic \/ GiveUp \/ Tick
        \/ Shutdown

Next ==
  \/ Running /\ (Loop \/ World \/ \E h \in Workers : HostTask(h))
  \/ Main
  \/ \E w \in Workers : ThreadEnds(w)
  \/ Ended

Spec == Init /\ [][Next]_vars

\* tokio polls every ready task; a child that was killed is reaped, a removal
\* is killed at its bound and the clock goes on; the watchdog of a batch ends
\* its thread.  No child is assumed to end by itself, no step to have a
\* budget, and no build of the helper to end.
FairSpec ==
  /\ Spec
  /\ WF_vars(Running /\ Loop)
  /\ \A h \in Workers : WF_vars(Running /\ HostTask(h))
  /\ WF_vars(Tick) /\ WF_vars(GiveUp) /\ WF_vars(Report)
  /\ WF_vars(ReportPanic) /\ WF_vars(Shutdown)
  /\ \A h \in Hosts : WF_vars(ThreadEnds(h))

-----------------------------------------------------------------------------
(* Properties. *)

TypeTasks ==
  /\ task \in [Workers -> {"none", "queued", "slotted", "running", "closing",
                           "done"}]
  /\ sweep \in [Workers -> {"none", "queued", "running", "done"}]
  /\ pending \in [Workers -> HostOutcomes]
  /\ moved \in [Workers -> 0..1]
  /\ timer \in [Workers -> Nat]
  /\ permits \in 0..Parallel
TypeLoop ==
  /\ plan \in Plans /\ at \in 1..(Len(plan) + 1)
  /\ exec \in {"setup", "loop", "building", "fanout", "leaving", "cleanup",
               "done", "dropped"}
  /\ results \in Seq(Result) /\ stats \in Seq(Seq(Result))
  /\ failFast \in RunErrors \union {NoError}
  /\ firstError \in RunErrors \union {NoError}
  /\ verdict \in RunErrors \union {"none", "Success", "Interrupted", "panic"}
TypeMain ==
  /\ staged \subseteq Hosts /\ touched \subseteq Hosts
  /\ swept \subseteq Hosts /\ sweepFrom \in Nat
  /\ cancelled \in BOOLEAN
  /\ blocked \subseteq Workers
  /\ main \in {"select", "grace", "exit", "gone"} /\ grace \in 0..InterruptGrace
  /\ exit \in {-1, 0, 1, 3, 4, 5, 130} /\ tornDown \in BOOLEAN

\* Every variable has its type.
TypeOK == TypeTasks /\ TypeLoop /\ TypeMain

\* Exit code 0 means that every selected step ran on every one of its hosts
\* and none failed, was cancelled or was left out: whatever stopped the loop
\* early also changed the verdict (execute_plan).
SuccessIsComplete ==
  exit = 0 =>
    /\ Len(stats) = Len(plan)
    /\ \A i \in Steps :
         /\ \A r \in DOMAIN stats[i] : Good(stats[i][r].outcome)
         /\ {stats[i][r].host : r \in DOMAIN stats[i]} = plan[i].hosts

\* The recorded results of the whole run, in the order they came in.
AllResults == UNION {{i} \X (DOMAIN stats[i]) : i \in DOMAIN stats}
Before(a, b) == a[1] < b[1] \/ (a[1] = b[1] /\ a[2] < b[2])
FirstFailure ==
  {a \in AllResults :
     /\ ErrorOf(stats[a[1]][a[2]].outcome) # NoError
     /\ \A b \in AllResults :
          ErrorOf(stats[b[1]][b[2]].outcome) # NoError => ~Before(b, a)}

\* Unless the run was interrupted, panicked or was stopped by a plan failure
\* or a local copy, its exit code is that of the first host that failed, in
\* the order the hosts completed; the later failures --continue-on-error
\* collects never replace it (first_error, step_error_if_failed).
FirstFailureWins ==
  main = "exit" /\ exec = "done" /\ verdict # "Interrupted"
  /\ Len(stats) = at - 1 =>
    \A a \in FirstFailure :
      (\A i \in 1..(a[1] - 1) : stats[i] # <<>>) =>
         exit = ExitCode(ErrorOf(stats[a[1]][a[2]].outcome))

\* Without --continue-on-error nothing is attempted after a step that had a
\* failed host: the results of every recorded step but the last are good.
FailFastStops ==
  ~ContinueOnError =>
    /\ \A i \in 1..(Len(stats) - 1) : StepErrorIfFailed(stats[i]) = NoError
    /\ exec \in {"fanout", "building"} =>
         \A i \in DOMAIN stats : StepErrorIfFailed(stats[i]) = NoError

\* The interrupt banner says that the in-flight processes were terminated
\* only when no child of the run is left.
TornDownTruthful ==
  main = "exit" /\ tornDown => \A h \in Workers : ~Live(h)

\* When the executor is done, every host that reported a successful copy into
\* the staging directory has had its removal tried: after a success, a
\* fail-fast stop, a plan failure and an interrupt alike.
CopiedHostsSwept ==
  exec = "done" =>
    \A i \in DOMAIN stats : \A r \in DOMAIN stats[i] :
      plan[i].kind = "copy" /\ plan[i].stage /\ stats[i][r].outcome = "Ok"
        => stats[i][r].host \in swept

\* The staging directory is never removed from a host while a step is still
\* at work there or any host task of the run is alive.
SweepAfterSteps ==
  (\E h \in Workers : sweep[h] = "running") => AllDone

\* The removal of the staging directory fits in the interrupt: when it began
\* with more than the time of one removal left, the wait of run_plan ends
\* with every removal over (the comment of WorkdirGuard::cleanup, remote.rs:157-164).
SweepWithinGrace ==
  exec = "dropped" /\ exit = 130 /\ sweepFrom > CleanupBudget
    => AllSwept

\* An interrupted run ends, whatever its children do: no step, removal,
\* queue or batch holds the process for ever after the grace period.  Only a
\* build of the helper can (run_plan, and the shutdown of the runtime).
InterruptEnds == (main = "grace") ~> (main = "gone" \/ Controller \in blocked)
=============================================================================
