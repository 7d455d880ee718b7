------------------------- MODULE RunSchedulerProofs -------------------------
(***************************************************************************)
(* Theorems about RunScheduler, for every set of hosts, every playbook,    *)
(* every --parallel and every set of budgets: the staging directory is     *)
(* removed only when no step is at work, tried on every host that got a    *)
(* copy and over within the grace of an interrupt, the interrupt banner    *)
(* claims the teardown only when it took place, a failed host stops the    *)
(* run, the first failure names the exit code, and a success is complete.  *)
(***************************************************************************)
EXTENDS RunScheduler, FiniteSetTheorems, WellFoundedInduction, TLAPS

TaskStates == {"none", "queued", "slotted", "running", "closing", "done"}
SweepStates == {"none", "queued", "running", "done"}

\* Where the executor is says which host tasks and removals there can be;
\* only an executor that was dropped leaves them behind.
PhaseInv ==
  /\ task \in [Workers -> TaskStates]
  /\ sweep \in [Workers -> SweepStates]
  /\ exec \notin {"fanout", "dropped"} => AllDone
  /\ exec \notin {"cleanup", "dropped"} => AllSwept
  /\ SweepAfterSteps

\* The banner's claim is made once, by a run whose executor was done.
BannerInv == tornDown => main \in {"exit", "gone"} /\ exec = "done"

-----------------------------------------------------------------------------
\* Initially no host task and no removal exists.
LEMMA InitPhase == Init => PhaseInv /\ BannerInv
  BY DEF Init, PhaseInv, BannerInv, TaskStates, SweepStates, AllDone, AllSwept,
         SweepAfterSteps

\* The steps of the loop that leave the host tasks and the removals alone.
LEMMA LoopPhase ==
  ASSUME PhaseInv, UNCHANGED <<task, sweep>>,
         \/ exec \notin {"fanout", "cleanup", "dropped"}
         \/ exec = "fanout" /\ AllDone
         \/ exec = "cleanup" /\ AllSwept
         \/ exec' \in {exec, "dropped"}
  PROVE  PhaseInv'
<1>1. AllDone' <=> AllDone
  BY DEF AllDone
<1>2. AllSwept' <=> AllSwept
  BY DEF AllSwept
<1>3. SweepAfterSteps' <=> SweepAfterSteps
  BY <1>1 DEF SweepAfterSteps
<1>4. CASE exec' \in {exec, "dropped"}
  BY <1>1, <1>2, <1>3, <1>4 DEF PhaseInv
<1>5. CASE exec \notin {"fanout", "cleanup", "dropped"}
  BY <1>1, <1>2, <1>3, <1>5 DEF PhaseInv
<1>6. CASE exec = "fanout" /\ AllDone
  BY <1>1, <1>2, <1>3, <1>6 DEF PhaseInv
<1>7. CASE exec = "cleanup" /\ AllSwept
  BY <1>1, <1>2, <1>3, <1>7 DEF PhaseInv
<1> QED BY <1>4, <1>5, <1>6, <1>7

\* A host task moves only while its fan-out is up, when no removal exists.
LEMMA TaskPhase ==
  ASSUME PhaseInv, exec \in {"fanout", "loop", "building"}, exec' = "fanout",
         task' \in [Workers -> TaskStates], sweep' = sweep
  PROVE  PhaseInv'
  BY DEF PhaseInv, AllSwept, SweepAfterSteps

\* A removal moves only during the cleanup, when every host task is done.
LEMMA SweepPhase ==
  ASSUME PhaseInv, exec \in {"cleanup", "leaving"}, exec' = "cleanup",
         sweep' \in [Workers -> SweepStates], task' = task
  PROVE  PhaseInv'
  BY DEF PhaseInv, AllDone, SweepAfterSteps

-----------------------------------------------------------------------------
\* What the executor does by itself keeps the phases.
LEMMA ExecutorStep ==
  ASSUME PhaseInv, Loop \/ HelperBuilt \/ HelperBuildFails \/ ExecutorPanics
  PROVE  PhaseInv'
<1>1. CASE SetupRun \/ PlanFailure \/ BreakLoop
  <2>1. UNCHANGED <<task, sweep>> /\ exec \in {"setup", "loop"}
    BY <1>1 DEF SetupRun, PlanFailure, BreakLoop, MayStart, taskVars, stageVars
  <2> QED BY <2>1, LoopPhase
<1>2. CASE AssertUnset \/ HelperBuildFails \/ StartBuild
  <2>1. UNCHANGED <<task, sweep>> /\ exec \in {"loop", "building"}
    BY <1>2 DEF AssertUnset, HelperBuildFails, StartBuild, MayStart, Record,
                taskVars, stageVars
  <2> QED BY <2>1, LoopPhase
<1>3. CASE StartStep \/ HelperBuilt
  <2>1. exec \in {"loop", "building"} /\ exec' = "fanout" /\ sweep' = sweep
    BY <1>3 DEF StartStep, HelperBuilt, MayStart, Spawn, stageVars
  <2>2. task' \in [Workers -> TaskStates]
    BY <1>3 DEF StartStep, HelperBuilt, Spawn, PhaseInv, TaskStates
  <2> QED BY <2>1, <2>2, TaskPhase
<1>4. CASE Settle
  <2>1. UNCHANGED <<task, sweep>> /\ exec = "fanout" /\ AllDone
    BY <1>4 DEF Settle, taskVars, stageVars
  <2> QED BY <2>1, LoopPhase
<1>5. CASE Conclude
  <2>1. exec = "leaving" /\ exec' = "cleanup" /\ task' = task
    BY <1>5 DEF Conclude, taskVars
  <2>2. sweep' \in [Workers -> SweepStates]
    BY <1>5 DEF Conclude, SweepStates
  <2> QED BY <2>1, <2>2, SweepPhase
<1>6. CASE CleanupDone
  <2>1. UNCHANGED <<task, sweep>> /\ exec = "cleanup" /\ AllSwept
    BY <1>6 DEF CleanupDone, taskVars, stageVars
  <2> QED BY <2>1, LoopPhase
<1>7. CASE ExecutorPanics
  <2>1. UNCHANGED <<task, sweep>> /\ exec' = "dropped"
    BY <1>7 DEF ExecutorPanics, taskVars, stageVars
  <2> QED BY <2>1, LoopPhase
<1> QED BY <1>1, <1>2, <1>3, <1>4, <1>5, <1>6, <1>7 DEF Loop

\* A host task, and what the world does to its child, keeps the phases.
LEMMA HostStep ==
  ASSUME PhaseInv, NEW h \in Workers,
         \/ Acquire(h) \/ Begin(h) \/ NextTransfer(h) \/ Closed(h)
         \/ CatchCancel(h) \/ ChildExits(h) \/ BudgetExpires(h)
         \/ MakeStaging(h) \/ HostPanics(h)
  PROVE  PhaseInv'
<1>1. exec = "fanout" /\ exec' = "fanout" /\ sweep' = sweep
  BY DEF Acquire, Begin, NextTransfer, Closed, CatchCancel, ChildExits,
         BudgetExpires, MakeStaging, HostPanics, Working, Close, stageVars
<1>2. \E s \in TaskStates : task' = [task EXCEPT ![h] = s] \/ task' = task
  BY DEF Acquire, Begin, NextTransfer, Closed, CatchCancel, ChildExits,
         BudgetExpires, MakeStaging, HostPanics, Close, Finish, taskVars,
         TaskStates
<1>3. task' \in [Workers -> TaskStates]
  BY <1>2 DEF PhaseInv
<1> QED BY <1>1, <1>3, TaskPhase

\* A removal keeps the phases.
LEMMA SweepStep ==
  ASSUME PhaseInv, NEW h \in Workers, AcquireSweep(h) \/ SweepEnds(h)
  PROVE  PhaseInv'
<1>1. exec = "cleanup" /\ exec' = "cleanup" /\ task' = task
  BY DEF AcquireSweep, SweepEnds
<1>2. sweep' \in [Workers -> SweepStates]
  BY DEF AcquireSweep, SweepEnds, PhaseInv, SweepStates
<1> QED BY <1>1, <1>2, SweepPhase

\* The main task, the blocking threads and the end keep the phases: at most
\* they drop the executor.
LEMMA MainStep ==
  ASSUME PhaseInv,
         Main \/ Ended \/ UNCHANGED vars \/ \E w \in Workers : ThreadEnds(w)
  PROVE  PhaseInv'
<1>1. UNCHANGED <<task, sweep>> /\ exec' \in {exec, "dropped"}
  BY DEF Main, Signal, HandlerFails, Report, ReportPanic, GiveUp, Tick,
         Shutdown, Ended, ThreadEnds, vars, taskVars, stageVars
<1> QED BY <1>1, LoopPhase

\* Every step keeps the phases.
LEMMA PhaseStep ==
  ASSUME PhaseInv, [Next]_vars
  PROVE  PhaseInv'
  BY ExecutorStep, HostStep, SweepStep, MainStep
     DEF Next, World, HostTask

\* The claim is made by Report alone, and nothing but the shutdown follows.
LEMMA BannerStep ==
  ASSUME BannerInv, [Next]_vars
  PROVE  BannerInv'
<1>1. CASE tornDown
  <2>1. ~Running
    BY <1>1 DEF BannerInv, Running
  <2>2. \/ Shutdown \/ UNCHANGED vars \/ \E w \in Workers : ThreadEnds(w)
    BY <1>1, <2>1 DEF BannerInv, Next, Main, Signal, HandlerFails, Report,
                      ReportPanic, GiveUp, Tick, Ended
  <2>3. UNCHANGED exec /\ main' \in {main, "gone"}
    BY <2>2 DEF Shutdown, ThreadEnds, vars, mainVars
  <2> QED BY <1>1, <2>3 DEF BannerInv
<1>2. CASE ~tornDown /\ Report
  BY <1>2 DEF Report, BannerInv
<1>3. CASE ~tornDown /\ ~Report
  <2>1. CASE Loop
    BY <1>3, <2>1 DEF Loop, SetupRun, PlanFailure, StartStep, AssertUnset,
       StartBuild, Settle, BreakLoop, Conclude, CleanupDone, mainVars,
       BannerInv
  <2>2. CASE World
    BY <1>3, <2>2 DEF World, HelperBuilt, HelperBuildFails, ExecutorPanics,
       ChildExits, BudgetExpires, MakeStaging, HostPanics, Close, mainVars,
       BannerInv
  <2>3. CASE \E h \in Workers : HostTask(h)
    BY <1>3, <2>3 DEF HostTask, Acquire, Begin, NextTransfer, Closed,
       CatchCancel, AcquireSweep, SweepEnds, Close, mainVars, BannerInv
  <2>4. CASE Main \/ Ended \/ UNCHANGED vars \/ \E w \in Workers : ThreadEnds(w)
    BY <1>3, <2>4 DEF Main, Signal, HandlerFails, ReportPanic, GiveUp, Tick,
       Shutdown, Ended, ThreadEnds, vars, mainVars, BannerInv
  <2> QED BY <2>1, <2>2, <2>3, <2>4 DEF Next
<1> QED BY <1>1, <1>2, <1>3

\* The staging directory is never removed from a host while a host task of
\* the run is alive (execute_plan, WorkdirGuard::cleanup).
THEOREM SweepCorrect == Spec => []SweepAfterSteps
<1>1. Init => PhaseInv
  BY InitPhase
<1>2. PhaseInv /\ [Next]_vars => PhaseInv'
  BY PhaseStep
<1>3. PhaseInv => SweepAfterSteps
  BY DEF PhaseInv
<1> QED BY <1>1, <1>2, <1>3, PTL DEF Spec

\* When the interrupt banner says that the in-flight processes were
\* terminated, no child of the run is left (run_plan).
THEOREM BannerCorrect == Spec => []TornDownTruthful
<1>1. Init => PhaseInv /\ BannerInv
  BY InitPhase
<1>2. PhaseInv /\ BannerInv /\ [Next]_vars => (PhaseInv /\ BannerInv)'
  BY PhaseStep, BannerStep
<1>3. PhaseInv /\ BannerInv => TornDownTruthful
  BY DEF PhaseInv, BannerInv, TornDownTruthful, Live, AllDone, AllSwept
<1> QED BY <1>1, <1>2, <1>3, PTL DEF Spec

-----------------------------------------------------------------------------
(* Fail-fast. *)

Clean(rs) == StepErrorIfFailed(rs) = NoError

\* A step in progress is one of the plan's.
PlanInv ==
  /\ plan \in Plans
  /\ exec \in {"fanout", "building"} => at \in Steps

ResultInv ==
  /\ pending \in [Workers -> HostOutcomes]
  /\ results \in Seq(Result)
  /\ stats \in Seq(Seq(Result))

\* As long as no error stopped the loop every recorded step is clean; while a
\* step is in progress no error did.
CleanInv ==
  /\ \A i \in 1..(Len(stats) - 1) : Clean(stats[i])
  /\ failFast = NoError => \A i \in 1..Len(stats) : Clean(stats[i])
  /\ exec \in {"fanout", "building"} => failFast = NoError

\* What the outcome of a child becomes is an outcome of its host.
LEMMA OutcomesTyped ==
  ASSUME NEW kind \in Kinds
  PROVE  /\ Natural(kind) \subseteq HostOutcomes
         /\ Expired(kind) \subseteq HostOutcomes
         /\ Interrupted(kind) \in HostOutcomes
  BY DEF Kinds, Natural, Expired, Interrupted, HostOutcomes

LEMMA InitClean == Init => PlanInv /\ ResultInv /\ CleanInv
  BY DEF Init, PlanInv, ResultInv, CleanInv, HostOutcomes

\* The plan never changes; the position moves only between steps.
LEMMA PlanStep ==
  ASSUME PlanInv, [Next]_vars
  PROVE  PlanInv'
<1>1. CASE Loop
  BY <1>1 DEF Loop, SetupRun, PlanFailure, StartStep, AssertUnset, StartBuild,
     Settle, BreakLoop, Conclude, CleanupDone, MayStart, Record, Spawn,
     loopVars, PlanInv, Steps
<1>2. CASE World
  BY <1>2 DEF World, HelperBuilt, HelperBuildFails, ExecutorPanics,
     ChildExits, BudgetExpires, MakeStaging, HostPanics, Close, Record, Spawn,
     loopVars, PlanInv, Steps
<1>3. CASE \E h \in Workers : HostTask(h)
  BY <1>3 DEF HostTask, Acquire, Begin, NextTransfer, Closed, CatchCancel,
     AcquireSweep, SweepEnds, Close, loopVars, PlanInv, Steps
<1>4. CASE Main \/ Ended \/ UNCHANGED vars \/ \E w \in Workers : ThreadEnds(w)
  BY <1>4 DEF Main, Signal, HandlerFails, Report, ReportPanic, GiveUp, Tick,
     Shutdown, Ended, ThreadEnds, vars, loopVars, PlanInv, Steps
<1> QED BY <1>1, <1>2, <1>3, <1>4 DEF Next

\* A child ends with an outcome.
LEMMA CloseTyped ==
  ASSUME ResultInv, NEW h \in Workers, NEW outcome \in HostOutcomes,
         Close(h, outcome)
  PROVE  ResultInv' /\ UNCHANGED <<exec, stats, failFast>>
  BY DEF Close, ResultInv, loopVars

\* A host task returns a result.
LEMMA FinishTyped ==
  ASSUME ResultInv, NEW h \in Workers, NEW result \in Result,
         Finish(h, result), UNCHANGED <<pending, stats>>
  PROVE  ResultInv'
  BY DEF Finish, ResultInv

\* The steps of the children and the host tasks.
LEMMA HostResults ==
  ASSUME SchedulerAssumption, PlanInv, ResultInv, NEW h \in Workers,
         \/ HostTask(h) \/ ChildExits(h) \/ BudgetExpires(h)
         \/ MakeStaging(h) \/ HostPanics(h)
  PROVE  ResultInv' /\ UNCHANGED <<exec, stats, failFast>>
<1>0. exec = "fanout" => Step.kind \in Kinds
  <2>1. exec = "fanout" => Step \in StepType
    BY DEF PlanInv, SchedulerAssumption, Step, Steps
  <2> QED BY <2>1 DEF StepType
<1>1. CASE ChildExits(h)
  <2>1. PICK outcome \in Natural(Step.kind) : Close(h, outcome)
    BY <1>1 DEF ChildExits
  <2>2. outcome \in HostOutcomes
    BY <1>0, <1>1, <2>1, OutcomesTyped DEF ChildExits, Working
  <2> QED BY <2>1, <2>2, CloseTyped
<1>2. CASE BudgetExpires(h)
  <2>1. PICK outcome \in Expired(Step.kind) : Close(h, outcome)
    BY <1>2 DEF BudgetExpires
  <2>2. outcome \in HostOutcomes
    BY <1>0, <1>2, <2>1, OutcomesTyped DEF BudgetExpires, Working
  <2> QED BY <2>1, <2>2, CloseTyped
<1>3. CASE CatchCancel(h)
  <2>1. Interrupted(Step.kind) \in HostOutcomes
    BY <1>0, <1>3, OutcomesTyped DEF CatchCancel, Working
  <2> QED BY <1>3, <2>1, CloseTyped DEF CatchCancel
<1>4. CASE Closed(h)
  <2> DEFINE result == [host |-> h, outcome |-> pending[h]]
  <2>1. result \in Result
    BY DEF ResultInv, Result
  <2>2. Finish(h, result) /\ UNCHANGED <<pending, stats, exec, failFast>>
    BY <1>4 DEF Closed, loopVars
  <2> QED BY <2>1, <2>2, FinishTyped
<1>5. CASE HostPanics(h)
  <2> DEFINE result == [host |-> "unknown", outcome |-> "Transport"]
  <2>1. result \in Result
    BY DEF Result, HostOutcomes
  <2>2. Finish(h, result) /\ UNCHANGED <<pending, stats, exec, failFast>>
    BY <1>5 DEF HostPanics, loopVars
  <2> QED BY <2>1, <2>2, FinishTyped
<1>6. CASE Begin(h)
  <2> DEFINE result == [host |-> h, outcome |-> "Cancelled"]
  <2>1. result \in Result
    BY DEF Result, HostOutcomes
  <2>2. UNCHANGED <<pending, stats, exec, failFast>>
    BY <1>6 DEF Begin, loopVars
  <2>3. CASE Finish(h, result)
    BY <2>1, <2>2, <2>3, FinishTyped
  <2>4. CASE UNCHANGED results
    BY <2>2, <2>4 DEF ResultInv
  <2> QED BY <1>6, <2>2, <2>3, <2>4 DEF Begin
<1>7. CASE \/ Acquire(h) \/ NextTransfer(h) \/ AcquireSweep(h) \/ SweepEnds(h)
           \/ MakeStaging(h)
  BY <1>7 DEF Acquire, NextTransfer, AcquireSweep, SweepEnds, MakeStaging,
     taskVars, loopVars, ResultInv
<1> QED BY <1>1, <1>2, <1>3, <1>4, <1>5, <1>6, <1>7 DEF HostTask

\* A recorded step is clean unless it stops the loop.
LEMMA RecordClean ==
  ASSUME ResultInv, CleanInv, ~ContinueOnError, failFast = NoError,
         NEW rs \in Seq(Result), NEW error, Clean(rs) \/ error # NoError,
         Record(rs, error)
  PROVE  CleanInv' /\ stats' \in Seq(Seq(Result))
<1>1. /\ stats' \in Seq(Seq(Result)) /\ Len(stats') = Len(stats) + 1
      /\ \A i \in 1..Len(stats) : stats'[i] = stats[i]
      /\ stats'[Len(stats) + 1] = rs
  BY DEF ResultInv, Record
<1>2. exec' = "loop" /\ failFast' = error
  BY DEF Record
<1>3. Len(stats) \in Nat
  BY DEF ResultInv
<1>4. error = NoError => Clean(rs)
  OBVIOUS
<1>5. \A i \in 1..Len(stats) : Clean(stats'[i])
  BY <1>1 DEF CleanInv
<1>6. \A i \in 1..(Len(stats') - 1) : Clean(stats'[i])
  BY <1>1, <1>3, <1>5
<1>7. failFast' = NoError => \A i \in 1..Len(stats') : Clean(stats'[i])
  <2> SUFFICES ASSUME failFast' = NoError, NEW i \in 1..Len(stats')
               PROVE  Clean(stats'[i])
    OBVIOUS
  <2>1. i \in 1..Len(stats) \/ i = Len(stats) + 1
    BY <1>1, <1>3
  <2> QED BY <1>1, <1>2, <1>4, <1>5, <2>1
<1> QED BY <1>1, <1>2, <1>6, <1>7 DEF CleanInv

FailInv == PlanInv /\ ResultInv /\ CleanInv

\* Steps that record nothing and start nothing keep what was recorded clean.
LEMMA Unrecorded ==
  ASSUME ResultInv, CleanInv, UNCHANGED <<pending, stats>>,
         results' \in Seq(Result),
         \/ failFast' = failFast /\ exec' \in {"fanout", "building"}
              /\ failFast = NoError
         \/ failFast' \in {failFast, "Plan", "Script"}
              /\ exec' \notin {"fanout", "building"}
         \/ UNCHANGED <<failFast, exec>>
  PROVE  ResultInv' /\ CleanInv'
<1>1. stats' = stats
  OBVIOUS
<1>2. failFast' = NoError => failFast = NoError
  BY DEF NoError
<1>3. exec' \in {"fanout", "building"} => failFast' = NoError
  BY DEF CleanInv
<1> QED BY <1>1, <1>2, <1>3 DEF ResultInv, CleanInv

\* The executor records a step once, and stops after one that failed.
LEMMA LoopClean ==
  ASSUME FailInv, ~ContinueOnError,
         Loop \/ HelperBuilt \/ HelperBuildFails \/ ExecutorPanics
  PROVE  ResultInv' /\ CleanInv'
<1>1. CASE SetupRun \/ PlanFailure \/ BreakLoop \/ Conclude \/ CleanupDone
           \/ ExecutorPanics
  <2>1. UNCHANGED <<pending, stats, results>>
    BY <1>1 DEF SetupRun, PlanFailure, BreakLoop, Conclude, CleanupDone,
       ExecutorPanics, taskVars, loopVars
  <2>2. failFast' \in {failFast, "Plan"}
    BY <1>1 DEF SetupRun, PlanFailure, BreakLoop, Conclude, CleanupDone,
       ExecutorPanics, loopVars
  <2>3. exec' \notin {"fanout", "building"}
    BY <1>1 DEF SetupRun, PlanFailure, BreakLoop, Conclude, CleanupDone,
       ExecutorPanics, MayStart
  <2> QED BY <2>1, <2>2, <2>3, Unrecorded DEF FailInv, ResultInv
<1>2. CASE StartStep \/ StartBuild \/ HelperBuilt
  <2>1. UNCHANGED <<pending, stats, failFast>> /\ failFast = NoError
    BY <1>2 DEF StartStep, StartBuild, HelperBuilt, MayStart, loopVars,
       FailInv, CleanInv
  <2>e. <<>> \in Seq(Result)
    OBVIOUS
  <2>s. results' \in {results, <<>>} /\ exec' \in {"fanout", "building"}
    BY <1>2 DEF StartStep, StartBuild, HelperBuilt, Spawn
  <2>2. results' \in Seq(Result) /\ exec' \in {"fanout", "building"}
    BY <2>e, <2>s DEF FailInv, ResultInv
  <2>3. failFast' = failFast /\ exec' \in {"fanout", "building"}
          /\ failFast = NoError
    BY <2>1, <2>2
  <2>4. UNCHANGED <<pending, stats>> /\ ResultInv /\ CleanInv
    BY <2>1 DEF FailInv
  <2> QED BY <2>2, <2>3, <2>4, Unrecorded
<1>3. CASE AssertUnset \/ HelperBuildFails
  <2>1. Record(<<>>, "Script") /\ UNCHANGED <<pending, results>>
    BY <1>3 DEF AssertUnset, HelperBuildFails, taskVars
  <2>2. failFast = NoError
    BY <1>3 DEF AssertUnset, HelperBuildFails, MayStart, FailInv, CleanInv
  <2>3. <<>> \in Seq(Result) /\ "Script" # NoError
    BY DEF NoError
  <2> QED BY <2>1, <2>2, <2>3, RecordClean DEF FailInv, ResultInv
<1>4. CASE Settle
  <2>1. UNCHANGED <<pending, results>> /\ failFast = NoError
    BY <1>4 DEF Settle, taskVars, FailInv, CleanInv
  <2>2. CASE Record(results, StepErrorIfFailed(results))
    <3>1. Clean(results) \/ StepErrorIfFailed(results) # NoError
      BY DEF Clean
    <3> QED BY <2>1, <2>2, <3>1, RecordClean DEF FailInv, ResultInv
  <2>3. CASE failFast' = "Script" /\ exec' = "loop" /\ UNCHANGED stats
    BY <2>1, <2>3, Unrecorded DEF FailInv, ResultInv
  <2> QED BY <1>4, <2>2, <2>3 DEF Settle
<1> QED BY <1>1, <1>2, <1>3, <1>4 DEF Loop

LEMMA FailStep ==
  ASSUME SchedulerAssumption, FailInv, ~ContinueOnError, [Next]_vars
  PROVE  FailInv'
<1>1. PlanInv'
  BY PlanStep DEF FailInv
<1>2. CASE Loop \/ HelperBuilt \/ HelperBuildFails \/ ExecutorPanics
  BY <1>1, <1>2, LoopClean DEF FailInv
<1>3. CASE \E h \in Workers : \/ HostTask(h) \/ ChildExits(h)
                              \/ BudgetExpires(h) \/ MakeStaging(h)
                              \/ HostPanics(h)
  <2>1. ResultInv' /\ UNCHANGED <<exec, stats, failFast>>
    BY <1>3, HostResults DEF FailInv
  <2>2. CleanInv'
    BY <2>1 DEF FailInv, CleanInv
  <2> QED BY <1>1, <2>1, <2>2 DEF FailInv
<1>4. CASE Main \/ Ended \/ UNCHANGED vars \/ \E w \in Workers : ThreadEnds(w)
  <2>1. UNCHANGED <<pending, results, stats, failFast>>
    BY <1>4 DEF Main, Signal, HandlerFails, Report, ReportPanic, GiveUp, Tick,
       Shutdown, Ended, ThreadEnds, vars, loopVars, taskVars
  <2>2. exec' \in {exec, "dropped"}
    BY <1>4 DEF Main, Signal, HandlerFails, Report, ReportPanic, GiveUp, Tick,
       Shutdown, Ended, ThreadEnds, vars
  <2>3. ResultInv' /\ CleanInv'
    BY <2>1, <2>2, Unrecorded DEF FailInv, ResultInv
  <2> QED BY <1>1, <2>3 DEF FailInv
<1> QED BY <1>2, <1>3, <1>4 DEF Next, World

\* Without --continue-on-error nothing is attempted after a step that had a
\* failed host (the step loop of execute_plan).
THEOREM FailFastCorrect == Spec => []FailFastStops
<1>1. CASE ContinueOnError
  <2>1. FailFastStops
    BY <1>1 DEF FailFastStops
  <2> QED BY <2>1, PTL
<1>2. CASE ~ContinueOnError
  <2>1. Init => FailInv
    BY InitClean DEF FailInv
  <2>2. FailInv /\ [Next]_vars => FailInv'
    BY <1>2, SchedulerAssumption, FailStep
  <2>3. FailInv => FailFastStops
    <3> SUFFICES ASSUME FailInv PROVE FailFastStops
      OBVIOUS
    <3>1. \A i \in 1..(Len(stats) - 1) : StepErrorIfFailed(stats[i]) = NoError
      BY DEF FailInv, CleanInv, Clean
    <3>2. exec \in {"fanout", "building"} =>
            \A i \in 1..Len(stats) : StepErrorIfFailed(stats[i]) = NoError
      BY DEF FailInv, CleanInv, Clean
    <3>3. DOMAIN stats = 1..Len(stats)
      BY DEF FailInv, ResultInv
    <3> QED BY <3>1, <3>2, <3>3 DEF FailFastStops
  <2> QED BY <2>1, <2>2, <2>3, PTL DEF Spec
<1> QED BY <1>1, <1>2

-----------------------------------------------------------------------------
(* Success is complete. *)

\* A step without an error has no failed host: the first failure, if there
\* is one, gives its error.
LEMMA CleanHasNoFailure ==
  ASSUME NEW rs \in Seq(Result), Clean(rs)
  PROVE  \A r \in DOMAIN rs : ErrorOf(rs[r].outcome) = NoError
<1> SUFFICES ASSUME FailedAt(rs) # {} PROVE FALSE
  BY DEF FailedAt
<1> DEFINE Less == {ss \in Nat \X Nat : ss[1] < ss[2]}
<1>1. IsWellFoundedOn(Less, Nat)
  BY NatLessThanWellFounded DEF OpToRel
<1>2. FailedAt(rs) \subseteq Nat
  BY DEF FailedAt
<1>3. \E i \in FailedAt(rs) : \A j \in FailedAt(rs) : ~(<<j, i>> \in Less)
  <2> HIDE DEF Less
  <2> QED BY <1>1, <1>2, WFMin
<1>m. ASSUME NEW i \in Nat, NEW j \in Nat, ~(<<j, i>> \in Less)
      PROVE  i <= j
  <2>1. ASSUME j < i PROVE <<j, i>> \in Less
    BY <2>1
  <2> HIDE DEF Less
  <2>2. ~(j < i)
    BY <1>m, <2>1
  <2> QED BY <2>2
<1>4. \E i \in FailedAt(rs) : \A j \in FailedAt(rs) : i <= j
  <2> HIDE DEF Less
  <2> QED BY <1>2, <1>3, <1>m
<1>5. FirstFailed(rs) \in FailedAt(rs)
  BY <1>4 DEF FirstFailed
<1> QED BY <1>5 DEF Clean, StepErrorIfFailed, FailedAt

\* A fan-out has a result, or a failure, for every host that is done, and
\* for no other.
FanInv ==
  /\ exec \in {"fanout", "building"} => failFast = NoError
  /\ exec = "fanout" =>
       /\ \A h \in Workers :
            IF h \in Step.hosts THEN task[h] # "none"
                                ELSE task[h] \in {"none", "done"}
       /\ \A r \in DOMAIN results :
            \/ results[r].host \in Step.hosts
            \/ ErrorOf(results[r].outcome) # NoError
       /\ \A h \in Step.hosts : task[h] = "done" =>
            \E r \in DOMAIN results :
              results[r].host = h \/ ErrorOf(results[r].outcome) # NoError

\* Nothing is cancelled but by an interrupt.
ToldInv ==
  ~cancelled =>
    /\ \A h \in Workers : pending[h] # "Cancelled"
    /\ \A r \in DOMAIN results : results[r].outcome # "Cancelled"

LEMMA FanMoves ==
  ASSUME FanInv, PhaseInv, exec = "fanout", UNCHANGED <<exec, plan, at, failFast, results>>,
         NEW h \in Workers, task[h] \notin {"none", "done"},
         NEW s \in TaskStates \ {"none", "done"}, task' = [task EXCEPT ![h] = s]
  PROVE  FanInv'
  BY DEF FanInv, PhaseInv, Step

LEMMA FanFinishes ==
  ASSUME FanInv, PhaseInv, ResultInv, exec = "fanout",
         UNCHANGED <<exec, plan, at, failFast>>,
         NEW h \in Workers, task[h] \notin {"none", "done"},
         NEW r \in Result, r.host = h \/ ErrorOf(r.outcome) # NoError,
         Finish(h, r)
  PROVE  FanInv'
<1>1. /\ results' \in Seq(Result) /\ Len(results') = Len(results) + 1
      /\ \A i \in 1..Len(results) : results'[i] = results[i]
      /\ results'[Len(results) + 1] = r /\ Len(results) \in Nat
  BY DEF ResultInv, Finish
<1>2. DOMAIN results = 1..Len(results) /\ DOMAIN results' = 1..(Len(results) + 1)
  BY <1>1 DEF ResultInv
<1>3. h \in Step.hosts /\ task' = [task EXCEPT ![h] = "done"] /\ Step' = Step
  BY DEF FanInv, Finish, Step
<1>4. \A i \in DOMAIN results' :
        \/ results'[i].host \in Step.hosts
        \/ ErrorOf(results'[i].outcome) # NoError
  <2> SUFFICES ASSUME NEW i \in DOMAIN results'
               PROVE  \/ results'[i].host \in Step.hosts
                      \/ ErrorOf(results'[i].outcome) # NoError
    OBVIOUS
  <2>1. i \in DOMAIN results \/ i = Len(results) + 1
    BY <1>1, <1>2
  <2> QED BY <1>1, <1>2, <1>3, <2>1 DEF FanInv
<1>5. ASSUME NEW g \in Step.hosts, task'[g] = "done"
      PROVE  \E i \in DOMAIN results' :
               results'[i].host = g \/ ErrorOf(results'[i].outcome) # NoError
  <2>1. CASE g = h
    <3>1. Len(results) + 1 \in DOMAIN results'
      BY <1>1, <1>2
    <3> QED BY <1>1, <2>1, <3>1
  <2>2. CASE g # h
    <3>1. task[g] = "done"
      BY <1>3, <1>5, <2>2 DEF PhaseInv
    <3>2. PICK i \in DOMAIN results :
            results[i].host = g \/ ErrorOf(results[i].outcome) # NoError
      BY <3>1 DEF FanInv
    <3>3. i \in DOMAIN results' /\ results'[i] = results[i]
      BY <1>1, <1>2, <3>2
    <3> QED BY <3>2, <3>3
  <2> QED BY <2>1, <2>2
<1>6. \A g \in Workers : IF g \in Step.hosts THEN task'[g] # "none"
                                             ELSE task'[g] \in {"none", "done"}
  BY <1>3 DEF FanInv, PhaseInv
<1> QED BY <1>3, <1>4, <1>5, <1>6 DEF FanInv

\* Only an interrupt makes a child's outcome a cancelled one.
LEMMA NotCancelled ==
  ASSUME NEW kind \in Kinds
  PROVE  "Cancelled" \notin Natural(kind) \union Expired(kind)
  BY DEF Kinds, Natural, Expired

LEMMA CloseFan ==
  ASSUME FanInv, PhaseInv, ResultInv, ToldInv, exec = "fanout",
         NEW h \in Workers, task[h] = "running",
         NEW outcome, outcome = "Cancelled" => cancelled, Close(h, outcome)
  PROVE  FanInv' /\ ToldInv'
<1>1. task' = [task EXCEPT ![h] = "closing"]
      /\ UNCHANGED <<exec, plan, at, failFast, results, cancelled>>
  BY DEF Close, loopVars
<1>2. FanInv'
  BY <1>1, FanMoves DEF TaskStates
<1>3. ToldInv'
  BY <1>1 DEF ToldInv, Close, ResultInv
<1> QED BY <1>2, <1>3

LEMMA FinishTold ==
  ASSUME ResultInv, ToldInv, NEW h \in Workers, NEW r \in Result,
         r.outcome = "Cancelled" => cancelled, Finish(h, r),
         UNCHANGED <<pending, cancelled>>
  PROVE  ToldInv'
<1>1. /\ Len(results) \in Nat /\ DOMAIN results' = 1..(Len(results) + 1)
      /\ DOMAIN results = 1..Len(results)
      /\ \A i \in 1..Len(results) : results'[i] = results[i]
      /\ results'[Len(results) + 1] = r
  BY DEF ResultInv, Finish
<1>2. \A i \in DOMAIN results' : i \in DOMAIN results \/ i = Len(results) + 1
  BY <1>1
<1> QED BY <1>1, <1>2 DEF ToldInv

loopFrame == <<exec, plan, loopVars, cancelled, verdict, main, exit>>

\* What the host tasks and their children do to the books of the fan-out.
LEMMA HostFan ==
  ASSUME SchedulerAssumption, PhaseInv, PlanInv, ResultInv, FanInv, ToldInv,
         NEW h \in Workers,
         \/ HostTask(h) \/ ChildExits(h) \/ BudgetExpires(h)
         \/ MakeStaging(h) \/ HostPanics(h)
  PROVE  FanInv' /\ ToldInv' /\ UNCHANGED loopFrame
<1>f. UNCHANGED loopFrame
  BY DEF HostTask, ChildExits, BudgetExpires, MakeStaging, HostPanics, Acquire,
     Begin, NextTransfer, Closed, CatchCancel, AcquireSweep, SweepEnds, Close,
     loopFrame, loopVars, mainVars
<1>g. UNCHANGED <<exec, plan, at, failFast, cancelled>>
  BY <1>f DEF loopFrame, loopVars
<1>0. exec = "fanout" => Step.kind \in Kinds
  <2>1. exec = "fanout" => Step \in StepType
    BY DEF PlanInv, SchedulerAssumption, Step, Steps
  <2> QED BY <2>1 DEF StepType
<1>1. CASE ChildExits(h)
  <2>1. PICK outcome \in Natural(Step.kind) : Close(h, outcome)
    BY <1>1 DEF ChildExits
  <2>2. outcome # "Cancelled" /\ exec = "fanout" /\ task[h] = "running"
    BY <1>0, <1>1, <2>1, NotCancelled DEF ChildExits, Working
  <2> QED BY <1>f, <2>1, <2>2, CloseFan
<1>2. CASE BudgetExpires(h)
  <2>1. PICK outcome \in Expired(Step.kind) : Close(h, outcome)
    BY <1>2 DEF BudgetExpires
  <2>2. outcome # "Cancelled" /\ exec = "fanout" /\ task[h] = "running"
    BY <1>0, <1>2, <2>1, NotCancelled DEF BudgetExpires, Working
  <2> QED BY <1>f, <2>1, <2>2, CloseFan
<1>3. CASE CatchCancel(h)
  BY <1>f, <1>3, CloseFan DEF CatchCancel, Working
<1>4. CASE Closed(h)
  <2> DEFINE r == [host |-> h, outcome |-> pending[h]]
  <2>1. r \in Result /\ r.host = h /\ (r.outcome = "Cancelled" => cancelled)
    BY DEF ResultInv, Result, ToldInv
  <2>2. Finish(h, r) /\ exec = "fanout" /\ task[h] = "closing" /\ pending' = pending
    BY <1>4 DEF Closed
  <2> HIDE DEF r
  <2>3. FanInv'
    BY <1>g, <2>1, <2>2, FanFinishes
  <2>4. ToldInv'
    BY <1>g, <2>1, <2>2, FinishTold
  <2> QED BY <1>f, <2>3, <2>4
<1>5. CASE HostPanics(h)
  <2> DEFINE r == [host |-> "unknown", outcome |-> "Transport"]
  <2>1. r \in Result /\ ErrorOf(r.outcome) # NoError /\ r.outcome # "Cancelled"
    BY DEF Result, HostOutcomes, ErrorOf, NoError
  <2>2. Finish(h, r) /\ exec = "fanout" /\ task[h] = "running" /\ pending' = pending
    BY <1>5 DEF HostPanics, Working
  <2> HIDE DEF r
  <2>3. FanInv'
    BY <1>g, <2>1, <2>2, FanFinishes
  <2>4. ToldInv'
    BY <1>g, <2>1, <2>2, FinishTold
  <2> QED BY <1>f, <2>3, <2>4
<1>6. CASE Begin(h)
  <2>0. exec = "fanout" /\ task[h] = "slotted" /\ pending' = pending
    BY <1>6 DEF Begin
  <2> DEFINE r == [host |-> h, outcome |-> "Cancelled"]
  <2>1. r \in Result /\ r.host = h
    BY DEF Result, HostOutcomes
  <2>2. CASE cancelled /\ Finish(h, r)
    <3> HIDE DEF r
    <3>1. FanInv'
      BY <1>g, <2>0, <2>1, <2>2, FanFinishes
    <3>2. ToldInv'
      BY <1>g, <2>0, <2>1, <2>2, FinishTold
    <3> QED BY <1>f, <3>1, <3>2
  <2>3. CASE task' = [task EXCEPT ![h] = "running"] /\ results' = results
    <3>1. FanInv'
      BY <1>g, <2>0, <2>3, FanMoves DEF TaskStates
    <3> QED BY <1>f, <1>g, <2>0, <2>3, <3>1 DEF ToldInv
  <2> QED BY <1>6, <2>2, <2>3 DEF Begin
<1>7. CASE Acquire(h) \/ NextTransfer(h)
  <2>1. /\ exec = "fanout" /\ task[h] \in {"queued", "closing"}
        /\ UNCHANGED <<results, pending>>
        /\ \E s \in {"slotted", "running"} : task' = [task EXCEPT ![h] = s]
    BY <1>7 DEF Acquire, NextTransfer
  <2>2. FanInv'
    BY <1>g, <2>1, FanMoves DEF TaskStates
  <2> QED BY <1>f, <1>g, <2>1, <2>2 DEF ToldInv
<1>8. CASE MakeStaging(h) \/ AcquireSweep(h) \/ SweepEnds(h)
  <2>1. UNCHANGED <<task, results, pending>>
    BY <1>8 DEF MakeStaging, AcquireSweep, SweepEnds, taskVars
  <2> QED BY <1>f, <1>g, <2>1 DEF FanInv, ToldInv, Step
<1> QED BY <1>1, <1>2, <1>3, <1>4, <1>5, <1>6, <1>7, <1>8 DEF HostTask

\* Every host of a step did it, or was cancelled.
Full(rs, step) ==
  /\ \A r \in DOMAIN rs : rs[r].outcome \in {"Ok", "Skipped", "Cancelled"}
  /\ {rs[r].host : r \in DOMAIN rs} = step.hosts
Uncancelled(rs) == \A r \in DOMAIN rs : rs[r].outcome # "Cancelled"

\* The books of the loop: without an error there is a full record of every
\* step so far, and without an interrupt nothing in it was cancelled.
BooksInv ==
  /\ at \in 1..(Len(plan) + 1)
  /\ {failFast, firstError} \subseteq RunErrors \union {NoError}
  /\ failFast = NoError => at = Len(stats) + 1
  /\ failFast = NoError /\ firstError = NoError =>
       \A i \in 1..Len(stats) : Full(stats[i], plan[i])
  /\ ~cancelled => \A i \in 1..Len(stats) : Uncancelled(stats[i])
  /\ exec = "leaving" => at \notin Steps \/ failFast # NoError \/ cancelled

AllGood ==
  /\ Len(stats) = Len(plan)
  /\ \A i \in Steps :
       /\ \A r \in DOMAIN stats[i] : Good(stats[i][r].outcome)
       /\ {stats[i][r].host : r \in DOMAIN stats[i]} = plan[i].hosts

\* A success is concluded once, from complete books, and never revised.
EndInv ==
  /\ exec \in {"cleanup", "done"} =>
       verdict \in RunErrors \union {"Success", "Interrupted"}
  /\ verdict = "Success" => exec \in {"cleanup", "done", "dropped"} /\ AllGood
  /\ exit = 0 => main \in {"exit", "gone"} /\ AllGood

SuccessInv ==
  PhaseInv /\ PlanInv /\ ResultInv /\ FanInv /\ ToldInv /\ BooksInv /\ EndInv

LEMMA InitBooks ==
  ASSUME SchedulerAssumption, Init
  PROVE  SuccessInv
<1>1. PhaseInv /\ PlanInv /\ ResultInv
  BY InitPhase, InitClean
<1>2. FanInv /\ ToldInv
  BY DEF Init, FanInv, ToldInv
<1>3. plan \in Seq(StepType)
  BY DEF Init, SchedulerAssumption
<1>4. BooksInv /\ EndInv
  BY <1>3 DEF Init, BooksInv, EndInv, NoError
<1> QED BY <1>1, <1>2, <1>4 DEF SuccessInv

\* The error of a step is an error of a run.
LEMMA ErrorTyped ==
  ASSUME NEW rs
  PROVE  StepErrorIfFailed(rs) \in RunErrors \union {NoError}
  BY DEF StepErrorIfFailed, ErrorOf, RunErrors

\* What Record writes is a full record, or an error.
LEMMA RecordBooks ==
  ASSUME BooksInv, PlanInv, ResultInv, SchedulerAssumption,
         exec \in {"loop", "building", "fanout"}, failFast = NoError, at \in Steps,
         NEW rs \in Seq(Result), NEW error \in RunErrors \union {NoError},
         error = NoError => Full(rs, Step), ~cancelled => Uncancelled(rs),
         Record(rs, error), UNCHANGED <<plan, cancelled>>
  PROVE  BooksInv'
<1>0. plan \in Seq(StepType) /\ DOMAIN plan = 1..Len(plan) /\ Len(plan) \in Nat
  BY DEF PlanInv, SchedulerAssumption
<1>1. /\ Len(stats') = Len(stats) + 1 /\ Len(stats) \in Nat
      /\ \A i \in 1..Len(stats) : stats'[i] = stats[i]
      /\ stats'[Len(stats) + 1] = rs
  BY DEF ResultInv, Record
<1>2. at = Len(stats) + 1 /\ at' = at + 1 /\ at' \in 1..(Len(plan) + 1)
  BY <1>0, <1>1 DEF BooksInv, Record, Steps
<1>3. {failFast', firstError'} \subseteq RunErrors \union {NoError}
  BY DEF BooksInv, Record
<1>4. ASSUME failFast' = NoError, firstError' = NoError, NEW i \in 1..Len(stats')
      PROVE  Full(stats'[i], plan[i])
  <2>1. firstError = NoError /\ error = NoError
    BY <1>4 DEF Record
  <2>2. i \in 1..Len(stats) \/ i = Len(stats) + 1
    BY <1>1
  <2>3. CASE i \in 1..Len(stats)
    BY <1>1, <2>1, <2>3 DEF BooksInv
  <2>4. CASE i = Len(stats) + 1
    BY <1>1, <1>2, <2>1, <2>4 DEF Step
  <2> QED BY <2>2, <2>3, <2>4
<1>5. ASSUME ~cancelled, NEW i \in 1..Len(stats')
      PROVE  Uncancelled(stats'[i])
  <2>1. i \in 1..Len(stats) \/ i = Len(stats) + 1
    BY <1>1
  <2> QED BY <1>1, <1>5, <2>1 DEF BooksInv
<1>6. exec' = "loop"
  BY DEF Record
<1> QED BY <1>1, <1>2, <1>3, <1>4, <1>5, <1>6 DEF BooksInv

\* A fan-out that is over without an error has a full record.
LEMMA FanIsFull ==
  ASSUME PhaseInv, PlanInv, ResultInv, FanInv, SchedulerAssumption,
         exec = "fanout", AllDone, Clean(results),
         \A i \in DOMAIN results : results[i].outcome # "CopyError"
  PROVE  Full(results, Step)
<1>0. Step.hosts \subseteq Workers
  <2>1. Step \in StepType
    BY DEF PlanInv, SchedulerAssumption, Step, Steps
  <2> QED BY <2>1 DEF StepType
<1>1. \A r \in DOMAIN results : ErrorOf(results[r].outcome) = NoError
  BY CleanHasNoFailure DEF ResultInv
<1>2. ASSUME NEW r \in DOMAIN results
      PROVE  results[r].outcome \in {"Ok", "Skipped", "Cancelled"}
  <2>t. results[r] \in Result
    BY DEF ResultInv
  <2>1. results[r].outcome \in HostOutcomes \ {"CopyError"}
    BY <2>t DEF Result
  <2>2. ErrorOf(results[r].outcome) = NoError
    BY <1>1
  <2> QED BY <2>1, <2>2 DEF HostOutcomes, ErrorOf, NoError
<1>3. ASSUME NEW r \in DOMAIN results PROVE results[r].host \in Step.hosts
  BY <1>1 DEF FanInv
<1>4. ASSUME NEW h \in Step.hosts
      PROVE  \E r \in DOMAIN results : results[r].host = h
  <2>1. task[h] = "done"
    BY <1>0 DEF AllDone, FanInv
  <2> QED BY <1>1, <2>1 DEF FanInv
<1> QED BY <1>2, <1>3, <1>4 DEF Full

\* The steps of the executor that record nothing.
LEMMA LoopSilent ==
  ASSUME SchedulerAssumption, SuccessInv,
         \/ SetupRun \/ PlanFailure \/ StartStep \/ StartBuild \/ HelperBuilt
         \/ BreakLoop \/ CleanupDone \/ ExecutorPanics
  PROVE  FanInv' /\ ToldInv' /\ BooksInv' /\ EndInv'
<1> USE DEF SuccessInv
<1>0. plan \in Seq(StepType) /\ DOMAIN plan = 1..Len(plan) /\ Len(plan) \in Nat
  BY DEF PlanInv, SchedulerAssumption
<1>1. UNCHANGED <<plan, stats, firstError, cancelled, pending, main, exit>>
  BY DEF SetupRun, PlanFailure, StartStep, StartBuild, HelperBuilt, BreakLoop,
     CleanupDone, ExecutorPanics, Spawn, loopVars, taskVars, mainVars
<1>2. CASE PlanFailure
  <2>1. /\ exec = "loop" /\ UNCHANGED <<exec, results, verdict>>
        /\ failFast' = "Plan" /\ at \in Steps /\ at' = at + 1
    BY <1>2 DEF PlanFailure, MayStart
  <2>2. at' \in 1..(Len(plan) + 1)
    BY <1>0, <2>1 DEF Steps
  <2>3. FanInv' /\ ToldInv'
    BY <1>1, <2>1 DEF FanInv, ToldInv
  <2>4. BooksInv'
    BY <1>1, <2>1, <2>2 DEF BooksInv, RunErrors, NoError
  <2>5. EndInv'
    BY <1>1, <2>1 DEF EndInv, AllGood, Steps
  <2> QED BY <2>3, <2>4, <2>5
<1>3. CASE StartStep \/ HelperBuilt
  <2>1. /\ exec \in {"loop", "building"} /\ failFast = NoError /\ Spawn
        /\ UNCHANGED <<at, failFast, verdict>>
    BY <1>3 DEF StartStep, HelperBuilt, MayStart, loopVars, FanInv
  <2>2. /\ exec' = "fanout" /\ results' = <<>> /\ AllDone
        /\ task' = [h \in Workers |-> IF h \in Step.hosts THEN "queued" ELSE task[h]]
    BY <2>1 DEF Spawn, PhaseInv
  <2>3. DOMAIN results' = {} /\ Step' = Step
    BY <1>1, <2>1, <2>2 DEF Step
  <2>w. Step.hosts \subseteq Workers
    <3>1. Step \in StepType
      BY <1>3, <1>0 DEF PlanInv, SchedulerAssumption, Step, Steps, StartStep,
         MayStart, HelperBuilt
    <3> QED BY <3>1 DEF StepType
  <2>4. FanInv'
    BY <2>1, <2>2, <2>3, <2>w DEF FanInv, AllDone
  <2>5. ToldInv'
    BY <1>1, <2>3 DEF ToldInv
  <2>6. BooksInv'
    BY <1>1, <2>1, <2>2 DEF BooksInv
  <2>7. EndInv'
    BY <1>1, <2>1, <2>2 DEF EndInv, AllGood, Steps
  <2> QED BY <2>4, <2>5, <2>6, <2>7
<1>4. CASE StartBuild
  <2>1. /\ exec = "loop" /\ exec' = "building" /\ failFast = NoError
        /\ UNCHANGED <<at, failFast, verdict, results>>
    BY <1>4 DEF StartBuild, MayStart, loopVars
  <2> QED BY <1>1, <2>1 DEF FanInv, ToldInv, BooksInv, EndInv, AllGood, Steps
<1>5. CASE SetupRun
  <2>1. /\ exec = "setup" /\ UNCHANGED <<at, failFast, results>>
        /\ \/ exec' = "loop" /\ UNCHANGED verdict
           \/ exec' = "done" /\ verdict' = "Config"
    BY <1>5 DEF SetupRun, loopVars
  <2> QED BY <1>1, <2>1 DEF FanInv, ToldInv, BooksInv, EndInv, AllGood, Steps,
             RunErrors
<1>6. CASE BreakLoop
  <2>1. /\ exec = "loop" /\ exec' = "leaving"
        /\ UNCHANGED <<at, failFast, results, verdict>>
        /\ at \notin Steps \/ failFast # NoError \/ cancelled
    BY <1>6 DEF BreakLoop, loopVars
  <2> QED BY <1>1, <2>1 DEF FanInv, ToldInv, BooksInv, EndInv, AllGood, Steps
<1>7. CASE CleanupDone
  <2>1. /\ exec = "cleanup" /\ exec' = "done"
        /\ UNCHANGED <<at, failFast, results, verdict>>
    BY <1>7 DEF CleanupDone, loopVars
  <2> QED BY <1>1, <2>1 DEF FanInv, ToldInv, BooksInv, EndInv, AllGood, Steps
<1>8. CASE ExecutorPanics
  <2>1. /\ exec' = "dropped" /\ verdict' = "panic"
        /\ UNCHANGED <<at, failFast, results>>
    BY <1>8 DEF ExecutorPanics, loopVars
  <2> QED BY <1>1, <2>1 DEF FanInv, ToldInv, BooksInv, EndInv, AllGood, Steps
<1> QED BY <1>2, <1>3, <1>4, <1>5, <1>6, <1>7, <1>8

\* The steps of the executor that record a step.
LEMMA LoopRecords ==
  ASSUME SchedulerAssumption, SuccessInv, Running,
         AssertUnset \/ HelperBuildFails \/ Settle
  PROVE  FanInv' /\ ToldInv' /\ BooksInv' /\ EndInv'
<1> USE DEF SuccessInv
<1>0. /\ exec \in {"loop", "building", "fanout"} /\ exec' = "loop"
      /\ failFast = NoError /\ at \in Steps
      /\ UNCHANGED <<plan, cancelled, pending, results, verdict, main, exit>>
  BY DEF AssertUnset, HelperBuildFails, Settle, MayStart, Record, FanInv,
     PlanInv, taskVars, mainVars
<1>1. FanInv' /\ ToldInv'
  BY <1>0 DEF FanInv, ToldInv
<1>2. EndInv'
  BY <1>0 DEF EndInv, Running
<1>3. CASE AssertUnset \/ HelperBuildFails
  <2>1. Record(<<>>, "Script") /\ "Script" \in RunErrors /\ "Script" # NoError
    BY <1>3 DEF AssertUnset, HelperBuildFails, RunErrors, NoError
  <2>2. <<>> \in Seq(Result) /\ Uncancelled(<<>>)
    BY DEF Uncancelled
  <2> QED BY <1>0, <1>1, <1>2, <2>1, <2>2, RecordBooks
<1>4. CASE Settle
  <2>1. CASE \E i \in DOMAIN results : results[i].outcome = "CopyError"
    <3>1. failFast' = "Script" /\ at' = at + 1 /\ UNCHANGED <<stats, firstError>>
      BY <1>4, <2>1 DEF Settle
    <3>2. plan \in Seq(StepType) /\ at' \in 1..(Len(plan) + 1)
      BY <1>0, <3>1 DEF PlanInv, SchedulerAssumption, Steps
    <3> QED BY <1>0, <1>1, <1>2, <3>1, <3>2 DEF BooksInv, RunErrors, NoError
  <2>2. CASE \A i \in DOMAIN results : results[i].outcome # "CopyError"
    <3>1. Record(results, StepErrorIfFailed(results)) /\ exec = "fanout" /\ AllDone
      BY <1>4, <2>2 DEF Settle
    <3>2. StepErrorIfFailed(results) = NoError => Full(results, Step)
      BY <2>2, <3>1, FanIsFull DEF Clean
    <3>3. ~cancelled => Uncancelled(results)
      BY DEF ToldInv, Uncancelled
    <3>4. results \in Seq(Result)
      BY DEF ResultInv
    <3> QED BY <1>0, <1>1, <1>2, <3>1, <3>2, <3>3, <3>4, ErrorTyped, RecordBooks
  <2> QED BY <2>1, <2>2
<1> QED BY <1>3, <1>4

\* A success is concluded only from full books.
LEMMA ConcludeTrue ==
  ASSUME SchedulerAssumption, SuccessInv, Conclude
  PROVE  FanInv' /\ ToldInv' /\ BooksInv' /\ EndInv'
<1> USE DEF SuccessInv
<1>0. plan \in Seq(StepType) /\ DOMAIN plan = 1..Len(plan) /\ Len(plan) \in Nat
      /\ stats \in Seq(Seq(Result)) /\ DOMAIN stats = 1..Len(stats)
      /\ Len(stats) \in Nat
  BY DEF PlanInv, SchedulerAssumption, ResultInv
<1>1. /\ exec = "leaving" /\ exec' = "cleanup"
      /\ verdict' = IF cancelled THEN "Interrupted" ELSE LoopVerdict
      /\ UNCHANGED <<plan, at, stats, failFast, firstError, results, pending,
                     cancelled, main, exit>>
  BY DEF Conclude, loopVars, taskVars, mainVars
<1>2. FanInv' /\ ToldInv' /\ BooksInv'
  BY <1>1 DEF FanInv, ToldInv, BooksInv
<1>3. AllGood' <=> AllGood
  BY <1>1 DEF AllGood, Steps
<1>4. verdict' \in RunErrors \union {"Success", "Interrupted"}
  BY <1>1 DEF LoopVerdict, BooksInv
<1>5. ASSUME verdict' = "Success" PROVE AllGood
  <2>1. ~cancelled /\ failFast = NoError /\ firstError = NoError
    BY <1>1, <1>5 DEF LoopVerdict, BooksInv, RunErrors
  <2>2. at \notin Steps /\ at \in 1..(Len(plan) + 1) /\ at = Len(stats) + 1
    BY <1>1, <2>1 DEF BooksInv
  <2>3. Len(stats) = Len(plan)
    <3>1. Len(stats) + 1 \notin 1..Len(plan) /\ Len(stats) + 1 \in 1..(Len(plan) + 1)
      BY <1>0, <2>2 DEF Steps
    <3>2. \A m, n \in Nat : m + 1 \notin 1..n /\ m + 1 \in 1..(n + 1) => m = n
      OBVIOUS
    <3>3. Len(stats) \in Nat /\ Len(plan) \in Nat
      BY <1>0
    <3> QED BY <3>1, <3>2, <3>3
  <2>4. ASSUME NEW i \in Steps
        PROVE  /\ \A r \in DOMAIN stats[i] : Good(stats[i][r].outcome)
               /\ {stats[i][r].host : r \in DOMAIN stats[i]} = plan[i].hosts
    <3>1. i \in 1..Len(stats)
      BY <1>0, <2>3 DEF Steps
    <3>2. Full(stats[i], plan[i]) /\ Uncancelled(stats[i])
      BY <2>1, <3>1 DEF BooksInv
    <3> QED BY <3>2 DEF Full, Uncancelled, Good
  <2> QED BY <2>3, <2>4 DEF AllGood
<1>6. EndInv'
  BY <1>1, <1>3, <1>4, <1>5 DEF EndInv
<1> QED BY <1>2, <1>6

\* The main task reports 0 for a success only.
LEMMA MainTrue ==
  ASSUME SuccessInv,
         Main \/ Ended \/ UNCHANGED vars \/ \E w \in Workers : ThreadEnds(w)
  PROVE  FanInv' /\ ToldInv' /\ BooksInv' /\ EndInv'
<1> USE DEF SuccessInv
<1>1. /\ UNCHANGED <<plan, at, stats, failFast, firstError, results, pending,
                     task, verdict>>
      /\ exec' \in {exec, "dropped"} /\ cancelled' \in {cancelled, TRUE}
  BY DEF Main, Signal, HandlerFails, Report, ReportPanic, GiveUp, Tick,
     Shutdown, Ended, ThreadEnds, vars, loopVars, taskVars
<1>s. Step' = Step /\ Steps' = Steps
  BY <1>1 DEF Step, Steps
<1>x. exec' \in {"fanout", "building", "leaving"} => exec = exec'
  BY <1>1
<1>c. ~cancelled' => ~cancelled
  BY <1>1
<1>a. FanInv'
  BY <1>1, <1>s, <1>x DEF FanInv
<1>b. ToldInv'
  BY <1>1, <1>c DEF ToldInv
<1>d. ~cancelled' => \A i \in 1..Len(stats') : Uncancelled(stats'[i])
  BY <1>1, <1>c DEF BooksInv
<1>e. exec' = "leaving" => at' \notin Steps' \/ failFast' # NoError \/ cancelled'
  BY <1>1, <1>s, <1>x, <1>c DEF BooksInv
<1>2. FanInv' /\ ToldInv' /\ BooksInv'
  BY <1>1, <1>a, <1>b, <1>d, <1>e DEF BooksInv
<1>3. AllGood' <=> AllGood
  BY <1>1 DEF AllGood, Steps
<1>4. /\ exec' \in {"cleanup", "done"} => exec' = exec
      /\ verdict' = verdict
  BY <1>1
<1>5. ASSUME exit' = 0 PROVE main' \in {"exit", "gone"} /\ AllGood
  <2>1. CASE Report
    <3>1. exec = "done" /\ main' = "exit"
          /\ exit' = CASE verdict = "Success" -> 0
                       [] verdict = "Interrupted" -> 130
                       [] OTHER -> ExitCode(verdict)
      BY <2>1 DEF Report
    <3>2. verdict \in RunErrors \union {"Success", "Interrupted"}
      BY <3>1 DEF EndInv
    <3>3. verdict = "Success"
      BY <1>5, <3>1, <3>2 DEF ExitCode, RunErrors
    <3> QED BY <3>1, <3>3 DEF EndInv
  <2>2. CASE HandlerFails \/ ReportPanic \/ GiveUp
    BY <1>5, <2>2 DEF HandlerFails, ReportPanic, GiveUp, ExitCode
  <2>3. CASE Signal \/ Tick \/ Shutdown \/ Ended \/ UNCHANGED vars
             \/ \E w \in Workers : ThreadEnds(w)
    <3>1. exit' = exit /\ (main \in {"exit", "gone"} => main' \in {"exit", "gone"})
      BY <2>3 DEF Signal, Tick, Shutdown, Ended, ThreadEnds, vars, mainVars
    <3> QED BY <1>5, <3>1 DEF EndInv
  <2> QED BY <2>1, <2>2, <2>3 DEF Main
<1>6. EndInv'
  BY <1>1, <1>3, <1>4, <1>5 DEF EndInv
<1> QED BY <1>2, <1>6

\* The executor records results only.
LEMMA ExecutorResults ==
  ASSUME ResultInv, Loop \/ HelperBuilt \/ HelperBuildFails \/ ExecutorPanics
  PROVE  ResultInv'
<1>0. <<>> \in Seq(Result)
  OBVIOUS
<1>1. pending' = pending /\ results' \in {results, <<>>}
  BY DEF Loop, SetupRun, PlanFailure, StartStep, AssertUnset, StartBuild,
     Settle, BreakLoop, Conclude, CleanupDone, HelperBuilt, HelperBuildFails,
     ExecutorPanics, Record, Spawn, taskVars
<1>2. stats' \in {stats, Append(stats, <<>>), Append(stats, results)}
  BY DEF Loop, SetupRun, PlanFailure, StartStep, AssertUnset, StartBuild,
     Settle, BreakLoop, Conclude, CleanupDone, HelperBuilt, HelperBuildFails,
     ExecutorPanics, Record, loopVars
<1>3. stats' \in Seq(Seq(Result))
  <2>1. stats \in Seq(Seq(Result)) /\ results \in Seq(Result)
    BY DEF ResultInv
  <2>2. \A rs \in Seq(Result) : Append(stats, rs) \in Seq(Seq(Result))
    BY <2>1
  <2> QED BY <1>0, <1>2, <2>1, <2>2
<1> QED BY <1>0, <1>1, <1>3 DEF ResultInv

LEMMA SuccessStep ==
  ASSUME SchedulerAssumption, SuccessInv, [Next]_vars
  PROVE  SuccessInv'
<1>1. PhaseInv' /\ PlanInv'
  BY PhaseStep, PlanStep DEF SuccessInv
<1>2. CASE \E h \in Workers : \/ HostTask(h) \/ ChildExits(h)
                              \/ BudgetExpires(h) \/ MakeStaging(h)
                              \/ HostPanics(h)
  <2>1. ResultInv' /\ FanInv' /\ ToldInv' /\ UNCHANGED loopFrame
    BY <1>2, HostResults, HostFan DEF SuccessInv
  <2>2. BooksInv' /\ EndInv'
    BY <2>1 DEF SuccessInv, BooksInv, EndInv, AllGood, Steps, loopFrame, loopVars
  <2> QED BY <1>1, <2>1, <2>2 DEF SuccessInv
<1>3. CASE Running /\ (Loop \/ HelperBuilt \/ HelperBuildFails \/ ExecutorPanics)
  <2>1. FanInv' /\ ToldInv' /\ BooksInv' /\ EndInv'
    BY <1>3, LoopSilent, LoopRecords, ConcludeTrue DEF Loop
  <2>2. ResultInv'
    BY <1>3, ExecutorResults DEF SuccessInv
  <2> QED BY <1>1, <2>1, <2>2 DEF SuccessInv
<1>4. CASE Main \/ Ended \/ UNCHANGED vars \/ \E w \in Workers : ThreadEnds(w)
  <2>1. FanInv' /\ ToldInv' /\ BooksInv' /\ EndInv'
    BY <1>4, MainTrue
  <2>2. UNCHANGED <<pending, results, stats>>
    BY <1>4 DEF Main, Signal, HandlerFails, Report, ReportPanic, GiveUp, Tick,
       Shutdown, Ended, ThreadEnds, vars, loopVars, taskVars
  <2> QED BY <1>1, <2>1, <2>2 DEF SuccessInv, ResultInv
<1> QED BY <1>2, <1>3, <1>4 DEF Next, World

\* Exit code 0 means that every selected step ran on every one of its hosts
\* and none failed, was cancelled or was left out (execute_plan, run_plan).
THEOREM SuccessCorrect == Spec => []SuccessIsComplete
<1>1. Init => SuccessInv
  BY SchedulerAssumption, InitBooks
<1>2. SuccessInv /\ [Next]_vars => SuccessInv'
  BY SchedulerAssumption, SuccessStep
<1>3. SuccessInv => SuccessIsComplete
  BY DEF SuccessInv, EndInv, AllGood, SuccessIsComplete
<1> QED BY <1>1, <1>2, <1>3, PTL DEF Spec

-----------------------------------------------------------------------------
(* Every host that received a copy has had its removal tried. *)

Copied(step, r) == step.kind = "copy" /\ step.stage /\ r.outcome = "Ok"

\* The guard has every host with a copied result; the removals have every
\* host of the guard, and end with it.
GuardInv ==
  /\ touched \subseteq Workers
  /\ exec = "setup" => touched = {}
  /\ exec = "fanout" =>
       \A r \in DOMAIN results : Copied(Step, results[r]) => results[r].host \in touched
  /\ \A i \in 1..Len(stats) : \A r \in DOMAIN stats[i] :
       Copied(plan[i], stats[i][r]) => stats[i][r].host \in touched
  /\ exec = "cleanup" =>
       \A h \in touched : sweep[h] \in {"queued", "running"} \/ h \in swept
  /\ exec = "done" => touched \subseteq swept

LEMMA InitGuard == Init => GuardInv
  BY DEF Init, GuardInv

\* A host task ends: with a copy, it is in the guard.
LEMMA FinishGuard ==
  ASSUME GuardInv, ResultInv, exec = "fanout", NEW h \in Workers, NEW r \in Result,
         UNCHANGED <<exec, plan, at, stats>>, Finish(h, r),
         touched' \in {touched, touched \union {h}},
         Copied(Step, r) => r.host \in touched'
  PROVE  GuardInv'
<1>1. /\ Len(results) \in Nat /\ DOMAIN results' = 1..(Len(results) + 1)
      /\ DOMAIN results = 1..Len(results)
      /\ \A i \in 1..Len(results) : results'[i] = results[i]
      /\ results'[Len(results) + 1] = r
  BY DEF ResultInv, Finish
<1>2. \A i \in DOMAIN results' : i \in DOMAIN results \/ i = Len(results) + 1
  BY <1>1
<1>3. touched \subseteq touched' /\ touched' \subseteq Workers
  BY DEF GuardInv
<1>4. Step' = Step
  BY DEF Step
<1>5. ASSUME NEW i \in DOMAIN results', Copied(Step, results'[i])
      PROVE  results'[i].host \in touched'
  BY <1>1, <1>2, <1>3, <1>5 DEF GuardInv
<1> QED BY <1>3, <1>4, <1>5 DEF GuardInv

LEMMA HostGuard ==
  ASSUME SchedulerAssumption, PhaseInv, PlanInv, ResultInv, GuardInv,
         NEW h \in Workers,
         \/ HostTask(h) \/ ChildExits(h) \/ BudgetExpires(h)
         \/ MakeStaging(h) \/ HostPanics(h)
  PROVE  GuardInv'
<1>f. UNCHANGED <<exec, plan, at, stats>>
  BY DEF HostTask, ChildExits, BudgetExpires, MakeStaging, HostPanics, Acquire,
     Begin, NextTransfer, Closed, CatchCancel, AcquireSweep, SweepEnds, Close,
     loopVars
<1>s. Step' = Step
  BY <1>f DEF Step
<1>1. CASE Closed(h)
  <2> DEFINE r == [host |-> h, outcome |-> pending[h]]
  <2>1. r \in Result /\ Finish(h, r) /\ exec = "fanout"
    BY <1>1 DEF ResultInv, Result, Closed
  <2>2. /\ touched' \in {touched, touched \union {h}}
        /\ Copied(Step, r) => h \in touched' /\ r.host = h
    BY <1>1 DEF Closed, Copied
  <2> HIDE DEF r
  <2> QED BY <1>f, <2>1, <2>2, FinishGuard
<1>2. CASE HostPanics(h)
  <2> DEFINE r == [host |-> "unknown", outcome |-> "Transport"]
  <2>1. r \in Result /\ Finish(h, r) /\ exec = "fanout" /\ touched' = touched
    BY <1>2 DEF Result, HostOutcomes, HostPanics, Working, stageVars
  <2>2. ~Copied(Step, r)
    BY DEF Copied
  <2> HIDE DEF r
  <2> QED BY <1>f, <2>1, <2>2, FinishGuard
<1>3. CASE Begin(h)
  <2>0. exec = "fanout" /\ UNCHANGED stageVars
    BY <1>3 DEF Begin
  <2> DEFINE r == [host |-> h, outcome |-> "Cancelled"]
  <2>1. r \in Result /\ ~Copied(Step, r)
    BY DEF Result, HostOutcomes, Copied
  <2>2. CASE Finish(h, r)
    <3> HIDE DEF r
    <3> QED BY <1>f, <2>0, <2>1, <2>2, FinishGuard DEF stageVars
  <2>3. CASE results' = results
    BY <1>f, <1>s, <2>0, <2>3 DEF GuardInv, stageVars
  <2> QED BY <1>3, <2>2, <2>3 DEF Begin
<1>4. CASE \/ Acquire(h) \/ NextTransfer(h) \/ CatchCancel(h) \/ ChildExits(h)
           \/ BudgetExpires(h) \/ MakeStaging(h)
  <2>1. UNCHANGED <<results, touched, swept, sweep>> /\ exec = "fanout"
    BY <1>4 DEF Acquire, NextTransfer, CatchCancel, ChildExits, BudgetExpires,
       MakeStaging, Working, Close, stageVars
  <2> QED BY <1>f, <1>s, <2>1 DEF GuardInv
<1>5. CASE AcquireSweep(h) \/ SweepEnds(h)
  <2>1. /\ exec = "cleanup" /\ UNCHANGED <<results, touched>>
        /\ \/ sweep' = [sweep EXCEPT ![h] = "running"] /\ swept' = swept
           \/ sweep' = [sweep EXCEPT ![h] = "done"] /\ swept' = swept \union {h}
    BY <1>5 DEF AcquireSweep, SweepEnds
  <2> QED BY <1>f, <1>s, <2>1 DEF GuardInv, PhaseInv
<1> QED BY <1>1, <1>2, <1>3, <1>4, <1>5 DEF HostTask

LEMMA LoopGuard ==
  ASSUME SchedulerAssumption, PhaseInv, PlanInv, ResultInv, FanInv, BooksInv,
         GuardInv, Loop \/ HelperBuilt \/ HelperBuildFails \/ ExecutorPanics
  PROVE  GuardInv'
<1>1. UNCHANGED <<plan, touched, swept>>
  BY DEF Loop, SetupRun, PlanFailure, StartStep, AssertUnset, StartBuild,
     Settle, BreakLoop, Conclude, CleanupDone, HelperBuilt, HelperBuildFails,
     ExecutorPanics, stageVars
<1>2. CASE SetupRun \/ BreakLoop \/ ExecutorPanics \/ PlanFailure \/ StartBuild
  <2>1. /\ UNCHANGED <<stats, results, sweep>>
        /\ exec' \notin {"setup", "fanout", "cleanup"}
        /\ exec' = "done" => exec = "setup"
    BY <1>2 DEF SetupRun, BreakLoop, ExecutorPanics, PlanFailure, StartBuild,
       MayStart, loopVars, stageVars
  <2> QED BY <1>1, <2>1 DEF GuardInv
<1>3. CASE StartStep \/ HelperBuilt
  <2>1. exec' = "fanout" /\ results' = <<>> /\ UNCHANGED stats
    BY <1>3 DEF StartStep, HelperBuilt, Spawn, loopVars
  <2>2. DOMAIN results' = {}
    BY <2>1
  <2> QED BY <1>1, <2>1, <2>2 DEF GuardInv
<1>4. CASE AssertUnset \/ HelperBuildFails \/ Settle
  <2>1. exec' = "loop" /\ (\/ stats' = stats \/ stats' = Append(stats, <<>>)
                           \/ stats' = Append(stats, results) /\ exec = "fanout")
    BY <1>4 DEF AssertUnset, HelperBuildFails, Settle, MayStart, Record
  <2>2. stats \in Seq(Seq(Result)) /\ results \in Seq(Result) /\ <<>> \in Seq(Result)
    BY DEF ResultInv
  <2>3. exec = "fanout" => plan[Len(stats) + 1] = Step
    BY DEF FanInv, BooksInv, Step
  <2>4. ASSUME NEW rs \in Seq(Result), stats' = Append(stats, rs),
               \A r \in DOMAIN rs : Copied(plan[Len(stats) + 1], rs[r])
                                      => rs[r].host \in touched
        PROVE  \A i \in 1..Len(stats') : \A r \in DOMAIN stats'[i] :
                 Copied(plan[i], stats'[i][r]) => stats'[i][r].host \in touched
    <3>1. /\ Len(stats') = Len(stats) + 1 /\ Len(stats) \in Nat
          /\ \A i \in 1..Len(stats) : stats'[i] = stats[i]
          /\ stats'[Len(stats) + 1] = rs
      BY <2>2, <2>4
    <3>2. \A i \in 1..Len(stats') : i \in 1..Len(stats) \/ i = Len(stats) + 1
      BY <3>1
    <3> QED BY <2>4, <3>1, <3>2 DEF GuardInv
  <2>5. CASE stats' = stats
    BY <1>1, <2>1, <2>5 DEF GuardInv
  <2>6. CASE stats' = Append(stats, <<>>)
    <3>1. DOMAIN <<>> = {}
      OBVIOUS
    <3> QED BY <1>1, <2>1, <2>2, <2>4, <2>6, <3>1 DEF GuardInv
  <2>7. CASE stats' = Append(stats, results) /\ exec = "fanout"
    <3>1. \A r \in DOMAIN results : Copied(plan[Len(stats) + 1], results[r])
                                      => results[r].host \in touched
      BY <2>3, <2>7 DEF GuardInv
    <3> QED BY <1>1, <2>1, <2>2, <2>4, <2>7, <3>1 DEF GuardInv
  <2> QED BY <2>1, <2>5, <2>6, <2>7
<1>5. CASE Conclude
  <2>1. /\ exec' = "cleanup" /\ UNCHANGED <<stats, results>>
        /\ sweep' = [h \in Workers |-> IF h \in touched THEN "queued" ELSE "none"]
    BY <1>5 DEF Conclude, loopVars
  <2> QED BY <1>1, <2>1 DEF GuardInv
<1>6. CASE CleanupDone
  <2>1. exec = "cleanup" /\ exec' = "done" /\ AllSwept /\ UNCHANGED <<stats, results>>
    BY <1>6 DEF CleanupDone, loopVars
  <2>2. touched \subseteq swept
    BY <2>1 DEF GuardInv, AllSwept
  <2> QED BY <1>1, <2>1, <2>2 DEF GuardInv
<1> QED BY <1>2, <1>3, <1>4, <1>5, <1>6 DEF Loop

\* When the executor is done, every host that reported a successful copy into
\* the staging directory has had its removal tried (WorkdirGuard).
THEOREM CopiedCorrect == Spec => []CopiedHostsSwept
<1>1. Init => SuccessInv /\ GuardInv
  BY SchedulerAssumption, InitBooks, InitGuard
<1>2. SuccessInv /\ GuardInv /\ [Next]_vars => (SuccessInv /\ GuardInv)'
  <2> SUFFICES ASSUME SuccessInv, GuardInv, [Next]_vars PROVE GuardInv'
    BY SchedulerAssumption, SuccessStep
  <2>1. CASE \E h \in Workers : \/ HostTask(h) \/ ChildExits(h)
                                \/ BudgetExpires(h) \/ MakeStaging(h)
                                \/ HostPanics(h)
    BY <2>1, SchedulerAssumption, HostGuard DEF SuccessInv
  <2>2. CASE Loop \/ HelperBuilt \/ HelperBuildFails \/ ExecutorPanics
    BY <2>2, SchedulerAssumption, LoopGuard DEF SuccessInv
  <2>3. CASE Main \/ Ended \/ UNCHANGED vars \/ \E w \in Workers : ThreadEnds(w)
    <3>1. UNCHANGED <<plan, at, stats, results, touched, swept, sweep>>
          /\ exec' \in {exec, "dropped"}
      BY <2>3 DEF Main, Signal, HandlerFails, Report, ReportPanic, GiveUp, Tick,
         Shutdown, Ended, ThreadEnds, vars, loopVars, stageVars
    <3>2. Step' = Step
      BY <3>1 DEF Step
    <3> QED BY <3>1, <3>2 DEF GuardInv
  <2> QED BY <2>1, <2>2, <2>3 DEF Next, World
<1>3. SuccessInv /\ GuardInv => CopiedHostsSwept
  <2> SUFFICES ASSUME SuccessInv, GuardInv PROVE CopiedHostsSwept
    OBVIOUS
  <2>1. DOMAIN stats = 1..Len(stats)
    BY DEF SuccessInv, ResultInv
  <2> QED BY <2>1 DEF GuardInv, CopiedHostsSwept, Copied
<1> QED BY <1>1, <1>2, <1>3, PTL DEF Spec

-----------------------------------------------------------------------------
(* The first failure names the exit code. *)

\* The first n recorded steps had hosts, and none of them failed.
Passed(n) == \A i \in 1..n : stats[i] # <<>> /\ Clean(stats[i])

\* The error kept is that of the first step that failed; unless the loop was
\* stopped by a failure it does not record, it is also what stopped it.
FirstInv ==
  /\ Len(stats) <= at - 1
  /\ Len(stats) = at - 1 =>
       failFast = IF ContinueOnError THEN NoError ELSE firstError
  /\ \A k \in 1..Len(stats) : Passed(k - 1) /\ ~Clean(stats[k]) =>
       firstError = StepErrorIfFailed(stats[k])
  /\ Passed(Len(stats)) => firstError = NoError

\* The verdict is drawn from the errors of the loop, and the exit code from
\* the verdict.
ExitInv ==
  /\ exec = "setup" => stats = <<>>
  /\ exec \in {"cleanup", "done"} /\ verdict # "Interrupted" /\ stats # <<>> =>
       verdict = LoopVerdict
  /\ main = "exit" /\ exec = "done" =>
       exit = CASE verdict = "Success" -> 0
                [] verdict = "Interrupted" -> 130
                [] OTHER -> ExitCode(verdict)

LEMMA InitFirst == Init => FirstInv /\ ExitInv
  BY DEF Init, FirstInv, ExitInv, Passed, NoError

\* A recorded step without hosts, or with the error of its first failure.
LEMMA RecordFirst ==
  ASSUME SchedulerAssumption, SuccessInv, FirstInv, failFast = NoError,
         NEW rs \in Seq(Result), NEW error,
         rs # <<>> => error = StepErrorIfFailed(rs), Record(rs, error)
  PROVE  FirstInv'
<1>1. /\ Len(stats') = Len(stats) + 1 /\ Len(stats) \in Nat
      /\ \A i \in 1..Len(stats) : stats'[i] = stats[i]
      /\ stats'[Len(stats) + 1] = rs
  BY DEF SuccessInv, ResultInv, Record
<1>2. /\ at = Len(stats) + 1 /\ at' = at + 1
      /\ failFast' = IF ContinueOnError THEN failFast ELSE error
      /\ firstError' = IF firstError = NoError THEN error ELSE firstError
  BY DEF SuccessInv, BooksInv, Record
<1>3. ASSUME NEW n \in 0..Len(stats) PROVE Passed(n)' <=> Passed(n)
  <2>1. \A i \in 1..n : i \in 1..Len(stats)
    BY <1>1
  <2> QED BY <1>1, <2>1 DEF Passed
<1>4. ~ContinueOnError => firstError = NoError
  BY <1>1, <1>2 DEF FirstInv
<1>5. Clean(<<>>)
  <2>1. FailedAt(<<>>) = {}
    BY DEF FailedAt
  <2> QED BY <2>1 DEF Clean, StepErrorIfFailed
<1>6. ASSUME NEW k \in 1..Len(stats'), Passed(k - 1)', ~Clean(stats'[k])
      PROVE  firstError' = StepErrorIfFailed(stats'[k])
  <2>1. k \in 1..Len(stats) \/ k = Len(stats) + 1
    BY <1>1
  <2>2. Passed(k - 1) /\ k - 1 \in 0..Len(stats)
    BY <1>1, <1>3, <1>6
  <2>3. CASE k \in 1..Len(stats)
    <3>1. firstError = StepErrorIfFailed(stats[k]) /\ ~Clean(stats[k])
      BY <1>1, <1>6, <2>2, <2>3 DEF FirstInv
    <3> QED BY <1>1, <1>2, <2>3, <3>1 DEF Clean
  <2>4. CASE k = Len(stats) + 1
    <3>1. firstError = NoError
      BY <1>1, <2>2, <2>4 DEF FirstInv
    <3>2. rs # <<>>
      BY <1>1, <1>5, <1>6, <2>4
    <3> QED BY <1>1, <1>2, <2>4, <3>1, <3>2
  <2> QED BY <2>1, <2>3, <2>4
<1>7. ASSUME Passed(Len(stats))' PROVE firstError' = NoError
  <2>1. \A i \in 1..(Len(stats) + 1) : stats'[i] # <<>> /\ Clean(stats'[i])
    BY <1>1, <1>7 DEF Passed
  <2>2. rs # <<>> /\ Clean(rs) /\ \A i \in 1..Len(stats) : i \in 1..(Len(stats) + 1)
    BY <1>1, <2>1
  <2>3. Passed(Len(stats))
    BY <1>1, <2>1, <2>2 DEF Passed
  <2>4. firstError = NoError /\ error = NoError
    BY <2>2, <2>3 DEF FirstInv, Clean
  <2> QED BY <1>2, <2>4
<1> QED BY <1>1, <1>2, <1>4, <1>6, <1>7 DEF FirstInv

\* The steps that leave the record alone: an error that is not recorded
\* moves the loop past it.
LEMMA KeepFirst ==
  ASSUME FirstInv, stats' = stats, firstError' = firstError,
         stats \in Seq(Seq(Result)), at \in Nat,
         UNCHANGED <<at, failFast>> \/ at' = at + 1
  PROVE  FirstInv'
<1>1. \A n : Passed(n)' <=> Passed(n)
  BY DEF Passed
<1>2. Len(stats) \in Nat
  OBVIOUS
<1> QED BY <1>1, <1>2 DEF FirstInv

\* What the executor does by itself.
LEMMA LoopFirst ==
  ASSUME SchedulerAssumption, SuccessInv, FirstInv, ExitInv, Running,
         Loop \/ HelperBuilt \/ HelperBuildFails \/ ExecutorPanics
  PROVE  FirstInv' /\ ExitInv'
<1>0. /\ stats \in Seq(Seq(Result)) /\ results \in Seq(Result) /\ at \in Nat
      /\ main # "exit" /\ main' = main
  <2>1. main' = main
    BY DEF Loop, SetupRun, PlanFailure, StartStep, AssertUnset, StartBuild,
       Settle, BreakLoop, Conclude, CleanupDone, HelperBuilt, HelperBuildFails,
       ExecutorPanics, mainVars
  <2> QED BY <2>1 DEF SuccessInv, ResultInv, BooksInv, Running
<1>1. CASE SetupRun \/ BreakLoop \/ ExecutorPanics \/ StartStep \/ StartBuild
           \/ HelperBuilt \/ PlanFailure
  <2>1. /\ stats' = stats /\ firstError' = firstError
        /\ UNCHANGED <<at, failFast>> \/ at' = at + 1
        /\ exec' \notin {"setup", "cleanup"}
        /\ exec' = "done" => exec = "setup"
    BY <1>1 DEF SetupRun, BreakLoop, ExecutorPanics, StartStep, StartBuild,
       HelperBuilt, PlanFailure, MayStart, Spawn, loopVars
  <2>2. FirstInv'
    BY <1>0, <2>1, KeepFirst
  <2>3. ExitInv'
    BY <1>0, <2>1 DEF ExitInv
  <2> QED BY <2>2, <2>3
<1>2. CASE AssertUnset \/ HelperBuildFails
  <2>1. Record(<<>>, "Script") /\ failFast = NoError /\ exec' = "loop"
    BY <1>2 DEF AssertUnset, HelperBuildFails, MayStart, Record, SuccessInv,
       FanInv
  <2>2. <<>> \in Seq(Result)
    OBVIOUS
  <2>3. FirstInv'
    BY <2>1, <2>2, RecordFirst
  <2> QED BY <1>0, <2>1, <2>3 DEF ExitInv
<1>3. CASE Settle
  <2>1. exec' = "loop" /\ failFast = NoError
    BY <1>3 DEF Settle, Record, SuccessInv, FanInv
  <2>2. CASE Record(results, StepErrorIfFailed(results))
    BY <1>0, <2>1, <2>2, RecordFirst DEF ExitInv
  <2>3. CASE at' = at + 1 /\ UNCHANGED <<stats, firstError>>
    BY <1>0, <2>1, <2>3, KeepFirst DEF ExitInv
  <2> QED BY <1>3, <2>2, <2>3 DEF Settle
<1>4. CASE Conclude
  <2>1. /\ UNCHANGED loopVars /\ exec' = "cleanup"
        /\ verdict' = IF cancelled THEN "Interrupted" ELSE LoopVerdict
    BY <1>4 DEF Conclude
  <2>2. FirstInv'
    BY <1>0, <2>1, KeepFirst DEF loopVars
  <2> QED BY <1>0, <2>1, <2>2 DEF ExitInv, LoopVerdict, loopVars
<1>5. CASE CleanupDone
  <2>1. /\ UNCHANGED <<loopVars, verdict>> /\ exec' = "done" /\ exec = "cleanup"
    BY <1>5 DEF CleanupDone
  <2>2. FirstInv'
    BY <1>0, <2>1, KeepFirst DEF loopVars
  <2> QED BY <1>0, <2>1, <2>2 DEF ExitInv, LoopVerdict, loopVars
<1> QED BY <1>1, <1>2, <1>3, <1>4, <1>5 DEF Loop

\* Reporting turns the verdict into the exit code; nothing revises it.
LEMMA MainFirst ==
  ASSUME SuccessInv, FirstInv, ExitInv,
         Main \/ Ended \/ UNCHANGED vars \/ \E w \in Workers : ThreadEnds(w)
  PROVE  FirstInv' /\ ExitInv'
<1>1. UNCHANGED <<at, stats, failFast, firstError, verdict>>
      /\ exec' \in {exec, "dropped"}
  BY DEF Main, Signal, HandlerFails, Report, ReportPanic, GiveUp, Tick,
     Shutdown, Ended, ThreadEnds, vars, loopVars
<1>2. FirstInv'
  BY <1>1, KeepFirst DEF SuccessInv, ResultInv, BooksInv
<1>3. CASE Report
  <2>1. exit' = CASE verdict = "Success" -> 0
                  [] verdict = "Interrupted" -> 130
                  [] OTHER -> ExitCode(verdict)
    BY <1>3 DEF Report
  <2> QED BY <1>1, <1>2, <2>1 DEF ExitInv, LoopVerdict
<1>4. CASE ~Report
  <2>1. main' = "exit" /\ exec' = "done" => main = "exit" /\ exit' = exit
    BY <1>4 DEF Main, Signal, HandlerFails, ReportPanic, GiveUp, Tick,
       Shutdown, Ended, ThreadEnds, vars, mainVars
  <2> QED BY <1>1, <1>2, <2>1 DEF ExitInv, LoopVerdict
<1> QED BY <1>3, <1>4

\* The least failure of a step names its error.
LEMMA LeastFailure ==
  ASSUME NEW rs \in Seq(Result), NEW i \in FailedAt(rs),
         \A j \in FailedAt(rs) : i <= j
  PROVE  StepErrorIfFailed(rs) = ErrorOf(rs[i].outcome)
<1>1. FailedAt(rs) \subseteq Nat
  BY DEF FailedAt
<1>2. \A j \in FailedAt(rs) : (\A k \in FailedAt(rs) : j <= k) => j = i
  BY <1>1
<1>3. FirstFailed(rs) = i
  BY <1>2 DEF FirstFailed
<1> QED BY <1>3 DEF StepErrorIfFailed

\* The first failure of the run is the first of its step, and the steps
\* before it are clean.
LEMMA FirstFailureIs ==
  ASSUME stats \in Seq(Seq(Result)), NEW a \in FirstFailure
  PROVE  /\ a[1] \in 1..Len(stats)
         /\ \A i \in 1..(a[1] - 1) : Clean(stats[i])
         /\ StepErrorIfFailed(stats[a[1]]) = ErrorOf(stats[a[1]][a[2]].outcome)
         /\ ~Clean(stats[a[1]])
<1>1. /\ a[1] \in 1..Len(stats) /\ a[2] \in DOMAIN stats[a[1]]
      /\ ErrorOf(stats[a[1]][a[2]].outcome) # NoError
  BY DEF FirstFailure, AllResults
<1>2. ASSUME NEW i \in 1..Len(stats), NEW r \in DOMAIN stats[i],
             ErrorOf(stats[i][r].outcome) # NoError
      PROVE  ~(i < a[1]) /\ (i = a[1] => ~(r < a[2]))
  <2> DEFINE b == <<i, r>>
  <2>1. b \in AllResults
    BY DEF AllResults
  <2>2. b[1] = i /\ b[2] = r
    OBVIOUS
  <2> HIDE DEF b
  <2>3. ~Before(b, a)
    BY <1>2, <2>1, <2>2 DEF FirstFailure
  <2> QED BY <2>2, <2>3 DEF Before
<1>3. ASSUME NEW i \in 1..(a[1] - 1) PROVE Clean(stats[i])
  <2>1. i \in 1..Len(stats) /\ i < a[1]
    BY <1>1
  <2>2. FailedAt(stats[i]) = {}
    BY <1>2, <2>1 DEF FailedAt
  <2> QED BY <2>2 DEF Clean, StepErrorIfFailed
<1>4. stats[a[1]] \in Seq(Result)
  BY <1>1
<1>5. a[2] \in FailedAt(stats[a[1]])
  BY <1>1 DEF FailedAt
<1>6. \A j \in FailedAt(stats[a[1]]) : a[2] <= j
  <2> SUFFICES ASSUME NEW j \in FailedAt(stats[a[1]]) PROVE a[2] <= j
    OBVIOUS
  <2>1. j \in DOMAIN stats[a[1]] /\ ~(j < a[2])
    BY <1>1, <1>2 DEF FailedAt
  <2> QED BY <1>1, <1>4, <2>1
<1>7. StepErrorIfFailed(stats[a[1]]) = ErrorOf(stats[a[1]][a[2]].outcome)
  BY <1>4, <1>5, <1>6, LeastFailure
<1> QED BY <1>1, <1>3, <1>7 DEF Clean

\* The exit code of a run is that of the first host that failed, in the order
\* the hosts completed; what --continue-on-error collects later never
\* replaces it (first_error, step_error_if_failed).
THEOREM FirstFailureCorrect == Spec => []FirstFailureWins
<1>1. Init => SuccessInv /\ FirstInv /\ ExitInv
  BY SchedulerAssumption, InitBooks, InitFirst
<1>2. SuccessInv /\ FirstInv /\ ExitInv /\ [Next]_vars
        => (SuccessInv /\ FirstInv /\ ExitInv)'
  <2> SUFFICES ASSUME SuccessInv, FirstInv, ExitInv, [Next]_vars
               PROVE  FirstInv' /\ ExitInv'
    BY SchedulerAssumption, SuccessStep
  <2>1. CASE \E h \in Workers : \/ HostTask(h) \/ ChildExits(h)
                                \/ BudgetExpires(h) \/ MakeStaging(h)
                                \/ HostPanics(h)
    <3>1. UNCHANGED loopFrame
      BY <2>1, SchedulerAssumption, HostFan DEF SuccessInv
    <3>2. FirstInv'
      BY <3>1, KeepFirst DEF SuccessInv, ResultInv, BooksInv, loopFrame, loopVars
    <3> QED BY <3>1, <3>2 DEF ExitInv, LoopVerdict, loopFrame, loopVars
  <2>2. CASE Running /\ (Loop \/ HelperBuilt \/ HelperBuildFails
                          \/ ExecutorPanics)
    BY <2>2, SchedulerAssumption, LoopFirst
  <2>3. CASE Main \/ Ended \/ UNCHANGED vars \/ \E w \in Workers : ThreadEnds(w)
    BY <2>3, MainFirst
  <2> QED BY <2>1, <2>2, <2>3 DEF Next, World
<1>3. SuccessInv /\ FirstInv /\ ExitInv => FirstFailureWins
  <2> SUFFICES ASSUME SuccessInv, FirstInv, ExitInv, main = "exit",
                      exec = "done", verdict # "Interrupted",
                      Len(stats) = at - 1, NEW a \in FirstFailure,
                      \A i \in 1..(a[1] - 1) : stats[i] # <<>>
               PROVE  exit = ExitCode(ErrorOf(stats[a[1]][a[2]].outcome))
    BY DEF FirstFailureWins
  <2> DEFINE error == StepErrorIfFailed(stats[a[1]])
  <2>1. /\ a[1] \in 1..Len(stats) /\ error # NoError
        /\ \A i \in 1..(a[1] - 1) : Clean(stats[i])
        /\ error = ErrorOf(stats[a[1]][a[2]].outcome)
    BY FirstFailureIs DEF SuccessInv, ResultInv, Clean
  <2>2. firstError = error
    <3>1. Passed(a[1] - 1) /\ ~Clean(stats[a[1]])
      BY <2>1 DEF Passed, Clean
    <3> QED BY <2>1, <3>1 DEF FirstInv
  <2>3. failFast \in {NoError, error}
    BY <2>2 DEF FirstInv
  <2>4. stats # <<>>
    BY <2>1
  <2>5. verdict = error /\ error \in RunErrors
    <3>1. verdict = LoopVerdict
      BY <2>4 DEF ExitInv
    <3> HIDE DEF error
    <3> QED BY <2>1, <2>2, <2>3, <3>1 DEF LoopVerdict, SuccessInv, BooksInv
  <2> HIDE DEF error
  <2>6. exit = ExitCode(error)
    BY <2>5 DEF ExitInv, RunErrors
  <2> QED BY <2>1, <2>6
<1> QED BY <1>1, <1>2, <1>3, PTL DEF Spec

-----------------------------------------------------------------------------
(* The permits of --parallel, and the time of the removals. *)

\* The hosts whose task or removal holds a permit.
HoldsSlot(h) == /\ exec = "fanout" /\ Slotted(Step.kind)
                /\ task[h] \in {"slotted", "running", "closing"}
Holders == {h \in Hosts : HoldsSlot(h) \/ sweep[h] = "running"}

\* Until the executor is dropped every permit is free or held by one host.
PermitInv ==
  /\ touched \subseteq Hosts
  /\ \A h \in Workers : sweep[h] # "none" => h \in Hosts
  /\ Parallel > 0 /\ exec # "dropped" =>
       permits = Parallel - Cardinality(Holders)

LEMMA HoldersFinite ==
  ASSUME SchedulerAssumption
  PROVE  IsFiniteSet(Holders) /\ Cardinality(Holders) \in Nat
<1>1. IsFiniteSet(Hosts) /\ Holders \in SUBSET Hosts
  BY DEF SchedulerAssumption, Holders
<1>2. IsFiniteSet(Holders)
  BY <1>1, FS_Subset
<1> QED BY <1>2, FS_CardinalityType

LEMMA InitPermits ==
  ASSUME SchedulerAssumption, Init
  PROVE  PermitInv
<1>1. Holders = {}
  BY DEF Init, Holders, HoldsSlot, Workers
<1> QED BY <1>1, FS_EmptySet DEF Init, PermitInv, SchedulerAssumption

\* Outside the fan-out and the cleanup, and when they are over, no permit is
\* held.
LEMMA NoHolders ==
  ASSUME PhaseInv,
         \/ exec \notin {"fanout", "cleanup", "dropped"}
         \/ exec = "fanout" /\ \A h \in Workers : task[h] \in {"none", "queued", "done"}
         \/ exec = "cleanup" /\ \A h \in Workers : sweep[h] # "running"
  PROVE  Holders = {}
  BY DEF PhaseInv, AllSwept, Holders, HoldsSlot, Workers

\* The loop moves between states in which no permit is held.
LEMMA LoopPermits ==
  ASSUME SchedulerAssumption, SuccessInv, PermitInv,
         Loop \/ HelperBuilt \/ HelperBuildFails \/ ExecutorPanics
  PROVE  PermitInv'
<1>p. PhaseInv /\ PhaseInv'
  BY ExecutorStep DEF SuccessInv
<1>1. /\ UNCHANGED <<touched, permits>>
      /\ \/ sweep' = sweep
         \/ sweep' = [h \in Workers |-> IF h \in touched THEN "queued" ELSE "none"]
  BY DEF Loop, SetupRun, PlanFailure, StartStep, AssertUnset, StartBuild,
     Settle, BreakLoop, Conclude, CleanupDone, HelperBuilt, HelperBuildFails,
     ExecutorPanics, stageVars, taskVars
<1>2. \A h \in Workers : sweep'[h] # "none" => h \in Hosts
  BY <1>1 DEF PermitInv
<1>3. CASE ExecutorPanics
  BY <1>1, <1>2, <1>3 DEF ExecutorPanics, PermitInv
<1>4. CASE ~ExecutorPanics
  <2>1. Holders = {}
    <3>1. CASE Settle
      <4>1. exec = "fanout" /\ AllDone
        BY <3>1 DEF Settle
      <4>2. \A h \in Workers : task[h] \in {"none", "queued", "done"}
        BY <4>1 DEF AllDone
      <4> QED BY <1>p, <4>1, <4>2, NoHolders
    <3>2. CASE CleanupDone
      <4>1. exec = "cleanup" /\ AllSwept
        BY <3>2 DEF CleanupDone
      <4>2. \A h \in Workers : sweep[h] # "running"
        BY <4>1 DEF AllSwept
      <4> QED BY <1>p, <4>1, <4>2, NoHolders
    <3>3. CASE ~(Settle \/ CleanupDone)
      <4>1. exec \in {"setup", "loop", "building", "leaving"}
        BY <1>4, <3>3 DEF Loop, SetupRun, PlanFailure, StartStep, AssertUnset,
           StartBuild, BreakLoop, Conclude, HelperBuilt, HelperBuildFails,
           MayStart
      <4> QED BY <1>p, <4>1, NoHolders
    <3> QED BY <3>1, <3>2, <3>3
  <2>2. Holders' = {}
    <3>1. CASE exec' \notin {"fanout", "cleanup", "dropped"}
      BY <1>p, <3>1 DEF PhaseInv, AllSwept, Holders, HoldsSlot, Workers
    <3>2. CASE StartStep \/ HelperBuilt
      <4>1. /\ exec' = "fanout" /\ AllDone
            /\ task' = [h \in Workers |->
                          IF h \in Step.hosts THEN "queued" ELSE task[h]]
        BY <1>p, <3>2 DEF StartStep, HelperBuilt, MayStart, Spawn, PhaseInv
      <4>2. \A h \in Workers : task'[h] \in {"none", "queued", "done"}
        BY <4>1 DEF AllDone
      <4> QED BY <1>p, <4>1, <4>2
             DEF PhaseInv, AllSwept, Holders, HoldsSlot, Workers
    <3>3. CASE Conclude
      <4>1. exec' = "cleanup" /\ \A h \in Workers : sweep'[h] # "running"
        BY <3>3 DEF Conclude
      <4> QED BY <4>1 DEF Holders, HoldsSlot, Workers
    <3>4. exec' \notin {"fanout", "cleanup", "dropped"} \/ StartStep
            \/ HelperBuilt \/ Conclude
      BY <1>4 DEF Loop, SetupRun, PlanFailure, AssertUnset, StartBuild, Settle,
         BreakLoop, CleanupDone, HelperBuildFails, MayStart, Record
    <3> QED BY <3>1, <3>2, <3>3, <3>4
  <2>3. exec # "dropped"
    BY <1>4 DEF Loop, SetupRun, PlanFailure, StartStep, AssertUnset,
       StartBuild, Settle, BreakLoop, Conclude, CleanupDone, HelperBuilt,
       HelperBuildFails, MayStart
  <2> QED BY <1>1, <1>2, <2>1, <2>2, <2>3 DEF PermitInv
<1> QED BY <1>3, <1>4

\* A permit is taken by a host that had none, or returned by one that had.
LEMMA PermitMoves ==
  ASSUME SchedulerAssumption, PermitInv, touched' \subseteq Hosts,
         \A h \in Workers : sweep'[h] # "none" => h \in Hosts,
         exec # "dropped",
         \/ Holders' = Holders /\ (Parallel > 0 => permits' = permits)
         \/ \E h \in Hosts \ Holders :
              /\ Holders' = Holders \union {h}
              /\ Parallel > 0 => permits' = permits - 1
         \/ \E h \in Holders :
              /\ Holders' = Holders \ {h}
              /\ Parallel > 0 => permits' = permits + 1
  PROVE  PermitInv'
<1>1. IsFiniteSet(Holders) /\ Cardinality(Holders) \in Nat /\ Parallel \in Nat
  BY HoldersFinite DEF SchedulerAssumption
<1>2. \A h : h \notin Holders =>
        Cardinality(Holders \union {h}) = Cardinality(Holders) + 1
  BY <1>1, FS_AddElement
<1>3. \A h \in Holders : Cardinality(Holders \ {h}) = Cardinality(Holders) - 1
  BY <1>1, FS_RemoveElement
<1>4. CASE Parallel = 0
  BY <1>1, <1>4 DEF PermitInv
<1>5. CASE Parallel > 0
  <2>1. permits = Parallel - Cardinality(Holders)
    BY <1>5 DEF PermitInv
  <2>2. permits' = Parallel - Cardinality(Holders')
    BY <1>1, <1>2, <1>3, <1>5, <2>1
  <2> QED BY <2>2 DEF PermitInv
<1> QED BY <1>1, <1>4, <1>5

\* A worker at work in a slotted step is one of its hosts.
LEMMA SlotOnHost ==
  ASSUME SchedulerAssumption, SuccessInv, exec = "fanout", NEW h \in Workers,
         task[h] \notin {"none", "done"}, Slotted(Step.kind)
  PROVE  h \in Hosts
<1>1. h \in Step.hosts
  BY DEF SuccessInv, FanInv
<1>2. plan \in Plans /\ at \in DOMAIN plan
  BY DEF SuccessInv, PlanInv, Steps
<1>3. Step.kind \notin OnController => Step.hosts \subseteq Hosts
  BY <1>2 DEF SchedulerAssumption, Step
<1> QED BY <1>1, <1>3 DEF Slotted

\* The host tasks take and return the permits, and so do the removals.
LEMMA HostPermits ==
  ASSUME SchedulerAssumption, SuccessInv, PermitInv, NEW h \in Workers,
         \/ HostTask(h) \/ ChildExits(h) \/ BudgetExpires(h)
         \/ MakeStaging(h) \/ HostPanics(h)
  PROVE  PermitInv'
<1>p. PhaseInv
  BY DEF SuccessInv
<1>0. UNCHANGED <<exec, plan, at>> /\ Step' = Step
  BY DEF HostTask, ChildExits, BudgetExpires, MakeStaging, HostPanics, Acquire,
     Begin, NextTransfer, Closed, CatchCancel, AcquireSweep, SweepEnds, Close,
     loopVars, Step
<1>1. CASE exec = "fanout" /\ sweep' = sweep /\ touched' \subseteq Hosts
  <2>1. \A g \in Workers : sweep'[g] # "none" => g \in Hosts
    BY <1>1 DEF PermitInv
  <2>2. CASE \/ UNCHANGED permits /\ UNCHANGED task
             \/ /\ UNCHANGED permits
                /\ task[h] \in {"slotted", "running", "closing"}
                /\ \E s \in {"running", "closing"} : task' = [task EXCEPT ![h] = s]
    <3>1. Holders' = Holders
      BY <1>0, <1>1, <1>p, <2>2 DEF Holders, HoldsSlot, PhaseInv, Workers
    <3> QED BY <1>0, <1>1, <2>1, <2>2, <3>1, PermitMoves
  <2>3. CASE /\ task[h] = "queued" /\ task' = [task EXCEPT ![h] = "slotted"]
             /\ permits' = IF Slotted(Step.kind) THEN permits - 1 ELSE permits
    <3>1. CASE Slotted(Step.kind)
      <4>1. h \in Hosts \ Holders
        BY <1>1, <1>p, <2>3, <3>1, SlotOnHost
           DEF Holders, HoldsSlot, PhaseInv, AllSwept
      <4>2. Holders' = Holders \union {h}
        BY <1>0, <1>1, <1>p, <2>3, <3>1, <4>1
           DEF Holders, HoldsSlot, PhaseInv, Workers
      <4> QED BY <1>0, <1>1, <2>1, <2>3, <3>1, <4>1, <4>2, PermitMoves
    <3>2. CASE ~Slotted(Step.kind)
      <4>1. Holders' = Holders
        BY <1>0, <1>1, <1>p, <2>3, <3>2 DEF Holders, HoldsSlot
      <4> QED BY <1>0, <1>1, <2>1, <2>3, <3>2, <4>1, PermitMoves
    <3> QED BY <3>1, <3>2
  <2>4. CASE /\ task[h] \in {"slotted", "running", "closing"}
             /\ task' = [task EXCEPT ![h] = "done"]
             /\ permits' = IF Slotted(Step.kind) THEN permits + 1 ELSE permits
    <3>1. CASE Slotted(Step.kind)
      <4>1. h \in Holders
        BY <1>1, <2>4, <3>1, SlotOnHost DEF Holders, HoldsSlot
      <4>2. Holders' = Holders \ {h}
        BY <1>0, <1>1, <1>p, <2>4, <3>1, <4>1
           DEF Holders, HoldsSlot, PhaseInv, AllSwept, Workers
      <4> QED BY <1>0, <1>1, <2>1, <2>4, <3>1, <4>1, <4>2, PermitMoves
    <3>2. CASE ~Slotted(Step.kind)
      <4>1. Holders' = Holders
        BY <1>0, <1>1, <1>p, <2>4, <3>2 DEF Holders, HoldsSlot
      <4> QED BY <1>0, <1>1, <2>1, <2>4, <3>2, <4>1, PermitMoves
    <3> QED BY <3>1, <3>2
  <2>5. CASE Acquire(h)
    BY <2>3, <2>5 DEF Acquire
  <2>6. CASE Begin(h)
    <3>1. task[h] = "slotted"
      BY <2>6 DEF Begin
    <3>2. \/ task' = [task EXCEPT ![h] = "running"] /\ UNCHANGED permits
          \/ /\ task' = [task EXCEPT ![h] = "done"]
             /\ permits' = IF Slotted(Step.kind) THEN permits + 1 ELSE permits
      BY <2>6 DEF Begin, Finish
    <3> QED BY <2>2, <2>4, <3>1, <3>2
  <2>7. CASE Closed(h) \/ HostPanics(h)
    <3>1. /\ task[h] \in {"running", "closing"}
          /\ task' = [task EXCEPT ![h] = "done"]
          /\ permits' = IF Slotted(Step.kind) THEN permits + 1 ELSE permits
      BY <2>7 DEF Closed, HostPanics, Finish, Working
    <3> QED BY <2>4, <3>1
  <2>8. CASE \/ NextTransfer(h) \/ CatchCancel(h) \/ ChildExits(h)
             \/ BudgetExpires(h) \/ MakeStaging(h)
    <3>1. \/ UNCHANGED permits /\ UNCHANGED task
          \/ /\ UNCHANGED permits /\ task[h] \in {"running", "closing"}
             /\ \E s \in {"running", "closing"} : task' = [task EXCEPT ![h] = s]
      BY <2>8 DEF NextTransfer, CatchCancel, ChildExits, BudgetExpires,
         MakeStaging, Close, Working, taskVars
    <3> QED BY <2>2, <3>1
  <2>9. ~(AcquireSweep(h) \/ SweepEnds(h))
    BY <1>1 DEF AcquireSweep, SweepEnds
  <2> QED BY <2>5, <2>6, <2>7, <2>8, <2>9 DEF HostTask
<1>2. CASE AcquireSweep(h) \/ SweepEnds(h)
  <2>1. /\ exec = "cleanup" /\ UNCHANGED <<task, touched>>
        /\ sweep[h] # "none" /\ h \in Hosts
    BY <1>2 DEF AcquireSweep, SweepEnds, PermitInv
  <2>2. CASE AcquireSweep(h)
    <3>1. /\ sweep[h] = "queued" /\ sweep' = [sweep EXCEPT ![h] = "running"]
          /\ Parallel > 0 => permits' = permits - 1
      BY <2>2 DEF AcquireSweep
    <3>2. h \in Hosts \ Holders /\ Holders' = Holders \union {h}
      BY <1>0, <1>p, <2>1, <3>1 DEF Holders, HoldsSlot, PhaseInv, Workers
    <3>3. \A g \in Workers : sweep'[g] # "none" => g \in Hosts
      BY <1>p, <2>1, <3>1 DEF PermitInv, PhaseInv
    <3>4. touched' \subseteq Hosts
      BY <2>1 DEF PermitInv
    <3> QED BY <1>0, <2>1, <3>1, <3>2, <3>3, <3>4, PermitMoves
  <2>3. CASE SweepEnds(h)
    <3>1. /\ sweep[h] = "running" /\ sweep' = [sweep EXCEPT ![h] = "done"]
          /\ Parallel > 0 => permits' = permits + 1
      BY <2>3 DEF SweepEnds
    <3>2. h \in Holders /\ Holders' = Holders \ {h}
      BY <1>0, <1>p, <2>1, <3>1 DEF Holders, HoldsSlot, PhaseInv, Workers
    <3>3. \A g \in Workers : sweep'[g] # "none" => g \in Hosts
      BY <1>p, <2>1, <3>1 DEF PermitInv, PhaseInv
    <3>4. touched' \subseteq Hosts
      BY <2>1 DEF PermitInv
    <3> QED BY <1>0, <2>1, <3>1, <3>2, <3>3, <3>4, PermitMoves
  <2> QED BY <1>2, <2>2, <2>3
<1>3. CASE ~(AcquireSweep(h) \/ SweepEnds(h))
  <2>1. exec = "fanout" /\ sweep' = sweep
    BY <1>3 DEF HostTask, ChildExits, BudgetExpires, MakeStaging, HostPanics,
       Acquire, Begin, NextTransfer, Closed, CatchCancel, Working, Close,
       stageVars
  <2>2. CASE Closed(h)
    <3>1. Step.kind = "copy" => Step.hosts \subseteq Hosts
      <4>1. plan \in Plans /\ at \in DOMAIN plan
        BY <2>1 DEF SuccessInv, PlanInv, Steps
      <4> QED BY <4>1 DEF SchedulerAssumption, Step, OnController
    <3>2. h \in Step.hosts
      BY <2>1, <2>2 DEF SuccessInv, FanInv, Closed
    <3>3. touched' \subseteq Hosts
      BY <2>2, <3>1, <3>2 DEF Closed, PermitInv
    <3> QED BY <1>1, <2>1, <3>3
  <2>3. CASE ~Closed(h)
    <3>1. touched' = touched
      BY <1>3, <2>3 DEF HostTask, ChildExits, BudgetExpires, MakeStaging,
         HostPanics, Acquire, Begin, NextTransfer, CatchCancel, Close,
         stageVars
    <3> QED BY <1>1, <2>1, <3>1 DEF PermitInv
  <2> QED BY <2>2, <2>3
<1> QED BY <1>2, <1>3

\* The main task and the threads leave the permits alone.
LEMMA MainPermits ==
  ASSUME SuccessInv, PermitInv,
         Main \/ Ended \/ UNCHANGED vars \/ \E w \in Workers : ThreadEnds(w)
  PROVE  PermitInv'
<1>1. /\ UNCHANGED <<plan, at, task, sweep, touched, permits>>
      /\ exec' \in {exec, "dropped"}
  BY DEF Main, Signal, HandlerFails, Report, ReportPanic, GiveUp, Tick,
     Shutdown, Ended, ThreadEnds, vars, loopVars, taskVars, stageVars
<1>2. exec' # "dropped" => Holders' = Holders
  BY <1>1 DEF Holders, HoldsSlot, Step
<1> QED BY <1>1, <1>2 DEF PermitInv

\* While a removal waits for a permit no second of the grace has passed since
\* the removals began; one that runs has used what has passed.  Nothing but
\* the end of the grace drops the executor with an interrupt.
SweepTimeInv ==
  /\ timer \in [Workers -> Int] /\ {grace, sweepFrom} \subseteq Nat
  /\ exec = "dropped" => main \in {"exit", "gone"}
  /\ exec = "cleanup" => \A h \in Workers :
       /\ sweep[h] = "queued" => grace = sweepFrom
       /\ sweep[h] = "running" =>
            timer[h] >= 0 /\ timer[h] = CleanupBudget - (sweepFrom - grace)
  /\ SweepWithinGrace

\* Each host has a permit for its removal.
EnoughPermits == Parallel = 0 \/ Cardinality(Hosts) <= Parallel

LEMMA InitSweepTime ==
  ASSUME SchedulerAssumption, Init
  PROVE  SweepTimeInv
  BY DEF Init, SweepTimeInv, SweepWithinGrace, SchedulerAssumption

\* With enough of them, a removal that is queued can have one.
LEMMA QueuedHasPermit ==
  ASSUME SchedulerAssumption, SuccessInv, PermitInv, EnoughPermits,
         exec = "cleanup", Parallel > 0, NEW h \in Workers, sweep[h] = "queued"
  PROVE  permits > 0
<1>1. h \in Hosts /\ h \notin Holders
  BY DEF PermitInv, Holders, HoldsSlot
<1>2. IsFiniteSet(Hosts) /\ Parallel \in Nat
  BY DEF SchedulerAssumption
<1>3. IsFiniteSet(Hosts \ {h}) /\ Cardinality(Hosts \ {h}) = Cardinality(Hosts) - 1
  BY <1>1, <1>2, FS_RemoveElement
<1>4. Holders \in SUBSET (Hosts \ {h})
  BY <1>1 DEF Holders
<1>5. Cardinality(Holders) <= Cardinality(Hosts \ {h})
  BY <1>3, <1>4, FS_Subset
<1>6. Cardinality(Hosts) \in Nat /\ Cardinality(Holders) \in Nat
  BY <1>2, FS_CardinalityType, HoldersFinite
<1>7. permits = Parallel - Cardinality(Holders)
  BY DEF PermitInv
<1> QED BY <1>2, <1>3, <1>5, <1>6, <1>7 DEF EnoughPermits

\* The loop and the host tasks: no time passes.
LEMMA RunSweepTime ==
  ASSUME SchedulerAssumption, SuccessInv, SweepTimeInv, "executor" \notin Faults,
         Running, Loop \/ World \/ \E h \in Workers : HostTask(h)
  PROVE  SweepTimeInv'
<1>0. /\ main' = main /\ main \notin {"exit", "gone"} /\ grace' = grace
      /\ exec # "dropped"
  <2>1. main' = main /\ grace' = grace
    BY DEF Loop, World, HostTask, SetupRun, PlanFailure, StartStep,
       AssertUnset, StartBuild, Settle, BreakLoop, Conclude, CleanupDone,
       HelperBuilt, HelperBuildFails, ExecutorPanics, ChildExits,
       BudgetExpires, MakeStaging, HostPanics, Acquire, Begin, NextTransfer,
       Closed, CatchCancel, AcquireSweep, SweepEnds, Close, mainVars
  <2> QED BY <2>1 DEF Running, SweepTimeInv
<1>1. CASE Loop \/ HelperBuilt \/ HelperBuildFails
  <2>1. timer' = timer /\ exec' # "dropped"
    BY <1>0, <1>1 DEF Loop, SetupRun, PlanFailure, StartStep, AssertUnset,
       StartBuild, Settle, BreakLoop, Conclude, CleanupDone, HelperBuilt,
       HelperBuildFails, Record, Spawn, taskVars
  <2>2. CASE Conclude
    <3>1. /\ exec' = "cleanup" /\ sweepFrom' = grace
          /\ \A h \in Workers : sweep'[h] # "running"
      BY <2>2 DEF Conclude
    <3> QED BY <1>0, <2>1, <3>1 DEF SweepTimeInv, SweepWithinGrace
  <2>3. CASE ~Conclude
    <3>1. exec' # "cleanup" /\ sweepFrom' = sweepFrom
      BY <1>1, <2>3 DEF Loop, SetupRun, PlanFailure, StartStep, AssertUnset,
         StartBuild, Settle, BreakLoop, CleanupDone, HelperBuilt,
         HelperBuildFails, Record, Spawn, MayStart, stageVars
    <3> QED BY <1>0, <2>1, <3>1 DEF SweepTimeInv, SweepWithinGrace
  <2> QED BY <2>2, <2>3
<1>2. CASE \E h \in Workers : \/ HostTask(h) \/ ChildExits(h)
                              \/ BudgetExpires(h) \/ MakeStaging(h)
                              \/ HostPanics(h)
  <2>1. PICK h \in Workers : \/ HostTask(h) \/ ChildExits(h)
                            \/ BudgetExpires(h) \/ MakeStaging(h)
                            \/ HostPanics(h)
    BY <1>2
  <2>2. exec' = exec /\ sweepFrom' = sweepFrom
    BY <2>1 DEF HostTask, ChildExits, BudgetExpires, MakeStaging, HostPanics,
       Acquire, Begin, NextTransfer, Closed, CatchCancel, AcquireSweep,
       SweepEnds, Close, stageVars
  <2>3. CASE AcquireSweep(h)
    <3>1. /\ sweep[h] = "queued" /\ exec = "cleanup"
          /\ sweep' = [sweep EXCEPT ![h] = "running"]
          /\ timer' = [timer EXCEPT ![h] = CleanupBudget]
      BY <2>3 DEF AcquireSweep
    <3>2. grace = sweepFrom /\ CleanupBudget \in Nat
      BY <3>1 DEF SweepTimeInv, SchedulerAssumption
    <3> QED BY <1>0, <2>2, <3>1, <3>2
           DEF SweepTimeInv, SweepWithinGrace, SuccessInv, PhaseInv
  <2>4. CASE SweepEnds(h)
    <3>1. /\ exec = "cleanup" /\ timer' = timer
          /\ sweep' = [sweep EXCEPT ![h] = "done"]
      BY <2>4 DEF SweepEnds
    <3> QED BY <1>0, <2>2, <3>1
           DEF SweepTimeInv, SweepWithinGrace, SuccessInv, PhaseInv
  <2>5. CASE ~(AcquireSweep(h) \/ SweepEnds(h))
    <3>1. exec = "fanout"
      BY <2>1, <2>5 DEF HostTask, ChildExits, BudgetExpires, MakeStaging,
         HostPanics, Acquire, Begin, NextTransfer, Closed, CatchCancel, Working
    <3>2. \/ timer' = timer
          \/ timer' = [timer EXCEPT ![h] =
                         IF Drains(Step.kind) THEN TeardownBudget ELSE 0]
      BY <2>1, <2>5 DEF HostTask, ChildExits, BudgetExpires, MakeStaging,
         HostPanics, Acquire, Begin, NextTransfer, Closed, CatchCancel, Close,
         taskVars
    <3>3. timer' \in [Workers -> Int]
      BY <3>2 DEF SweepTimeInv, SchedulerAssumption
    <3> QED BY <1>0, <2>2, <3>1, <3>3 DEF SweepTimeInv, SweepWithinGrace
  <2> QED BY <2>3, <2>4, <2>5
<1>3. ~ExecutorPanics
  BY DEF ExecutorPanics
<1> QED BY <1>1, <1>2, <1>3 DEF World

\* The clock ticks for the removals only while all of them run; the end of
\* the grace finds none.
LEMMA MainSweepTime ==
  ASSUME SchedulerAssumption, SuccessInv, PermitInv, SweepTimeInv,
         EnoughPermits,
         Main \/ Ended \/ UNCHANGED vars \/ \E w \in Workers : ThreadEnds(w)
  PROVE  SweepTimeInv'
<1>0. UNCHANGED <<sweep, sweepFrom, task>>
  BY DEF Main, Signal, HandlerFails, Report, ReportPanic, GiveUp, Tick,
     Shutdown, Ended, ThreadEnds, vars, taskVars, stageVars
<1>1. CASE Tick
  <2>1. /\ main = "grace" /\ main' = main /\ exec' = exec /\ exit' = exit
        /\ grace > 0 /\ grace' = grace - 1
        /\ timer' = [h \in Workers |->
                       IF Winding(h) THEN timer[h] - 1 ELSE timer[h]]
    BY <1>1 DEF Tick
  <2>2. exec # "dropped"
    BY <2>1 DEF SweepTimeInv
  <2>3. timer' \in [Workers -> Int] /\ {grace', sweepFrom'} \subseteq Nat
    BY <1>0, <2>1 DEF SweepTimeInv
  <2>4. ASSUME exec = "cleanup", NEW h \in Workers
        PROVE  /\ sweep[h] # "queued"
               /\ sweep[h] = "running" =>
                    /\ timer'[h] >= 0
                    /\ timer'[h] = CleanupBudget - (sweepFrom - grace')
    <3>1. sweep[h] = "queued" => Parallel > 0 /\ permits = 0
      BY <1>1 DEF Tick
    <3>2. sweep[h] # "queued"
      BY <2>4, <3>1, QueuedHasPermit
    <3>3. sweep[h] = "running" => timer[h] > 0 /\ timer'[h] = timer[h] - 1
      BY <1>1, <2>1 DEF Tick, Winding
    <3>4. timer[h] \in Int /\ CleanupBudget \in Nat /\ {grace, sweepFrom} \subseteq Nat
      BY DEF SweepTimeInv, SchedulerAssumption
    <3>5. sweep[h] = "running" =>
            timer[h] = CleanupBudget - (sweepFrom - grace)
      BY <2>4 DEF SweepTimeInv
    <3> QED BY <2>1, <3>2, <3>3, <3>4, <3>5
  <2> QED BY <1>0, <2>1, <2>2, <2>3, <2>4 DEF SweepTimeInv, SweepWithinGrace
<1>2. CASE GiveUp
  <2>1. /\ grace = 0 /\ grace' = grace /\ exec # "dropped" /\ main' = "exit"
        /\ timer' = timer /\ exec' = "dropped"
    BY <1>2 DEF GiveUp, taskVars
  <2>2. sweepFrom > CleanupBudget => AllSwept
    <3>1. SUFFICES ASSUME sweepFrom > CleanupBudget, NEW h \in Workers
                   PROVE  sweep[h] \in {"none", "done"}
      BY DEF AllSwept
    <3>2. CASE exec # "cleanup"
      BY <2>1, <3>2 DEF SuccessInv, PhaseInv, AllSwept
    <3>3. CASE exec = "cleanup"
      <4>1. CleanupBudget \in Nat /\ sweepFrom \in Nat /\ timer[h] \in Int
        BY DEF SchedulerAssumption, SweepTimeInv
      <4>2. sweep[h] # "queued"
        BY <2>1, <3>1, <3>3, <4>1 DEF SweepTimeInv
      <4>3. sweep[h] # "running"
        <5> SUFFICES ASSUME sweep[h] = "running" PROVE FALSE
          OBVIOUS
        <5>1. timer[h] >= 0 /\ timer[h] = CleanupBudget - (sweepFrom - 0)
          BY <2>1, <3>3 DEF SweepTimeInv
        <5> QED BY <3>1, <4>1, <5>1
      <4> QED BY <4>2, <4>3 DEF SuccessInv, PhaseInv, SweepStates
    <3> QED BY <3>2, <3>3
  <2> QED BY <1>0, <2>1, <2>2 DEF SweepTimeInv, SweepWithinGrace, AllSwept
<1>3. CASE HandlerFails
  <2>1. /\ exec' = "dropped" /\ main' = "exit" /\ exit' = 1
        /\ timer' = timer /\ grace' = grace
    BY <1>3 DEF HandlerFails, ExitCode, taskVars
  <2> QED BY <1>0, <2>1 DEF SweepTimeInv, SweepWithinGrace
<1>4. CASE Report \/ Signal
  <2>1. /\ exec' = exec /\ exec # "dropped" /\ timer' = timer /\ grace' = grace
    BY <1>4 DEF Report, Signal, taskVars, SweepTimeInv
  <2> QED BY <1>0, <2>1 DEF SweepTimeInv, SweepWithinGrace
<1>5. CASE Shutdown \/ Ended \/ UNCHANGED vars
           \/ \E w \in Workers : ThreadEnds(w)
  <2>1. /\ exec' = exec /\ timer' = timer /\ grace' = grace /\ exit' = exit
        /\ main' \in {main, "gone"}
    BY <1>5 DEF Shutdown, Ended, ThreadEnds, vars, taskVars, mainVars
  <2> QED BY <1>0, <2>1 DEF SweepTimeInv, SweepWithinGrace, AllSwept
<1>6. ~ReportPanic
  BY DEF ReportPanic, SweepTimeInv
<1> QED BY <1>1, <1>2, <1>3, <1>4, <1>5, <1>6 DEF Main

\* With a permit for every host, and an executor that does not panic, the
\* removal of the staging directories fits in the interrupt when it began
\* with more than the time of one removal left (WorkdirGuard::cleanup).  With
\* fewer permits the removals queue and need not fit.
THEOREM SweepInTime ==
  ASSUME EnoughPermits, "executor" \notin Faults
  PROVE  Spec => []SweepWithinGrace
<1> DEFINE Inv == SuccessInv /\ PermitInv /\ SweepTimeInv
<1>1. Init => Inv
  BY SchedulerAssumption, InitBooks, InitPermits, InitSweepTime
<1>2. Inv /\ [Next]_vars => Inv'
  <2> SUFFICES ASSUME SuccessInv, PermitInv, SweepTimeInv, [Next]_vars
               PROVE  PermitInv' /\ SweepTimeInv'
    BY SchedulerAssumption, SuccessStep
  <2>1. CASE Running /\ (Loop \/ World \/ \E h \in Workers : HostTask(h))
    <3>1. PermitInv'
      <4>1. CASE Loop \/ HelperBuilt \/ HelperBuildFails \/ ExecutorPanics
        BY <4>1, SchedulerAssumption, LoopPermits
      <4>2. CASE \E h \in Workers : \/ HostTask(h) \/ ChildExits(h)
                                    \/ BudgetExpires(h) \/ MakeStaging(h)
                                    \/ HostPanics(h)
        BY <4>2, SchedulerAssumption, HostPermits
      <4> QED BY <2>1, <4>1, <4>2 DEF World
    <3>2. SweepTimeInv'
      BY <2>1, SchedulerAssumption, RunSweepTime
    <3> QED BY <3>1, <3>2
  <2>2. CASE Main \/ Ended \/ UNCHANGED vars \/ \E w \in Workers : ThreadEnds(w)
    BY <2>2, SchedulerAssumption, MainPermits, MainSweepTime
  <2> QED BY <2>1, <2>2 DEF Next
<1>3. Inv => SweepWithinGrace
  BY DEF SweepTimeInv
<1> QED BY <1>1, <1>2, <1>3, PTL DEF Spec
=============================================================================
