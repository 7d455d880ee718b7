---------------------------- MODULE SystemdProofs ----------------------------
(***************************************************************************)
(* Proofs about `shellflow host service` and `shellflow systemd`: the      *)
(* verbs that move a unit or wait for it (UnitLifecycle), for every        *)
(* command line, every kind of unit and any number of interventions of the *)
(* operator; and the supervisor (Supervisor), for every set of conditions, *)
(* every child and every command line.                                     *)
(***************************************************************************)
EXTENDS UnitLifecycle, Supervisor, TLAPS

-----------------------------------------------------------------------------
(* The verbs that move a unit.                                             *)

\* The unit is in one of its states, and one that is not stopped was seen up.
Watched ==
  /\ unit \in UnitStates
  /\ unit \notin Stopped => upSince = TRUE
  /\ wasActive => upSince = TRUE

\* What the verb has done when it is at each place.
Early == {"verify", "ask-state", "reload-manager"}
Later == {"ask-enabled", "enable", "reload", "reload-job", "restart", "restart-job"}
Stages ==
  /\ pc \in Early => loaded = "old"
  /\ pc # "verify" /\ pc \in Early \union Later => ~(verb.verify /\ file = "bad")
  /\ pc \in Later => loaded = file
  /\ pc \in Early \union (Later \ {"restart-job"}) => begun = "no"
  /\ pc # "over" => result = "none"
  /\ begun \notin {"no", "kept"} => loaded = file /\ runs = file
  /\ loaded = "old" \/ loaded = file

UnitInv ==
  /\ Watched /\ Stages
  /\ StoppedStaysStopped /\ ReadyIsTheNewOne /\ TimeoutMeansPending

-----------------------------------------------------------------------------
\* The states, told apart by what the verdicts look at.
LEMMA StatesDiffer ==
  /\ \A s \in UnitStates : s.active = "active" <=> s = Up
  /\ \A s \in UnitStates : s.active = "inactive" <=> s \in Stopped
  /\ \A s \in UnitStates : s.active # ""
  /\ \A s \in UnitStates : s.sub = "exited" <=> s = Done
  /\ Up.sub = "running" /\ Up # Done
  /\ Starting \notin Stopped /\ Starting \in UnitStates
  BY DEF UnitStates, Stopped, Dead, Done, Failed, Starting, Up, Reloading, Stopping,
     Again, State

\* What a poll makes of the state it sees.
LEMMA Decisions ==
  ASSUME unit \in UnitStates
  PROVE  /\ Decision(unit) = "ok" /\ verb.kind = "service" => unit \in {Up, Done}
         /\ Decision(unit) = "timeout" /\ verb.kind \in {"service", "wait", "status"}
              => /\ unit \notin {Failed, Again, Up}
                 /\ type = "oneshot" /\ verb.want = "ready" => unit # Done
<1>1. unit = Up => Verdict(unit) = "Ready"
  BY DEF Verdict, Up, State
<1>2. unit = Failed => Verdict(unit) = "Failed"
  BY DEF Verdict, Failed, State
<1>3. unit = Again => Verdict(unit) = "Failed"
  BY DEF Verdict, Again, State, IsFailureResult
<1>4. unit = Done /\ type = "oneshot" => Verdict(unit) = "Ready"
  BY DEF Verdict, Done, State, IsFailureResult
<1>5. Verdict(unit) = "Ready" => unit \in {Up, Done}
  BY StatesDiffer DEF Verdict
<1>6. Matches(Up)
  BY <1>1, StatesDiffer DEF Matches, Verdict, Up, State
<1>7. CASE verb.kind = "service"
  BY <1>1, <1>2, <1>3, <1>4, <1>5, <1>7 DEF Decision, FailedOr, Timed
<1>8. CASE verb.kind = "wait"
  BY <1>1, <1>2, <1>3, <1>4, <1>6, <1>8, StatesDiffer DEF Decision, FailedOr, Timed, Matches
<1>9. CASE verb.kind = "status"
  BY <1>1, <1>2, <1>3, <1>4, <1>9 DEF Decision, FailedOr, Timed
<1> QED BY <1>7, <1>8, <1>9

\* The unit moves while the verb stands still.
LEMMA UnitStep ==
  ASSUME UnitInv, Unit PROVE UnitInv'
<1> USE DEF UnitInv, argVars, verbVars
<1>1. /\ UNCHANGED <<argVars, loaded, verbVars, wasActive, seen, begun>>
      /\ \E s \in UnitStates : Becomes(s)
  BY DEF Unit, UnitMoves, Announces, OperatorMeddles, UnitStates
<1>2. PICK s \in UnitStates : Becomes(s)
  BY <1>1
<1>3. Watched'
  BY <1>1, <1>2 DEF Becomes, Watched
<1>4. Stages'
  BY <1>1, <1>2 DEF Becomes, Stages
<1>5. StoppedStaysStopped' /\ TimeoutMeansPending'
  BY <1>1 DEF StoppedStaysStopped, TimeoutMeansPending
<1>6. ReadyIsTheNewOne'
  BY <1>1, <1>4 DEF ReadyIsTheNewOne, Stages
<1> QED BY <1>3, <1>4, <1>5, <1>6

\* The steps up to the restart: nothing is started, no poll is made.
LEMMA PrepareStep ==
  ASSUME UnitInv, \/ CommandFails \/ Verify \/ AskState \/ ReloadManager
                  \/ AskEnabled \/ Enable \/ JobDone \/ ReloadVerbJob \/ NotFound
                  \/ BudgetSpent \/ UNCHANGED vars
  PROVE  UnitInv'
<1> USE DEF UnitInv, argVars, unitVars, verbVars
<1>1. UNCHANGED <<verb, type, file, unit, runs, upSince, seen, begun>>
  BY DEF CommandFails, Verify, AskState, ReloadManager, AskEnabled, Enable, JobDone,
     ReloadVerbJob, NotFound, BudgetSpent, vars
<1>2. wasActive' => upSince = TRUE
  <2>1. CASE AskState
    BY <2>1, StatesDiffer DEF AskState, WasActive, Watched
  <2>2. CASE ~AskState
    BY <2>2 DEF CommandFails, Verify, ReloadManager, AskEnabled, Enable, JobDone,
       ReloadVerbJob, NotFound, BudgetSpent, vars, Watched
  <2> QED BY <2>1, <2>2
<1>3. Watched'
  BY <1>1, <1>2 DEF Watched
<1>4. StoppedStaysStopped'
  BY <1>1 DEF StoppedStaysStopped
<1>5. Stages'
  <2>1. CASE Verify \/ AskState \/ ReloadManager
    BY <1>1, <2>1 DEF Verify, AskState, ReloadManager, Goes, Ends, Stages, Early, Later
  <2>2. CASE AskEnabled \/ Enable
    BY <1>1, <2>2 DEF AskEnabled, Enable, Goes, Ends, Stages, Early, Later
  <2>3. CASE JobDone \/ ReloadVerbJob
    BY <1>1, <2>3 DEF JobDone, ReloadVerbJob, Goes, Ends, Stages, Early, Later
  <2>4. CASE CommandFails \/ NotFound
    BY <1>1, <2>4 DEF CommandFails, NotFound, Ends, Stages, Early, Later
  <2>5. CASE BudgetSpent \/ UNCHANGED vars
    BY <1>1, <2>5 DEF BudgetSpent, vars, Stages, Early, Later
  <2> QED BY <2>1, <2>2, <2>3, <2>4, <2>5
<1>6. /\ result' = "timeout" => result = "timeout"
      /\ result' = "ok" => \/ result = "ok" \/ begun = "no" \/ ~verb.wait
                          \/ verb.kind # "service"
      /\ verb.verify => loaded' # "bad"
  <2>1. verb.verify => loaded' # "bad"
    BY DEF CommandFails, Verify, AskState, ReloadManager, AskEnabled, Enable, JobDone,
       ReloadVerbJob, NotFound, BudgetSpent, vars, ReadyIsTheNewOne, Stages, Early
  <2>2. result' \in {"timeout", "ok"} => result' = result \/ JobDone \/ ReloadVerbJob
    BY DEF CommandFails, Verify, AskState, ReloadManager, AskEnabled, Enable,
       NotFound, BudgetSpent, vars, Goes, Ends
  <2>3. CASE JobDone
    BY <2>1, <2>3 DEF JobDone, Goes, Ends, Stages, Later
  <2>4. CASE ReloadVerbJob
    BY <2>1, <2>4 DEF ReloadVerbJob, Goes, Ends
  <2> QED BY <2>1, <2>2, <2>3, <2>4
<1>7. ReadyIsTheNewOne'
  BY <1>1, <1>5, <1>6 DEF ReadyIsTheNewOne
<1>8. TimeoutMeansPending'
  BY <1>1, <1>6 DEF TimeoutMeansPending
<1> QED BY <1>3, <1>4, <1>5, <1>7, <1>8

\* The reload and the restart ask the manager for a move.
LEMMA MoveStep ==
  ASSUME UnitInv, ReloadUnit \/ RestartUnit \/ ReloadVerb PROVE UnitInv'
<1> USE DEF UnitInv, argVars, unitVars, verbVars
<1>1. CASE ReloadUnit \/ ReloadVerb
  <2>1. /\ UNCHANGED <<argVars, loaded, wasActive, seen, begun>>
        /\ UNCHANGED unitVars \/ Becomes(Reloading)
        /\ pc \in {"reload", "reload-verb"}
        /\ pc' \in {"over", "restart", "reload-job", "reload-verb-job", "poll"}
        /\ pc = "reload-verb" => pc' \in {"over", "reload-verb-job", "poll"}
        /\ pc' # "over" => UNCHANGED result
        /\ result' = "ok" => result = "ok" \/ ~verb.wait
        /\ result' = "timeout" => result = "timeout"
    BY <1>1 DEF ReloadUnit, ReloadVerb, Goes, Ends
  <2>2. Reloading \in UnitStates /\ Reloading # Starting
    BY DEF UnitStates, Reloading, Starting, State
  <2>3. Watched' /\ UNCHANGED runs
    BY <2>1, <2>2 DEF Watched, Becomes
  <2>4. Stages'
    BY <2>1, <2>3 DEF Stages, Early, Later
  <2>5. StoppedStaysStopped' /\ TimeoutMeansPending'
    BY <2>1 DEF StoppedStaysStopped, TimeoutMeansPending
  <2>6. ReadyIsTheNewOne'
    BY <2>1, <2>3 DEF ReadyIsTheNewOne
  <2> QED BY <2>3, <2>4, <2>5, <2>6
<1>2. CASE RestartUnit
  <2>1. /\ UNCHANGED <<argVars, loaded, wasActive, seen>>
        /\ pc = "restart" /\ pc' \in {"over", "restart-job", "poll"}
        /\ \/ MayBegin /\ Begins /\ Becomes(Starting) /\ Goes("restart-job")
           \/ UNCHANGED <<begun, unitVars>> /\ (Ends("ok") \/ Goes("poll"))
           \/ /\ begun' = "kept" /\ UNCHANGED unitVars
              /\ Ends("ok") \/ Goes("poll") \/ Goes("restart-job")
    BY <1>2 DEF RestartUnit, AfterRestart, Goes, Ends
  <2>2. loaded = file /\ begun = "no" /\ result = "none"
    BY <2>1 DEF Stages, Later, Early
  <2>3. CASE MayBegin /\ Begins /\ Becomes(Starting) /\ Goes("restart-job")
    <3>1. Watched'
      BY <2>1, <2>3, StatesDiffer DEF Watched, Becomes
    <3>2. /\ runs' = loaded /\ UNCHANGED result /\ pc' = "restart-job"
          /\ begun' = IF upSince THEN "active" ELSE "stopped"
      BY <2>3 DEF Becomes, Goes, Begins
    <3>3. Stages'
      BY <2>1, <2>2, <3>2 DEF Stages, Early, Later
    <3>4. StoppedStaysStopped'
      BY <2>1, <2>3, <3>2 DEF StoppedStaysStopped, MayBegin, Watched
    <3>5. TimeoutMeansPending' /\ ReadyIsTheNewOne'
      BY <2>1, <2>2, <3>2 DEF TimeoutMeansPending, ReadyIsTheNewOne
    <3> QED BY <3>1, <3>3, <3>4, <3>5
  <2>4. CASE UNCHANGED <<begun, unitVars>> /\ (Ends("ok") \/ Goes("poll"))
    <3>1. (result' = "ok" /\ pc' = "over") \/ (UNCHANGED result /\ pc' = "poll")
      BY <2>4 DEF Ends, Goes
    <3>2. Watched' /\ StoppedStaysStopped'
      BY <2>1, <2>4 DEF Watched, StoppedStaysStopped
    <3>3. Stages'
      BY <2>1, <2>2, <2>4, <3>1 DEF Stages, Early, Later
    <3>4. TimeoutMeansPending' /\ ReadyIsTheNewOne'
      BY <2>1, <2>2, <2>4, <3>1 DEF TimeoutMeansPending, ReadyIsTheNewOne
    <3> QED BY <3>2, <3>3, <3>4
  <2>5. CASE /\ begun' = "kept" /\ UNCHANGED unitVars
             /\ Ends("ok") \/ Goes("poll") \/ Goes("restart-job")
    <3>1. \/ result' = "ok" /\ pc' = "over"
          \/ UNCHANGED result /\ pc' \in {"poll", "restart-job"}
      BY <2>5 DEF Ends, Goes
    <3>2. Watched' /\ StoppedStaysStopped'
      BY <2>1, <2>5 DEF Watched, StoppedStaysStopped
    <3>3. Stages'
      BY <2>1, <2>2, <2>5, <3>1 DEF Stages, Early, Later
    <3>4. TimeoutMeansPending' /\ ReadyIsTheNewOne'
      BY <2>1, <2>2, <2>5, <3>1 DEF TimeoutMeansPending, ReadyIsTheNewOne
    <3> QED BY <3>2, <3>3, <3>4
  <2> QED BY <2>1, <2>3, <2>4, <2>5
<1> QED BY <1>1, <1>2

\* A round of the wait.
LEMMA PollStep ==
  ASSUME UnitInv, Poll PROVE UnitInv'
<1> USE DEF UnitInv, argVars, unitVars, verbVars
<1>1. /\ UNCHANGED <<argVars, loaded, unitVars, wasActive, begun>>
      /\ pc = "poll" /\ seen' = unit /\ result = "none"
      /\ UNCHANGED verbVars \/ (pc' = "over" /\ result' = Decision(unit))
  BY DEF Poll, Ends, Stages
<1>2. Watched' /\ StoppedStaysStopped'
  BY <1>1 DEF Watched, StoppedStaysStopped
<1>3. Stages'
  BY <1>1 DEF Stages, Early, Later
<1>4. ReadyIsTheNewOne' /\ TimeoutMeansPending'
  <2>1. unit \in UnitStates
    BY DEF Watched
  <2> HIDE DEF Decision
  <2> QED BY <1>1, <2>1, Decisions
          DEF ReadyIsTheNewOne, TimeoutMeansPending, Stages
<1> QED BY <1>2, <1>3, <1>4

-----------------------------------------------------------------------------
LEMMA UnitInit == Init => UnitInv
  BY StatesDiffer DEF Init, UnitInv, Watched, Stages, Early, Later, StoppedStaysStopped,
     ReadyIsTheNewOne, TimeoutMeansPending

LEMMA UnitKept == UnitInv /\ [Next]_vars => UnitInv'
  BY UnitStep, PrepareStep, MoveStep, PollStep DEF Next, Verb

\* The verdicts and what they rest on hold throughout.
LEMMA UnitInvariant == Spec => []UnitInv
  BY UnitInit, UnitKept, PTL DEF Spec

\* A unit that was stopped all the time is not started, unless it is forced
\* (service, its doc comment).
THEOREM StoppedCorrect == Spec => []StoppedStaysStopped
<1>1. UnitInv => StoppedStaysStopped
  BY DEF UnitInv
<1> QED BY UnitInvariant, <1>1, PTL

\* What a deploy restarted, or started from a stop, and then reports as ready
\* runs the definition on disk.
THEOREM ReadyCorrect == Spec => []ReadyIsTheNewOne
<1>1. UnitInv => ReadyIsTheNewOne
  BY DEF UnitInv
<1> QED BY UnitInvariant, <1>1, PTL

\* Exit 4 is never given for a unit that failed or is ready.
THEOREM TimeoutCorrect == Spec => []TimeoutMeansPending
<1>1. UnitInv => TimeoutMeansPending
  BY DEF UnitInv
<1> QED BY UnitInvariant, <1>1, PTL

-----------------------------------------------------------------------------
(* The supervisor: when exec has a verdict nothing of it is left.          *)

\* The part of the type invariant the argument needs.
Places == {"start", "spawned", "try", "probe", "wait", "term", "grace", "join",
           "over"}
Typed ==
  /\ at \in Places
  /\ child \in {"none", "runs"} \union Ended
  /\ dog \in {"none", "sleeps", "checks", "gone"}

\* A child that was started is running or has ended; the way out, through the
\* guard, is only taken with a verdict and a reaped child; and it is left
\* when the thread is gone.
Verdicts == {"ok", "failed", "timeout"}
Started == at \notin {"start", "over"} => child # "none"
Leaving == at = "join" => reaped /\ child \in Ended
NoVerdictYet == at \notin {"join", "over"} => exit = "none"

ExecInv == Typed /\ Started /\ Leaving /\ NoVerdictYet /\ NothingOutlivesIt

LEMMA ExecInvInit == ExecInit => ExecInv
  BY DEF ExecInit, ExecInv, Typed, Places, Started, Leaving, NoVerdictYet,
     NothingOutlivesIt

\* The supervisor's own steps.
LEMMA ExecSteps == ExecInv /\ Exec => ExecInv'
<1> SUFFICES ASSUME ExecInv, Exec PROVE ExecInv'
  OBVIOUS
<1> USE DEF ExecInv, Typed, Places, Started, Leaving, NoVerdictYet,
            NothingOutlivesIt, Ended
<1>1. CASE Spawn
  BY <1>1 DEF Spawn, ExecGoes, dogVars, worldVars
<1>2. CASE SetUp
  BY <1>2 DEF SetUp, ExecGoes, childVars
<1>3. CASE TryWait
  BY <1>3 DEF TryWait, ExecGoes, EndsWith, dogVars
<1>4. CASE Probe
  BY <1>4 DEF Probe, childVars, dogVars, endVars
<1>5. CASE ProbeFails
  BY <1>5 DEF ProbeFails, ExecGoes, childVars, dogVars
<1>6. CASE SendReady
  BY <1>6 DEF SendReady, ExecGoes, childVars, dogVars
<1>7. CASE Wait
  BY <1>7 DEF Wait, EndsWith, CodeOf, dogVars
<1>8. CASE Terminate
  BY <1>8 DEF Terminate, ExecGoes, ChildHit, HelpersHit, dogVars
<1>9. CASE GraceWait
  BY <1>9 DEF GraceWait, EndsWith, dogVars
<1>10. CASE KillGroup
  BY <1>10 DEF KillGroup, EndsWith, ChildHit, HelpersHit, dogVars
<1>11. CASE DropGuard
  BY <1>11 DEF DropGuard, Dropped, childVars, endVars
<1> QED BY <1>1, <1>2, <1>3, <1>4, <1>5, <1>6, <1>7, <1>8, <1>9, <1>10, <1>11
        DEF Exec

\* The thread, the clock, systemd, the child and the world.
LEMMA WorldSteps ==
  ExecInv /\ (Dog \/ TimePasses \/ Stop
              \/ (at # "over" /\ (ChildExits \/ ChildForks \/ WorldFlips)))
    => ExecInv'
<1> SUFFICES ASSUME ExecInv,
                    Dog \/ TimePasses \/ Stop
                    \/ (at # "over" /\ (ChildExits \/ ChildForks \/ WorldFlips))
             PROVE  ExecInv'
  OBVIOUS
<1> USE DEF ExecInv, Typed, Places, Started, Leaving, NoVerdictYet,
            NothingOutlivesIt, Ended
<1>1. CASE Dog
  BY <1>1 DEF Dog, DogWakes, DogPings, childVars, endVars
<1>2. CASE TimePasses
  BY <1>2 DEF TimePasses, childVars, dogVars, endVars
<1>3. CASE Stop
  BY <1>3 DEF Stop, Passed, ChildHit, dogVars
<1>4. CASE at # "over" /\ ChildExits
  BY <1>4 DEF ChildExits, dogVars, endVars
<1>5. CASE ChildForks
  BY <1>5 DEF ChildForks, dogVars, endVars
<1>6. CASE WorldFlips
  BY <1>6 DEF WorldFlips, childVars, dogVars, endVars
<1> QED BY <1>1, <1>2, <1>3, <1>4, <1>5, <1>6

\* When exec has returned its verdict the child was reaped and the watchdog
\* thread has ended (WatchdogGuard, terminate_supervised_child), whatever the
\* child, the conditions and systemd did.
THEOREM NothingLeftCorrect == ExecSpec => []NothingOutlivesIt
<1>1. ExecInv /\ [ExecNext]_execVars => ExecInv'
  <2>1. ExecInv /\ ExecNext => ExecInv'
    BY ExecSteps, WorldSteps DEF ExecNext
  <2>2. ExecInv /\ UNCHANGED execVars => ExecInv'
    BY DEF ExecInv, Typed, Places, Started, Leaving, NoVerdictYet,
       NothingOutlivesIt, execVars, childVars, dogVars, endVars
  <2> QED BY <2>1, <2>2
<1>2. ExecInv => NothingOutlivesIt
  BY DEF ExecInv
<1> QED BY ExecInvInit, <1>1, <1>2, PTL DEF ExecSpec
=============================================================================
