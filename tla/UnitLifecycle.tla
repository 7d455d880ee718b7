--------------------------- MODULE UnitLifecycle ---------------------------
(***************************************************************************)
(* The verbs of `shellflow host service` and `shellflow systemd` that move *)
(* a unit or wait for it, on the host that owns the unit.  The unit moves  *)
(* by itself all the time: it starts, becomes ready, fails, is restarted   *)
(* by systemd, and an operator starts and stops it.                        *)
(***************************************************************************)
EXTENDS Integers, FiniteSets

CONSTANTS
  Verbs,      \* the command lines, see VerbType
  Kinds,      \* Type= of the unit: "simple", "notify", "oneshot"
  Enabled,    \* what is-enabled says
  MaxMeddle   \* bound: interventions of the operator

VerbType == [kind : {"service", "wait", "reload", "status", "watch"},
             verify : BOOLEAN, enable : BOOLEAN, restart : BOOLEAN,
             reload : BOOLEAN, wait : BOOLEAN, force : BOOLEAN,
             want : {"ready", "running"}, signal : BOOLEAN]

ASSUME UnitAssumption ==
  /\ Verbs \subseteq VerbType
  /\ Kinds \subseteq {"simple", "notify", "oneshot"}
  /\ Enabled \subseteq {"enabled", "disabled", "generated", "missing"}
  /\ MaxMeddle \in Nat

VARIABLES
  verb,       \* the command line
  type,       \* Type=
  hasReload,  \* the unit declares ExecReload=
  enabled,    \* what is-enabled answers
  file,       \* the unit's file: "good", "gaps" (names missing files), "bad"
  loaded,     \* the manager's definition: "old", or that of the file
  unit,       \* ActiveState, SubState and Result
  runs,       \* the definition the unit was last started with
  pc,         \* where the verb is
  wasActive,  \* lifecycle::was_active
  seen,       \* the state of the last poll
  late,       \* the budget is spent
  result,     \* the exit: "ok", "usage", "failed", "timeout", "notfound"
  upSince,    \* observation: the unit was not stopped at some moment of the verb
  begun,      \* observation: what the verb asked to move: "no" unit, one that
              \* was "stopped" throughout, an "active" one, or one that a
              \* start leaves as it is ("kept")
  meddled     \* interventions so far

argVars == <<verb, type, hasReload, enabled, file>>
unitVars == <<unit, runs, upSince>>
verbVars == <<pc, result>>
vars == <<argVars, loaded, unitVars, verbVars, wasActive, seen, late, begun,
          meddled>>

-----------------------------------------------------------------------------
(* The unit. *)

State(active, sub, res) == [active |-> active, sub |-> sub, result |-> res]
Dead == State("inactive", "dead", "success")
Done == State("inactive", "exited", "success")
Failed == State("failed", "failed", "exit-code")
Starting == State("activating", "start", "success")
Up == State("active", "running", "success")
Reloading == State("reloading", "reload", "success")
Stopping == State("deactivating", "stop", "success")
Again == State("activating", "auto-restart", "exit-code")
UnitStates == {Dead, Done, Failed, Starting, Up, Reloading, Stopping, Again}
Stopped == {Dead, Done}

\* Every move of the unit is remembered while the verb is at work.
Becomes(s) ==
  /\ unit' = s
  /\ upSince' = (upSince \/ s \notin Stopped)
  /\ runs' = IF s = Starting THEN loaded ELSE runs

\* The service and its manager, by themselves.
UnitMoves ==
  /\ \/ unit = Starting
        /\ Becomes(IF type = "oneshot" THEN Done ELSE Up)
     \/ unit \in {Starting, Up, Reloading} /\ \E s \in {Failed, Again} : Becomes(s)
     \/ unit = Again /\ Becomes(Starting)
     \/ unit = Stopping /\ Becomes(Dead)
     \/ unit = Reloading /\ Becomes(Up)
  /\ UNCHANGED <<argVars, loaded, verbVars, wasActive, seen, late, begun, meddled>>

\* A service that speaks the notify protocol announces the reload it was
\* signalled to do, some time after the signal.
Announces ==
  /\ pc = "poll" /\ verb.kind = "reload" /\ verb.signal /\ type = "notify"
  /\ unit = Up /\ Becomes(Reloading)
  /\ UNCHANGED <<argVars, loaded, verbVars, wasActive, seen, late, begun, meddled>>

OperatorMeddles ==
  /\ meddled < MaxMeddle /\ meddled' = meddled + 1
  /\ \/ unit \in {Up, Starting, Again} /\ Becomes(Stopping)
     \/ unit \in {Dead, Done, Failed} /\ Becomes(Starting)
  /\ UNCHANGED <<argVars, loaded, verbVars, wasActive, seen, late, begun>>

-----------------------------------------------------------------------------
(* Verdicts (systemd::verdict) and what each wait makes of them. *)

\* Slip of Verdict: a unit that is restarted by its manager is waited for.
PatientVerdict(s) ==
  CASE s.active = "active" -> "Ready"
    [] s.active # "active" /\ type = "oneshot" /\ s.sub = "exited" -> "Ready"
    [] OTHER -> "Pending"

IsFailureResult(r) == r \notin {"", "success", "done", "none"}
Verdict(s) ==
  CASE s.active = "active" -> "Ready"
    [] s.active = "failed" -> "Failed"
    [] s.active \notin {"active", "failed"} /\ type = "oneshot"
         /\ s.result = "success" /\ s.sub = "exited" -> "Ready"
    [] s.active \notin {"active", "failed"} /\ IsFailureResult(s.result)
         -> "Failed"
    [] OTHER -> "Pending"

\* WaitFor::matches
Matches(s) == IF verb.want = "ready" THEN Verdict(s) = "Ready"
              ELSE s.active = "active" /\ s.sub = "running"

\* Slip of Timed: the budget is not looked at.
Untimed == "none"

\* What one poll decides: the exit, or "none" to go on.
Timed == IF late THEN "timeout" ELSE "none"
FailedOr(s, other) == IF Verdict(s) = "Failed" THEN "failed" ELSE other
Decision(s) ==
  CASE verb.kind = "wait" -> IF Matches(s) THEN "ok" ELSE FailedOr(s, Timed)
    [] verb.kind = "service" ->
         IF Verdict(s) = "Ready" THEN "ok" ELSE FailedOr(s, Timed)
    [] verb.kind = "status" ->
         IF Verdict(s) = "Ready" THEN "ok" ELSE FailedOr(s, "timeout")
    [] verb.kind = "watch" -> IF Verdict(s) = "Ready" THEN "ok" ELSE Timed
    [] verb.kind = "reload" -> IF s.active = "active" THEN "ok" ELSE Timed

-----------------------------------------------------------------------------
(* The verb. *)

Ends(code) == pc' = "over" /\ result' = code
Goes(to) == pc' = to /\ UNCHANGED result

\* systemctl, or systemd-analyze, cannot be started or refuses.
CommandFails ==
  /\ pc \in {"verify", "reload-manager", "ask-enabled", "enable", "reload",
             "restart", "poll"}
  /\ \E code \in IF pc = "poll" THEN {"usage"} ELSE {"usage", "failed"} : Ends(code)
  /\ UNCHANGED <<argVars, loaded, unitVars, wasActive, seen, late, begun, meddled>>

\* verify_unit: a complaint about a missing file is not a reason to abort.
Verify ==
  /\ pc = "verify"
  /\ IF verb.verify /\ file = "bad" THEN Ends("failed") ELSE Goes("ask-state")
  /\ UNCHANGED <<argVars, loaded, unitVars, wasActive, seen, late, begun, meddled>>

\* Slip of WasActive: only what says "inactive" counts as stopped.
WasActiveUnread(s) == s # "inactive"

\* unit_state and was_active: a state that cannot be read counts as stopped.
WasActive(s) == s \notin {"", "inactive", "unknown"}
AskState ==
  /\ pc = "ask-state" /\ Goes("reload-manager")
  /\ \E s \in {"", unit.active} : wasActive' = WasActive(s)
  /\ UNCHANGED <<argVars, loaded, unitVars, seen, late, begun, meddled>>

ReloadManager ==
  /\ pc = "reload-manager" /\ Goes("ask-enabled")
  /\ loaded' = file
  /\ UNCHANGED <<argVars, unitVars, wasActive, seen, late, begun, meddled>>

\* unit_enabled_state is asked whether or not --enable was given, and fails
\* the verb when is-enabled exits with an error it does not know: it exits
\* with one for a disabled unit.
AskEnabled ==
  /\ pc = "ask-enabled"
  /\ CASE enabled = "disabled" -> Ends("failed")
       [] enabled = "missing" /\ verb.enable -> Goes("enable")
       [] OTHER -> Goes("reload")
  /\ UNCHANGED <<argVars, loaded, unitVars, wasActive, seen, late, begun, meddled>>

Enable ==
  /\ pc = "enable" /\ Goes("reload")
  /\ UNCHANGED <<argVars, loaded, unitVars, wasActive, seen, late, begun, meddled>>

\* reload_unit: through ExecReload=, or not at all.
ReloadUnit ==
  /\ pc = "reload"
  /\ \/ ~verb.reload /\ Goes("restart") /\ UNCHANGED unitVars
     \/ verb.reload /\ ~hasReload /\ Ends("usage") /\ UNCHANGED unitVars
     \/ verb.reload /\ hasReload /\ unit = Up /\ Becomes(Reloading)
        /\ Goes("reload-job")
     \/ verb.reload /\ hasReload /\ unit # Up /\ Ends("failed")
        /\ UNCHANGED unitVars
  /\ UNCHANGED <<argVars, loaded, wasActive, seen, late, begun, meddled>>

Begins == begun' = IF upSince THEN "active" ELSE "stopped"
MayBegin == wasActive \/ verb.force
\* A restart ends what runs; a start does nothing to a unit that is up, joins
\* the start that is under way, and goes with the next attempt of a unit that
\* its manager restarts.
LeftAsItIs == ~wasActive /\ unit \in {Up, Reloading, Starting}
AfterRestart == IF verb.wait /\ MayBegin THEN Goes("poll") ELSE Ends("ok")

\* Slip of RestartUnit: restarted before the manager knows the new file.
RestartEarly ==
  /\ pc = "restart"
  /\ \/ /\ verb.restart /\ MayBegin /\ ~LeftAsItIs
        /\ Begins /\ unit' = Starting /\ upSince' = TRUE /\ runs' = "old"
        /\ Goes("restart-job")
     \/ ~(verb.restart /\ MayBegin) /\ AfterRestart /\ UNCHANGED <<begun, unitVars>>
  /\ UNCHANGED <<argVars, loaded, wasActive, seen, late, meddled>>

\* restart_action: `systemctl restart` of what ran, `systemctl start` of what
\* is forced; the rest is left stopped.
RestartUnit ==
  /\ pc = "restart"
  /\ \/ /\ verb.restart /\ MayBegin /\ ~LeftAsItIs
        /\ Begins /\ Becomes(Starting) /\ Goes("restart-job")
     \/ /\ verb.restart /\ MayBegin /\ LeftAsItIs
        /\ begun' = "kept" /\ UNCHANGED unitVars
        /\ IF unit = Starting THEN Goes("restart-job") ELSE AfterRestart
     \/ ~(verb.restart /\ MayBegin) /\ AfterRestart /\ UNCHANGED <<begun, unitVars>>
  /\ UNCHANGED <<argVars, loaded, wasActive, seen, late, meddled>>

\* systemctl waits for the job it queued.
JobDone ==
  /\ pc \in {"reload-job", "restart-job"}
  /\ unit \notin {Starting, Reloading, Stopping}
  /\ IF unit \in {Up, Done}
     THEN IF pc = "reload-job" THEN Goes("restart")
          ELSE IF verb.wait THEN Goes("poll") ELSE Ends("ok")
     ELSE Ends("failed")
  /\ UNCHANGED <<argVars, loaded, unitVars, wasActive, seen, late, begun, meddled>>

\* `systemd reload`: ExecReload=, else the signal, else a refusal.
ReloadVerb ==
  /\ pc = "reload-verb"
  /\ \/ hasReload /\ unit = Up /\ Becomes(Reloading) /\ Goes("reload-verb-job")
     \/ hasReload /\ unit # Up /\ Ends("usage") /\ UNCHANGED unitVars
     \/ ~hasReload /\ verb.signal /\ UNCHANGED unitVars
        /\ IF verb.wait THEN Goes("poll") ELSE Ends("ok")
     \/ ~hasReload /\ ~verb.signal /\ Ends("usage") /\ UNCHANGED unitVars
  /\ UNCHANGED <<argVars, loaded, wasActive, seen, late, begun, meddled>>
ReloadVerbJob ==
  /\ pc = "reload-verb-job" /\ unit # Reloading
  /\ IF unit = Up THEN (IF verb.wait THEN Goes("poll") ELSE Ends("ok"))
     ELSE Ends("usage")
  /\ UNCHANGED <<argVars, loaded, unitVars, wasActive, seen, late, begun, meddled>>

\* One round of a wait: show_state, the verdict, the budget.
Poll ==
  /\ pc = "poll"
  /\ seen' = unit
  /\ IF Decision(unit) = "none" THEN UNCHANGED verbVars ELSE Ends(Decision(unit))
  /\ UNCHANGED <<argVars, loaded, unitVars, wasActive, late, begun, meddled>>

\* systemd does not know the unit: neither type nor state.
NotFound ==
  /\ pc = "poll" /\ verb.kind = "wait" /\ enabled = "missing" /\ unit = Dead
  /\ Ends("notfound")
  /\ UNCHANGED <<argVars, loaded, unitVars, wasActive, seen, late, begun, meddled>>

BudgetSpent ==
  /\ pc = "poll" /\ ~late /\ late' = TRUE
  /\ UNCHANGED <<argVars, loaded, unitVars, verbVars, wasActive, seen, begun,
                 meddled>>

-----------------------------------------------------------------------------
Init ==
  /\ verb \in Verbs /\ type \in Kinds /\ enabled \in Enabled
  /\ hasReload \in BOOLEAN
  /\ file \in {"good", "gaps", "bad"} /\ loaded = "old"
  /\ unit \in UnitStates \ {Reloading} /\ runs = "old"
  /\ pc = CASE verb.kind = "service" -> "verify"
            [] verb.kind = "reload" -> "reload-verb"
            [] OTHER -> "poll"
  /\ wasActive = FALSE /\ seen = Dead /\ late = FALSE /\ result = "none"
  /\ upSince = (unit \notin Stopped) /\ begun = "no" /\ meddled = 0

Verb == \/ CommandFails \/ Verify \/ AskState \/ ReloadManager \/ AskEnabled
        \/ Enable \/ ReloadUnit \/ RestartUnit \/ JobDone \/ ReloadVerb
        \/ ReloadVerbJob \/ Poll \/ NotFound
Unit == UnitMoves \/ Announces \/ OperatorMeddles

Next == Verb \/ BudgetSpent \/ (pc # "over" /\ Unit)
Spec == Init /\ [][Next]_vars

\* The verb runs, the clock runs, and systemd ends its jobs: each has a timeout
\* of its own, and ends with the first attempt of a unit that is restarted
\* again and again.  That the unit leaves any other state is not assumed.
FairSpec == /\ Spec /\ WF_vars(Verb) /\ WF_vars(BudgetSpent)
            /\ WF_vars(unit \in {Starting, Reloading, Stopping} /\ UnitMoves)
            /\ SF_vars(JobDone) /\ SF_vars(ReloadVerbJob)

-----------------------------------------------------------------------------
(* Properties. *)

\* Every variable has its type.
TypeOK ==
  /\ verb \in Verbs /\ type \in Kinds /\ enabled \in Enabled
  /\ hasReload \in BOOLEAN /\ file \in {"good", "gaps", "bad"}
  /\ loaded \in {"old", file} /\ runs \in {"old", file}
  /\ unit \in UnitStates /\ seen \in UnitStates
  /\ pc \in {"verify", "ask-state", "reload-manager", "ask-enabled", "enable",
             "reload", "reload-job", "restart", "restart-job", "reload-verb",
             "reload-verb-job", "poll", "over"}
  /\ {wasActive, late, upSince} \subseteq BOOLEAN /\ begun \in {"no", "active", "stopped", "kept"}
  /\ result \in {"none", "ok", "usage", "failed", "timeout", "notfound"}
  /\ meddled \in 0..MaxMeddle

\* A unit that was stopped all the time the verb ran is not started by it,
\* unless the operator forces it (service, its doc comment): not after a
\* state that could not be read either.
StoppedStaysStopped == begun = "stopped" => verb.force

\* A deploy that restarted the unit, or started one that was not up, waited
\* and succeeded saw the unit up with the definition on disk, not the instance
\* of before; and with --verify an invalid definition never reaches the manager
\* through the verb.  The forced start of a unit that is up after all, because
\* its state could not be read or it came up since, promises no new instance.
ReadyIsTheNewOne ==
  /\ verb.verify => loaded # "bad"
  /\ result = "ok" /\ verb.kind = "service" /\ verb.wait /\ begun \notin {"no", "kept"}
       => seen \in {Up, Done} /\ runs = file

\* Exit 4 says that a retry may well succeed: the wait never reports it for
\* a unit whose last state was a failure or ready (the exit-code table).
TimeoutMeansPending ==
  result = "timeout" /\ verb.kind \in {"service", "wait", "status"}
    => /\ seen \notin {Failed, Again, Up}
       /\ type = "oneshot" /\ verb.want = "ready" => seen # Done

\* Every verb ends: its wait at its budget at the latest.
VerbEnds == <>(pc = "over")
=============================================================================
