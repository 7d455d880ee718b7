---------------------------- MODULE MuxySession ----------------------------
(***************************************************************************)
(* The steps of one run on one host over the muxy transport: run_step and  *)
(* its loop (crates/shellflow-muxy/src/session.rs), the pump thread that   *)
(* feeds it (conn.rs), the adapter that decides between muxy and ssh       *)
(* (bin/shellflow/src/executor/muxy.rs), and the muxy server as far as the *)
(* client can tell: sessions, the payload files, and a link that may drop. *)
(*                                                                         *)
(* One step holds the host's connection lock at a time, so the step thread *)
(* has a single program counter; the pump, the server, the link, the       *)
(* operator and the clock act in between its requests.                     *)
(*                                                                         *)
(* The client a step uses is captured when run_step starts.  A reconnect   *)
(* replaces the host's client, never the captured one: from then on the    *)
(* step is "stale" and its own requests go to the dead connection.         *)
(***************************************************************************)
EXTENDS Naturals, Sequences, FiniteSets

CONSTANTS
  NumSteps,         \* the selected command steps of the run, in plan order
  PayloadNames,     \* the names a payload file can have on the target
  StepId,           \* the payload name of each step
  HasTimeout,       \* the steps with a deadline
  HasGuard,         \* the steps whose payload folded an @only_if guard
  HasEnv,           \* the steps with a non-empty environment
  HasSecrets,       \* the steps whose environment holds @secrets values
  Policy,           \* --transport: "auto" or "muxy"
  KeepOnCancel,     \* --muxy-keep
  ContinueOnError,  \* --continue-on-error
  SupportsEnv,      \* the server offers SESSION_ENVIRONMENT
  AmbiguousInput,   \* whether an input the client reports as failed may
                    \* still have reached the shell
  QueueCap,         \* PUMP_QUEUE
  MaxCuts           \* bound: how often the link drops

Steps == 1..NumSteps
NoStep == 0

ASSUME ConstantsAssumption ==
  /\ NumSteps \in Nat \ {0}
  /\ StepId \in [Steps -> PayloadNames]
  /\ HasTimeout \subseteq Steps /\ HasGuard \subseteq Steps
  /\ HasEnv \subseteq Steps /\ HasSecrets \subseteq HasEnv
  /\ Policy \in {"auto", "muxy"}
  /\ KeepOnCancel \in BOOLEAN /\ ContinueOnError \in BOOLEAN
  /\ SupportsEnv \in BOOLEAN /\ AmbiguousInput \in BOOLEAN
  /\ QueueCap \in Nat \ {0} /\ MaxCuts \in Nat

VARIABLES
  step,         \* the step that holds the connection
  pc,           \* where its thread is
  why,          \* what the end of the session is awaited for
  verdict,      \* what run_step is about to return
  known,        \* the failure names a session (MuxyFailure.session)
  keep,         \* still_running of the result
  cancelled,    \* the run was interrupted
  expired,      \* the deadline of the step has passed
  reconnected,  \* the one reconnect of the step is spent
  stale,        \* the client of the step predates a reconnect
  conn,         \* the host's connection: none cached, up, or down
  noticed,      \* its pump has seen that it is down
  unavailable,  \* the cache says: no muxy on this host
  reg,          \* the pump streams the channel of the step
  rx,           \* the messages queued for the step
  evt,          \* the end of the session is among the pump's events
  sess,         \* the server's session of each step
  reason,       \* why it ended
  endReq,       \* the sessions the server was asked to end
  typed,        \* the sessions whose shell was sent the bootstrap line
  payload,      \* whose script each payload file holds
  loaded,       \* whose script each session executes
  sshRan,       \* the steps that were executed over ssh
  sshExit,      \* how they exited there
  discarded,    \* the sessions whose screen was discarded
  astray,       \* the steps of which a request that puts something on the
                \* target or takes it away was not answered or not done
  outcome,      \* the reported outcome of each step
  left,         \* the steps reported as still running on the target
  cuts,         \* how often it dropped
  starts        \* how often each script began to execute

runVars    == <<step, outcome, left, unavailable>>
resultVars == <<why, verdict, known, keep>>
loopVars   == <<cancelled, expired, reconnected, stale>>
connVars   == <<conn, noticed, cuts>>
pumpVars   == <<reg, rx, evt>>
serverVars == <<sess, reason, endReq, typed, payload, loaded, discarded,
                astray>>
sshVars    == <<sshRan, sshExit>>
vars == <<pc, runVars, resultVars, loopVars, connVars, pumpVars, serverVars,
          sshVars, starts>>

-----------------------------------------------------------------------------
Outcomes == {"Ok", "Skipped", "FailedScript", "FailedTransport", "TimedOut",
             "Cancelled"}
Reasons == {"Exited0", "Exited42", "ExitedN", "Signaled", "Ended",
            "ServerStopped", "Unrecognized"}
Messages == {"Lines", "TuiRedraw", "Ended", "Disconnected"}
Live(s) == sess[s] \in {"shell", "script"}

\* Slip: the skip channel is honoured for a block without a guard.
SkipWithoutGuard(r, guarded) ==
  CASE r = "Exited0"  -> "Ok"
    [] r = "Exited42" -> "Skipped"
    [] r = "Ended"    -> "Cancelled"
    [] r \in {"ServerStopped", "Unrecognized"} -> "FailedTransport"
    [] OTHER          -> "FailedScript"

\* map_exit_reason
ExitOutcome(r, guarded) ==
  CASE r = "Exited0"             -> "Ok"
    [] r = "Exited42" /\ guarded -> "Skipped"
    [] r = "Ended"               -> "Cancelled"
    [] r \in {"ServerStopped", "Unrecognized"} -> "FailedTransport"
    [] OTHER                     -> "FailedScript"

\* The request of the step reaches a server: its own client is connected.
ClientUp == conn = "up" /\ ~stale

\* The link drops.
Cut == /\ conn = "up" /\ cuts < MaxCuts
       /\ conn' = "down" /\ noticed' = FALSE
       /\ cuts' = cuts + 1

GoesAstray == astray' = astray \cup {step}

\* client.end_session, whose error the callers drop: a request over a live
\* link may still never be carried out (ServerEnds need not happen), one over
\* a dead link never is.
EndSession ==
  /\ endReq' = IF ClientUp /\ Live(step) THEN endReq \cup {step} ELSE endReq
  /\ IF Live(step) /\ ~ClientUp THEN GoesAstray ELSE UNCHANGED astray

\* Slip: an error path forgets that a session was created.
SessionForgotten(named, running, next) ==
  /\ verdict' = "failure" /\ known' = FALSE /\ keep' = running
  /\ pc' = next /\ UNCHANGED why

\* run_step returns a MuxyFailure.
Failure(named, running, next) ==
  /\ verdict' = "failure" /\ known' = named /\ keep' = running
  /\ pc' = next /\ UNCHANGED why

\* Slip: run_step cleans up without looking at still_running.
CleanupAlways(v, running, next) ==
  /\ verdict' = v /\ known' = TRUE /\ keep' = running
  /\ pc' = "cleanup" /\ UNCHANGED why

\* run_step returns a StepResult.
Result(v, running, next) ==
  /\ verdict' = v /\ known' = TRUE /\ keep' = running
  /\ pc' = next /\ UNCHANGED why

Init ==
  /\ step = 1 /\ pc = "ensure" /\ why = "none" /\ verdict = "none"
  /\ known = FALSE /\ keep = FALSE
  /\ cancelled = FALSE /\ expired = FALSE
  /\ reconnected = FALSE /\ stale = FALSE
  /\ conn = "none" /\ noticed = FALSE /\ unavailable = FALSE
  /\ reg = FALSE /\ rx = <<>> /\ evt = FALSE
  /\ sess = [s \in Steps |-> "none"] /\ reason = [s \in Steps |-> "none"]
  /\ endReq = {} /\ typed = {}
  /\ payload = [n \in PayloadNames |-> NoStep]
  /\ loaded = [s \in Steps |-> NoStep]
  /\ sshRan = {} /\ sshExit = [s \in Steps |-> "none"]
  /\ discarded = {} /\ astray = {}
  /\ outcome = [s \in Steps |-> "none"] /\ left = {}
  /\ cuts = 0
  /\ starts = [s \in Steps |-> 0]

-----------------------------------------------------------------------------
(* The adapter: ensure_host, and the choice of transport it makes. *)

\* fallback_or_fail: ssh under auto, a failed step under muxy.
FallbackOrFail ==
  /\ Failure(FALSE, FALSE, IF Policy = "auto" THEN "ssh" ELSE "report")

\* The cached connection answers the ping.
ReuseConnection ==
  /\ pc = "ensure" /\ conn = "up"
  /\ pc' = "write"
  /\ UNCHANGED <<runVars, resultVars, loopVars, connVars, pumpVars, serverVars,
                 sshVars, starts>>

\* The cache says there is no muxy here.
KnownUnavailable ==
  /\ pc = "ensure" /\ unavailable
  /\ FallbackOrFail
  /\ UNCHANGED <<runVars, loopVars, connVars, pumpVars, serverVars, sshVars,
                 starts>>

\* No connection, or one whose ping failed or took too long (the link may be
\* up): connect_host opens a new one.  A secret-bearing step does not keep a
\* connection without environments.
Connect ==
  /\ pc = "ensure" /\ ~unavailable
  /\ IF step \in HasSecrets /\ ~SupportsEnv
     THEN /\ conn' = "none" /\ FallbackOrFail
     ELSE /\ conn' = "up" /\ pc' = "write" /\ UNCHANGED resultVars
  /\ noticed' = FALSE
  /\ UNCHANGED <<runVars, loopVars, cuts, pumpVars, serverVars, sshVars,
                 starts>>

ConnectFails ==
  /\ pc = "ensure" /\ ~unavailable
  /\ conn' = "none" /\ unavailable' = TRUE
  /\ FallbackOrFail
  /\ UNCHANGED <<step, outcome, left, loopVars, noticed, cuts, pumpVars,
                 serverVars, sshVars, starts>>

-----------------------------------------------------------------------------
(* run_step up to the bootstrap.  A request is served, refused, or served   *)
(* without an answer in time: the link drops, or the client's timeout for   *)
(* one request passes while the link stays up.                              *)

\* check_env: an environment the server cannot take is refused before
\* anything is written; a payload that is too large leaves by the same way,
\* and any script may be.
EnvRefused == step \in HasEnv /\ ~SupportsEnv

RefuseEnv ==
  /\ pc = "write"
  /\ Failure(FALSE, FALSE, "report")
  /\ UNCHANGED <<runVars, loopVars, connVars, pumpVars, serverVars, sshVars,
                 starts>>

\* What a write without an answer has placed, nobody takes away again.
WritePayload ==
  /\ pc = "write" /\ ~EnvRefused
  /\ \/ /\ ClientUp
        /\ payload' = [payload EXCEPT ![StepId[step]] = step]
        /\ pc' = "create"
        /\ UNCHANGED <<resultVars, connVars, astray>>
     \/ /\ Failure(FALSE, FALSE, "report")
        /\ UNCHANGED <<payload, connVars, astray>>
     \/ /\ ClientUp /\ (Cut \/ UNCHANGED connVars)
        /\ payload' = [payload EXCEPT ![StepId[step]] = step]
        /\ Failure(FALSE, FALSE, "report")
        /\ GoesAstray
  /\ UNCHANGED <<runVars, loopVars, pumpVars, sess, reason, endReq, typed,
                 loaded, discarded, sshVars, starts>>

\* When the creation fails the payload is deleted again, as far as the client
\* reaches the server; a session made without an answer stays, with no name.
CreateSession ==
  /\ pc = "create"
  /\ \/ /\ ClientUp
        /\ sess' = [sess EXCEPT ![step] = "shell"]
        /\ pc' = "attach"
        /\ UNCHANGED <<resultVars, connVars, payload, astray>>
     \/ \E made, deleted \in BOOLEAN :
          /\ made \/ deleted => ClientUp
          /\ sess' = IF made THEN [sess EXCEPT ![step] = "shell"] ELSE sess
          /\ payload' = IF deleted
                        THEN [payload EXCEPT ![StepId[step]] = NoStep]
                        ELSE payload
          /\ IF made \/ ~deleted THEN GoesAstray ELSE UNCHANGED astray
          /\ UNCHANGED connVars \/ (made /\ ~deleted /\ Cut)
          /\ Failure(FALSE, FALSE, "report")
  /\ UNCHANGED <<runVars, loopVars, pumpVars, reason, endReq, typed, loaded,
                 discarded, sshVars, starts>>

\* A refused attach ends the session again and reports none left.
Attach ==
  /\ pc = "attach"
  /\ \/ /\ ClientUp /\ pc' = "register"
        /\ UNCHANGED <<resultVars, endReq, astray>>
     \/ /\ Failure(FALSE, FALSE, "cleanup")
        /\ EndSession
  /\ UNCHANGED <<runVars, loopVars, connVars, pumpVars, sess, reason, typed,
                 payload, loaded, discarded, sshVars, starts>>

Register ==
  /\ pc = "register"
  /\ reg' = TRUE /\ rx' = <<>>
  /\ pc' = "boot"
  /\ UNCHANGED <<runVars, resultVars, loopVars, connVars, evt, serverVars,
                 sshVars, starts>>

\* The bootstrap line.  When the client reports an error the session is
\* ended and the step reports that nothing was left on the target.
WriteBootstrap ==
  /\ pc = "boot"
  /\ \/ /\ ClientUp
        /\ typed' = typed \cup {step}
        /\ pc' = "check"
        /\ UNCHANGED <<resultVars, connVars, reg, endReq, astray>>
     \/ /\ Failure(FALSE, FALSE, "cleanup")
        /\ reg' = FALSE
        /\ EndSession
        /\ UNCHANGED <<typed, connVars>>
     \/ /\ AmbiguousInput /\ ClientUp
        /\ typed' = typed \cup {step}
        /\ Failure(FALSE, FALSE, "cleanup")
        /\ reg' = FALSE
        /\ \/ EndSession /\ UNCHANGED connVars
           \/ Cut /\ GoesAstray /\ UNCHANGED endReq
  /\ UNCHANGED <<runVars, loopVars, rx, evt, sess, reason, payload, loaded,
                 discarded, sshVars, starts>>

-----------------------------------------------------------------------------
(* The loop of run_attached: the flags are looked at, then one message is   *)
(* received or the 200 ms slice ends.                                       *)

\* The run was interrupted: detach under --muxy-keep, end the session else.
CancelOutcome ==
  /\ pc = "check" /\ cancelled
  /\ IF KeepOnCancel
     THEN /\ reg' = FALSE
          /\ Result("Cancelled", TRUE, "report")
          /\ UNCHANGED <<endReq, astray>>
     ELSE /\ EndSession
          /\ why' = "cancel" /\ pc' = "grace"
          /\ UNCHANGED <<reg, verdict, known, keep>>
  /\ UNCHANGED <<runVars, loopVars, connVars, rx, evt, sess, reason, typed,
                 payload, loaded, discarded, sshVars, starts>>

TimeoutOutcome ==
  /\ pc = "check" /\ ~cancelled /\ expired
  /\ EndSession
  /\ why' = "timeout" /\ pc' = "grace"
  /\ UNCHANGED <<runVars, verdict, known, keep, loopVars, connVars, pumpVars,
                 sess, reason, typed, payload, loaded, discarded, sshVars, starts>>

KeepWaiting ==
  /\ pc = "check" /\ ~cancelled /\ ~expired
  /\ pc' = "recv"
  /\ UNCHANGED <<runVars, resultVars, loopVars, connVars, pumpVars, serverVars,
                 sshVars, starts>>

RecvTimeout ==
  /\ pc = "recv" /\ rx = <<>>
  /\ pc' = "check"
  /\ UNCHANGED <<runVars, resultVars, loopVars, connVars, pumpVars, serverVars,
                 sshVars, starts>>

Receive(m) == rx # <<>> /\ Head(rx) = m /\ rx' = Tail(rx)

RecvLines ==
  /\ pc = "recv" /\ Receive("Lines")
  /\ pc' = "check"
  /\ UNCHANGED <<runVars, resultVars, loopVars, connVars, reg, evt, serverVars,
                 sshVars, starts>>

RecvTuiRedraw ==
  /\ pc = "recv" /\ Receive("TuiRedraw")
  /\ reg' = FALSE
  /\ EndSession
  /\ why' = "tui" /\ pc' = "grace"
  /\ UNCHANGED <<runVars, verdict, known, keep, loopVars, connVars, evt, sess,
                 reason, typed, payload, loaded, discarded, sshVars,
                 starts>>

\* Slip: an end is a success, whatever its reason.
EndedIsSuccess ==
  /\ pc = "recv" /\ Receive("Ended")
  /\ reg' = FALSE
  /\ Result("Ok", FALSE, "cleanup")
  /\ UNCHANGED <<runVars, loopVars, connVars, evt, serverVars, sshVars, starts>>

RecvEnded ==
  /\ pc = "recv" /\ Receive("Ended")
  /\ reg' = FALSE
  /\ Result(ExitOutcome(reason[step], step \in HasGuard), FALSE, "cleanup")
  /\ UNCHANGED <<runVars, loopVars, connVars, evt, serverVars, sshVars, starts>>

\* The first loss is answered by a reconnect, the second ends the step.
RecvDisconnected ==
  /\ pc = "recv" /\ Receive("Disconnected")
  /\ IF reconnected
     THEN /\ reg' = FALSE
          /\ Failure(TRUE, TRUE, "report")
          /\ UNCHANGED reconnected
     ELSE /\ reconnected' = TRUE
          /\ pc' = "reconnect"
          /\ UNCHANGED <<reg, resultVars>>
  /\ UNCHANGED <<runVars, cancelled, expired, stale, connVars, evt, serverVars,
                 sshVars, starts>>

\* HostConnection::reconnect: a new client, a new channel map, a new pump.
\* The client and the channel of the step stay what they were.
Reconnect ==
  /\ pc = "reconnect"
  /\ \/ /\ conn' = "up" /\ noticed' = FALSE /\ stale' = TRUE
        /\ reg' = FALSE
        /\ pc' = "reattach"
        /\ UNCHANGED resultVars
     \/ /\ Failure(TRUE, TRUE, "report")
        /\ reg' = FALSE
        /\ UNCHANGED <<conn, noticed, stale>>
  /\ UNCHANGED <<runVars, cancelled, expired, reconnected, cuts, rx, evt,
                 serverVars, sshVars, starts>>

Reattach ==
  /\ pc = "reattach"
  /\ \/ conn = "up" /\ pc' = "reregister" /\ UNCHANGED resultVars
     \/ Failure(TRUE, TRUE, "report")
  /\ UNCHANGED <<runVars, loopVars, connVars, pumpVars, serverVars, sshVars,
                 starts>>

Reregister ==
  /\ pc = "reregister"
  /\ reg' = TRUE
  /\ pc' = "check"
  /\ UNCHANGED <<runVars, resultVars, loopVars, connVars, rx, evt, serverVars,
                 sshVars, starts>>

-----------------------------------------------------------------------------
(* wait_for_end, at most END_GRACE, and the teardown.                       *)

AwaitedOutcome == CASE why = "timeout" -> "TimedOut"
                    [] why = "cancel"  -> "Cancelled"
                    [] OTHER           -> "FailedScript"

\* A drop during the grace leaves the session's fate unknown and keeps its
\* payload; the caller for a redrawn screen ignores what was observed.
GraceRecv ==
  /\ pc = "grace" /\ rx # <<>>
  /\ rx' = Tail(rx)
  /\ CASE Head(rx) = "Ended" ->
            /\ reg' = FALSE
            /\ Result(AwaitedOutcome, FALSE, "cleanup")
       [] Head(rx) = "Disconnected" ->
            /\ reg' = FALSE
            /\ IF why = "tui" THEN Result(AwaitedOutcome, FALSE, "cleanup")
                              ELSE Result(AwaitedOutcome, TRUE, "report")
       [] OTHER -> UNCHANGED <<reg, pc, resultVars>>
  /\ UNCHANGED <<runVars, loopVars, connVars, evt, serverVars, sshVars, starts>>

\* Slip: the end of the session is awaited without a bound.
GraceUnbounded == FALSE

GraceExpires ==
  /\ pc = "grace"
  /\ reg' = FALSE
  /\ Result(AwaitedOutcome, FALSE, "cleanup")
  /\ UNCHANGED <<runVars, loopVars, connVars, rx, evt, serverVars, sshVars,
                 starts>>

\* Slip: the screen of a step with secrets is not discarded.
CleanupFilesOnly ==
  /\ pc = "cleanup"
  /\ payload' = IF ClientUp THEN [payload EXCEPT ![StepId[step]] = NoStep]
                            ELSE payload
  /\ IF ClientUp THEN UNCHANGED astray ELSE GoesAstray
  /\ pc' = "report" /\ UNCHANGED discarded
  /\ UNCHANGED <<runVars, resultVars, loopVars, connVars, pumpVars, sess,
                 reason, endReq, typed, loaded, sshVars, starts>>

\* cleanup: best effort, through the client of the step: each of its two
\* requests may be refused, and over a dead link neither is served.
Cleanup ==
  /\ pc = "cleanup"
  /\ \E deleted, wiped \in BOOLEAN :
       /\ deleted \/ wiped => ClientUp
       /\ wiped => step \in HasSecrets
       /\ payload' = IF deleted
                     THEN [payload EXCEPT ![StepId[step]] = NoStep]
                     ELSE payload
       /\ discarded' = IF wiped THEN discarded \cup {step} ELSE discarded
       /\ IF deleted /\ (wiped \/ step \notin HasSecrets)
          THEN UNCHANGED astray
          ELSE GoesAstray
  /\ pc' = "report"
  /\ UNCHANGED <<runVars, resultVars, loopVars, connVars, pumpVars, sess,
                 reason, endReq, typed, loaded, sshVars, starts>>

-----------------------------------------------------------------------------
(* attempt_step maps the result; a failure that names no session falls back *)
(* to ssh under auto, which runs the block.                                 *)

Report(o) ==
  /\ outcome' = [outcome EXCEPT ![step] = o]
  /\ pc' = "advance"
  /\ UNCHANGED <<step, unavailable, resultVars, loopVars, connVars, pumpVars,
                 serverVars, sshVars, starts>>

ReportResult ==
  /\ pc = "report" /\ verdict # "failure"
  /\ left' = IF keep THEN left \cup {step} ELSE left
  /\ Report(verdict)

ReportFailure ==
  /\ pc = "report" /\ verdict = "failure" /\ (known \/ Policy # "auto")
  /\ left' = IF keep /\ known THEN left \cup {step} ELSE left
  /\ Report("FailedTransport")

Fallback ==
  /\ pc = "report" /\ verdict = "failure" /\ ~known /\ Policy = "auto"
  /\ pc' = "ssh"
  /\ UNCHANGED <<runVars, resultVars, loopVars, connVars, pumpVars, serverVars,
                 sshVars, starts>>

\* run_ssh_child: the shell at the other end begins to execute the block ...
SshStart ==
  /\ pc = "ssh"
  /\ sshRan' = sshRan \cup {step}
  /\ starts' = [starts EXCEPT ![step] = @ + 1]
  /\ pc' = "sshrun"
  /\ UNCHANGED <<runVars, resultVars, loopVars, connVars, pumpVars, serverVars,
                 sshExit>>

\* ... exits ...
SshExit(r) ==
  /\ pc = "sshrun" /\ sshExit[step] = "none"
  /\ sshExit' = [sshExit EXCEPT ![step] = r]
  /\ UNCHANGED <<pc, runVars, resultVars, loopVars, connVars, pumpVars,
                 serverVars, sshRan, starts>>

\* ... and is reported; the connection, the deadline or the interrupt may
\* come first.
SshReport ==
  /\ pc \in {"ssh", "sshrun"} /\ UNCHANGED left
  /\ \/ /\ pc = "sshrun" /\ sshExit[step] # "none"
        /\ Report(ExitOutcome(sshExit[step], step \in HasGuard))
     \/ Report("FailedTransport")
     \/ step \in HasTimeout /\ Report("TimedOut")
     \/ cancelled /\ Report("Cancelled")

\* execute_plan: a step error ends the run unless --continue-on-error, an
\* interrupt ends it always.
StepFailed(s) ==
  outcome[s] \in {"FailedScript", "FailedTransport", "TimedOut"}

Advance ==
  /\ pc = "advance"
  /\ IF step = NumSteps \/ cancelled \/ (StepFailed(step) /\ ~ContinueOnError)
     THEN pc' = "done" /\ UNCHANGED step
     ELSE pc' = "ensure" /\ step' = step + 1
  /\ why' = "none" /\ verdict' = "none" /\ known' = FALSE /\ keep' = FALSE
  /\ expired' = FALSE /\ reconnected' = FALSE /\ stale' = FALSE
  /\ reg' = FALSE /\ rx' = <<>> /\ evt' = FALSE
  /\ UNCHANGED <<outcome, left, unavailable, cancelled, connVars, serverVars,
                 sshVars, starts>>

-----------------------------------------------------------------------------
(* The pump: the only consumer of the client's events.  It delivers to the  *)
(* step whose channel is registered and waits while that queue is full.     *)

\* Slip: the channel of a step is unbounded.
DeliverUnbounded(m) == rx' = IF reg THEN Append(rx, m) ELSE rx

Deliver(m) == IF reg THEN /\ Len(rx) < QueueCap
                          /\ rx' = Append(rx, m)
                     ELSE UNCHANGED rx

\* A frame of the session: rows that scrolled off (or the one-time notice
\* that the head is gone), or a screen redrawn in place.
PumpFrame(m) ==
  /\ conn = "up" /\ reg /\ Live(step)
  /\ m = "TuiRedraw" => sess[step] = "script"
  /\ Deliver(m)
  /\ UNCHANGED <<pc, runVars, resultVars, loopVars, connVars, reg, evt,
                 serverVars, sshVars, starts>>

\* notify_ended: nobody is told when the channel is not registered.
PumpEnded ==
  /\ evt
  /\ Deliver("Ended")
  /\ evt' = FALSE
  /\ UNCHANGED <<pc, runVars, resultVars, loopVars, connVars, reg, serverVars,
                 sshVars, starts>>

\* notify_all: the last thing this pump does.
PumpDisconnected ==
  /\ conn = "down" /\ ~noticed /\ ~evt
  /\ Deliver("Disconnected")
  /\ noticed' = TRUE
  /\ UNCHANGED <<pc, runVars, resultVars, loopVars, conn, cuts, reg, evt,
                 serverVars, sshVars, starts>>

-----------------------------------------------------------------------------
(* The target. *)

\* The session of s is over; its event reaches the pump if a link is up.
SessionEnds(s, r) ==
  /\ sess' = [sess EXCEPT ![s] = "ended"]
  /\ reason' = [reason EXCEPT ![s] = r]
  /\ evt' = (evt \/ (s = step /\ conn = "up"))
  /\ UNCHANGED <<pc, runVars, resultVars, loopVars, connVars, reg, rx, endReq,
                 typed, payload, loaded, discarded, astray, sshVars, starts>>

\* The shell comes to its bootstrap line and replaces itself by the payload
\* (bash cannot execute a file that is not there).
ReadBootstrap(s) ==
  /\ s \in typed /\ sess[s] = "shell"
  /\ LET t == payload[StepId[s]]
     IN IF t = NoStep
        THEN SessionEnds(s, "ExitedN")
        ELSE /\ sess' = [sess EXCEPT ![s] = "script"]
             /\ loaded' = [loaded EXCEPT ![s] = t]
             /\ starts' = [starts EXCEPT ![t] = @ + 1]
             /\ UNCHANGED <<pc, runVars, resultVars, loopVars, connVars,
                            pumpVars, reason, endReq, typed, payload,
                            discarded, astray, sshVars>>

\* The script exits by itself.  In a payload with a guard only the guard
\* leaves with 42, a trap turns the block's own 42 into 1.
ScriptExits(s, r) ==
  /\ sess[s] = "script"
  /\ SessionEnds(s, r)

\* The server carries out an end_session.
ServerEnds(s) ==
  /\ s \in endReq /\ Live(s)
  /\ SessionEnds(s, "Ended")

\* Somebody ends the session from the Muxy app, or its server stops or gives
\* a reason this client does not know.
AppKills(s) ==
  /\ Live(s) /\ s \notin endReq
  /\ SessionEnds(s, "Ended")

ServerStops(s) ==
  /\ Live(s)
  /\ \E r \in {"ServerStopped", "Unrecognized"} : SessionEnds(s, r)

\* The link drops; an end the pump has not seen may be lost with it.
LinkDrops ==
  /\ pc # "done" /\ Cut
  /\ evt' \in {evt, FALSE}
  /\ UNCHANGED <<pc, runVars, resultVars, loopVars, reg, rx, serverVars,
                 sshVars, starts>>

\* Ctrl-C.
Interrupt ==
  /\ pc # "done" /\ ~cancelled
  /\ cancelled' = TRUE
  /\ UNCHANGED <<pc, runVars, resultVars, expired, reconnected, stale, connVars,
                 pumpVars, serverVars, sshVars, starts>>

\* Slip: the loop state that is rebuilt after a reconnect has no deadline.
DeadlineLost ==
  /\ pc \in {"check", "recv"} /\ ~reconnected
  /\ step \in HasTimeout /\ ~expired
  /\ expired' = TRUE
  /\ UNCHANGED <<pc, runVars, resultVars, cancelled, reconnected, stale,
                 connVars, pumpVars, serverVars, sshVars, starts>>

\* The deadline, which runs from the bootstrap on.
DeadlinePasses ==
  /\ pc \in {"check", "recv", "reconnect", "reattach", "reregister"}
  /\ step \in HasTimeout /\ ~expired
  /\ expired' = TRUE
  /\ UNCHANGED <<pc, runVars, resultVars, cancelled, reconnected, stale,
                 connVars, pumpVars, serverVars, sshVars, starts>>

Finished == pc = "done" /\ UNCHANGED vars

-----------------------------------------------------------------------------
Ensure == ReuseConnection \/ KnownUnavailable \/ Connect \/ ConnectFails
Launch == \/ RefuseEnv \/ WritePayload \/ CreateSession \/ Attach \/ Register
          \/ WriteBootstrap
Loop == \/ CancelOutcome \/ TimeoutOutcome \/ KeepWaiting \/ RecvTimeout
        \/ RecvLines \/ RecvTuiRedraw \/ RecvEnded \/ RecvDisconnected
        \/ Reconnect \/ Reattach \/ Reregister
Settle == \/ GraceRecv \/ GraceExpires \/ Cleanup \/ ReportResult
          \/ ReportFailure \/ Fallback \/ SshStart \/ SshReport \/ Advance
StepThread == Ensure \/ Launch \/ Loop \/ Settle

Pump == \/ \E m \in {"Lines", "TuiRedraw"} : PumpFrame(m)
        \/ PumpEnded \/ PumpDisconnected

Target == \/ \E s \in Steps :
               \/ ReadBootstrap(s) \/ ServerEnds(s) \/ AppKills(s)
               \/ ServerStops(s)
               \/ \E r \in {"Exited0", "Exited42", "ExitedN", "Signaled"} :
                    ScriptExits(s, r)
          \/ \E r \in {"Exited0", "Exited42", "ExitedN"} : SshExit(r)

Next == StepThread \/ Pump \/ Target \/ LinkDrops \/ Interrupt
        \/ DeadlinePasses \/ Finished

\* The thread runs whenever it can: every request and every wait is bounded
\* (the client's request timeout, READY_TIMEOUT, the 200 ms slice); the grace
\* and the deadline are clocks.
Fairness == WF_vars(StepThread) /\ WF_vars(GraceExpires)
            /\ WF_vars(DeadlinePasses)

Spec == Init /\ [][Next]_vars /\ Fairness

-----------------------------------------------------------------------------
PcValues == {"ensure", "write", "create", "attach", "register", "boot",
             "check", "recv", "reconnect", "reattach", "reregister", "grace",
             "cleanup", "report", "ssh", "sshrun", "advance", "done"}

TypeRun ==
  /\ step \in Steps /\ left \subseteq Steps /\ unavailable \in BOOLEAN
  /\ outcome \in [Steps -> Outcomes \cup {"none"}]
TypeResult ==
  /\ why \in {"none", "timeout", "cancel", "tui"}
  /\ verdict \in Outcomes \cup {"none", "failure"}
  /\ known \in BOOLEAN /\ keep \in BOOLEAN
TypeLoop ==
  /\ cancelled \in BOOLEAN /\ expired \in BOOLEAN
  /\ reconnected \in BOOLEAN /\ stale \in BOOLEAN
TypeConn ==
  /\ conn \in {"none", "up", "down"} /\ noticed \in BOOLEAN
  /\ cuts \in 0..MaxCuts
TypePump ==
  /\ reg \in BOOLEAN /\ evt \in BOOLEAN
  /\ rx \in Seq(Messages) /\ Len(rx) <= QueueCap
TypeServer ==
  /\ sess \in [Steps -> {"none", "shell", "script", "ended"}]
  /\ reason \in [Steps -> Reasons \cup {"none"}]
  /\ endReq \subseteq Steps /\ typed \subseteq Steps
  /\ payload \in [PayloadNames -> Steps \cup {NoStep}]
  /\ loaded \in [Steps -> Steps \cup {NoStep}]
  /\ discarded \subseteq Steps /\ astray \subseteq Steps
TypeSsh ==
  /\ sshRan \subseteq Steps
  /\ sshExit \in [Steps -> Reasons \cup {"none"}]

\* Every variable has its type, and the queue of a step never outgrows the
\* bound of the pump's channel (conn.rs, PUMP_QUEUE).
TypeOK == /\ pc \in PcValues /\ starts \in [Steps -> Nat]
          /\ TypeRun /\ TypeResult /\ TypeLoop /\ TypeConn
          /\ TypePump /\ TypeServer /\ TypeSsh

-----------------------------------------------------------------------------
(* Safety *)

\* A script begins to execute at most once, whatever mixture of sessions,
\* reconnects and ssh fallbacks its step went through (session.rs:122-125: a
\* step that may have partially executed is never run again).
AtMostOnce == \A s \in Steps : starts[s] <= 1

\* "Ok" and "skipped" are only reported for a script that was executed and
\* left with that code, through the session of its own step or over ssh;
\* "skipped" only for a step that has a guard (map_exit_reason).
Completed(s, r) == \/ loaded[s] = s /\ reason[s] = r
                   \/ s \in sshRan /\ sshExit[s] = r
Truthful == \A s \in Steps :
  /\ outcome[s] = "Ok" => Completed(s, "Exited0")
  /\ outcome[s] = "Skipped" => s \in HasGuard /\ Completed(s, "Exited42")

\* A session that is still executing its script, and that nobody asked to
\* end, finds its own payload in the file it was started from: no cleanup
\* and no later step takes it away (session.rs:582).
LivePayloadKept == \A s \in Steps :
  sess[s] = "script" /\ s \notin endReq => payload[StepId[s]] = loaded[s]

\* A step that is not reported as still running leaves nothing on the target,
\* on any of its paths, if the server answered what it was asked to make and
\* did what it was asked to take away: the session is over or was asked to
\* end, the payload is gone, and the screen of a success with secrets is
\* discarded (session.rs:582, docs/muxy-transport.md:257).
LeavesNothingBehind == \A s \in Steps :
  outcome[s] # "none" /\ s \notin left /\ s \notin astray =>
    /\ Live(s) => s \in endReq
    /\ payload[StepId[s]] # s
    /\ outcome[s] = "Ok" /\ s \in HasSecrets /\ sess[s] # "none" =>
         s \in discarded

-----------------------------------------------------------------------------
(* The abstract specification *)

\* The run on this host, seen from outside, keeps the promise of StepPromise.
ExitOf(s) == IF sshExit[s] # "none" THEN sshExit[s]
             ELSE IF loaded[s] = s THEN reason[s] ELSE "none"

Promise == INSTANCE StepPromise WITH
  at <- step, over <- (pc = "done"),
  started <- {s \in Steps : starts[s] > 0},
  exit <- [s \in Steps |-> ExitOf(s)]

\* Every step of the transport is a step, or no step, of that promise.
KeepsPromise == Promise!Spec

-----------------------------------------------------------------------------
(* Liveness *)

\* An interrupt stops the run: whatever the step waits for, the thread looks
\* at the flag again within a slice, and the grace is bounded.
InterruptStops == cancelled ~> pc = "done"

\* A run whose steps all have deadlines ends, even if the end of a session
\* is never heard of.
DeadlineStops == HasTimeout = Steps => <>(pc = "done" \/ pc = "sshrun")
=============================================================================
