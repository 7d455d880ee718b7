------------------------------ MODULE StepTask ------------------------------
(***************************************************************************)
(* The task of one step, from its start to its verdict.                    *)
(*                                                                         *)
(* A step on the controller or on one host is carried out by children of   *)
(* shellflow: the shell of a local block and of its guard, `cp`, `rsync`,  *)
(* `scp`, `ssh`, and the probe of the target that comes first.  Each child *)
(* leads a process group of its own and is supervised in one of three      *)
(* ways: Piped (executor/stream.rs run_piped_child: the output is          *)
(* forwarded while the child runs), Watched (executor/process.rs           *)
(* wait_child) and Collected (executor/host.rs supervised_output).         *)
(* Every child ends by itself, by the budget of the step or by an          *)
(* interrupt, and the executor may drop the task at any moment after one.  *)
(***************************************************************************)
EXTENDS Integers, FiniteSets

CONSTANTS
  Jobs,       \* the kinds of step a run of the model is about
  Lines,      \* lines a child writes at most
  PipeCap,    \* lines that fit between a child and the reader of its output
  Deploys     \* local copies with --delete, one after another

ASSUME BoundsAreNumbers ==
  Lines \in Nat /\ PipeCap \in Nat \ {0} /\ Deploys \in Nat \ {0}

VARIABLES
  job,        \* what the step does
  leg,        \* the child it is at
  pc,         \* where the task stands
  why,        \* what ended the child: "done", "timeout", "cancelled", "broken"
  verdict,    \* the HostOutcome reported, "none" before
  budget,     \* does the step have a timeout
  cancelled,  \* was the run interrupted
  hang,       \* does the child never end by itself
  leader,     \* the child: "none", "runs", "exited" (a zombie), "reaped"
  code,       \* its exit code, "none" before and after a signal
  kids,       \* its descendants that are alive
  armed,      \* the GroupGuard of the child will kill the group
  todo, wrote, shown,        \* lines to write, written, forwarded
  capture,    \* the file of the `@export` records exists
  exported,   \* the exports that reached the run state
  tries,      \* probes tried
  muxy, rsync,               \* what the probe said of the target
  did,        \* what the command on the target did
  dst, staging, hurt, deploys  \* a local copy with --delete

childVars == <<leader, code, kids, todo, wrote, shown>>
probeVars == <<tries, muxy, rsync>>
copyVars == <<dst, staging, hurt, deploys>>
world == <<job, budget, hang>>
vars == <<world, leg, pc, why, verdict, cancelled, childVars, armed, capture,
          exported, probeVars, did, copyVars>>

Piped == {"guard", "body", "ssh", "wait", "reload", "service", "rsync", "scp"}
Watched == {"probe", "cp", "mkdir"}
Collected == {"send", "install"}
Fed == {"ssh", "service"}                   \* the payload goes to its stdin
OnTarget == {"ssh", "wait", "reload", "service"}   \* muxy can carry it instead
Helpers == {"wait", "reload", "service"}    \* always under a budget

First == [block |-> "guard", delete |-> "cp", ship |-> "send",
          remote |-> "probe", wait |-> "probe", reload |-> "probe",
          service |-> "probe", check |-> "probe", copy |-> "probe", mirror |-> "probe"]

ASSUME JobsAreSteps == Jobs \subseteq DOMAIN First

\* Descendants by where they are: in the group of the child or in a session of
\* their own, holding its output or not.
InGroup == {"inpipe", "inquiet"}
Holders == {"inpipe", "outpipe"}
AllKids == InGroup \cup Holders
Codes == {"0", "1", "4", "42", "255"}

Supervised == {"feed", "wait", "stop", "drain", "drain2", "report"}
Eof == leader \notin {"runs"} /\ kids \cap Holders = {} /\ shown = wrote

Init ==
  /\ job \in Jobs /\ budget \in IF job \in Helpers THEN {TRUE} ELSE BOOLEAN
  /\ hang \in BOOLEAN
  /\ leg = First[job] /\ pc = "start" /\ why = "none" /\ verdict = "none"
  /\ cancelled = FALSE /\ armed = FALSE
  /\ leader = "none" /\ code = "none" /\ kids = {}
  /\ todo = 0 /\ wrote = 0 /\ shown = 0
  /\ capture = FALSE /\ exported = "none" /\ did = "none"
  /\ tries = 0 /\ muxy = FALSE /\ rsync = FALSE
  /\ dst = "old" /\ staging = "none" /\ hurt = FALSE /\ deploys = 1

-----------------------------------------------------------------------------
(* What a step makes of the end of a child.                                *)

\* run_ssh_child; the guard folded into the payload of a block answers 42.
SshVerdict(c) ==
  CASE c = "0" -> "ok" [] c = "255" -> "transport"
    [] c = "42" /\ job = "remote" -> "skipped"
    [] OTHER -> "script"

\* classify_helper_exit: 4 is the helper's own timeout.
HelperVerdict(c) ==
  CASE c = "0" -> "ok" [] c = "255" -> "transport" [] c = "4" -> "timeout"
    [] OTHER -> "script"

\* map_exit_reason and map_muxy_outcome: explain_exit only names the code.
MuxyVerdict(c) ==
  CASE c = "0" -> "ok" [] c = "42" /\ job = "remote" -> "skipped"
    [] OTHER -> "script"

\* A transfer or the staging of one: anything but 0 is the transport's.
TransferVerdict(c) == IF c = "0" THEN "next" ELSE "transport"

\* The verdict on a child that ended by itself; "next" goes on.
OfCode(c) ==
  CASE leg = "guard" -> (IF c = "0" THEN "next" ELSE "skipped")
    [] leg \in {"body", "cp"} -> (IF c = "0" THEN "next" ELSE "script")
    [] leg = "ssh" -> SshVerdict(c)
    [] leg \in Helpers -> HelperVerdict(c)
    [] OTHER -> TransferVerdict(c)

\* A command on the target that was ended; a target verb that ran out of time
\* counts as one whose connection failed.
OnTargetEnd(w) == IF w \in {"broken", "unstarted"} \/ (w = "timeout" /\ leg = "service")
                  THEN "transport" ELSE w

\* The verdict on a child that was ended, or could not be fed or started.
OfEnd(w) ==
  CASE leg = "cp" \/ (leg = "body" /\ w = "unstarted") -> "script"
    [] leg \in {"mkdir"} \cup Collected -> "transport"
    [] OTHER -> OnTargetEnd(w)

\* The child after this one.
After ==
  CASE leg = "guard" -> "body"
    [] leg = "send" -> "install"
    [] leg = "mkdir" -> "scp"
    [] OTHER -> "none"

Over(v) == pc' = "over" /\ verdict' = v /\ capture' = FALSE

\* The child is accounted for: the next one, the work after the last, the end.
Conclude(w, c) ==
  LET v == IF w = "done" THEN OfCode(c) ELSE OfEnd(w)
  IN  IF v # "next" THEN Over(v) /\ leg' = leg
      ELSE CASE After # "none" ->
                  leg' = After /\ pc' = "start" /\ UNCHANGED <<verdict, capture>>
             [] leg = "body" ->
                  pc' = "capture" /\ UNCHANGED <<leg, verdict, capture>>
             [] leg = "cp" ->
                  pc' = "remove" /\ UNCHANGED <<leg, verdict, capture>>
             [] OTHER -> Over("ok") /\ leg' = leg

-----------------------------------------------------------------------------
(* The child and its descendants.                                          *)

childOnly == <<world, leg, pc, why, verdict, cancelled, armed, capture, exported,
               probeVars, dst, hurt, deploys>>
Room == wrote - shown < PipeCap
\* Somebody reads the pipe: forwarders from the spawn until the readers are
\* shut down, the wait itself for a collected child.
\* A slip: the readers are started when the child has ended.
ReadingLate == \/ leg \in Piped /\ pc \in {"drain", "drain2"}
               \/ leg \in Collected /\ pc = "wait"
Reading == \/ leg \in Piped /\ pc \in Supervised
           \/ leg \in Collected /\ pc = "wait"

Write ==
  /\ leader = "runs" /\ todo > 0 /\ Room
  /\ wrote' = wrote + 1 /\ todo' = todo - 1
  /\ UNCHANGED <<childOnly, leader, code, kids, shown, did, staging>>

\* The child ends by itself, with everything it had to write in the pipe.  A
\* `cp` that succeeds has filled the staging tree.
Exit ==
  /\ leader = "runs" /\ todo = 0 /\ leader' = "exited"
  /\ \E c \in Codes :
       /\ code' = c
       /\ did' = IF leg \in OnTarget /\ pc # "feed" THEN c ELSE did
       /\ staging' = IF c = "0" /\ staging = "part" THEN "whole" ELSE staging
  /\ UNCHANGED <<childOnly, kids, todo, wrote, shown>>

Fork ==
  /\ leader = "runs" /\ leg \notin Watched
  /\ \E k \in AllKids \ kids : kids' = kids \cup {k}
  /\ UNCHANGED <<childOnly, leader, code, todo, wrote, shown, did, staging>>

KidWrites ==
  /\ kids \cap Holders # {} /\ Reading /\ wrote < Lines /\ Room
  /\ wrote' = wrote + 1
  /\ UNCHANGED <<childOnly, leader, code, kids, todo, shown, did, staging>>

KidEnds ==
  /\ pc # "over" /\ \E k \in kids : kids' = kids \ {k}
  /\ UNCHANGED <<childOnly, leader, code, todo, wrote, shown, did, staging>>

-----------------------------------------------------------------------------
(* The task and its child.                                                 *)

taskOnly == <<world, cancelled, exported, probeVars, dst, hurt, deploys>>

\* remove_path on the staging tree an earlier copy may have left.
\* A slip: what is there is taken for the tree of this copy.
Kept == staging
Cleared == IF leg = "cp" THEN "none" ELSE staging
\* `cp -a` makes the tree, or copies into one that is there.
Begun(tree) == IF leg # "cp" THEN tree ELSE IF tree = "none" THEN "part" ELSE "nested"

\* Some fan-out tasks look at the interrupt before they do anything, and a
\* helper is not shipped any further after one.
LooksFirst == leg \in Collected \/ (leg = "probe" /\ tries = 0 /\ job \in Helpers)

\* The file for the `@export` records is there before the block runs.
Captures == leg = "body"

Spawn ==
  /\ pc = "start" /\ ~(LooksFirst /\ cancelled) /\ ~(leg \in OnTarget /\ muxy)
  /\ leader' = "runs" /\ code' = "none" /\ kids' = {} /\ armed' = TRUE
  /\ todo' \in IF leg \in Watched THEN {0} ELSE 0 .. Lines
  /\ wrote' = 0 /\ shown' = 0
  /\ pc' = IF leg \in Fed THEN "feed" ELSE "wait"
  /\ why' = "none" /\ capture' = Captures /\ staging' = Begun(Cleared)
  /\ UNCHANGED <<taskOnly, leg, verdict, did>>

\* The old staging tree cannot be removed, the program cannot be started.
SpawnFails ==
  /\ pc = "start" /\ ~(leg \in OnTarget /\ muxy) /\ leg # "probe"
  /\ Over(OfEnd("unstarted"))
  /\ staging' \in {staging, Cleared}
  /\ UNCHANGED <<taskOnly, leg, why, childVars, armed, did>>

SeesInterrupt ==
  /\ pc = "start" /\ LooksFirst /\ cancelled
  /\ \/ leg # "install" /\ Over("cancelled")
     \/ leg \in Collected /\ Over("transport")
  /\ UNCHANGED <<taskOnly, leg, why, childVars, armed, did, staging>>

Feed ==
  /\ pc = "feed" /\ leader = "runs" /\ pc' = "wait"
  /\ UNCHANGED <<taskOnly, leg, why, verdict, childVars, armed, capture, did,
                 staging>>

Read ==
  /\ Reading /\ shown < wrote /\ shown' = shown + 1
  /\ UNCHANGED <<childOnly, leader, code, kids, todo, wrote, did, staging>>

\* terminate: SIGTERM to the group, and some of it dies of it.
Terminate(w) ==
  /\ pc' = "stop" /\ why' = w
  /\ leader' \in {leader, "exited"}
  /\ \E dead \in SUBSET (kids \cap InGroup) : kids' = kids \ dead
  /\ UNCHANGED <<taskOnly, leg, verdict, code, todo, wrote, shown, armed, capture,
                 did, staging>>

\* supervised_output drops its guard instead, which kills the group.
DropGuard(w) ==
  /\ leader' = "reaped" /\ kids' = kids \ InGroup /\ armed' = FALSE
  /\ why' = w /\ Over(OfEnd(w))
  /\ UNCHANGED <<taskOnly, leg, code, todo, wrote, shown, did, staging>>

EndChild(w) == IF leg \in Collected THEN DropGuard(w) ELSE Terminate(w)

\* The peer closes its standard input, or is gone.
PeerCloses == pc = "feed" /\ leader = "runs" /\ Terminate("broken")
FeedBreaks == pc = "feed" /\ leader = "exited" /\ Terminate("broken")

\* The deadline covers the payload and the wait; a probe has its own.
Timeout == pc \in {"feed", "wait"} /\ (budget \/ leg = "probe") /\ EndChild("timeout")

CatchCancel == pc \in {"feed", "wait"} /\ cancelled /\ EndChild("cancelled")

\* A slip: the output of a child that was ended is not drained.
EscalateUndrained ==
  /\ pc = "stop"
  /\ leader' = "reaped" /\ kids' = kids \ InGroup /\ armed' = FALSE
  /\ CASE leg = "probe" -> pc' = "report" /\ UNCHANGED <<leg, verdict, capture>>
       [] OTHER -> Conclude(why, code)
  /\ UNCHANGED <<taskOnly, why, code, todo, wrote, shown, did, staging>>

\* The child is gone or its grace is over: SIGKILL to what the group has left.
Escalate ==
  /\ pc = "stop"
  /\ leader' = "reaped" /\ kids' = kids \ InGroup /\ armed' = FALSE
  /\ CASE leg \in Piped -> pc' = "drain" /\ UNCHANGED <<leg, verdict, capture>>
       [] leg = "probe" -> pc' = "report" /\ UNCHANGED <<leg, verdict, capture>>
       [] OTHER -> Conclude(why, code)
  /\ UNCHANGED <<taskOnly, why, code, todo, wrote, shown, did, staging>>

\* A slip: the guard is disarmed before the drain.
ReapDisarmed ==
  /\ pc = "wait" /\ leader = "exited" /\ leader' = "reaped" /\ why' = "done"
  /\ leg \in Collected => Eof
  /\ armed' = FALSE
  /\ CASE leg \in Piped -> pc' = "drain" /\ UNCHANGED <<leg, verdict, capture>>
       [] leg = "probe" -> pc' = "report" /\ UNCHANGED <<leg, verdict, capture>>
       [] OTHER -> Conclude("done", code)
  /\ staging' \in IF leg = "cp" /\ code # "0" THEN {staging, "none"} ELSE {staging}
  /\ UNCHANGED <<taskOnly, code, kids, todo, wrote, shown, did>>

\* The wait sees the end of the child.  A failed `cp` has its half of a tree
\* removed.
Reap ==
  /\ pc = "wait" /\ leader = "exited" /\ leader' = "reaped" /\ why' = "done"
  /\ leg \in Collected => Eof
  /\ armed' = (leg \in Piped)
  /\ CASE leg \in Piped -> pc' = "drain" /\ UNCHANGED <<leg, verdict, capture>>
       [] leg = "probe" -> pc' = "report" /\ UNCHANGED <<leg, verdict, capture>>
       [] OTHER -> Conclude("done", code)
  /\ staging' \in IF leg = "cp" /\ code # "0" THEN {staging, "none"} ELSE {staging}
  /\ UNCHANGED <<taskOnly, code, kids, todo, wrote, shown, did>>

\* The forwarders are through; the guard of a child that ended by itself is
\* disarmed only now.
EndDrain == armed' = FALSE /\ Conclude(why, code)

Drained ==
  /\ pc \in {"drain", "drain2"} /\ Eof /\ EndDrain
  /\ UNCHANGED <<taskOnly, why, childVars, did, staging>>

\* Somebody holds the output beyond DRAIN_GRACE (which is enough for what is
\* in the pipe): the group is killed.
GraceOver ==
  /\ pc = "drain" /\ shown = wrote /\ kids \cap Holders # {}
  /\ pc' = "drain2" /\ kids' = kids \ InGroup
  /\ UNCHANGED <<taskOnly, leg, why, verdict, leader, code, todo, wrote, shown,
                 armed, capture, did, staging>>

\* Out of reach: the readers are shut down.
ShutDown ==
  /\ pc = "drain2" /\ shown = wrote /\ kids \cap Holders # {} /\ EndDrain
  /\ UNCHANGED <<taskOnly, why, childVars, did, staging>>

-----------------------------------------------------------------------------
(* What comes before and after the children.                               *)

probing == <<world, cancelled, exported, why, childVars, armed, capture, did, copyVars>>

\* The environment of the target is known: on to the step proper.  Without
\* rsync a copy goes by scp, and a mirroring one not at all.
Knows(m, r) ==
  /\ muxy' = m /\ rsync' = r
  /\ LET next == CASE job \in {"remote", "check"} -> "ssh"
                   [] job \in Helpers -> job
                   [] OTHER -> IF r THEN "rsync" ELSE "mkdir"
     IN  IF job = "mirror" /\ ~r
         THEN pc' = "over" /\ verdict' = "config" /\ leg' = leg
         ELSE pc' = "start" /\ leg' = next /\ UNCHANGED verdict

\* Another task or step has probed this destination, or a step that muxy will
\* not carry has no question.
Cached ==
  /\ pc = "start" /\ leg = "probe" /\ tries = 0 /\ ~(LooksFirst /\ cancelled)
  /\ \E m, r \in BOOLEAN : Knows(m, r)
  /\ UNCHANGED <<probing, tries>>

ProbeAnswers ==
  /\ pc = "report" /\ why = "done"
  /\ \E m, r \in BOOLEAN : Knows(m, r)
  /\ UNCHANGED <<probing, tries>>

\* No end marker: once more, then with what is assumed of an unknown target.
ProbeFails ==
  /\ pc = "report" \/ (pc = "start" /\ leg = "probe" /\ ~(LooksFirst /\ cancelled))
  /\ tries' = tries + 1
  /\ IF tries' < 2 /\ ~cancelled
     THEN pc' = "start" /\ UNCHANGED <<leg, verdict, muxy, rsync>>
     ELSE Knows(FALSE, FALSE)
  /\ UNCHANGED probing

\* muxy carries the command; what it cannot start, and a syntax check that does
\* not succeed, goes to ssh after all.
Muxy ==
  /\ pc = "start" /\ leg \in OnTarget /\ muxy
  /\ \/ /\ \E c \in IF job = "check" THEN {"0"} ELSE Codes :
             did' = c /\ Over(MuxyVerdict(c))
        /\ muxy' = muxy
     \/ /\ \E v \in {"transport", "timeout", "cancelled"} :
             /\ v = "timeout" => job # "check" /\ budget
             /\ v = "cancelled" => job # "check" /\ cancelled
             /\ Over(v)
        /\ UNCHANGED <<did, muxy>>
     \/ muxy' = FALSE /\ UNCHANGED <<pc, verdict, capture, did>>
  /\ UNCHANGED <<world, leg, why, cancelled, childVars, armed, exported, tries,
                 rsync, copyVars>>

\* capture_exports puts one variable after the other into the run state.
Capture ==
  /\ pc = "capture"
  /\ \E got \in {"all", "some", "none"} :
       exported' = got /\ Over(IF got = "all" THEN "ok" ELSE "script")
  /\ UNCHANGED <<world, leg, why, cancelled, childVars, armed, probeVars, did,
                 copyVars>>

swapping == <<world, leg, why, cancelled, childVars, armed, exported, probeVars,
              did, deploys>>

RemoveOld ==
  /\ pc = "remove"
  /\ \/ /\ dst' = "none" /\ pc' = "rename"
        /\ UNCHANGED <<verdict, capture, staging, hurt>>
     \/ /\ dst' \in {dst, "torn"} /\ hurt' = TRUE /\ Over("script")
        /\ staging' \in {staging, "none"}
  /\ UNCHANGED swapping

RenameNew ==
  /\ pc = "rename"
  /\ \/ /\ dst' = IF staging = "whole" THEN "new" ELSE "mixed"
        /\ staging' = "none" /\ hurt' = hurt /\ Over("ok")
     \/ /\ staging' \in {staging, "none"} /\ hurt' = TRUE /\ Over("script")
        /\ dst' = dst
  /\ UNCHANGED swapping

\* The same copy is deployed again.
Again ==
  /\ pc = "over" /\ job = "delete" /\ deploys < Deploys /\ ~cancelled
  /\ deploys' = deploys + 1 /\ pc' = "start" /\ verdict' = "none"
  /\ dst' = IF dst = "new" THEN "old" ELSE dst
  /\ UNCHANGED <<world, leg, why, cancelled, childVars, armed, capture, exported,
                 probeVars, did, staging, hurt>>

Interrupt ==
  /\ pc # "over" /\ ~cancelled /\ cancelled' = TRUE
  /\ UNCHANGED <<world, leg, pc, why, verdict, childVars, armed, capture, exported,
                 probeVars, did, copyVars>>

\* The grace of the interrupt is over and the executor is aborted: what the
\* task owns is dropped where it stands.  A removal or a renaming that has
\* begun goes on without it.
Abort ==
  /\ pc # "over" /\ cancelled /\ Over("aborted")
  /\ leader' = IF leader = "none" THEN "none" ELSE "reaped"
  /\ kids' = IF armed THEN kids \ InGroup ELSE kids
  /\ armed' = FALSE
  /\ dst' \in CASE pc = "remove" -> {"torn", "none"}
               [] pc = "rename" -> {"none", IF staging = "whole" THEN "new" ELSE "mixed"}
               [] OTHER -> {dst}
  /\ staging' = IF dst' \in {"new", "mixed"} /\ pc = "rename" THEN "none" ELSE staging
  /\ hurt' = (hurt \/ pc \in {"remove", "rename"})
  /\ UNCHANGED <<world, leg, why, cancelled, code, todo, wrote, shown, exported,
                 probeVars, did, deploys>>

Child == Write \/ Exit
Kids == Fork \/ KidWrites \/ KidEnds
Supervise ==
  \/ Read \/ Spawn \/ SeesInterrupt \/ FeedBreaks \/ Timeout \/ CatchCancel
  \/ Escalate \/ Reap \/ Drained \/ GraceOver \/ ShutDown
  \/ Cached \/ ProbeAnswers \/ ProbeFails \/ Muxy \/ Capture \/ RemoveOld \/ RenameNew
Ended == pc = "over" /\ UNCHANGED vars
Next == \/ Child \/ Feed \/ PeerCloses \/ Kids \/ Supervise \/ SpawnFails \/ Again
        \/ Interrupt \/ Abort \/ Ended

Spec == Init /\ [][Next]_vars

\* A child that does not hang reads its payload, writes and exits; the task is
\* polled whenever it can go on, and timers fire.  Nothing is asked of
\* descendants, of the operator or of the executor.
FairSpec ==
  /\ Spec
  /\ WF_vars(~hang /\ (Child \/ Feed)) /\ WF_vars(Read) /\ WF_vars(Timeout)
  /\ WF_vars(CatchCancel) /\ WF_vars(Reap) /\ WF_vars(Escalate)
  /\ WF_vars(Supervise)

-----------------------------------------------------------------------------
(* Properties.                                                             *)

Settled == pc \in {"start", "capture", "remove", "rename", "over"}

\* "No orphans" (process.rs GroupGuard): once a step is over nothing of a
\* child's group is alive if the child was ended or the task dropped; of one
\* that ended by itself only what let go of the output.  The file with the
\* captured values is gone.
NothingLeft ==
  /\ Settled => leader \notin {"runs", "exited"} /\ "inpipe" \notin kids
  /\ pc = "over" => ~capture /\ (why # "done" => kids \cap InGroup = {})

\* "Buffered lines already in the pipe belong in the UI and the audit log even
\* though the child is gone" (stream.rs): a step that reports has shown every
\* line that was written, however its child ended.
LinesShown == Settled /\ leg \in Piped /\ verdict # "aborted" => shown = wrote

\* A local copy with --delete replaces one whole tree by another; whatever
\* fails or is interrupted before the old tree is removed leaves it, and
\* leftovers of an earlier copy never get into the new one (copy.rs
\* run_local_copy_delete).  From the removal on the old tree is at risk.
TreeIsWhole ==
  /\ dst # "mixed"
  /\ dst \in {"old", "new"} \/ pc = "rename" \/ hurt
  /\ pc = "over" /\ verdict # "ok" /\ ~hurt => dst = "old"

\* A step with a budget, an interrupted one, and one whose command ends by
\* itself gets its verdict, whatever is written and whoever holds the output.
\* A collected child is waited for until its output is closed.
Obliged == budget \/ cancelled \/ (~hang /\ leg \notin Collected)
StepEnds == Obliged ~> (pc = "over")
=============================================================================
