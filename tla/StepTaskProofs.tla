--------------------------- MODULE StepTaskProofs ---------------------------
(***************************************************************************)
(* Proofs about the task of one step, for every number of lines and of     *)
(* descendants, every size of the pipe and any number of deploys: no step  *)
(* leaves its child, what held its output in its group, or its captured    *)
(* values behind; what a reported step wrote was shown; and a local copy   *)
(* never mixes two trees.                                                  *)
(***************************************************************************)
EXTENDS StepTask, TLAPS

\* Where no child is being waited for.
Quiet == Settled \/ pc \in {"drain", "drain2", "report"}

\* Which child may be at which place.
Phases ==
  /\ Quiet \/ pc \in {"feed", "wait", "stop"}
  /\ leg \in Piped \union Watched \union Collected
  /\ pc = "feed" => leg \in Fed
  /\ pc \in {"drain", "drain2"} => leg \in Piped
  /\ pc = "report" => leg = "probe"
  /\ pc = "stop" => why \in {"timeout", "cancelled", "broken"}
  /\ pc \in {"drain", "drain2"} => why \in {"done", "timeout", "cancelled", "broken"}
  /\ job = "delete" => leg = "cp"
  /\ capture => leg = "body" /\ pc # "over"
  /\ verdict = "aborted" => pc = "over"

Reaped == Quiet => leader \notin {"runs", "exited"}

\* The group is empty, or its guard is armed, or the child ended by itself and
\* only what let go of its output is left.
Grouped ==
  /\ leg \in Watched => kids = {} /\ todo = 0 /\ shown = wrote
  /\ pc \in {"feed", "wait", "stop"} => armed
  /\ Quiet /\ ~armed => "inpipe" \notin kids /\ (why # "done" => kids \cap InGroup = {})
  /\ Settled \/ pc = "report" => ~armed
  /\ pc \in {"drain", "drain2"} /\ armed => why = "done"
  /\ pc = "drain2" => kids \cap InGroup = {}

\* The staging tree from the start of the copy to the swap.
Tree ==
  /\ dst \in {"old", "new", "none", "torn"}
  /\ ~hurt => \/ dst = "old"
              \/ dst = "new" /\ pc = "over" /\ verdict = "ok"
              \/ dst = "none" /\ pc = "rename"
  /\ pc \in {"remove", "rename"} => staging = "whole"
  /\ leg = "cp" /\ pc = "wait" =>
       staging \in {"part", "whole"} /\ (code = "0" => staging = "whole")

StepInv == Phases /\ Reaped /\ Grouped /\ LinesShown /\ Tree

-----------------------------------------------------------------------------
\* Where the end of a child leads.
LEMMA Concluded ==
  ASSUME NEW c, NEW w \in {"done", "timeout", "cancelled", "broken"}, Conclude(w, c)
  PROVE  \/ pc' = "over" /\ capture' = FALSE /\ leg' = leg
         \/ /\ pc' = "start" /\ UNCHANGED capture /\ w = "done"
            /\ \/ leg = "guard" /\ leg' = "body"
               \/ leg = "send" /\ leg' = "install"
               \/ leg = "mkdir" /\ leg' = "scp"
         \/ pc' = "capture" /\ leg = "body" /\ UNCHANGED <<leg, capture>> /\ w = "done"
         \/ /\ pc' = "remove" /\ leg = "cp" /\ UNCHANGED <<leg, capture>>
            /\ w = "done" /\ c = "0"
<1>1. CASE w # "done"
  <2>1. OfEnd(w) # "next"
    BY <1>1 DEF OfEnd, OnTargetEnd
  <2> QED BY <1>1, <2>1 DEF Conclude, Over
<1>2. CASE w = "done"
  <2>1. OfCode(c) = "next" /\ leg = "cp" => c = "0"
    BY DEF OfCode, Helpers
  <2>2. /\ leg = "guard" => After = "body"
        /\ leg = "send" => After = "install"
        /\ leg = "mkdir" => After = "scp"
        /\ leg \notin {"guard", "send", "mkdir"} => After = "none"
    BY DEF After
  <2>3. CASE OfCode(c) # "next"
    BY <1>2, <2>3 DEF Conclude, Over
  <2>4. CASE OfCode(c) = "next"
    <3>1. \/ After # "none" /\ leg' = After /\ pc' = "start" /\ UNCHANGED <<verdict, capture>>
          \/ leg = "body" /\ pc' = "capture" /\ UNCHANGED <<leg, verdict, capture>>
          \/ leg = "cp" /\ pc' = "remove" /\ UNCHANGED <<leg, verdict, capture>>
          \/ Over("ok") /\ leg' = leg
      BY <1>2, <2>2, <2>4 DEF Conclude
    <3> QED BY <1>2, <2>1, <2>2, <2>4, <3>1 DEF Over
  <2> QED BY <2>3, <2>4
<1> QED BY <1>1, <1>2

-----------------------------------------------------------------------------
(* Each action keeps the invariant.                                        *)

\* The child and its descendants move between two steps of the task.
LEMMA ChildStep ==
  ASSUME StepInv, Child \/ Kids \/ Read PROVE StepInv'
<1> USE DEF StepInv, Settled, Quiet, childOnly, world, probeVars
<1>1. CASE Write
  BY <1>1 DEF Write, Phases, Reaped, Grouped, LinesShown, Tree, Watched
<1>2. CASE Exit
  <2>1. /\ UNCHANGED <<job, leg, pc, why, verdict, armed, capture, dst, hurt>>
        /\ UNCHANGED <<kids, todo, wrote, shown>>
        /\ leader = "runs" /\ leader' = "exited"
        /\ staging' = staging \/ staging' = "whole"
        /\ code' = "0" /\ staging = "part" => staging' = "whole"
    BY <1>2 DEF Exit
  <2>2. ~Quiet
    BY <2>1 DEF Reaped
  <2> QED BY <2>1, <2>2 DEF Phases, Reaped, Grouped, LinesShown, Tree
<1>3. CASE Fork
  <2>1. ~Quiet /\ leg \notin Watched
    BY <1>3 DEF Fork, Reaped
  <2> QED BY <1>3, <2>1 DEF Fork, Phases, Reaped, Grouped, LinesShown, Tree
<1>4. CASE KidWrites
  <2>1. leg \notin Watched /\ (leg \in Piped => ~Settled)
    BY <1>4 DEF KidWrites, Grouped, Reading, Supervised, Piped, Collected
  <2> QED BY <1>4, <2>1 DEF KidWrites, Phases, Reaped, Grouped, LinesShown, Tree
<1>5. CASE KidEnds
  <2>1. /\ UNCHANGED <<job, leg, pc, why, verdict, armed, capture, dst, hurt>>
        /\ UNCHANGED <<leader, code, todo, wrote, shown, staging>>
        /\ kids' \subseteq kids
    BY <1>5 DEF KidEnds
  <2> QED BY <2>1 DEF Phases, Reaped, Grouped, LinesShown, Tree
<1>6. CASE Read
  <2>1. leg \notin Watched /\ ~Settled
    BY <1>6 DEF Read, Reading, Supervised, Piped, Collected, Watched
  <2> QED BY <1>6, <2>1 DEF Read, Phases, Reaped, Grouped, LinesShown, Tree
<1> QED BY <1>1, <1>2, <1>3, <1>4, <1>5, <1>6 DEF Child, Kids

\* A child is started, fed and ended.
LEMMA StartStep ==
  ASSUME StepInv, Spawn \/ SpawnFails \/ SeesInterrupt \/ Feed PROVE StepInv'
<1> USE DEF StepInv, Settled, Quiet, taskOnly, world, probeVars
<1>1. CASE Spawn
  <2>1. staging' = Begun(Cleared)
    BY <1>1 DEF Spawn
  <2>2. leg = "cp" => staging' = "part"
    BY <2>1 DEF Begun, Cleared
  <2>3. /\ UNCHANGED <<job, leg, verdict, dst, hurt>>
        /\ kids' = {} /\ armed' = TRUE /\ wrote' = 0 /\ shown' = 0
        /\ leg \in Watched => todo' = 0
        /\ pc' = "wait" \/ (pc' = "feed" /\ leg \in Fed)
        /\ pc = "start" /\ code' = "none" /\ capture' = (leg = "body")
    BY <1>1 DEF Spawn, Captures
  <2>4. Phases' /\ Reaped' /\ Grouped' /\ LinesShown'
    BY <2>3 DEF Phases, Reaped, Grouped, LinesShown
  <2>5. Tree'
    BY <2>2, <2>3 DEF Tree, Fed
  <2> QED BY <2>4, <2>5
<1>2. CASE SpawnFails \/ SeesInterrupt
  <2>1. /\ pc = "start" /\ pc' = "over" /\ capture' = FALSE
        /\ UNCHANGED <<job, leg, why, leader, code, kids, todo, wrote, shown, armed, dst, hurt>>
    BY <1>2 DEF SpawnFails, SeesInterrupt, Over, childVars
  <2>2. shown = wrote \/ leg \notin Piped
    BY <2>1 DEF LinesShown, Phases
  <2> QED BY <2>1, <2>2 DEF Phases, Reaped, Grouped, LinesShown, Tree
<1>3. CASE Feed
  BY <1>3 DEF Feed, childVars, Phases, Reaped, Grouped, LinesShown, Tree, Fed
<1> QED BY <1>1, <1>2, <1>3

\* The group of the child is ended: asked to, or killed with the guard.
LEMMA EndStep ==
  ASSUME StepInv, PeerCloses \/ FeedBreaks \/ Timeout \/ CatchCancel
  PROVE  StepInv'
<1> USE DEF StepInv, Settled, Quiet, taskOnly, world, probeVars
<1>1. PICK w \in {"timeout", "cancelled", "broken"} :
        /\ Terminate(w) \/ (DropGuard(w) /\ leg \in Collected)
        /\ pc \in {"feed", "wait"}
  BY DEF PeerCloses, FeedBreaks, Timeout, CatchCancel, EndChild
<1>2. CASE Terminate(w)
  <2>1. /\ UNCHANGED <<job, leg, verdict, code, todo, wrote, shown, armed, capture>>
        /\ UNCHANGED <<dst, hurt, staging>>
        /\ pc' = "stop" /\ why' = w /\ kids' \subseteq kids
    BY <1>2 DEF Terminate
  <2> QED BY <1>1, <2>1 DEF Phases, Reaped, Grouped, LinesShown, Tree
<1>3. CASE DropGuard(w) /\ leg \in Collected
  <2>1. /\ UNCHANGED <<job, leg, dst, hurt, staging, todo, wrote, shown>>
        /\ pc' = "over" /\ capture' = FALSE /\ leader' = "reaped"
        /\ kids' = kids \ InGroup /\ armed' = FALSE
    BY <1>3 DEF DropGuard, Over
  <2>2. leg \notin Piped /\ leg \notin Watched /\ leg # "cp"
    BY <1>3 DEF Collected, Piped, Watched
  <2>3. "inpipe" \notin kids' /\ kids' \cap InGroup = {}
    BY <2>1 DEF InGroup
  <2> QED BY <1>1, <2>1, <2>2, <2>3 DEF Phases, Reaped, Grouped, LinesShown, Tree
<1> QED BY <1>1, <1>2, <1>3

\* The child has ended; the wait, the escalation or the drain sees it.
LEMMA ReapStep ==
  ASSUME StepInv, Escalate \/ Reap \/ Drained \/ GraceOver \/ ShutDown
  PROVE  StepInv'
<1> USE DEF StepInv, Settled, Quiet, taskOnly, world, probeVars
<1>1. CASE Escalate
  <2>1. /\ UNCHANGED <<job, why, code, todo, wrote, shown, dst, hurt, staging>>
        /\ pc = "stop" /\ leader' = "reaped" /\ armed' = FALSE
        /\ kids' = kids \ InGroup
        /\ why \in {"timeout", "cancelled", "broken"}
    BY <1>1 DEF Escalate, Phases
  <2>2. \/ leg \in Piped /\ pc' = "drain" /\ UNCHANGED <<leg, verdict, capture>>
        \/ leg = "probe" /\ pc' = "report" /\ UNCHANGED <<leg, verdict, capture>>
        \/ leg \notin Piped /\ pc' = "over" /\ capture' = FALSE /\ leg' = leg
    <3>1. "probe" \notin Piped
      BY DEF Piped
    <3> QED BY <1>1, <2>1, <3>1, Concluded DEF Escalate
  <2>3. "inpipe" \notin kids' /\ kids' \cap InGroup = {}
    BY <2>1 DEF InGroup
  <2> QED BY <2>1, <2>2, <2>3 DEF Phases, Reaped, Grouped, LinesShown, Tree
<1>2. CASE Reap
  <2>1. /\ UNCHANGED <<job, code, kids, todo, wrote, shown, dst, hurt>>
        /\ pc = "wait" /\ leader' = "reaped" /\ why' = "done"
        /\ armed' = (leg \in Piped)
        /\ leg \in Collected => Eof
        /\ leg # "cp" \/ code = "0" => staging' = staging
    BY <1>2 DEF Reap
  <2>2. \/ leg \in Piped /\ pc' = "drain" /\ UNCHANGED <<leg, verdict, capture>>
        \/ leg = "probe" /\ pc' = "report" /\ UNCHANGED <<leg, verdict, capture>>
        \/ leg \notin Piped \union {"probe"} /\ Conclude("done", code)
    BY <1>2 DEF Reap, Piped
  <2>3. leg \notin Piped => "inpipe" \notin kids
    BY <2>1 DEF Eof, Holders, Phases, Grouped
  <2>4. CASE leg \in Piped \union {"probe"}
    <3>1. \/ leg \in Piped /\ leg \notin Watched /\ pc' = "drain" /\ armed'
          \/ leg = "probe" /\ leg \in Watched /\ leg \notin Piped /\ pc' = "report" /\ ~armed'
      BY <2>1, <2>2, <2>4 DEF Piped, Watched
    <3>2. UNCHANGED <<leg, verdict, capture>>
      BY <2>2, <2>4
    <3>3. Phases' /\ Reaped'
      BY <2>1, <3>1, <3>2 DEF Phases, Reaped
    <3>4. Grouped' /\ LinesShown'
      BY <2>1, <3>1, <3>2 DEF Grouped, LinesShown
    <3>5. Tree'
      BY <2>1, <3>1, <3>2 DEF Tree
    <3> QED BY <3>3, <3>4, <3>5
  <2>5. CASE leg \notin Piped \union {"probe"}
    <3>1. /\ leg \notin {"guard", "body"}
          /\ \/ pc' = "over" /\ capture' = FALSE /\ leg' = leg
             \/ pc' = "start" /\ UNCHANGED capture /\ leg = "send" /\ leg' = "install"
             \/ pc' = "start" /\ UNCHANGED capture /\ leg = "mkdir" /\ leg' = "scp"
             \/ /\ pc' = "remove" /\ leg = "cp" /\ UNCHANGED <<leg, capture>>
                /\ code = "0"
      BY <2>2, <2>5, Concluded DEF Piped
    <3>2. ~capture
      BY <3>1 DEF Phases
    <3>3. verdict # "aborted"
      BY <2>1 DEF Phases
    <3>4. UNCHANGED verdict \/ pc' = "over"
      BY <2>2, <2>5, <3>1 DEF Conclude, Over
    <3>5. leg' \in Piped \union Watched \union Collected /\ (job = "delete" => leg' = "cp")
      BY <3>1 DEF Phases, Piped, Collected
    <3>6. Phases' /\ Reaped'
      BY <2>1, <3>1, <3>2, <3>3, <3>4, <3>5 DEF Phases, Reaped
    <3>7. Grouped' /\ LinesShown'
      BY <2>1, <2>3, <2>5, <3>1 DEF Grouped, LinesShown, Watched, Piped
    <3>8. Tree'
      BY <2>1, <3>1 DEF Tree
    <3> QED BY <3>6, <3>7, <3>8
  <2> QED BY <2>4, <2>5
<1>3. CASE Drained \/ ShutDown
  <2>1. /\ UNCHANGED <<job, why, leader, code, kids, todo, wrote, shown, dst, hurt, staging>>
        /\ pc \in {"drain", "drain2"} /\ armed' = FALSE /\ Conclude(why, code)
        /\ shown = wrote
        /\ kids \cap Holders = {} \/ pc = "drain2"
    BY <1>3 DEF Drained, ShutDown, EndDrain, Eof, childVars
  <2>2. /\ leg \in Piped /\ leg \notin Watched /\ leg # "cp" /\ leg \notin {"send", "mkdir"}
        /\ why \in {"done", "timeout", "cancelled", "broken"}
        /\ verdict # "aborted"
    BY <2>1 DEF Phases, Piped, Watched
  <2>3. "inpipe" \notin kids /\ (why # "done" => kids \cap InGroup = {})
    <3>1. CASE pc = "drain2"
      BY <3>1 DEF Grouped, InGroup
    <3>2. CASE kids \cap Holders = {}
      <4>1. why # "done" => kids \cap InGroup = {}
        BY <2>1 DEF Grouped
      <4> QED BY <3>2, <4>1 DEF Holders
    <3> QED BY <2>1, <3>1, <3>2
  <2>4. \/ pc' = "over" /\ capture' = FALSE /\ leg' = leg
        \/ pc' = "start" /\ UNCHANGED capture /\ leg = "guard" /\ leg' = "body"
        \/ pc' = "capture" /\ leg = "body" /\ UNCHANGED <<leg, capture>>
    BY <2>1, <2>2, Concluded
  <2>5. UNCHANGED verdict \/ pc' = "over"
    BY <2>1, <2>2, <2>4 DEF Conclude, Over
  <2>6. leg' \in Piped \union Watched \union Collected /\ leg' \notin Watched
        /\ (job = "delete" => leg' = "cp")
    BY <2>1, <2>2, <2>4 DEF Phases, Piped, Watched
  <2>7. Phases' /\ Reaped'
    BY <2>1, <2>2, <2>4, <2>5, <2>6 DEF Phases, Reaped
  <2>8. Grouped' /\ LinesShown'
    BY <2>1, <2>3, <2>4, <2>6 DEF Grouped, LinesShown
  <2>9. Tree'
    BY <2>1, <2>2, <2>4 DEF Tree, Phases
  <2> QED BY <2>7, <2>8, <2>9
<1>4. CASE GraceOver
  <2>1. /\ UNCHANGED <<job, leg, why, verdict, leader, code, todo, wrote, shown, armed>>
        /\ UNCHANGED <<capture, dst, hurt, staging>>
        /\ pc = "drain" /\ pc' = "drain2" /\ kids' = kids \ InGroup
    BY <1>4 DEF GraceOver
  <2>2. "inpipe" \notin kids' /\ kids' \cap InGroup = {}
    BY <2>1 DEF InGroup
  <2> QED BY <2>1, <2>2 DEF Phases, Reaped, Grouped, LinesShown, Tree
<1> QED BY <1>1, <1>2, <1>3, <1>4

\* What comes before and after the children.
LEMMA ProbeStep ==
  ASSUME StepInv, Cached \/ ProbeAnswers \/ ProbeFails \/ Muxy \/ Capture
  PROVE  StepInv'
<1> USE DEF StepInv, Settled, Quiet, world
<1>1. CASE Cached \/ ProbeAnswers \/ ProbeFails
  <2>1. /\ UNCHANGED <<job, why, leader, code, kids, todo, wrote, shown, armed, capture>>
        /\ UNCHANGED <<dst, hurt, staging>>
        /\ pc = "report" \/ (pc = "start" /\ leg = "probe")
        /\ \/ \E m, r : Knows(m, r)
           \/ pc' = "start" /\ UNCHANGED <<leg, verdict>>
    BY <1>1 DEF Cached, ProbeAnswers, ProbeFails, probing, childVars, copyVars
  <2>2. /\ leg = "probe" /\ leg \in Watched /\ job # "delete" /\ verdict # "aborted"
    BY <2>1 DEF Phases, Watched
  <2>3. /\ leg' \in {"probe", "ssh", "rsync", "mkdir"} \union Helpers
        /\ \/ pc' = "over" /\ leg' = leg /\ verdict' = "config"
           \/ pc' = "start" /\ UNCHANGED verdict
    <3>1. CASE \E m, r : Knows(m, r)
      BY <2>2, <3>1 DEF Knows
    <3> QED BY <2>1, <2>2, <3>1
  <2>4. kids = {} /\ todo = 0 /\ shown = wrote /\ ~capture /\ ~armed
    BY <2>1, <2>2 DEF Grouped, Phases
  <2>5. leg' \in Piped \union Watched \union Collected
    BY <2>3 DEF Helpers, Piped, Watched
  <2>6. Phases' /\ Reaped'
    BY <2>1, <2>2, <2>3, <2>4, <2>5 DEF Phases, Reaped
  <2>7. Grouped' /\ LinesShown'
    BY <2>1, <2>3, <2>4 DEF Grouped, LinesShown
  <2>8. Tree'
    BY <2>1, <2>2, <2>3 DEF Tree
  <2> QED BY <2>6, <2>7, <2>8
<1>2. CASE Muxy \/ Capture
  <2>1. /\ UNCHANGED <<job, leg, why, leader, code, kids, todo, wrote, shown, armed>>
        /\ UNCHANGED <<dst, hurt, staging>> /\ pc \in {"start", "capture"}
        /\ \/ pc' = "over" /\ capture' = FALSE
           \/ UNCHANGED <<pc, verdict, capture>>
    BY <1>2 DEF Muxy, Capture, Over, childVars, copyVars
  <2>2. verdict # "aborted"
    BY <2>1 DEF Phases
  <2> QED BY <2>1, <2>2 DEF Phases, Reaped, Grouped, LinesShown, Tree
<1> QED BY <1>1, <1>2

\* The swap of the two trees, and the next copy.
LEMMA CopyStep ==
  ASSUME StepInv, RemoveOld \/ RenameNew \/ Again PROVE StepInv'
<1> USE DEF StepInv, Settled, Quiet, world
<1>1. /\ UNCHANGED <<job, leg, why, leader, code, kids, todo, wrote, shown, armed>>
      /\ pc \in {"remove", "rename", "over"} /\ pc' \in {"start", "rename", "over"}
      /\ pc = "over" => job = "delete" /\ pc' = "start" /\ verdict' = "none"
      /\ pc # "over" => pc' = "over" \/ UNCHANGED verdict
      /\ pc' = "over" => capture' = FALSE
      /\ pc' # "over" => UNCHANGED capture
  BY DEF RemoveOld, RenameNew, Again, swapping, childVars, probeVars, Over
<1>2. Phases'
  BY <1>1 DEF Phases
<1>3. Reaped' /\ Grouped'
  BY <1>1 DEF Reaped, Grouped
<1>4. LinesShown'
  <2>1. pc = "over" => leg \notin Piped
    BY <1>1 DEF Phases, Piped
  <2>2. pc # "over" => verdict # "aborted"
    BY DEF Phases
  <2> QED BY <1>1, <2>1, <2>2 DEF LinesShown
<1>5. CASE RemoveOld
  BY <1>1, <1>2, <1>3, <1>4, <1>5 DEF RemoveOld, Tree, Over
<1>6. CASE RenameNew
  BY <1>1, <1>2, <1>3, <1>4, <1>6 DEF RenameNew, Tree, Over
<1>7. CASE Again
  <2>1. Tree'
    BY <1>7 DEF Again, Tree
  <2> QED BY <1>2, <1>3, <1>4, <2>1
<1> QED BY <1>5, <1>6, <1>7

\* The task is dropped where it stands.
LEMMA DropStep ==
  ASSUME StepInv, Interrupt \/ Abort \/ Ended \/ UNCHANGED vars PROVE StepInv'
<1> USE DEF StepInv, Settled, Quiet, world
<1>1. CASE Interrupt \/ Ended \/ UNCHANGED vars
  <2>1. /\ UNCHANGED <<job, leg, pc, why, verdict, leader, code, kids, todo, wrote, shown>>
        /\ UNCHANGED <<armed, capture, dst, hurt, staging>>
    BY <1>1 DEF Interrupt, Ended, vars, childVars, copyVars
  <2> QED BY <2>1 DEF Phases, Reaped, Grouped, LinesShown, Tree
<1>2. CASE Abort
  <2>1. /\ UNCHANGED <<job, leg, why, code, todo, wrote, shown>>
        /\ pc # "over" /\ pc' = "over" /\ capture' = FALSE /\ verdict' = "aborted"
        /\ leader' \notin {"runs", "exited"} /\ armed' = FALSE
        /\ kids' = IF armed THEN kids \ InGroup ELSE kids
        /\ hurt' = (hurt \/ pc \in {"remove", "rename"})
    BY <1>2 DEF Abort, Over
  <2>2. "inpipe" \notin kids' /\ (why # "done" => kids' \cap InGroup = {})
    <3>1. CASE armed
      BY <2>1, <3>1 DEF InGroup
    <3>2. CASE ~armed /\ Quiet
      BY <2>1, <3>2 DEF Grouped
    <3>3. CASE ~armed /\ ~Quiet
      BY <2>1, <3>3 DEF Grouped, Phases
    <3> QED BY <3>1, <3>2, <3>3
  <2>3. dst' \in {"torn", "none", "new", dst}
        /\ (pc \notin {"remove", "rename"} => dst' = dst)
    BY <1>2 DEF Abort, Tree
  <2>4. Tree'
    BY <2>1, <2>3 DEF Tree
  <2> QED BY <2>1, <2>2, <2>4 DEF Phases, Reaped, Grouped, LinesShown
<1> QED BY <1>1, <1>2

-----------------------------------------------------------------------------
LEMMA StepInit == Init => StepInv
<1> SUFFICES ASSUME Init PROVE StepInv
  OBVIOUS
<1>1. leg \in Piped \union Watched \union Collected /\ (job = "delete" => leg = "cp")
  BY JobsAreSteps DEF Init, First, Piped, Watched, Collected
<1> QED BY <1>1 DEF Init, StepInv, Phases, Reaped, Grouped, LinesShown, Tree, Quiet, Settled

LEMMA StepKept == StepInv /\ [Next]_vars => StepInv'
  BY ChildStep, StartStep, EndStep, ReapStep, ProbeStep, CopyStep, DropStep
     DEF Next, Supervise, Child

LEMMA StepAlways == Spec => []StepInv
  BY StepInit, StepKept, PTL DEF Spec

\* No step leaves a child, a process that holds its output, or the file with
\* its captured values: not at a timeout, an interrupt or when it is dropped.
THEOREM NothingLeftCorrect == Spec => []NothingLeft
<1>1. StepInv => NothingLeft
  BY DEF StepInv, Phases, Reaped, Grouped, Quiet, Settled, NothingLeft
<1> QED BY <1>1, StepAlways, PTL

\* Whatever ended the child of a reported step, its lines were shown.
THEOREM LinesShownCorrect == Spec => []LinesShown
<1>1. StepInv => LinesShown
  BY DEF StepInv
<1> QED BY <1>1, StepAlways, PTL

\* A local copy with --delete has the old tree or the new one, never both.
THEOREM TreeCorrect == Spec => []TreeIsWhole
<1>1. StepInv => TreeIsWhole
  BY DEF StepInv, Tree, TreeIsWhole
<1> QED BY <1>1, StepAlways, PTL
=============================================================================
