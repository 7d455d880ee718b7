-------------------------- MODULE HostFilesProofs --------------------------
(***************************************************************************)
(* Proofs about the file verbs of a target with one deployer, for every    *)
(* list of paths, every directory they are saved to, every retention, 0    *)
(* and none included, every right of the caller and any number of verbs    *)
(* that fail, break off or are killed: the destination is always a whole   *)
(* file, and a snapshot that was reported is sealed, and complete unless   *)
(* its own retention counts it out.  Two deployers share the staging name  *)
(* and break the first.                                                    *)
(***************************************************************************)
EXTENDS HostFiles, FiniteSetTheorems, TLAPS

\* Nothing in the code keeps two runs of one service apart.
OneDeployer == \A d, e \in Deployers : d = e

-----------------------------------------------------------------------------
(* Types.                                                                  *)

\* The path at hand while one is saved.
Position == \A d \in Deployers :
  /\ pc[d] \in {"seal", "copy"} => next[d] \in DOMAIN Paths
  /\ pc[d] = "mkdir" => next[d] = 1
TypeInv == TypeOK /\ Position

LEMMA HostInit == Init => TypeInv
  BY HostAssumption DEF Init, TypeInv, TypeOK, Position, Places, Errors, NoFile,
     OldFile, Files, Stamps, Elsewhere, Dirs, NoSnap, DigestVerb, Entries

\* Ending a verb, or taking it elsewhere.
LEMMA EndsType ==
  ASSUME TypeInv, NEW d \in Deployers, NEW code \in {"none", "ok", "usage", "failed"},
         Ends(d, code)
  PROVE  /\ pc' \in [Deployers -> Places]
         /\ result' \in [Deployers -> {"none", "ok", "usage", "failed"}]
         /\ \A e \in Deployers : pc'[e] = IF e = d THEN "over" ELSE pc[e]
         /\ \A e \in Deployers : result'[e] = IF e = d THEN code ELSE result[e]
  BY DEF Ends, TypeInv, TypeOK, Places

LEMMA GoesType ==
  ASSUME TypeInv, NEW d \in Deployers, NEW to \in Places, Goes(d, to)
  PROVE  /\ pc' \in [Deployers -> Places] /\ result' = result
         /\ \A e \in Deployers : pc'[e] = IF e = d THEN to ELSE pc[e]
  BY DEF Goes, TypeInv, TypeOK
\* The places of a verb, spelled out.
LEMMA PlacesListed ==
  /\ Places = {"over", "clear", "guards", "parent", "read", "open", "write", "chmod",
               "chown", "rename", "digest", "mkdir", "seal", "copy", "check",
               "list", "prune"}
  /\ DOMAIN Errors = Places \ {"over", "clear"}
  /\ \A p \in DOMAIN Errors : Errors[p] \subseteq {"usage", "failed"}
  BY DEF Places, Errors

\* A verb starts.
LEMMA StartType ==
  ASSUME TypeInv, NEW d \in Deployers, NEW at \in Places,
         NEW v \in {InstallVerb, DigestVerb} \union BackupVerbs, Start(d, v, at)
  PROVE  /\ pc' \in [Deployers -> Places]
         /\ \A e \in Deployers : pc'[e] = IF e = d THEN at ELSE pc[e]
         /\ result' \in [Deployers -> {"none", "ok", "usage", "failed"}]
         /\ verb' \in [Deployers -> {InstallVerb, DigestVerb} \union BackupVerbs]
         /\ verbs' \in 0..MaxVerbs
         /\ UNCHANGED <<caller, tmp, dst>>
<1> DEFINE V == {InstallVerb, DigestVerb} \union BackupVerbs
<1>1. verb \in [Deployers -> V] /\ v \in V
  BY DEF TypeInv, TypeOK
<1> HIDE DEF V
<1>2. verb' \in [Deployers -> V]
  BY <1>1 DEF Start
<1>3. verbs' \in 0..MaxVerbs
  BY HostAssumption DEF Start, TypeInv, TypeOK
<1>4. /\ pc' \in [Deployers -> Places]
      /\ \A e \in Deployers : pc'[e] = IF e = d THEN at ELSE pc[e]
      /\ result' \in [Deployers -> {"none", "ok", "usage", "failed"}]
  BY DEF Start, TypeInv, TypeOK
<1> QED BY <1>2, <1>3, <1>4 DEF Start, V, fileVars

LEMMA InstallTypes ==
  ASSUME TypeInv, NEW d \in Deployers, Install(d) PROVE TypeInv'
<1> USE PlacesListed DEF TypeInv, Position
<1>1. CASE InstallStart(d)
  BY <1>1, StartType DEF InstallStart, TypeOK, snapVars
<1>2. CASE InstallGuards(d) \/ MakeParent(d) \/ ReadSource(d)
  BY <1>2, GoesType DEF InstallGuards, MakeParent, ReadSource, TypeOK, fileVars,
     snapVars, restVars
<1>3. CASE ClearTmp(d)
  <2>1. tmp' \in Files
    BY <1>3 DEF ClearTmp, TypeOK, Files, NoFile
  <2> QED BY <1>3, <2>1, GoesType DEF ClearTmp, TypeOK, snapVars, restVars
<1>4. CASE OpenTmp(d)
  <2>1. tmp' \in Files
    BY <1>4 DEF OpenTmp, Fresh, Files
  <2> QED BY <1>4, <2>1, GoesType DEF OpenTmp, TypeOK, snapVars, restVars
<1>5. CASE WriteTmp(d) \/ ChmodTmp(d) \/ ChownTmp(d)
  <2>1. tmp' \in Files
    BY <1>5 DEF WriteTmp, ChmodTmp, ChownTmp, TypeOK, Files
  <2>2. \E to \in {"chmod", "chown", "rename"} : Goes(d, to)
    BY <1>5 DEF WriteTmp, ChmodTmp, ChownTmp
  <2> QED BY <1>5, <2>1, <2>2, GoesType
          DEF WriteTmp, ChmodTmp, ChownTmp, TypeOK, snapVars, restVars
<1>6. CASE RenameTmp(d)
  <2>1. tmp' \in Files /\ dst' \in Files
    BY <1>6 DEF RenameTmp, TypeOK, Files, NoFile
  <2> QED BY <1>6, <2>1, EndsType DEF RenameTmp, TypeOK, snapVars, restVars
<1> QED BY <1>1, <1>2, <1>3, <1>4, <1>5, <1>6 DEF Install

\* The next path, or the check.
LEMMA NextPlaceType ==
  ASSUME TypeInv, NEW d \in Deployers, NEW i \in 1..(Len(Paths) + 1)
  PROVE  /\ NextPlace(d, i) \in Places
         /\ NextPlace(d, i) \in {"seal", "copy"} => i \in DOMAIN Paths
         /\ NextPlace(d, i) \in {"seal", "copy", "check"}
  BY HostAssumption, PlacesListed DEF NextPlace

LEMMA AdvanceType ==
  ASSUME TypeInv, NEW d \in Deployers, pc[d] \in {"seal", "copy"}, Advance(d)
  PROVE  /\ pc' \in [Deployers -> Places] /\ result' = result
         /\ next' \in [Deployers -> 1..(Len(Paths) + 1)]
         /\ next'[d] = next[d] + 1
         /\ \A e \in Deployers : e # d => next'[e] = next[e] /\ pc'[e] = pc[e]
         /\ pc'[d] = NextPlace(d, next[d] + 1)
         /\ pc'[d] \in {"seal", "copy"} => next'[d] \in DOMAIN Paths
         /\ pc'[d] \in {"seal", "copy", "check"}
<1>1. next[d] \in DOMAIN Paths /\ DOMAIN Paths = 1..Len(Paths) /\ Len(Paths) \in Nat
  BY HostAssumption DEF TypeInv, Position
<1>2. next[d] + 1 \in 1..(Len(Paths) + 1)
  BY <1>1
<1>3. next' \in [Deployers -> 1..(Len(Paths) + 1)] /\ next'[d] = next[d] + 1
      /\ \A e \in Deployers : e # d => next'[e] = next[e]
  BY <1>2 DEF Advance, TypeInv, TypeOK
<1>4. Goes(d, NextPlace(d, next[d] + 1))
  BY DEF Advance
<1> QED BY <1>2, <1>3, <1>4, NextPlaceType, GoesType

LEMMA EntryType ==
  ASSUME TypeInv, NEW d \in Deployers, pc[d] \in {"seal", "copy"}, NEW w \in BOOLEAN
  PROVE  [of |-> next[d], form |-> FormOf(d), whole |-> w] \in Entries
  BY DEF TypeInv, Position, Entries, FormOf, Forms

\* One entry is written into one snapshot.
LEMMA PutType ==
  ASSUME TypeInv, NEW s \in Dirs, NEW e \in Entries,
         snaps' = [snaps EXCEPT ![s].entries = Put(@, e)]
  PROVE  /\ snaps' \in [Dirs -> [there : BOOLEAN, entries : SUBSET Entries]]
         /\ \A t \in Dirs : snaps'[t].there = snaps[t].there
         /\ \A t \in Dirs : snaps'[t].entries =
              IF t = s THEN Put(snaps[s].entries, e) ELSE snaps[t].entries
<1>1. snaps \in [Dirs -> [there : BOOLEAN, entries : SUBSET Entries]]
  BY DEF TypeInv, TypeOK
<1>2. Put(snaps[s].entries, e) \in SUBSET Entries
  BY <1>1 DEF Put
<1> HIDE DEF Put
<1> QED BY <1>1, <1>2

LEMMA BackupTypes ==
  ASSUME TypeInv, NEW d \in Deployers, Backup(d) PROVE TypeInv'
<1> USE PlacesListed
<1>0. /\ stamp[d] \in Dirs
      /\ snaps \in [Dirs -> [there : BOOLEAN, entries : SUBSET Entries]]
  BY DEF TypeInv, TypeOK
<1>1. CASE BackupStart(d)
  <2>1. 1 \in 1..(Len(Paths) + 1)
    BY HostAssumption
  <2>2. /\ stamp' \in [Deployers -> Dirs]
        /\ next' \in [Deployers -> 1..(Len(Paths) + 1)]
        /\ next'[d] = 1
        /\ \A e \in Deployers : e # d => next'[e] = next[e]
    BY <1>0, <1>1, <2>1 DEF BackupStart, TypeInv, TypeOK
  <2>3. PICK v \in BackupVerbs : Start(d, v, "mkdir")
    BY <1>1 DEF BackupStart
  <2> QED BY <1>1, <2>2, <2>3, StartType DEF BackupStart, TypeInv, TypeOK, Position
<1>2. CASE MakeDir(d)
  <2>1. 1 \in 1..(Len(Paths) + 1) /\ next[d] \in 1..(Len(Paths) + 1)
    BY HostAssumption DEF TypeInv, TypeOK
  <2>2. Goes(d, NextPlace(d, 1)) /\ NextPlace(d, 1) \in Places
    BY <1>2, <2>1, NextPlaceType DEF MakeDir
  <2>3. snaps' \in [Dirs -> [there : BOOLEAN, entries : SUBSET Entries]]
    BY <1>0, <1>2 DEF MakeDir
  <2>4. next' = next /\ next[d] = 1
    BY <1>2 DEF MakeDir, TypeInv, Position
  <2>5. /\ pc' \in [Deployers -> Places] /\ result' = result
        /\ \A e \in Deployers : e # d => pc'[e] = pc[e]
        /\ pc'[d] \in {"seal", "copy", "check"}
        /\ pc'[d] \in {"seal", "copy"} => 1 \in DOMAIN Paths
    BY <2>1, <2>2, NextPlaceType, GoesType
  <2> QED BY <1>2, <2>3, <2>4, <2>5
          DEF MakeDir, TypeInv, TypeOK, Position, fileVars, restVars
<1>3. CASE SkipPath(d)
  BY <1>3, AdvanceType, ZenonT(30) DEF SkipPath, TypeInv, TypeOK, Position, fileVars, restVars
<1>4. CASE SavePath(d)
  <2>1. snaps' \in [Dirs -> [there : BOOLEAN, entries : SUBSET Entries]]
    BY <1>0, <1>4, EntryType, PutType DEF SavePath
  <2> QED BY <1>4, <2>1, AdvanceType, ZenonT(30)
          DEF SavePath, TypeInv, TypeOK, Position, fileVars, restVars
<1>5. CASE SaveBreaks(d)
  <2>1. snaps' \in [Dirs -> [there : BOOLEAN, entries : SUBSET Entries]]
    BY <1>0, <1>5, EntryType, PutType DEF SaveBreaks
  <2> QED BY <1>5, <2>1, EndsType
          DEF SaveBreaks, TypeInv, TypeOK, Position, fileVars, restVars
<1>6. CASE CheckSnapshot(d)
  BY <1>6, EndsType, GoesType
     DEF CheckSnapshot, TypeInv, TypeOK, Position, fileVars, snapVars, restVars
<1>7. CASE ListSnapshots(d)
  <2>1. Older(Taken, verb[d].keep) \in SUBSET Stamps
    BY DEF Older, Taken
  <2> HIDE DEF Older
  <2> QED BY <1>7, <2>1, GoesType
          DEF ListSnapshots, TypeInv, TypeOK, Position, fileVars, restVars
<1>8. CASE PruneOne(d)
  <2> DEFINE S == [there : BOOLEAN, entries : SUBSET Entries]
  <2>3. NoSnap \in S
    BY DEF NoSnap
  <2>6. PICK s \in doomed[d] :
          /\ snaps' = snaps \/ snaps' = [snaps EXCEPT ![s] = NoSnap]
          /\ doomed' = [doomed EXCEPT ![d] = @ \ {s}]
    BY <1>8 DEF PruneOne
  <2>4. snaps \in [Dirs -> S] /\ (snaps' = snaps \/ snaps' = [snaps EXCEPT ![s] = NoSnap])
    BY <1>0, <2>6
  <2> HIDE DEF S
  <2>5. snaps' \in [Dirs -> S]
    BY <2>3, <2>4
  <2>1. snaps' \in [Dirs -> [there : BOOLEAN, entries : SUBSET Entries]]
    BY <2>5 DEF S
  <2>2. doomed' \in [Deployers -> SUBSET Stamps]
    BY <2>6 DEF TypeInv, TypeOK
  <2> QED BY <1>8, <2>1, <2>2
          DEF PruneOne, TypeInv, TypeOK, Position, runVars, fileVars, restVars
<1>9. CASE PruneBreaks(d)
  <2>2. PICK s \in doomed[d] : snaps' = [snaps EXCEPT ![s].entries = {}]
    BY <1>9 DEF PruneBreaks
  <2>3. s \in Dirs
    BY DEF TypeInv, TypeOK, Dirs
  <2>1. snaps' \in [Dirs -> [there : BOOLEAN, entries : SUBSET Entries]]
    BY <1>0, <2>2, <2>3
  <2> QED BY <1>9, <2>1, EndsType
          DEF PruneBreaks, TypeInv, TypeOK, Position, fileVars, restVars
<1>10. CASE PruneDone(d)
  BY <1>10, EndsType
     DEF PruneDone, TypeInv, TypeOK, Position, fileVars, snapVars, restVars
<1> QED BY <1>1, <1>2, <1>3, <1>4, <1>5, <1>6, <1>7, <1>8, <1>9, <1>10 DEF Backup

LEMMA OtherTypes ==
  ASSUME TypeInv,
         \/ UNCHANGED vars
         \/ \E d \in Deployers : DigestStart(d) \/ Digest(d) \/ StepFails(d) \/ Killed(d)
  PROVE  TypeInv'
<1> USE PlacesListed DEF TypeInv, Position
<1>1. CASE UNCHANGED vars
  BY <1>1 DEF vars, TypeOK, runVars, fileVars, snapVars, restVars
<1>2. ASSUME NEW d \in Deployers, DigestStart(d) PROVE TypeInv'
  BY <1>2, StartType DEF DigestStart, TypeOK, snapVars
<1>3. ASSUME NEW d \in Deployers, Digest(d) \/ StepFails(d) \/ Killed(d) PROVE TypeInv'
  <2>1. \E code \in {"none", "ok", "usage", "failed"} : Ends(d, code)
    BY <1>3 DEF Digest, StepFails, Killed
  <2> QED BY <1>3, <2>1, EndsType
          DEF Digest, StepFails, Killed, TypeOK, fileVars, snapVars, restVars
<1> QED BY <1>1, <1>2, <1>3

LEMMA HostTypes == TypeInv /\ [Next]_vars => TypeInv'
  BY InstallTypes, BackupTypes, OtherTypes DEF Next

\* Every variable of the target keeps its type.
THEOREM TypeCorrect == Spec => []TypeOK
<1>1. TypeInv => TypeOK
  BY DEF TypeInv
<1> QED BY HostInit, HostTypes, <1>1, PTL DEF Spec

-----------------------------------------------------------------------------
(* The destination.                                                        *)

\* What the staging file holds at each step of an install: nobody else writes
\* it, and each step leaves what the next one builds on.
Staged == \A d \in Deployers :
  /\ pc[d] = "write" => tmp = Fresh
  /\ pc[d] = "chmod" => tmp.data = "new"
  /\ pc[d] = "chown" => tmp.data = "new" /\ tmp.mode = "asked"
  /\ pc[d] = "rename" => tmp = [data |-> "new", mode |-> "asked", owner |-> "asked"]
DstInv == TypeInv /\ Staged /\ DstWhole

LEMMA DstInstall ==
  ASSUME OneDeployer, DstInv, NEW d \in Deployers, Install(d), TypeInv'
  PROVE  Staged' /\ DstWhole'
<1> USE PlacesListed
<1>0. \A e \in Deployers : e = d
  BY DEF OneDeployer
<1>1. CASE InstallStart(d)
  <2>1. pc'[d] = "guards" /\ UNCHANGED <<tmp, dst>>
    BY <1>1, StartType DEF InstallStart, DstInv
  <2> QED BY <1>0, <2>1 DEF DstInv, Staged, DstWhole
<1>2. CASE InstallGuards(d) \/ MakeParent(d) \/ ReadSource(d) \/ ClearTmp(d)
  <2>1. pc'[d] \in {"parent", "clear", "open", "read"} /\ UNCHANGED dst
    BY <1>2, GoesType DEF InstallGuards, MakeParent, ReadSource, ClearTmp, fileVars, DstInv
  <2> QED BY <1>0, <2>1 DEF DstInv, Staged, DstWhole
<1>3. CASE OpenTmp(d)
  <2>1. pc'[d] = "write" /\ tmp' = Fresh /\ UNCHANGED <<dst, caller>>
    BY <1>3, GoesType DEF OpenTmp, DstInv, restVars
  <2> QED BY <1>0, <2>1 DEF DstInv, Staged, DstWhole, Fresh
<1>4. CASE WriteTmp(d)
  <2>1. /\ pc'[d] = IF caller = "root" THEN "chmod" ELSE "chown"
        /\ UNCHANGED dst
    BY <1>4, GoesType DEF WriteTmp, DstInv
  <2>2. tmp'.data = "new" /\ (caller # "root" => tmp'.mode = "asked")
    BY <1>4 DEF WriteTmp, DstInv, Staged, Fresh
  <2> QED BY <1>0, <2>1, <2>2 DEF DstInv, Staged, DstWhole
<1>5. CASE ChmodTmp(d)
  <2>1. pc'[d] = "chown" /\ UNCHANGED dst
    BY <1>5, GoesType DEF ChmodTmp, DstInv
  <2>2. tmp'.data = "new" /\ tmp'.mode = "asked"
    BY <1>5 DEF ChmodTmp, DstInv, Staged, TypeInv, TypeOK, Files
  <2> QED BY <1>0, <2>1, <2>2 DEF DstInv, Staged, DstWhole
<1>6. CASE ChownTmp(d)
  <2>1. pc'[d] = "rename" /\ UNCHANGED dst
    BY <1>6, GoesType DEF ChownTmp, DstInv
  <2>2. tmp' = [data |-> "new", mode |-> "asked", owner |-> "asked"]
    BY <1>6 DEF ChownTmp, DstInv, Staged, TypeInv, TypeOK, Files
  <2> QED BY <1>0, <2>1, <2>2 DEF DstInv, Staged, DstWhole
<1>7. CASE RenameTmp(d)
  <2>1. pc'[d] = "over" /\ dst' = [data |-> "new", mode |-> "asked", owner |-> "asked"]
    BY <1>7, EndsType DEF RenameTmp, DstInv, Staged
  <2> QED BY <1>0, <2>1 DEF Staged, DstWhole
<1> QED BY <1>1, <1>2, <1>3, <1>4, <1>5, <1>6, <1>7 DEF Install

LEMMA DstOther ==
  ASSUME OneDeployer, DstInv,
         \/ UNCHANGED vars
         \/ \E d \in Deployers : \/ Backup(d) \/ DigestStart(d) \/ Digest(d)
                                \/ StepFails(d) \/ Killed(d)
  PROVE  Staged' /\ DstWhole'
<1> USE PlacesListed
<1>1. CASE UNCHANGED vars
  BY <1>1 DEF vars, runVars, fileVars, restVars, DstInv, Staged, DstWhole, Fresh
<1>2. ASSUME NEW d \in Deployers, Backup(d) \/ DigestStart(d)
      PROVE  /\ pc'[d] \in Places \ {"write", "chmod", "chown", "rename"}
             /\ UNCHANGED <<tmp, dst>>
  <2>1. CASE BackupStart(d) \/ DigestStart(d)
    BY <2>1, StartType DEF BackupStart, DigestStart, DstInv
  <2>2. CASE SkipPath(d) \/ SavePath(d)
    BY <2>2, AdvanceType DEF SkipPath, SavePath, DstInv, fileVars
  <2>3. CASE MakeDir(d)
    <3>1. 1 \in 1..(Len(Paths) + 1)
      BY HostAssumption
    <3> QED BY <2>3, <3>1, NextPlaceType, GoesType DEF MakeDir, DstInv, fileVars
  <2>4. CASE SaveBreaks(d) \/ CheckSnapshot(d) \/ ListSnapshots(d) \/ PruneBreaks(d)
             \/ PruneDone(d)
    BY <2>4, EndsType, GoesType DEF SaveBreaks, CheckSnapshot, ListSnapshots,
       PruneBreaks, PruneDone, DstInv, fileVars
  <2>5. CASE PruneOne(d)
    BY <2>5 DEF PruneOne, DstInv, fileVars, runVars
  <2> QED BY <1>2, <2>1, <2>2, <2>3, <2>4, <2>5 DEF Backup
<1>3. ASSUME NEW d \in Deployers, Digest(d) \/ StepFails(d) \/ Killed(d)
      PROVE  pc'[d] = "over" /\ UNCHANGED <<tmp, dst>>
  BY <1>3, EndsType DEF Digest, StepFails, Killed, DstInv, fileVars
<1> QED BY <1>1, <1>2, <1>3 DEF OneDeployer, DstInv, Staged, DstWhole

\* Whatever fails, is killed or was left beside it, the destination is the old
\* file or the whole new one, with its owner and its mode.
THEOREM DstCorrect == ASSUME OneDeployer PROVE Spec => []DstWhole
<1>1. Init => DstInv
  BY HostInit DEF Init, DstInv, Staged, DstWhole, NoFile, OldFile
<1>2. DstInv /\ [Next]_vars => DstInv'
  BY HostTypes, DstInstall, DstOther DEF DstInv, Next
<1>3. DstInv => DstWhole
  BY DEF DstInv
<1> QED BY <1>1, <1>2, <1>3, PTL DEF Spec

-----------------------------------------------------------------------------
(* The snapshot.                                                           *)

Backing == {"mkdir", "seal", "copy", "check", "list", "prune"}
\* Which verb runs a step.
Kinds == \A d \in Deployers :
  pc[d] # "over" => (verb[d].kind = "backup" <=> pc[d] \in Backing)
\* The rule of the run itself counts its directory out.
CountedOut(d) == /\ stamp[d] \in Stamps /\ verb[d].keep # NoKeep
                 /\ Outnumbered(stamp[d], verb[d].keep)
\* The paths already passed are in the directory, unless they were not there.
Progress == \A d \in Deployers :
  /\ pc[d] \in {"seal", "copy", "check", "list"} =>
       /\ snaps[stamp[d]].there
       /\ \A i \in Wanted : i < next[d] => i \in Saved(stamp[d])
  /\ pc[d] \in {"check", "list"} => next[d] = Len(Paths) + 1
  /\ pc[d] \in {"list", "prune"} =>
       Unexpected(stamp[d]) = {} /\ verb[d].keep # NoKeep
  /\ pc[d] = "prune" => Complete(stamp[d]) \/ CountedOut(d)
\* The snapshot a run reported.
Reported == \A d \in Deployers :
  Succeeded(d, "backup") =>
    (Complete(stamp[d]) \/ CountedOut(d)) /\ Unexpected(stamp[d]) = {}
Kept == PruneTakesTheOldest /\ Progress /\ Reported
SnapInv == TypeInv /\ Kinds /\ Kept

LEMMA KindsKept == TypeInv /\ Kinds /\ [Next]_vars => Kinds'
<1> SUFFICES ASSUME TypeInv, Kinds, [Next]_vars PROVE Kinds'
  OBVIOUS
<1> USE PlacesListed DEF Kinds, Backing
<1>1. ASSUME NEW d \in Deployers, Install(d) \/ DigestStart(d) PROVE Kinds'
  <2>1. CASE InstallStart(d) \/ DigestStart(d)
    <3>1. /\ pc'[d] \in {"guards", "digest"}
          /\ \A e \in Deployers : e # d => pc'[e] = pc[e]
      BY <2>1, StartType DEF InstallStart, DigestStart
    <3>2. /\ verb'[d].kind \in {"install", "digest"}
          /\ \A e \in Deployers : e # d => verb'[e] = verb[e]
      BY <2>1 DEF InstallStart, DigestStart, Start, InstallVerb, DigestVerb, TypeInv, TypeOK
    <3> QED BY <3>1, <3>2
  <2>2. CASE ~(InstallStart(d) \/ DigestStart(d))
    BY <1>1, <2>2, GoesType, EndsType DEF Install, InstallGuards, MakeParent, ClearTmp,
       ReadSource, OpenTmp, WriteTmp, ChmodTmp, ChownTmp, RenameTmp, restVars
  <2> QED BY <2>1, <2>2
<1>2. ASSUME NEW d \in Deployers, Backup(d) PROVE Kinds'
  <2>1. CASE BackupStart(d)
    <3>1. PICK v \in BackupVerbs : Start(d, v, "mkdir")
      BY <2>1 DEF BackupStart
    <3>2. /\ pc'[d] = "mkdir"
          /\ \A e \in Deployers : e # d => pc'[e] = pc[e]
      BY <3>1, StartType
    <3>3. verb'[d] = v /\ \A e \in Deployers : e # d => verb'[e] = verb[e]
      BY <3>1 DEF Start, TypeInv, TypeOK
    <3>4. v.kind = "backup"
      BY DEF BackupVerbs
    <3> QED BY <3>2, <3>3, <3>4
  <2>2. CASE SkipPath(d) \/ SavePath(d)
    BY <2>2, AdvanceType DEF SkipPath, SavePath, restVars
  <2>3. CASE MakeDir(d)
    <3>1. 1 \in 1..(Len(Paths) + 1)
      BY HostAssumption
    <3> QED BY <2>3, <3>1, NextPlaceType, GoesType DEF MakeDir, restVars
  <2>4. CASE SaveBreaks(d) \/ CheckSnapshot(d) \/ ListSnapshots(d) \/ PruneBreaks(d)
             \/ PruneDone(d)
    BY <2>4, EndsType, GoesType DEF SaveBreaks, CheckSnapshot, ListSnapshots,
       PruneBreaks, PruneDone, restVars
  <2>5. CASE PruneOne(d)
    BY <2>5 DEF PruneOne, restVars, runVars
  <2> QED BY <1>2, <2>1, <2>2, <2>3, <2>4, <2>5 DEF Backup
<1>3. ASSUME NEW d \in Deployers, Digest(d) \/ StepFails(d) \/ Killed(d) PROVE Kinds'
  BY <1>3, EndsType DEF Digest, StepFails, Killed, restVars
<1>4. CASE UNCHANGED vars
  BY <1>4 DEF vars, runVars, restVars
<1> QED BY <1>1, <1>2, <1>3, <1>4 DEF Next

\* A step that touches no snapshot and runs no backup, or ends one badly.
LEMMA SnapStutter ==
  ASSUME OneDeployer, SnapInv, UNCHANGED <<snaps, stamp, next, doomed, caller>>,
         NEW d \in Deployers, pc'[d] \notin Backing,
         pc'[d] = "over" /\ verb'[d].kind = "backup" => result'[d] # "ok"
  PROVE  Kept'
<1>1. \A e \in Deployers : e = d
  BY DEF OneDeployer
<1>2. PruneTakesTheOldest'
  BY <1>1 DEF PruneTakesTheOldest, Backing
<1>3. Progress'
  BY <1>1 DEF Progress, Backing
<1>4. Reported'
  BY <1>1 DEF Reported, Succeeded
<1> QED BY <1>2, <1>3, <1>4 DEF Kept

LEMMA SnapOther ==
  ASSUME OneDeployer, SnapInv,
         \/ UNCHANGED vars
         \/ \E d \in Deployers : \/ Install(d) \/ DigestStart(d) \/ Digest(d)
                                \/ StepFails(d) \/ Killed(d)
  PROVE  Kept'
<1> USE PlacesListed
<1>1. CASE UNCHANGED vars
  <2>1. UNCHANGED <<pc, result, caller, verb, next, stamp, doomed, snaps>>
    BY <1>1 DEF vars, runVars, snapVars, restVars
  <2>2. Taken' = Taken
    BY <2>1 DEF Taken
  <2>3. PruneTakesTheOldest'
    BY <2>1, <2>2 DEF SnapInv, Kept, PruneTakesTheOldest, Outnumbered
  <2>4. Progress'
    BY <2>1, <2>2 DEF SnapInv, Kept, Progress, Complete, CountedOut, Outnumbered, Saved,
       Unexpected, Wanted, Exists, Seen
  <2>5. Reported'
    BY <2>1, <2>2 DEF SnapInv, Kept, Reported, Succeeded, Complete, CountedOut,
       Outnumbered, Saved, Unexpected, Wanted, Exists, Seen
  <2> QED BY <2>3, <2>4, <2>5 DEF Kept
<1>2. ASSUME NEW d \in Deployers, Install(d) \/ DigestStart(d) \/ Digest(d)
      PROVE  /\ pc'[d] \notin Backing
             /\ UNCHANGED <<snaps, stamp, next, doomed, caller>>
             /\ pc'[d] = "over" /\ verb'[d].kind = "backup" => result'[d] # "ok"
  <2>1. CASE InstallStart(d) \/ DigestStart(d)
    BY <2>1, StartType DEF InstallStart, DigestStart, snapVars, SnapInv, Backing
  <2>2. CASE RenameTmp(d) \/ Digest(d)
    <3>1. pc[d] \notin Backing /\ pc[d] # "over" /\ verb' = verb
      BY <2>2 DEF RenameTmp, Digest, Backing, restVars
    <3> QED BY <2>2, <3>1, EndsType DEF RenameTmp, Digest, Backing, SnapInv, Kinds,
               restVars, snapVars
  <2>3. CASE ~(InstallStart(d) \/ DigestStart(d) \/ RenameTmp(d) \/ Digest(d))
    BY <1>2, <2>3, GoesType DEF Install, InstallGuards, MakeParent, ClearTmp, ReadSource,
       OpenTmp, WriteTmp, ChmodTmp, ChownTmp, restVars, snapVars, SnapInv, Backing
  <2> QED BY <2>1, <2>2, <2>3
<1>3. ASSUME NEW d \in Deployers, StepFails(d) \/ Killed(d)
      PROVE  /\ pc'[d] = "over" /\ result'[d] # "ok"
             /\ UNCHANGED <<snaps, stamp, next, doomed, caller>>
  BY <1>3, EndsType DEF StepFails, Killed, restVars, snapVars, SnapInv
<1> QED BY <1>1, <1>2, <1>3, SnapStutter DEF Backing

LEMMA SnapStart ==
  ASSUME OneDeployer, SnapInv, NEW d \in Deployers, BackupStart(d) PROVE Kept'
<1>1. \A e \in Deployers : e = d
  BY DEF OneDeployer
<1>2. PICK v \in BackupVerbs : Start(d, v, "mkdir")
  BY DEF BackupStart
<1>3. pc'[d] = "mkdir"
  BY <1>2, StartType, PlacesListed DEF SnapInv
<1> QED BY <1>1, <1>3 DEF Kept, PruneTakesTheOldest, Progress, Reported, Succeeded

LEMMA SnapMakeDir ==
  ASSUME OneDeployer, SnapInv, NEW d \in Deployers, MakeDir(d) PROVE Kept'
<1>1. \A e \in Deployers : e = d
  BY DEF OneDeployer
<1>2. 1 \in 1..(Len(Paths) + 1) /\ Len(Paths) \in Nat /\ DOMAIN Paths = 1..Len(Paths)
  BY HostAssumption
<1>3. /\ pc'[d] \in {"seal", "copy", "check"} /\ pc[d] = "mkdir"
      /\ pc'[d] = "check" => 1 = Len(Paths) + 1
      /\ UNCHANGED <<caller, next, stamp, verb>> /\ next[d] = 1
  <2>1. pc'[d] = NextPlace(d, 1) /\ NextPlace(d, 1) \in {"seal", "copy", "check"}
    BY <1>2, NextPlaceType, GoesType DEF MakeDir, SnapInv
  <2>2. NextPlace(d, 1) = "check" => 1 = Len(Paths) + 1
    BY <1>2 DEF NextPlace
  <2> QED BY <2>1, <2>2 DEF MakeDir, restVars, SnapInv, TypeInv, Position
<1>4. snaps'[stamp[d]].there
  BY DEF MakeDir, SnapInv, TypeInv, TypeOK
<1>5. PruneTakesTheOldest'
  BY <1>1, <1>3 DEF PruneTakesTheOldest
<1>6. Progress'
  <2>1. \A i \in DOMAIN Paths : ~(i < 1)
    BY <1>2
  <2> QED BY <1>1, <1>3, <1>4, <2>1 DEF Progress, Wanted
<1>7. Reported'
  BY <1>1, <1>3 DEF Reported, Succeeded
<1> QED BY <1>5, <1>6, <1>7 DEF Kept

\* The next path of a backup that goes on, when the one at hand is done with.
LEMMA SnapNext ==
  ASSUME OneDeployer, SnapInv, NEW d \in Deployers, pc[d] \in {"seal", "copy"},
         Advance(d), UNCHANGED <<caller, stamp, verb>>,
         snaps'[stamp[d]].there,
         \A i \in Wanted : i < next[d] + 1 => i \in Saved(stamp[d])'
  PROVE  Kept'
<1>1. \A e \in Deployers : e = d
  BY DEF OneDeployer
<1>2. Len(Paths) \in Nat /\ DOMAIN Paths = 1..Len(Paths)
  BY HostAssumption
<1>3. /\ next[d] \in DOMAIN Paths /\ next'[d] = next[d] + 1
      /\ pc'[d] \in {"seal", "copy", "check"}
      /\ pc'[d] = NextPlace(d, next[d] + 1)
  BY AdvanceType DEF SnapInv, TypeInv, Position
<1>4. pc'[d] = "check" => next'[d] = Len(Paths) + 1
  BY <1>2, <1>3 DEF NextPlace
<1>5. PruneTakesTheOldest'
  BY <1>1, <1>3 DEF PruneTakesTheOldest
<1>6. Progress'
  <2>1. Wanted' = Wanted
    BY DEF Wanted, Exists, Seen
  <2> QED BY <1>1, <1>3, <1>4, <2>1 DEF Progress
<1>7. Reported'
  BY <1>1, <1>3 DEF Reported, Succeeded
<1> QED BY <1>5, <1>6, <1>7 DEF Kept

\* A path that is there gets its entry; the entries of the others stay.
LEMMA SnapSave ==
  ASSUME OneDeployer, SnapInv, NEW d \in Deployers, SavePath(d) PROVE Kept'
<1> DEFINE e == [of |-> next[d], form |-> FormOf(d), whole |-> TRUE]
<1>1. pc[d] \in {"seal", "copy"} /\ stamp[d] \in Dirs /\ e \in Entries
  BY EntryType DEF SavePath, SnapInv, TypeInv, TypeOK
<1>2. snaps' = [snaps EXCEPT ![stamp[d]].entries = Put(@, e)]
  BY DEF SavePath
<1>3. e.of = next[d] /\ e.whole
  OBVIOUS
<1> HIDE DEF e
<1>4. /\ \A t \in Dirs : snaps'[t].there = snaps[t].there
      /\ snaps'[stamp[d]].entries = Put(snaps[stamp[d]].entries, e)
  BY <1>1, <1>2, PutType DEF SnapInv
<1>5. snaps[stamp[d]].there /\ UNCHANGED <<caller, stamp, verb>> /\ Advance(d)
  BY DEF SavePath, restVars
<1>6. snaps'[stamp[d]].there
  BY <1>1, <1>4, <1>5
<1>7. ASSUME NEW i \in Wanted, i < next[d] + 1 PROVE i \in Saved(stamp[d])'
  <2>1. CASE i = next[d]
    BY <1>3, <1>4, <1>5, <2>1 DEF Saved, Put
  <2>2. CASE i # next[d]
    <3>1. i \in Nat /\ next[d] \in Nat
      BY HostAssumption DEF Wanted, SnapInv, TypeInv, TypeOK
    <3>2. i \in Saved(stamp[d])
      BY <1>1, <1>7, <2>2, <3>1 DEF SnapInv, Kept, Progress, Backing
    <3>3. PICK x \in snaps[stamp[d]].entries : x.whole /\ x.of = i
      BY <3>2 DEF Saved
    <3>4. x \in snaps'[stamp[d]].entries
      BY <1>3, <1>4, <2>2, <3>3 DEF Put
    <3> QED BY <1>5, <3>3, <3>4 DEF Saved
  <2> QED BY <2>1, <2>2
<1> QED BY <1>1, <1>5, <1>6, <1>7, SnapNext

LEMMA SnapSkip ==
  ASSUME OneDeployer, SnapInv, NEW d \in Deployers, SkipPath(d) PROVE Kept'
<1>1. /\ pc[d] \in {"seal", "copy"} /\ ~Exists(Paths[next[d]]) /\ Advance(d)
      /\ UNCHANGED <<caller, stamp, verb, snaps>>
  BY DEF SkipPath, restVars
<1>2. snaps[stamp[d]].there /\ \A i \in Wanted : i < next[d] => i \in Saved(stamp[d])
  BY <1>1 DEF SnapInv, Kept, Progress, Backing
<1>3. ASSUME NEW i \in Wanted, i < next[d] + 1 PROVE i \in Saved(stamp[d])'
  <2>1. i \in Nat /\ next[d] \in Nat /\ i # next[d]
    BY <1>1, HostAssumption DEF Wanted, SnapInv, TypeInv, TypeOK
  <2> QED BY <1>1, <1>2, <1>3, <2>1 DEF Saved
<1> QED BY <1>1, <1>2, <1>3, SnapNext

\* A backup that ends without success: nothing is reported.
LEMMA SnapBreaks ==
  ASSUME OneDeployer, SnapInv, NEW d \in Deployers, SaveBreaks(d) \/ PruneBreaks(d)
  PROVE  Kept'
<1>1. \A e \in Deployers : e = d
  BY DEF OneDeployer
<1>2. pc'[d] = "over" /\ result'[d] # "ok"
  BY EndsType DEF SaveBreaks, PruneBreaks, SnapInv
<1> QED BY <1>1, <1>2 DEF Kept, PruneTakesTheOldest, Progress, Reported, Succeeded

\* The retention of a verb that has one is a number.
LEMMA KeepIsNumber ==
  ASSUME TypeInv, NEW d \in Deployers, verb[d].keep # NoKeep
  PROVE  verb[d].keep \in Nat
<1>1. \A v \in BackupVerbs : v.keep \in Keeps
  BY DEF BackupVerbs
<1>2. InstallVerb.keep = NoKeep /\ DigestVerb.keep = NoKeep
  BY DEF InstallVerb, DigestVerb
<1>3. \A k \in Keeps : k \in Nat \/ k = NoKeep
  BY HostAssumption
<1>4. verb[d] = InstallVerb \/ verb[d] = DigestVerb \/ verb[d] \in BackupVerbs
  BY DEF TypeInv, TypeOK
<1> QED BY <1>1, <1>2, <1>3, <1>4, Zenon

\* The snapshot passes the check: it has every path, and no plaintext.  What
\* the retention rule is about to remove has enough newer ones to keep.
LEMMA SnapCheck ==
  ASSUME OneDeployer, SnapInv, NEW d \in Deployers, CheckSnapshot(d) \/ ListSnapshots(d)
  PROVE  Kept'
<1>1. \A e \in Deployers : e = d
  BY DEF OneDeployer
<1>2. UNCHANGED <<caller, stamp, next, snaps, verb>> /\ pc[d] \in {"check", "list"}
  BY DEF CheckSnapshot, ListSnapshots, snapVars, restVars
<1>3. Complete(stamp[d]) /\ next[d] = Len(Paths) + 1
  <2>1. next[d] = Len(Paths) + 1 /\ \A i \in Wanted : i < next[d]
    BY <1>2, HostAssumption DEF SnapInv, Kept, Progress, Wanted
  <2> QED BY <1>2, <2>1 DEF SnapInv, Kept, Progress, Complete
<1>4. Complete(stamp[d])'
  BY <1>2, <1>3 DEF Complete, Wanted, Exists, Seen, Saved
<1>5. Unexpected(stamp[d])' = Unexpected(stamp[d])
  BY <1>2 DEF Unexpected
<1>6. CASE CheckSnapshot(d)
  <2>1. \/ Unexpected(stamp[d]) # {} /\ Ends(d, "failed")
        \/ Unexpected(stamp[d]) = {} /\ Ends(d, "ok")
        \/ Unexpected(stamp[d]) = {} /\ verb[d].keep # NoKeep /\ Goes(d, "list")
    BY <1>6 DEF CheckSnapshot
  <2>2. \/ pc'[d] = "over" /\ result'[d] = "failed"
        \/ Unexpected(stamp[d]) = {} /\ pc'[d] = "over"
        \/ Unexpected(stamp[d]) = {} /\ verb[d].keep # NoKeep /\ pc'[d] = "list"
    BY <2>1, EndsType, GoesType, PlacesListed DEF SnapInv
  <2>3. PruneTakesTheOldest'
    BY <1>1, <2>2 DEF PruneTakesTheOldest
  <2>4. Progress'
    BY <1>1, <1>2, <1>3, <1>4, <1>5, <2>2 DEF Progress, Complete
  <2>5. Reported'
    BY <1>1, <1>2, <1>4, <1>5, <2>2 DEF Reported, Succeeded
  <2> QED BY <2>3, <2>4, <2>5 DEF Kept
<1>7. CASE ListSnapshots(d)
  <2>1. pc'[d] = "prune" /\ doomed'[d] = Older(Taken, verb[d].keep)
    BY <1>7, GoesType, PlacesListed DEF ListSnapshots, SnapInv, TypeInv, TypeOK
  <2>2. Taken' = Taken
    BY <1>2 DEF Taken
  <2>3. \A s \in Older(Taken, verb[d].keep) : Outnumbered(s, verb[d].keep)
    BY DEF Older, Outnumbered
  <2>4. PruneTakesTheOldest'
    BY <1>1, <1>2, <2>1, <2>2, <2>3 DEF PruneTakesTheOldest, Outnumbered
  <2>5. Unexpected(stamp[d]) = {} /\ verb[d].keep # NoKeep
    BY <1>7 DEF ListSnapshots, SnapInv, Kept, Progress
  <2>6. Progress'
    BY <1>1, <1>2, <1>4, <1>5, <2>1, <2>5 DEF Progress
  <2>7. Reported'
    BY <1>1, <2>1 DEF Reported, Succeeded
  <2> QED BY <2>4, <2>6, <2>7 DEF Kept
<1> QED BY <1>6, <1>7

LEMMA SnapDone ==
  ASSUME OneDeployer, SnapInv, NEW d \in Deployers, PruneDone(d)
  PROVE  Kept'
<1>1. \A e \in Deployers : e = d
  BY DEF OneDeployer
<1>2. UNCHANGED <<caller, stamp, snaps, verb>> /\ pc[d] = "prune" /\ pc'[d] = "over"
  BY EndsType DEF PruneDone, snapVars, restVars, SnapInv
<1>3. PruneTakesTheOldest' /\ Progress'
  BY <1>1, <1>2 DEF PruneTakesTheOldest, Progress
<1>4. (Complete(stamp[d]) \/ CountedOut(d)) /\ Unexpected(stamp[d]) = {}
  BY <1>2 DEF SnapInv, Kept, Progress
<1>5. (Complete(stamp[d]) \/ CountedOut(d))' /\ Unexpected(stamp[d])' = {}
  BY <1>2, <1>4 DEF Complete, CountedOut, Outnumbered, Taken, Unexpected, Wanted, Exists,
     Seen, Saved
<1>6. Reported'
  BY <1>1, <1>5 DEF Reported
<1> QED BY <1>3, <1>6 DEF Kept

LEMMA TakenFinite ==
  /\ IsFiniteSet(Taken)
  /\ \A S : S \subseteq Taken => IsFiniteSet(S) /\ Cardinality(S) \in Nat
<1>1. IsFiniteSet(Stamps)
  BY HostAssumption, FS_Interval DEF Stamps
<1>2. Taken \in SUBSET Stamps
  BY DEF Taken
<1>3. IsFiniteSet(Taken)
  BY <1>1, <1>2, FS_Subset
<1>4. ASSUME NEW S, S \subseteq Taken PROVE IsFiniteSet(S)
  BY <1>3, <1>4, FS_Subset
<1> QED BY <1>3, <1>4, FS_CardinalityType

\* A directory goes that has enough newer ones to keep.  They stay, and so
\* whatever was outnumbered before is outnumbered without it.
LEMMA PruneLeavesEnough ==
  ASSUME TypeInv, NEW s \in Stamps, NEW k \in Nat, Outnumbered(s, k),
         snaps' = snaps \/ snaps' = [snaps EXCEPT ![s] = NoSnap],
         NEW r \in Stamps, Outnumbered(r, k)
  PROVE  Outnumbered(r, k)'
<1> DEFINE left == {t \in Taken' : t > r}
<1>1. /\ snaps \in [Dirs -> [there : BOOLEAN, entries : SUBSET Entries]]
      /\ Stamps \subseteq Int /\ Stamps \subseteq Dirs
  BY HostAssumption DEF TypeInv, TypeOK, Stamps, Dirs
<1>2. \A t \in Taken : t # s => t \in Taken'
  BY <1>1 DEF Taken
<1>3. Taken' \subseteq Taken
  <2>1. \A t \in Stamps : snaps'[t] = snaps[t] \/ snaps'[t] = NoSnap
    BY <1>1
  <2> QED BY <2>1 DEF Taken, NoSnap
<1>4. left \subseteq Taken
  BY <1>3
<1>5. IsFiniteSet(left) /\ Cardinality(left) \in Nat
  BY <1>4, TakenFinite
<1>6. \E q \in {r, s} : \A t \in Taken : t > q => t \in left
  <2>1. CASE r < s
    <3>1. ASSUME NEW t \in Taken, t > s PROVE t \in left
      <4>1. t \in Int /\ t > r /\ t # s
        BY <1>1, <2>1, <3>1 DEF Taken
      <4> QED BY <1>2, <4>1
    <3> QED BY <3>1
  <2>2. CASE ~(r < s)
    <3>1. ASSUME NEW t \in Taken, t > r PROVE t \in left
      <4>1. t \in Int /\ t # s
        BY <1>1, <2>2, <3>1 DEF Taken
      <4> QED BY <1>2, <3>1, <4>1
    <3> QED BY <3>1
  <2> QED BY <2>1, <2>2
<1>7. PICK q \in {r, s} : \A t \in Taken : t > q => t \in left
  BY <1>6
<1> DEFINE kept == {t \in Taken : t > q}
<1>8. Cardinality(kept) >= k
  BY DEF Outnumbered
<1>9. Cardinality(kept) \in Nat
  BY TakenFinite
<1>10. kept \subseteq left
  BY <1>7
<1> HIDE DEF kept, left
<1>11. Cardinality(kept) <= Cardinality(left)
  BY <1>5, <1>10, FS_Subset
<1>12. Cardinality(left) >= k
  BY <1>5, <1>8, <1>9, <1>11
<1> QED BY <1>12 DEF left, Outnumbered

\* What is pruned is the directory of the run only where that is counted out.
LEMMA SnapPrune ==
  ASSUME OneDeployer, SnapInv, NEW d \in Deployers, PruneOne(d) PROVE Kept'
<1>1. \A e \in Deployers : e = d
  BY DEF OneDeployer
<1>2. pc[d] = "prune" /\ UNCHANGED <<caller, stamp, next, verb, pc, result>>
  BY DEF PruneOne, restVars, runVars
<1>3. PICK s \in doomed[d] :
        /\ snaps' = snaps \/ snaps' = [snaps EXCEPT ![s] = NoSnap]
        /\ doomed' = [doomed EXCEPT ![d] = @ \ {s}]
  BY DEF PruneOne
<1>4. /\ snaps \in [Dirs -> [there : BOOLEAN, entries : SUBSET Entries]]
      /\ doomed[d] \subseteq Stamps /\ stamp[d] \in Dirs
      /\ doomed'[d] \subseteq doomed[d]
  BY <1>3 DEF SnapInv, TypeInv, TypeOK
<1>5. verb[d].keep \in Nat /\ verb[d].keep # NoKeep
  BY <1>2, KeepIsNumber DEF SnapInv, Kept, Progress
<1>6. \A r \in doomed[d] : Outnumbered(r, verb[d].keep)
  BY <1>2 DEF SnapInv, Kept, PruneTakesTheOldest
<1>7. ASSUME NEW r \in Stamps, Outnumbered(r, verb[d].keep)
      PROVE  Outnumbered(r, verb[d].keep)'
  <2> DEFINE k == verb[d].keep
  <2>1. k \in Nat /\ Outnumbered(s, k) /\ Outnumbered(r, k) /\ s \in Stamps
    BY <1>4, <1>5, <1>6, <1>7
  <2>2. k' = k
    BY <1>2
  <2> HIDE DEF k
  <2>3. ASSUME NEW m, m = k PROVE Outnumbered(r, m)'
    BY <1>3, <2>1, <2>3, PruneLeavesEnough DEF SnapInv
  <2>4. Outnumbered(r, k)'
    BY <2>2, <2>3 DEF Outnumbered
  <2> QED BY <2>4 DEF k
<1>8. PruneTakesTheOldest'
  BY <1>1, <1>2, <1>4, <1>6, <1>7 DEF PruneTakesTheOldest
<1>9. (Complete(stamp[d]) \/ CountedOut(d))'
  <2>1. CASE CountedOut(d)
    BY <1>2, <1>7, <2>1 DEF CountedOut
  <2>2. CASE s = stamp[d]
    <3>1. CountedOut(d)
      BY <1>4, <1>5, <1>6, <2>2 DEF CountedOut
    <3> QED BY <1>2, <1>7, <3>1 DEF CountedOut
  <2>3. CASE s # stamp[d] /\ Complete(stamp[d])
    <3>1. snaps'[stamp[d]] = snaps[stamp[d]]
      BY <1>3, <1>4, <2>3
    <3> QED BY <1>2, <2>3, <3>1 DEF Complete, Saved, Wanted, Exists, Seen
  <2> QED BY <1>2, <2>1, <2>2, <2>3 DEF SnapInv, Kept, Progress
<1>10. Unexpected(stamp[d])' = {}
  <2>1. Unexpected(stamp[d]) = {}
    BY <1>2 DEF SnapInv, Kept, Progress
  <2>2. snaps'[stamp[d]] = snaps[stamp[d]] \/ snaps'[stamp[d]] = NoSnap
    BY <1>3, <1>4
  <2> QED BY <1>2, <2>1, <2>2 DEF Unexpected, NoSnap
<1>11. Progress' /\ Reported'
  BY <1>1, <1>2, <1>5, <1>9, <1>10 DEF Progress, Reported, Succeeded
<1> QED BY <1>8, <1>11 DEF Kept

LEMMA SnapStep == OneDeployer /\ SnapInv /\ [Next]_vars => SnapInv'
  BY HostTypes, KindsKept, SnapOther, SnapStart, SnapMakeDir, SnapSkip, SnapSave,
     SnapBreaks, SnapCheck, SnapPrune, SnapDone DEF SnapInv, Next, Backup

LEMMA SnapInit == Init => SnapInv
  BY HostInit DEF Init, SnapInv, Kinds, Kept, PruneTakesTheOldest, Progress, Reported,
     Succeeded, DigestVerb

\* A backup that reported its snapshot as ready, in whatever directory, has a
\* whole copy of every file it could see, unless --keep is given and as many
\* directories carry a higher number, 0 and a --dir by hand included (backup).
THEOREM BackupCorrect == ASSUME OneDeployer PROVE Spec => []ReadyIsComplete
<1>1. SnapInv /\ [Next]_vars => SnapInv'
  BY SnapStep
<1>2. SnapInv => ReadyIsComplete
  BY DEF SnapInv, Kept, Reported, CountedOut, ReadyIsComplete
<1> QED BY SnapInit, <1>1, <1>2, PTL DEF Spec

\* A backup that succeeded with --seal left no plaintext in its directory,
\* also when an earlier attempt in the same directory did (backup).
THEOREM SealCorrect == ASSUME OneDeployer PROVE Spec => []SealLeavesNoPlaintext
<1>1. SnapInv /\ [Next]_vars => SnapInv'
  BY SnapStep
<1>2. SnapInv => SealLeavesNoPlaintext
  BY DEF SnapInv, Kept, Reported, SealLeavesNoPlaintext
<1> QED BY SnapInit, <1>1, <1>2, PTL DEF Spec

\* What --keep still has to remove is older than as many directories that are
\* there, at every moment of the removal (prune_snapshots).
THEOREM PruneCorrect == ASSUME OneDeployer PROVE Spec => []PruneTakesTheOldest
<1>1. SnapInv /\ [Next]_vars => SnapInv'
  BY SnapStep
<1>2. SnapInv => PruneTakesTheOldest
  BY DEF SnapInv, Kept
<1> QED BY SnapInit, <1>1, <1>2, PTL DEF Spec
=============================================================================
