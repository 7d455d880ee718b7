----------------------------- MODULE HostFiles -----------------------------
(***************************************************************************)
(* The file verbs of `shellflow host` on one target: install (write beside *)
(* the destination, rename into place), backup (snapshot, seal, check,     *)
(* prune) and assert-digest.  Every command a verb starts is a step of its *)
(* own: it may fail, and the verb may be killed before or after it.  A     *)
(* verb that ended may be run again over what it left behind.              *)
(***************************************************************************)
EXTENDS Integers, FiniteSets, Sequences

CONSTANTS
  Deployers,   \* who may run verbs at the same time on the target
  Paths,       \* the files a backup is asked for, in order
  Callers,     \* the rights the helper may have: "root", "sudo", "plain"
  Seals,       \* the values of --seal
  Keeps,       \* the values of --keep, NoKeep where it is not given
  MaxStamp,    \* bound: the numbers at the end of a snapshot's name
  MaxVerbs     \* bound: verbs started

\* "open": the caller may read the file; "owned": only root may; "hidden":
\* only root may search its directory; "absent": it is not there.
Guards == {"open", "owned", "hidden", "absent"}
NoKeep == -1

ASSUME HostAssumption ==
  /\ Paths \in Seq([unit : BOOLEAN, guard : Guards])
  /\ Callers \subseteq {"root", "sudo", "plain"}
  /\ Seals \subseteq BOOLEAN /\ Keeps \subseteq Nat \union {NoKeep}
  /\ MaxStamp \in Nat \ {0} /\ MaxVerbs \in Nat

VARIABLES
  caller,   \* the uid and the sudo rights of the deploy user on this target
  pc,       \* where each verb is
  verb,     \* the verb and its flags
  result,   \* its exit: "ok", "usage" (1), "failed" (3); "none" while it runs
  tmp,      \* the staging file beside the destination
  dst,      \* the destination
  next,     \* backup: the path at hand
  stamp,    \* backup: the snapshot directory being written
  doomed,   \* backup: the snapshots prune_snapshots still has to remove
  snaps,    \* what each snapshot directory holds, by its stamp
  verbs     \* verbs started so far

runVars == <<pc, result>>
fileVars == <<tmp, dst>>
snapVars == <<next, stamp, doomed, snaps>>
restVars == <<caller, verb, verbs>>
vars == <<runVars, fileVars, snapVars, restVars>>

NoFile == [data |-> "none", mode |-> "none", owner |-> "none"]
OldFile == [data |-> "old", mode |-> "asked", owner |-> "asked"]
Files == [data : {"none", "old", "part", "new"}, mode : {"none", "umask", "asked"},
          owner : {"none", "caller", "asked"}]

\* The directories beside each other that --dir or the default may name.  The
\* retention rule knows those of the service by the number in their name: one
\* named by hand without a number has 0.  It does not know a name that lacks
\* the prefix.
Stamps == 0..MaxStamp
Elsewhere == -1
Dirs == Stamps \union {Elsewhere}
Forms == {"unit", "enc", "plain"}
Entries == [of : DOMAIN Paths, form : Forms, whole : BOOLEAN]
NoSnap == [there |-> FALSE, entries |-> {}]
Taken == {s \in Stamps : snaps[s].there}

InstallVerb == [kind |-> "install", seal |-> FALSE, keep |-> NoKeep]
DigestVerb == [kind |-> "digest", seal |-> FALSE, keep |-> NoKeep]
BackupVerbs == [kind : {"backup"}, seal : Seals, keep : Keeps]

-----------------------------------------------------------------------------
(* Running a verb. *)

MayElevate == caller \in {"root", "sudo"}
\* What Path::exists says to this caller, who asks without sudo.
Seen(p) == p.guard = "hidden" => caller = "root"
Exists(p) == p.guard # "absent" /\ Seen(p)
\* read_file_maybe_elevated: directly, or with sudo cat after a refusal.
Readable(p) == p.guard = "owned" => MayElevate

Goes(d, to) ==
  /\ pc' = [pc EXCEPT ![d] = to]
  /\ UNCHANGED result
Ends(d, code) ==
  /\ pc' = [pc EXCEPT ![d] = "over"]
  /\ result' = [result EXCEPT ![d] = code]

Start(d, v, at) ==
  /\ pc[d] = "over" /\ verbs < MaxVerbs
  /\ verb' = [verb EXCEPT ![d] = v]
  /\ pc' = [pc EXCEPT ![d] = at]
  /\ result' = [result EXCEPT ![d] = "none"]
  /\ verbs' = verbs + 1
  /\ UNCHANGED <<caller, fileVars>>

\* The steps whose command may fail, and the exits their errors map to.
Errors ==
  [p \in {"guards", "parent", "read", "open", "write", "chmod", "chown", "rename",
          "digest", "mkdir", "seal", "copy", "check", "list", "prune"} |->
     CASE p = "prune" -> {"failed"}
       [] p \in {"guards", "seal", "check", "list"} -> {"usage", "failed"}
       [] OTHER -> {"usage"}]

\* The command of the step fails and has done nothing.
StepFails(d) ==
  /\ pc[d] \in DOMAIN Errors
  /\ \E code \in Errors[pc[d]] : Ends(d, code)
  /\ UNCHANGED <<fileVars, snapVars, restVars>>

\* The helper is killed between two commands.  The target keeps running: what
\* a loss of power leaves of files that nothing syncs is outside.
Killed(d) ==
  /\ pc[d] # "over" /\ Ends(d, "none")
  /\ UNCHANGED <<fileVars, snapVars, restVars>>

-----------------------------------------------------------------------------
(* install *)

InstallStart(d) ==
  /\ Start(d, InstallVerb, "guards")
  /\ UNCHANGED snapVars

\* install_guards, and create_dir_all_elevated when the parent is missing.
InstallGuards(d) ==
  /\ pc[d] = "guards" /\ Goes(d, "parent")
  /\ UNCHANGED <<fileVars, snapVars, restVars>>
MakeParent(d) ==
  /\ pc[d] = "parent" /\ Goes(d, "clear")
  /\ UNCHANGED <<fileVars, snapVars, restVars>>

\* A leftover of an interrupted run goes, if the caller may remove it: the
\* removal is not elevated and its error is ignored.
ClearTmp(d) ==
  /\ pc[d] = "clear" /\ Goes(d, "read")
  /\ tmp' \in IF caller = "root" THEN {NoFile} ELSE {NoFile, tmp}
  /\ UNCHANGED <<dst, snapVars, restVars>>

ReadSource(d) ==
  /\ pc[d] = "read" /\ Goes(d, "open")
  /\ UNCHANGED <<fileVars, snapVars, restVars>>

\* write_file_elevated: root writes and then sets the mode; the others have
\* install(1) create the file with it.
Fresh == [data |-> "part", owner |-> "caller",
          mode |-> IF caller = "root" THEN "umask" ELSE "asked"]
OpenTmp(d) ==
  /\ pc[d] = "open" /\ MayElevate /\ Goes(d, "write")
  /\ tmp' = Fresh
  /\ UNCHANGED <<dst, snapVars, restVars>>

WriteTmp(d) ==
  /\ pc[d] = "write" /\ tmp # NoFile
  /\ Goes(d, IF caller = "root" THEN "chmod" ELSE "chown")
  /\ tmp' = [tmp EXCEPT !.data = "new"]
  /\ UNCHANGED <<dst, snapVars, restVars>>

ChmodTmp(d) ==
  /\ pc[d] = "chmod" /\ tmp # NoFile /\ Goes(d, "chown")
  /\ tmp' = [tmp EXCEPT !.mode = "asked"]
  /\ UNCHANGED <<dst, snapVars, restVars>>

\* sudo chown, which root runs through sudo as well.
ChownTmp(d) ==
  /\ pc[d] = "chown" /\ MayElevate /\ tmp # NoFile /\ Goes(d, "rename")
  /\ tmp' = [tmp EXCEPT !.owner = "asked"]
  /\ UNCHANGED <<dst, snapVars, restVars>>

\* Slip of RenameTmp: copied instead of renamed.
CopyTmp(d) ==
  /\ pc[d] = "rename" /\ MayElevate /\ tmp # NoFile
  /\ \/ dst.data # "part" /\ dst' = Fresh /\ UNCHANGED <<tmp, runVars>>
     \/ dst.data = "part" /\ dst' = tmp /\ tmp' = NoFile /\ Ends(d, "ok")
  /\ UNCHANGED <<snapVars, restVars>>

\* rename(2): the staging file becomes the destination in one step.
RenameTmp(d) ==
  /\ pc[d] = "rename" /\ MayElevate /\ tmp # NoFile
  /\ dst' = tmp /\ tmp' = NoFile
  /\ Ends(d, "ok")
  /\ UNCHANGED <<snapVars, restVars>>

\* assert-digest --local, against the source of the install.
DigestStart(d) ==
  /\ Start(d, DigestVerb, "digest")
  /\ UNCHANGED snapVars
Digest(d) ==
  /\ pc[d] = "digest"
  /\ Ends(d, IF dst.data = "new" THEN "ok" ELSE "failed")
  /\ UNCHANGED <<fileVars, snapVars, restVars>>

-----------------------------------------------------------------------------
(* backup *)

\* The default name carries the time, which the clock of the target sets; a
\* --dir may name any directory, one that is there as well.
BackupStart(d) ==
  /\ \E v \in BackupVerbs : Start(d, v, "mkdir")
  /\ \E s \in Dirs : stamp' = [stamp EXCEPT ![d] = s]
  /\ next' = [next EXCEPT ![d] = 1]
  /\ UNCHANGED <<doomed, snaps>>

NextPlace(d, i) ==
  IF i > Len(Paths) THEN "check"
  ELSE IF verb[d].seal /\ ~Paths[i].unit THEN "seal" ELSE "copy"

MakeDir(d) ==
  /\ pc[d] = "mkdir" /\ Goes(d, NextPlace(d, 1))
  /\ snaps' = [snaps EXCEPT ![stamp[d]].there = TRUE]
  /\ UNCHANGED <<fileVars, next, stamp, doomed, restVars>>

Advance(d) ==
  /\ next' = [next EXCEPT ![d] = @ + 1]
  /\ Goes(d, NextPlace(d, next[d] + 1))

\* "does not exist: nothing to back up"
SkipPath(d) ==
  /\ pc[d] \in {"seal", "copy"} /\ ~Exists(Paths[next[d]])
  /\ Advance(d)
  /\ UNCHANGED <<fileVars, stamp, doomed, snaps, restVars>>

\* An entry replaces what the directory holds for the path in that form.
Put(entries, e) == {x \in entries : ~(x.of = e.of /\ x.form = e.form)} \union {e}
FormOf(d) == IF pc[d] = "seal" THEN "enc"
             ELSE IF Paths[next[d]].unit THEN "unit" ELSE "plain"

\* seal_file, or the copy with mode 0600.
SavePath(d) ==
  /\ pc[d] \in {"seal", "copy"}
  /\ Exists(Paths[next[d]]) /\ Readable(Paths[next[d]]) /\ MayElevate
  /\ snaps[stamp[d]].there
  /\ snaps' = [snaps EXCEPT ![stamp[d]].entries =
                 Put(@, [of |-> next[d], form |-> FormOf(d), whole |-> TRUE])]
  /\ Advance(d)
  /\ UNCHANGED <<fileVars, stamp, doomed, restVars>>

\* Slip of SaveBreaks: the error is reported, and the next path is saved.
BreaksAndGoesOn(d) ==
  /\ pc[d] \in {"seal", "copy"}
  /\ Exists(Paths[next[d]]) /\ Readable(Paths[next[d]]) /\ MayElevate
  /\ snaps[stamp[d]].there
  /\ snaps' = [snaps EXCEPT ![stamp[d]].entries =
                 Put(@, [of |-> next[d], form |-> FormOf(d), whole |-> FALSE])]
  /\ Advance(d)
  /\ UNCHANGED <<fileVars, stamp, doomed, restVars>>

\* It stops in the middle of the file.
SaveBreaks(d) ==
  /\ pc[d] \in {"seal", "copy"}
  /\ Exists(Paths[next[d]]) /\ Readable(Paths[next[d]]) /\ MayElevate
  /\ snaps[stamp[d]].there
  /\ snaps' = [snaps EXCEPT ![stamp[d]].entries =
                 Put(@, [of |-> next[d], form |-> FormOf(d), whole |-> FALSE])]
  /\ Ends(d, "usage")
  /\ UNCHANGED <<fileVars, next, stamp, doomed, restVars>>

\* Every entry is a unit file or an encrypted copy, whatever --seal says.
Unexpected(s) == {e \in snaps[s].entries : e.form = "plain"}

\* Slip of CheckSnapshot: with --seal there is nothing to look for.
CheckOwnForm(d) ==
  /\ pc[d] = "check" /\ snaps[stamp[d]].there
  /\ IF ~verb[d].seal /\ Unexpected(stamp[d]) # {} THEN Ends(d, "failed")
     ELSE IF verb[d].keep = NoKeep THEN Ends(d, "ok") ELSE Goes(d, "list")
  /\ UNCHANGED <<fileVars, snapVars, restVars>>

CheckSnapshot(d) ==
  /\ pc[d] = "check" /\ snaps[stamp[d]].there
  /\ IF Unexpected(stamp[d]) # {} THEN Ends(d, "failed")
     ELSE IF verb[d].keep = NoKeep THEN Ends(d, "ok") ELSE Goes(d, "list")
  /\ UNCHANGED <<fileVars, snapVars, restVars>>

\* prune_snapshots: the `keep` with the highest numbers stay.
\* Slip of Older: the sort is the wrong way round.
Oldest(S, k) == {s \in S : Cardinality({t \in S : t < s}) >= k}
Older(S, k) == {s \in S : Cardinality({t \in S : t > s}) >= k}
ListSnapshots(d) ==
  /\ pc[d] = "list" /\ Goes(d, "prune")
  /\ doomed' = [doomed EXCEPT ![d] = Older(Taken, verb[d].keep)]
  /\ UNCHANGED <<fileVars, next, stamp, snaps, restVars>>

\* shred_and_remove, newest first; as root its errors are ignored.
PruneOne(d) ==
  /\ pc[d] = "prune" /\ doomed[d] # {}
  /\ \E s \in doomed[d] :
       /\ \A t \in doomed[d] : t <= s
       /\ \/ MayElevate /\ snaps' = [snaps EXCEPT ![s] = NoSnap]
          \/ caller = "root" /\ UNCHANGED snaps
       /\ doomed' = [doomed EXCEPT ![d] = @ \ {s}]
  /\ UNCHANGED <<runVars, fileVars, next, stamp, restVars>>
\* Without root's rights the files are shredded first and the directory goes
\* after them; the second command may fail.
PruneBreaks(d) ==
  /\ pc[d] = "prune" /\ doomed[d] # {} /\ caller = "sudo"
  /\ \E s \in doomed[d] : snaps' = [snaps EXCEPT ![s].entries = {}]
  /\ Ends(d, "failed")
  /\ UNCHANGED <<fileVars, next, stamp, doomed, restVars>>
PruneDone(d) ==
  /\ pc[d] = "prune" /\ doomed[d] = {}
  /\ Ends(d, "ok")
  /\ UNCHANGED <<fileVars, snapVars, restVars>>

-----------------------------------------------------------------------------
Init ==
  /\ caller \in Callers
  /\ pc = [d \in Deployers |-> "over"]
  /\ verb = [d \in Deployers |-> DigestVerb]
  /\ result = [d \in Deployers |-> "none"]
  /\ tmp = NoFile /\ dst \in {NoFile, OldFile}
  /\ next = [d \in Deployers |-> 1] /\ stamp = [d \in Deployers |-> 1]
  /\ doomed = [d \in Deployers |-> {}]
  /\ \E hand \in BOOLEAN :
       snaps = [s \in Dirs |-> IF s = 0 THEN [NoSnap EXCEPT !.there = hand]
                                 ELSE NoSnap]
  /\ verbs = 0

Install(d) == \/ InstallStart(d) \/ InstallGuards(d) \/ MakeParent(d)
              \/ ClearTmp(d) \/ ReadSource(d) \/ OpenTmp(d) \/ WriteTmp(d)
              \/ ChmodTmp(d) \/ ChownTmp(d) \/ RenameTmp(d)
Backup(d) == \/ BackupStart(d) \/ MakeDir(d) \/ SkipPath(d) \/ SavePath(d)
             \/ SaveBreaks(d) \/ CheckSnapshot(d) \/ ListSnapshots(d)
             \/ PruneOne(d) \/ PruneBreaks(d) \/ PruneDone(d)

Next ==
  \E d \in Deployers : \/ Install(d) \/ Backup(d)
                       \/ DigestStart(d) \/ Digest(d)
                       \/ StepFails(d) \/ Killed(d)

Spec == Init /\ [][Next]_vars

-----------------------------------------------------------------------------
(* Properties. *)

Places == {"over", "clear"} \union DOMAIN Errors

\* Every variable has its type.
TypeOK ==
  /\ caller \in Callers
  /\ pc \in [Deployers -> Places]
  /\ verb \in [Deployers -> {InstallVerb, DigestVerb} \union BackupVerbs]
  /\ result \in [Deployers -> {"none", "ok", "usage", "failed"}]
  /\ tmp \in Files /\ dst \in Files
  /\ next \in [Deployers -> 1..(Len(Paths) + 1)]
  /\ stamp \in [Deployers -> Dirs]
  /\ doomed \in [Deployers -> SUBSET Stamps]
  /\ snaps \in [Dirs -> [there : BOOLEAN, entries : SUBSET Entries]]
  /\ verbs \in 0..MaxVerbs

\* A reader of the destination sees the old file or the whole new one with
\* the owner and the mode asked for, whatever fails or is killed, and
\* whatever an interrupted run left beside it (install, its doc comment).
DstWhole ==
  /\ dst.data # "part"
  /\ dst.data = "new" => dst.mode = "asked" /\ dst.owner = "asked"

Succeeded(d, kind) == pc[d] = "over" /\ verb[d].kind = kind /\ result[d] = "ok"

\* A backup that succeeded with --seal left no plaintext in its directory,
\* also when an earlier attempt in the same directory did.
SealLeavesNoPlaintext ==
  \A d \in Deployers :
    Succeeded(d, "backup") /\ verb[d].seal => Unexpected(stamp[d]) = {}

\* The paths a directory holds a whole copy of.
Saved(s) == {e.of : e \in {x \in snaps[s].entries : x.whole}}
Wanted == {i \in DOMAIN Paths : Exists(Paths[i])}
Complete(s) == snaps[s].there /\ Wanted \subseteq Saved(s)

\* At least k directories of the service carry a higher number.
Outnumbered(s, k) == Cardinality({t \in Taken : t > s}) >= k

\* "snapshot ready": a backup that succeeded left a directory with a whole
\* copy of every file it could see.  Its own retention rule may have taken it
\* only where --keep is given and as many directories carry a higher number.
ReadyIsComplete ==
  \A d \in Deployers :
    Succeeded(d, "backup") =>
      \/ Complete(stamp[d])
      \/ stamp[d] \in Stamps /\ verb[d].keep # NoKeep
         /\ Outnumbered(stamp[d], verb[d].keep)

\* While the retention rule removes, whatever is still to go is older than
\* --keep directories that are there: what it leaves is the newest.
PruneTakesTheOldest ==
  \A d \in Deployers :
    pc[d] = "prune" => \A s \in doomed[d] : Outnumbered(s, verb[d].keep)
=============================================================================
