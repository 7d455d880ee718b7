---------------------------- MODULE SecretFiles ----------------------------
(***************************************************************************)
(* The encrypted env files of a repository and the identities that open    *)
(* them: `keys generate`, `secret encrypt` and `secret edit` write them    *)
(* through fsx while a deploy resolves @secrets from them.  A process may  *)
(* be killed and the machine may lose its power: a name that was placed    *)
(* survives only when its directory reached the disk, and a directory that *)
(* was made only when the one above it did.                                *)
(***************************************************************************)
EXTENDS Naturals, Sequences, FiniteSets, SequencesExt

CONSTANTS
  Operators,   \* each with an identity file of their own
  Hosts,       \* the aliases the selected steps target, in order: a sequence
  Plains,      \* what a file may decrypt to: functions from names to values
  First,       \* those a file may hold in the initial state
  Missing,     \* the sets of files that may be missing then
  Playbooks,   \* sequences of entries, "all" (shared) and "own" ({host})
  Procs,       \* processes
  MaxJobs,     \* bound: commands started
  MaxLosses    \* bound: losses of power

ASSUME SecretFilesAssumption ==
  /\ First \subseteq Plains /\ {MaxJobs, MaxLosses} \subseteq Nat
  /\ \A b \in Playbooks : ToSet(b) \subseteq {"all", "own"}
  /\ "nobody" \notin Operators /\ "all" \notin ToSet(Hosts)

VARIABLES
  home, homeDisk,      \* the identity files, as seen and as on the disk
  dirs, dirsDisk,      \* operators whose identity has a directory to lie in
  sealed, sealedDisk,  \* the encrypted files, as seen and as on the disk
  lax,        \* operators whose identity file others may read or own
  pubs,       \* public keys somebody has been told
  proc,       \* what each process does
  run,        \* the resolution of @secrets (one deploy at a time)
  reported,   \* observation: the keys whose generation was reported
  lost,       \* observation: those that went with their directory
  jobs, losses

idVars == <<home, homeDisk, dirs, dirsDisk, lax, pubs, reported, lost>>
fileVars == <<sealed, sealedDisk>>
vars == <<idVars, fileVars, proc, run, jobs, losses>>

Files == {"all"} \union ToSet(Hosts)
NoKey == <<"nobody", 0>>
Key(o, n) == <<o, n>>
Owner(k) == k[1]
Absent == [to |-> {}, plain |-> <<>>]
File(to, plain) == [to |-> to, plain |-> plain]
Idle == [pc |-> "over"]
NoRun == [pc |-> "over"]

\* load_x25519_identity: a file others can read or own is refused.
Identity(o) == IF o \in lax THEN NoKey ELSE home[o]

\* decrypt_bytes: one of the recipients.
Opens(k, f) == sealed[f] # Absent /\ k \in sealed[f].to

-----------------------------------------------------------------------------
(* The commands. *)

Start(p) ==
  /\ proc[p].pc = "over" /\ jobs < MaxJobs /\ jobs' = jobs + 1
  /\ UNCHANGED <<idVars, fileVars, losses>>
Over(p) == proc' = [proc EXCEPT ![p] = Idle]

\* `keys generate`: refused when the path exists.
Generate(p) == \E o \in Operators :
  /\ Start(p) /\ home[o] = NoKey
  /\ proc' = [proc EXCEPT ![p] =
                [pc |-> "mkdir", job |-> "keygen", at |-> o, key |-> Key(o, jobs + 1)]]
  /\ UNCHANGED run

\* create_dir_all, and the mode of the directories it made: nothing syncs the
\* entry of the first of them.
MakeDirs(p) ==
  /\ proc[p].pc = "mkdir"
  /\ dirs' = dirs \union {proc[p].at}
  /\ proc' = [proc EXCEPT ![p].pc = "place"]
  /\ UNCHANGED <<home, homeDisk, dirsDisk, lax, pubs, reported, lost, fileVars, run, jobs, losses>>

\* `secret encrypt -o`: to whom the caller says, and to somebody.
Encrypt(p) == \E f \in Files, to \in (SUBSET pubs) \ {{}}, x \in Plains :
  /\ Start(p)
  /\ proc' = [proc EXCEPT ![p] =
                [pc |-> "place", job |-> "write", at |-> f,
                 content |-> File(to, x)]]
  /\ UNCHANGED run

\* `secret edit`: who edits opens the file now and stays a recipient; the
\* plaintext is staged for the editor.
MayEdit(k, to) == k \in to
Edit(p) == \E o \in Operators, f \in Files, to \in (SUBSET pubs) \ {{}} :
  /\ Start(p) /\ Identity(o) # NoKey
  /\ MayEdit(Identity(o), to) /\ Opens(Identity(o), f)
  /\ proc' = [proc EXCEPT ![p] =
                [pc |-> "editor", job |-> "write", at |-> f,
                 content |-> File(to, sealed[f].plain)]]
  /\ UNCHANGED run

\* The editor leaves an env file; leaving anything else is a failure.
Editor(p) ==
  /\ proc[p].pc = "editor"
  /\ \E x \in Plains :
       proc' = [proc EXCEPT ![p].pc = "place", ![p].content = File(@.to, x)]
  /\ UNCHANGED <<idVars, fileVars, run, jobs, losses>>

\* `keys public`.
Public(o) ==
  /\ Identity(o) # NoKey /\ pubs' = pubs \union {Identity(o)} /\ pubs' # pubs
  /\ UNCHANGED <<home, homeDisk, dirs, dirsDisk, lax, reported, lost, fileVars, proc, run,
                  jobs, losses>>

-----------------------------------------------------------------------------
(* fsx: staged under a name nobody else uses, synced, then placed. *)

\* Slip of Link: renamed over what is there.
RenameOver(p) ==
  /\ proc[p].pc = "place" /\ proc[p].job = "keygen"
  /\ home' = [home EXCEPT ![proc[p].at] = proc[p].key]
  /\ lax' = lax \ {proc[p].at}
  /\ proc' = [proc EXCEPT ![p].pc = "sync"]
  /\ UNCHANGED <<homeDisk, dirs, dirsDisk, pubs, reported, lost, fileVars, run, jobs, losses>>

\* write_new_file: a hard link, which an existing name refuses.
Link(p) ==
  /\ proc[p].pc = "place" /\ proc[p].job = "keygen"
  /\ IF home[proc[p].at] = NoKey
     THEN /\ home' = [home EXCEPT ![proc[p].at] = proc[p].key]
          /\ lax' = lax \ {proc[p].at}
          /\ proc' = [proc EXCEPT ![p].pc = "sync"]
     ELSE Over(p) /\ UNCHANGED <<home, lax>>
  /\ UNCHANGED <<homeDisk, dirs, dirsDisk, pubs, reported, lost, fileVars, run, jobs, losses>>

\* write_atomic.
Rename(p) ==
  /\ proc[p].pc = "place" /\ proc[p].job = "write"
  /\ sealed' = [sealed EXCEPT ![proc[p].at] = proc[p].content]
  /\ proc' = [proc EXCEPT ![p].pc = "sync"]
  /\ UNCHANGED <<idVars, sealedDisk, run, jobs, losses>>

\* sync_parent, of the directory that got the name and none above it; the
\* command reports success, and the public key.
Report(p) ==
  IF proc[p].job = "keygen"
  THEN reported' = reported \union {proc[p].key} /\ pubs' = pubs \union {proc[p].key}
  ELSE UNCHANGED <<reported, pubs>>
SyncIdentity(p) ==
  homeDisk' = IF proc[p].job = "keygen"
              THEN [homeDisk EXCEPT ![proc[p].at] = home[proc[p].at]] ELSE homeDisk
Sync(p) ==
  /\ proc[p].pc = "sync" /\ Over(p) /\ Report(p)
  /\ SyncIdentity(p)
  /\ sealedDisk' = IF proc[p].job = "write" THEN sealed ELSE sealedDisk
  /\ UNCHANGED <<home, dirs, dirsDisk, lax, lost, sealed, run, jobs, losses>>

\* Killed; or a command of it fails: what is not placed yet leaves the path
\* alone, and a failing sync is an error although the name is in place.
Fails(p) ==
  /\ proc[p].pc # "over" /\ Over(p)
  /\ UNCHANGED <<idVars, fileVars, run, jobs, losses>>

\* The kernel writes a directory when it likes.
Flush ==
  /\ \/ sealedDisk' = sealed /\ sealedDisk' # sealedDisk /\ UNCHANGED <<homeDisk, dirsDisk>>
     \/ homeDisk' = home /\ homeDisk' # homeDisk /\ UNCHANGED <<sealedDisk, dirsDisk>>
     \/ dirsDisk' = dirs /\ dirsDisk' # dirsDisk /\ UNCHANGED <<sealedDisk, homeDisk>>
  /\ UNCHANGED <<home, dirs, lax, pubs, reported, lost, sealed, proc, run, jobs, losses>>

PowerLoss ==
  /\ losses < MaxLosses /\ losses' = losses + 1
  /\ dirs' = dirsDisk
  /\ home' = [o \in Operators |-> IF o \in dirsDisk THEN homeDisk[o] ELSE NoKey]
  /\ homeDisk' = home' /\ sealed' = sealedDisk
  /\ lax' = {o \in lax : home'[o] # NoKey}
  /\ lost' = lost \union {k \in reported : Owner(k) \notin dirsDisk}
  /\ proc' = [p \in Procs |-> Idle] /\ run' = NoRun
  /\ UNCHANGED <<dirsDisk, sealedDisk, pubs, reported, jobs>>

-----------------------------------------------------------------------------
(* resolve_secrets and overlay. *)

\* The later function wins.
Over2(f, g) == [k \in DOMAIN f \union DOMAIN g |-> IF k \in DOMAIN g THEN g[k] ELSE f[k]]
NoPairs == [k \in {} |-> ""]
Reads(book) ==
  FlattenSeq([i \in DOMAIN book |-> IF book[i] = "own" THEN Hosts ELSE <<"all">>])

\* Identities are loaded once: the run keeps the key it began with.
Deploy == \E o \in Operators, b \in Playbooks :
  /\ run.pc = "over" /\ jobs < MaxJobs /\ jobs' = jobs + 1 /\ Identity(o) # NoKey
  /\ run' = [pc |-> "reads", key |-> Identity(o), todo |-> Reads(b), seen |-> <<>>,
             shared |-> NoPairs, own |-> <<>>]
  /\ UNCHANGED <<idVars, fileVars, proc, losses>>

\* Slip of Extended: every host is given them.
ExtendedAll(own, h, x) ==
  [g \in ToSet(Hosts) |-> IF g \in DOMAIN own THEN Over2(own[g], x) ELSE x]
Extended(own, h, x) ==
  Over2(own, [g \in {h} |-> IF h \in DOMAIN own THEN Over2(own[h], x) ELSE x])

\* decrypt_file: a missing file, or one the key does not open, fails the run.
DecryptFile ==
  /\ run.pc = "reads" /\ run.todo # <<>>
  /\ LET f == Head(run.todo)
         x == sealed[f].plain IN
     IF ~Opens(run.key, f) THEN run' = NoRun
     ELSE run' = [run EXCEPT
            !.todo = Tail(@),
            !.seen = Append(@, <<f, x>>),
            !.shared = IF f = "all" THEN Over2(@, x) ELSE @,
            !.own = IF f = "all" THEN @ ELSE Extended(@, f, x)]
  /\ UNCHANGED <<idVars, fileVars, proc, jobs, losses>>

\* LT_SECRET_KEYS, at most one list of names, and the environment of a host's
\* steps.
Exported(shared) == IF DOMAIN shared = {} THEN {} ELSE {DOMAIN shared}
Given(r, h) == IF h \in DOMAIN r.own THEN Over2(r.shared, r.own[h]) ELSE r.shared
Listed(r, h) ==
  IF h \notin DOMAIN r.own THEN Exported(r.shared)
  ELSE {(UNION Exported(r.shared)) \union DOMAIN r.own[h]}

DeployEnds ==
  /\ run.pc = "reads" /\ run.todo = <<>> /\ run' = NoRun
  /\ UNCHANGED <<idVars, fileVars, proc, jobs, losses>>

-----------------------------------------------------------------------------
Init ==
  /\ \E S \in SUBSET Operators : home = [o \in Operators |-> IF o \in S THEN Key(o, 0) ELSE NoKey]
  /\ dirs \in {S \in SUBSET Operators : \A o \in Operators : home[o] # NoKey => o \in S}
  /\ homeDisk = home /\ dirsDisk = dirs /\ lost = {}
  /\ pubs = {home[o] : o \in Operators} \ {NoKey} /\ reported = pubs
  /\ lax \in SUBSET {o \in Operators : home[o] # NoKey}
  /\ \E m \in Missing, x \in First :
       sealed = [f \in Files |-> IF f \in m THEN Absent ELSE File(pubs, x)]
  /\ sealedDisk = sealed
  /\ proc = [p \in Procs |-> Idle] /\ run = NoRun /\ jobs = 0 /\ losses = 0

Command(p) == \/ Generate(p) \/ MakeDirs(p) \/ Encrypt(p) \/ Edit(p) \/ Editor(p)
              \/ Link(p) \/ Rename(p) \/ Sync(p) \/ Fails(p)
Next == \/ \E p \in Procs : Command(p)
        \/ \E o \in Operators : Public(o)
        \/ Flush \/ PowerLoss \/ Deploy \/ DecryptFile \/ DeployEnds
Spec == Init /\ [][Next]_vars

-----------------------------------------------------------------------------
(* Properties. *)

\* What was sealed to a key whose generation was reported can still be read:
\* the key stays in its place.  No other `keys generate` replaces it and no
\* loss of power takes it back (fsx.rs write_new_file, sync_parent), but for
\* one that comes before the kernel has written the directory it lies in.
CanStillRead == \A k \in reported \ lost : home[Owner(k)] = k

\* The reads, in their order, of file f; those of them that hold name k; and
\* the value the last of those gave it.
ReadsOf(seen, f) == {i \in DOMAIN seen : seen[i][1] = f}
Holding(seen, f, k) == {i \in ReadsOf(seen, f) : k \in DOMAIN seen[i][2]}
Names(seen, f) == UNION {DOMAIN seen[i][2] : i \in ReadsOf(seen, f)}
Latest(seen, f, k) ==
  LET S == Holding(seen, f, k)
  IN seen[CHOOSE i \in S : \A j \in S : j <= i][2][k]

\* The values a file of host h, or a shared one, held when it was read; the
\* last wins, and the host's own win over the shared.
FromFiles(h) ==
  [k \in Names(run.seen, "all") \union Names(run.seen, h) |->
     Latest(run.seen, IF k \in Names(run.seen, h) THEN h ELSE "all", k)]

\* A host is given the values of the shared files and of its own, of no other
\* host, and its LT_SECRET_KEYS names exactly them; the list is empty, which
\* clears a credential store, only for a host whose own file is empty
\* (secrets.rs, the comment over LT_SECRET_KEYS).
HostHasItsOwn ==
  run.pc = "reads" /\ run.todo = <<>> =>
    \A h \in ToSet(Hosts) :
      /\ Given(run, h) = FromFiles(h)
      /\ IF Listed(run, h) = {} THEN DOMAIN FromFiles(h) = {}
         ELSE Listed(run, h) = {DOMAIN FromFiles(h)}
      /\ Listed(run, h) = {{}} => ReadsOf(run.seen, h) # {}
=============================================================================
