------------------------- MODULE SecretFilesProofs -------------------------
(***************************************************************************)
(* Proofs about the identities and the encrypted files, for every number   *)
(* of operators, processes, commands and losses of power: a reported       *)
(* identity is never replaced, and lost only with a directory that was not *)
(* on the disk; and a host is given what its files held and no other's.    *)
(***************************************************************************)
EXTENDS SecretFiles, TLAPS

\* What a process is about to place, and what a generated key waits for.
Generating(p) == \E o \in Operators, n \in Nat, c \in {"mkdir", "place", "sync"} :
  /\ proc[p] = [pc |-> c, job |-> "keygen", at |-> o, key |-> Key(o, n)]
  /\ c = "sync" => home[o] = Key(o, n)
Writing(p) == \E c \in {"editor", "place", "sync"}, f \in Files : \E x :
  proc[p] = [pc |-> c, job |-> "write", at |-> f, content |-> x]

ProcInv ==
  /\ DOMAIN proc = Procs /\ jobs \in Nat
  /\ \A p \in Procs : proc[p] = Idle \/ Generating(p) \/ Writing(p)
\* A reported key is in its place, and its directory has it on the disk.
KeyInv ==
  /\ DOMAIN home = Operators /\ DOMAIN homeDisk = Operators
  /\ \A k \in reported \ lost : Owner(k) \in Operators /\ home[Owner(k)] = k
                                /\ homeDisk[Owner(k)] = k
SecretInv == ProcInv /\ KeyInv

-----------------------------------------------------------------------------
LEMMA KeysDiffer == \A o \in Operators, n \in Nat : Key(o, n) # NoKey /\ Owner(Key(o, n)) = o
  BY SecretFilesAssumption DEF Key, NoKey, Owner

LEMMA SecretStart == Init => SecretInv
<1> SUFFICES ASSUME Init PROVE SecretInv
  OBVIOUS
<1>1. ProcInv
  BY DEF Init, ProcInv
<1>2. KeyInv
  <2>1. PICK S \in SUBSET Operators :
          home = [o \in Operators |-> IF o \in S THEN Key(o, 0) ELSE NoKey]
    BY DEF Init
  <2>2. \A k \in reported : \E o \in Operators : home[o] = k /\ k # NoKey
    BY DEF Init
  <2>3. \A o \in Operators : home[o] # NoKey => Owner(home[o]) = o
    BY <2>1, KeysDiffer
  <2> QED BY <2>1, <2>2, <2>3 DEF KeyInv, Init
<1> QED BY <1>1, <1>2 DEF SecretInv

\* A process that becomes idle, or takes up work, leaves the others alone.
LEMMA ProcOne ==
  ASSUME ProcInv, NEW p \in Procs, NEW v, proc' = [proc EXCEPT ![p] = v],
         jobs' \in Nat,
         \A q \in Procs : q # p /\ Generating(q) => Generating(q)',
         v = Idle \/ Generating(p)' \/ Writing(p)'
  PROVE  ProcInv'
<1>1. DOMAIN proc' = Procs /\ proc'[p] = v /\ \A q \in Procs : q # p => proc'[q] = proc[q]
  BY DEF ProcInv
<1>2. \A q \in Procs : q # p /\ Writing(q) => Writing(q)'
  BY <1>1 DEF Writing
<1> QED BY <1>1, <1>2 DEF ProcInv

\* What a process does tells what it is.
LEMMA JobsDiffer ==
  ASSUME NEW p \in Procs
  PROVE  /\ Generating(p) => /\ proc[p].job = "keygen"
                             /\ proc[p].pc \in {"mkdir", "place", "sync"}
         /\ Writing(p) => /\ proc[p].job = "write"
                          /\ proc[p].pc \in {"editor", "place", "sync"}
         /\ proc[p] = Idle => proc[p].pc = "over"
<1>1. Generating(p) => proc[p].job = "keygen" /\ proc[p].pc \in {"mkdir", "place", "sync"}
  BY DEF Generating
<1>2. Writing(p) => proc[p].job = "write" /\ proc[p].pc \in {"editor", "place", "sync"}
  BY DEF Writing
<1>3. proc[p] = Idle => proc[p].pc = "over"
  BY DEF Idle
<1> QED BY <1>1, <1>2, <1>3

\* The identities are as they were.
LEMMA SameHome ==
  ASSUME NEW q \in Procs, Generating(q), proc'[q] = proc[q], home' = home
  PROVE  Generating(q)'
  BY DEF Generating

-----------------------------------------------------------------------------
(* The commands. *)

\* A command that touches neither the identities nor what was reported.
LEMMA WorkStep ==
  ASSUME SecretInv, NEW p \in Procs,
         \/ Generate(p) \/ MakeDirs(p) \/ Encrypt(p) \/ Edit(p) \/ Editor(p)
         \/ Rename(p) \/ Fails(p)
  PROVE  SecretInv'
<1> USE DEF SecretInv
<1>1. UNCHANGED <<home, homeDisk, reported, lost>> /\ jobs' \in Nat
  BY DEF Generate, MakeDirs, Encrypt, Edit, Editor, Rename, Fails, Start, idVars, ProcInv
<1>2. KeyInv'
  BY <1>1 DEF KeyInv
<1>3. \A q \in Procs : q # p /\ Generating(q) /\ proc'[q] = proc[q] => Generating(q)'
  BY <1>1, SameHome
<1>4. \A v : proc' = [proc EXCEPT ![p] = v] =>
        \A q \in Procs : q # p /\ Generating(q) => Generating(q)'
  BY <1>3 DEF ProcInv
<1>5. CASE Generate(p)
  <2>1. PICK o \in Operators :
          proc' = [proc EXCEPT ![p] =
                     [pc |-> "mkdir", job |-> "keygen", at |-> o, key |-> Key(o, jobs + 1)]]
    BY <1>5 DEF Generate
  <2>2. jobs + 1 \in Nat
    BY DEF ProcInv
  <2>3. Generating(p)'
    BY <2>1, <2>2 DEF Generating, ProcInv
  <2> QED BY <1>1, <1>2, <1>4, <2>1, <2>3, ProcOne
<1>6. CASE MakeDirs(p)
  <2>1. Generating(p)
    BY <1>6, JobsDiffer DEF MakeDirs, ProcInv
  <2>2. PICK o \in Operators, n \in Nat :
          \E c : proc[p] = [pc |-> c, job |-> "keygen", at |-> o, key |-> Key(o, n)]
    BY <2>1 DEF Generating
  <2> DEFINE v == [pc |-> "place", job |-> "keygen", at |-> o, key |-> Key(o, n)]
  <2>3. [proc[p] EXCEPT !.pc = "place"] = v
    BY <2>2
  <2>4. proc' = [proc EXCEPT ![p] = [proc[p] EXCEPT !.pc = "place"]]
    BY <1>6 DEF MakeDirs, ProcInv
  <2>5. proc' = [proc EXCEPT ![p] = v]
    BY <2>3, <2>4
  <2>6. Generating(p)'
    BY <2>5 DEF Generating, ProcInv
  <2> HIDE DEF v
  <2> QED BY <1>1, <1>2, <1>4, <2>5, <2>6, ProcOne
<1>7. CASE Encrypt(p) \/ Edit(p)
  <2>1. PICK c \in {"editor", "place"}, f \in Files : \E x :
          proc' = [proc EXCEPT ![p] =
                     [pc |-> c, job |-> "write", at |-> f, content |-> x]]
    BY <1>7 DEF Encrypt, Edit
  <2>2. PICK x :
          proc' = [proc EXCEPT ![p] =
                     [pc |-> c, job |-> "write", at |-> f, content |-> x]]
    BY <2>1
  <2>3. Writing(p)'
    BY <2>2 DEF Writing, ProcInv
  <2> QED BY <1>1, <1>2, <1>4, <2>2, <2>3, ProcOne
<1>8. CASE Editor(p) \/ Rename(p)
  <2>1. Writing(p)
    BY <1>8, JobsDiffer DEF Editor, Rename, ProcInv
  <2>2. PICK f \in Files : \E c, x :
          proc[p] = [pc |-> c, job |-> "write", at |-> f, content |-> x]
    BY <2>1 DEF Writing
  <2>3. PICK c \in {"place", "sync"} : \E y :
          proc' = [proc EXCEPT ![p].pc = c, ![p].content = y]
    <3>1. CASE Editor(p)
      <4>1. PICK x \in Plains : proc' = [proc EXCEPT ![p].pc = "place",
                                           ![p].content = File(@.to, x)]
        BY <3>1 DEF Editor
      <4>2. proc' = [proc EXCEPT ![p].pc = "place",
                       ![p].content = File(proc[p].content.to, x)]
        BY <2>2, <4>1 DEF ProcInv
      <4> QED BY <4>2
    <3>2. CASE Rename(p)
      <4>1. proc' = [proc EXCEPT ![p] = [proc[p] EXCEPT !.pc = "sync"]]
        BY <3>2 DEF Rename, ProcInv
      <4>2. [proc[p] EXCEPT !.pc = "sync"]
              = [proc[p] EXCEPT !.pc = "sync", !.content = proc[p].content]
        BY <2>2
      <4>3. proc' = [proc EXCEPT ![p] =
                       [proc[p] EXCEPT !.pc = "sync", !.content = proc[p].content]]
        BY <4>1, <4>2
      <4>4. proc' = [proc EXCEPT ![p].pc = "sync", ![p].content = proc[p].content]
        BY <4>3 DEF ProcInv
      <4> QED BY <4>4
    <3> QED BY <1>8, <3>1, <3>2
  <2>4. PICK y : proc' = [proc EXCEPT ![p].pc = c, ![p].content = y]
    BY <2>3
  <2> DEFINE w == [pc |-> c, job |-> "write", at |-> f, content |-> y]
  <2>5. [proc[p] EXCEPT !.pc = c, !.content = y] = w
    <3>1. PICK c0, x : proc[p] = [pc |-> c0, job |-> "write", at |-> f, content |-> x]
      BY <2>2
    <3> DEFINE m == [pc |-> c, job |-> "write", at |-> f, content |-> x]
    <3>2. [proc[p] EXCEPT !.pc = c] = m
      BY <3>1
    <3>3. [m EXCEPT !.content = y] = w
      OBVIOUS
    <3> HIDE DEF m, w
    <3> QED BY <3>2, <3>3
  <2>6. proc' = [proc EXCEPT ![p] = [proc[p] EXCEPT !.pc = c, !.content = y]]
    BY <2>4 DEF ProcInv
  <2>7. proc' = [proc EXCEPT ![p] = w]
    BY <2>5, <2>6
  <2>8. Writing(p)'
    BY <2>7 DEF Writing, ProcInv
  <2> HIDE DEF w
  <2> QED BY <1>1, <1>2, <1>4, <2>7, <2>8, ProcOne
<1>9. CASE Fails(p)
  <2>1. proc' = [proc EXCEPT ![p] = Idle]
    BY <1>9 DEF Fails, Over
  <2> QED BY <1>1, <1>2, <1>4, <2>1, ProcOne
<1> QED BY <1>5, <1>6, <1>7, <1>8, <1>9

\* A name is taken only while it is free.
LEMMA LinkStep ==
  ASSUME SecretInv, NEW p \in Procs, Link(p) PROVE SecretInv'
<1> USE DEF SecretInv
<1>1. /\ UNCHANGED <<homeDisk, reported, lost, jobs>>
      /\ proc[p].pc = "place" /\ proc[p].job = "keygen"
  BY DEF Link
<1>3. PICK o \in Operators, n \in Nat :
        proc[p] = [pc |-> "place", job |-> "keygen", at |-> o, key |-> Key(o, n)]
  <2>1. ~Writing(p) /\ proc[p] # Idle
    BY <1>1, JobsDiffer
  <2> QED BY <1>1, <2>1 DEF ProcInv, Generating
<1>4. CASE home[o] = NoKey
  <2>1. home' = [home EXCEPT ![o] = Key(o, n)] /\ proc' = [proc EXCEPT ![p].pc = "sync"]
    BY <1>3, <1>4 DEF Link
  <2> DEFINE v == [pc |-> "sync", job |-> "keygen", at |-> o, key |-> Key(o, n)]
  <2>8. [proc[p] EXCEPT !.pc = "sync"] = v
    BY <1>3
  <2>9. proc' = [proc EXCEPT ![p] = [proc[p] EXCEPT !.pc = "sync"]]
    BY <2>1 DEF ProcInv
  <2>2. proc' = [proc EXCEPT ![p] = v]
    BY <2>8, <2>9
  <2>3. home'[o] = Key(o, n) /\ \A r \in Operators : r # o => home'[r] = home[r]
    BY <2>1 DEF KeyInv
  <2>4. Generating(p)'
    BY <2>2, <2>3 DEF Generating, ProcInv
  <2>5. ASSUME NEW q \in Procs, q # p, Generating(q) PROVE Generating(q)'
    <3>1. proc'[q] = proc[q]
      BY <2>2, <2>5 DEF ProcInv
    <3>2. PICK r \in Operators, m \in Nat, c \in {"mkdir", "place", "sync"} :
            /\ proc[q] = [pc |-> c, job |-> "keygen", at |-> r, key |-> Key(r, m)]
            /\ c = "sync" => home[r] = Key(r, m)
      BY <2>5 DEF Generating
    <3>3. c = "sync" => home'[r] = Key(r, m)
      BY <1>4, <2>3, <3>2, KeysDiffer
    <3> QED BY <3>1, <3>2, <3>3 DEF Generating
  <2>6. ProcInv'
    BY <1>1, <2>2, <2>4, <2>5, ProcOne DEF ProcInv
  <2>7. KeyInv'
    <3>1. \A k \in reported \ lost : Owner(k) # o
      <4> SUFFICES ASSUME NEW k \in reported \ lost, Owner(k) = o PROVE FALSE
        OBVIOUS
      <4>1. k = NoKey
        BY <1>4 DEF KeyInv
      <4> QED BY <4>1, SecretFilesAssumption DEF NoKey, Owner
    <3> QED BY <1>1, <2>1, <2>3, <3>1 DEF KeyInv
  <2> QED BY <2>6, <2>7
<1>5. CASE home[o] # NoKey
  <2>1. UNCHANGED home /\ proc' = [proc EXCEPT ![p] = Idle]
    BY <1>3, <1>5 DEF Link, Over
  <2>2. \A q \in Procs : q # p /\ Generating(q) => Generating(q)'
    BY <2>1, SameHome DEF ProcInv
  <2>3. ProcInv'
    BY <1>1, <2>1, <2>2, ProcOne DEF ProcInv
  <2> QED BY <1>1, <2>1, <2>3 DEF KeyInv
<1> QED BY <1>4, <1>5

\* The directory is on the disk, and the command reports.
LEMMA SyncStep ==
  ASSUME SecretInv, NEW p \in Procs, Sync(p) PROVE SecretInv'
<1> USE DEF SecretInv
<1>1. /\ UNCHANGED <<home, lost, jobs>> /\ proc' = [proc EXCEPT ![p] = Idle]
      /\ proc[p].pc = "sync"
  BY DEF Sync, Over
<1>2. \A q \in Procs : q # p /\ Generating(q) => Generating(q)'
  BY <1>1, SameHome DEF ProcInv
<1>3. jobs' \in Nat
  BY <1>1 DEF ProcInv
<1>4. ProcInv'
  BY <1>1, <1>2, <1>3, ProcOne
<1>5. KeyInv'
  <2>1. CASE proc[p].job # "keygen"
    BY <1>1, <2>1 DEF Sync, SyncIdentity, Report, KeyInv
  <2>2. CASE proc[p].job = "keygen"
    <3>1. Generating(p)
      BY <1>1, <2>2, JobsDiffer DEF ProcInv
    <3>2. PICK o \in Operators, n \in Nat :
            proc[p].at = o /\ proc[p].key = Key(o, n) /\ home[o] = Key(o, n)
      BY <1>1, <3>1 DEF Generating
    <3>3. /\ reported' = reported \union {Key(o, n)}
          /\ homeDisk' = [homeDisk EXCEPT ![o] = home[o]]
      BY <2>2, <3>2 DEF Sync, SyncIdentity, Report
    <3>4. Owner(Key(o, n)) = o
      BY KeysDiffer
    <3>5. DOMAIN homeDisk' = Operators /\ homeDisk'[o] = home[o]
          /\ \A r \in Operators : r # o => homeDisk'[r] = homeDisk[r]
      BY <3>3 DEF KeyInv
    <3> QED BY <1>1, <3>2, <3>3, <3>4, <3>5 DEF KeyInv
  <2> QED BY <2>1, <2>2
<1> QED BY <1>4, <1>5

-----------------------------------------------------------------------------
\* A loss of power takes the names back that no directory holds, and the
\* directories that were not written.
LEMMA MachineStep ==
  ASSUME SecretInv,
         \/ Flush \/ PowerLoss \/ Deploy \/ DecryptFile \/ DeployEnds
         \/ UNCHANGED vars \/ \E o \in Operators : Public(o)
  PROVE  SecretInv'
<1> USE DEF SecretInv
<1>1. CASE PowerLoss
  <2>1. ProcInv'
    BY <1>1 DEF PowerLoss, ProcInv
  <2>2. /\ home' = [o \in Operators |-> IF o \in dirsDisk THEN homeDisk[o] ELSE NoKey]
        /\ homeDisk' = home' /\ reported' = reported
        /\ lost' = lost \union {k \in reported : Owner(k) \notin dirsDisk}
    BY <1>1 DEF PowerLoss
  <2>3. KeyInv'
    <3>1. ASSUME NEW k \in reported \ lost, k \notin lost'
          PROVE  Owner(k) \in Operators /\ home'[Owner(k)] = k
      <4>1. Owner(k) \in dirsDisk
        BY <2>2, <3>1
      <4>2. Owner(k) \in Operators /\ homeDisk[Owner(k)] = k
        BY DEF KeyInv
      <4> QED BY <2>2, <4>1, <4>2
    <3> QED BY <2>2, <3>1 DEF KeyInv
  <2> QED BY <2>1, <2>3
<1>2. CASE ~PowerLoss
  <2>1. /\ UNCHANGED <<home, proc, reported, lost>>
        /\ homeDisk' \in {home, homeDisk} /\ jobs' \in Nat
    BY <1>2 DEF Flush, Deploy, DecryptFile, DeployEnds, vars, idVars, Public, ProcInv
  <2>2. ProcInv'
    <3>1. \A q \in Procs : Generating(q) => Generating(q)'
      BY <2>1, SameHome
    <3>2. \A q \in Procs : Writing(q) => Writing(q)'
      BY <2>1 DEF Writing
    <3> QED BY <2>1, <3>1, <3>2 DEF ProcInv
  <2>3. KeyInv'
    BY <2>1 DEF KeyInv
  <2> QED BY <2>2, <2>3
<1> QED BY <1>1, <1>2

\* A reported identity is never replaced, and no loss of power takes it but
\* one that comes before its directory was written.
THEOREM ReadersKept == Spec => []CanStillRead
<1>1. SecretInv /\ [Next]_vars => SecretInv'
  BY WorkStep, LinkStep, SyncStep, MachineStep DEF Next, Command
<1>2. SecretInv => CanStillRead
  BY DEF SecretInv, KeyInv, CanStillRead
<1> QED BY SecretStart, <1>1, <1>2, PTL DEF Spec

-----------------------------------------------------------------------------
(* What a run resolves. *)

\* Of the reads that hold a name one is the last.
LastReads(seen) == \A i \in DOMAIN seen : \A k \in DOMAIN seen[i][2] :
  LET S == Holding(seen, seen[i][1], k) IN \E m \in S : \A j \in S : j <= m

\* What the run holds is what its reads gave it.
RunInv ==
  run.pc = "reads" =>
    /\ DOMAIN run = {"pc", "key", "todo", "seen", "shared", "own"}
    /\ \E S : run.seen \in Seq(S)
    /\ LastReads(run.seen)
    /\ run.shared = [k \in Names(run.seen, "all") |-> Latest(run.seen, "all", k)]
    /\ \A h \in ToSet(Hosts) :
         /\ h \in DOMAIN run.own <=> ReadsOf(run.seen, h) # {}
         /\ h \in DOMAIN run.own =>
              /\ DOMAIN run.own[h] = Names(run.seen, h)
              /\ \A k \in Names(run.seen, h) : run.own[h][k] = Latest(run.seen, h, k)


LEMMA NameIs ==
  ASSUME NEW seen, NEW f, NEW k
  PROVE  k \in Names(seen, f) <=> \E i \in ReadsOf(seen, f) : k \in DOMAIN seen[i][2]
BY DEF Names

\* One more read.
LEMMA Appended ==
  ASSUME NEW S, NEW seen \in Seq(S), NEW r, NEW after,
         after = Append(seen, r)
  PROVE  /\ after \in Seq(S \union {r})
         /\ Len(seen) \in Nat /\ DOMAIN seen = 1..Len(seen)
         /\ DOMAIN after = DOMAIN seen \union {Len(seen) + 1}
         /\ after[Len(seen) + 1] = r
         /\ \A i \in DOMAIN seen : after[i] = seen[i]
<1>1. seen \in Seq(S \union {r}) /\ r \in S \union {r}
  OBVIOUS
<1> QED BY <1>1

\* It is one of the reads of its file and of no other.
LEMMA ReadAgain ==
  ASSUME NEW S, NEW seen \in Seq(S), NEW r, NEW g
  PROVE  /\ ReadsOf(Append(seen, r), g)
              = ReadsOf(seen, g) \union (IF g = r[1] THEN {Len(seen) + 1} ELSE {})
         /\ Names(Append(seen, r), g) = Names(seen, g)
                                           \union (IF g = r[1] THEN DOMAIN r[2] ELSE {})
<1> DEFINE n == Len(seen) + 1
           after == Append(seen, r)
<1>1. /\ Len(seen) \in Nat /\ DOMAIN seen = 1..Len(seen) /\ n \notin DOMAIN seen
      /\ DOMAIN after = DOMAIN seen \union {n}
      /\ after[n] = r
      /\ \A i \in DOMAIN seen : after[i] = seen[i]
  BY Appended
<1> HIDE DEF n, after
<1>2. ReadsOf(after, g) = ReadsOf(seen, g) \union (IF g = r[1] THEN {n} ELSE {})
  BY <1>1 DEF ReadsOf
<1>3. ASSUME NEW k
      PROVE  k \in Names(after, g) <=> k \in Names(seen, g) \/ (g = r[1] /\ k \in DOMAIN r[2])
  <2>1. k \in Names(after, g) <=> \E i \in ReadsOf(after, g) : k \in DOMAIN after[i][2]
    BY NameIs
  <2>2. k \in Names(seen, g) <=> \E i \in ReadsOf(seen, g) : k \in DOMAIN seen[i][2]
    BY NameIs
  <2>3. \A i \in ReadsOf(seen, g) : after[i] = seen[i]
    BY <1>1 DEF ReadsOf
  <2> QED BY <1>1, <1>2, <2>1, <2>2, <2>3
<1> QED BY <1>2, <1>3 DEF n, after

\* It has the last word on the names it holds, and on no other.
LEMMA LatestAgain ==
  ASSUME NEW S, NEW seen \in Seq(S), NEW r, LastReads(seen),
         NEW g, NEW k \in Names(Append(seen, r), g)
  PROVE  /\ Latest(Append(seen, r), g, k)
              = IF g = r[1] /\ k \in DOMAIN r[2] THEN r[2][k] ELSE Latest(seen, g, k)
         /\ \E m \in Holding(Append(seen, r), g, k) :
              \A j \in Holding(Append(seen, r), g, k) : j <= m
<1> DEFINE n == Len(seen) + 1
           after == Append(seen, r)
<1>1. /\ Len(seen) \in Nat /\ DOMAIN seen = 1..Len(seen)
      /\ DOMAIN after = DOMAIN seen \union {n}
      /\ after[n] = r
      /\ \A i \in DOMAIN seen : after[i] = seen[i]
  BY Appended
<1>2. n \in Nat /\ n \notin DOMAIN seen /\ \A i \in DOMAIN seen : i \in Nat /\ i <= n
  BY <1>1
<1> HIDE DEF n, after
<1>3. ReadsOf(after, g) = ReadsOf(seen, g) \union (IF g = r[1] THEN {n} ELSE {})
  BY ReadAgain DEF n, after
<1>4. CASE g = r[1] /\ k \in DOMAIN r[2]
  <2> DEFINE H == Holding(after, g, k)
             m == CHOOSE i \in H : \A j \in H : j <= i
  <2>1. n \in H /\ \A i \in H : i <= n /\ i \in Nat
    BY <1>1, <1>2, <1>3, <1>4 DEF Holding, ReadsOf
  <2>2. m \in H /\ \A j \in H : j <= m
    BY <2>1
  <2>3. m = n
    <3> HIDE DEF m, H
    <3> QED BY <1>2, <2>1, <2>2
  <2>4. Latest(after, g, k) = after[m][2][k]
    BY DEF Latest
  <2> QED BY <1>1, <1>4, <2>1, <2>3, <2>4 DEF after
<1>5. CASE ~(g = r[1] /\ k \in DOMAIN r[2])
  <2> DEFINE H == Holding(seen, g, k)
             m == CHOOSE i \in H : \A j \in H : j <= i
  <2>1. Holding(after, g, k) = H
    BY <1>1, <1>2, <1>3, <1>5 DEF Holding, ReadsOf
  <2>2. PICK i \in ReadsOf(after, g) : k \in DOMAIN after[i][2]
    BY NameIs DEF after
  <2>3. i \in DOMAIN seen /\ seen[i][1] = g /\ k \in DOMAIN seen[i][2]
    BY <1>1, <1>3, <1>5, <2>2 DEF ReadsOf
  <2>4. \E i0 \in H : \A j \in H : j <= i0
    BY <2>3 DEF LastReads
  <2>5. m \in H
    BY <2>4
  <2>6. after[m] = seen[m]
    BY <1>1, <2>5 DEF Holding, ReadsOf
  <2>7. Latest(after, g, k) = after[m][2][k] /\ Latest(seen, g, k) = seen[m][2][k]
    BY <2>1 DEF Latest
  <2> QED BY <1>5, <2>1, <2>4, <2>6, <2>7 DEF after
<1> QED BY <1>4, <1>5

\* A run begins with no reads, each read adds to what it holds, and nothing else
\* touches it.
LEMMA RunStart == Init => RunInv
  BY DEF Init, RunInv, NoRun

LEMMA DeployStep == ASSUME Deploy PROVE RunInv'
<1>1. PICK o \in Operators, b \in Playbooks :
        run' = [pc |-> "reads", key |-> Identity(o), todo |-> Reads(b), seen |-> <<>>,
                shared |-> NoPairs, own |-> <<>>]
  BY DEF Deploy
<1>7. DOMAIN run' = {"pc", "key", "todo", "seen", "shared", "own"}
  BY <1>1
<1>2. /\ run'.seen = <<>> /\ run'.shared = NoPairs /\ run'.own = <<>>
      /\ DOMAIN run'.own = {} /\ DOMAIN run'.seen = {}
  BY <1>1
<1>3. \A f : ReadsOf(<<>>, f) = {} /\ Names(<<>>, f) = {}
  BY DEF ReadsOf, Names
<1>4. LastReads(<<>>)
  BY DEF LastReads
<1>5. <<>> \in Seq({})
  OBVIOUS
<1>6. run'.shared = [k \in Names(run'.seen, "all") |-> Latest(run'.seen, "all", k)]
  <2>1. Names(run'.seen, "all") = {}
    BY <1>2, <1>3
  <2> QED BY <1>2, <2>1 DEF NoPairs
<1> QED BY <1>2, <1>3, <1>4, <1>5, <1>6, <1>7 DEF RunInv

LEMMA DecryptStep == ASSUME RunInv, DecryptFile PROVE RunInv'
<1>1. CASE run' = NoRun
  BY <1>1 DEF RunInv, NoRun
<1>2. CASE run' # NoRun
  <2> DEFINE f == Head(run.todo)
             x == sealed[f].plain
  <2>1. /\ run.pc = "reads"
        /\ run' = [run EXCEPT
            !.todo = Tail(@),
            !.seen = Append(@, <<f, x>>),
            !.shared = IF f = "all" THEN Over2(@, x) ELSE @,
            !.own = IF f = "all" THEN @ ELSE Extended(@, f, x)]
    BY <1>2 DEF DecryptFile
  <2>2. DOMAIN run' = DOMAIN run /\ run'.pc = "reads" /\ run'.seen = Append(run.seen, <<f, x>>)
        /\ run'.shared = (IF f = "all" THEN Over2(run.shared, x) ELSE run.shared)
        /\ run'.own = (IF f = "all" THEN run.own ELSE Extended(run.own, f, x))
    BY <2>1 DEF RunInv
  <2> DEFINE r == <<f, x>>
  <2>8. r[1] = f /\ r[2] = x
    OBVIOUS
  <2> HIDE DEF f, x
  <2>3. PICK S : run.seen \in Seq(S)
    BY <2>1 DEF RunInv
  <2> DEFINE seen == run.seen
             after == run'.seen
  <2>4. /\ \E T : after \in Seq(T)
        /\ LastReads(after)
        /\ ReadsOf(after, f) # {}
        /\ Names(after, f) = Names(seen, f) \union DOMAIN x
        /\ \A k \in Names(after, f) :
             Latest(after, f, k) = IF k \in DOMAIN x THEN x[k] ELSE Latest(seen, f, k)
        /\ \A g : g # f => /\ ReadsOf(after, g) = ReadsOf(seen, g)
                           /\ Names(after, g) = Names(seen, g)
                           /\ \A k \in Names(seen, g) : Latest(after, g, k) = Latest(seen, g, k)
    <3>1. seen \in Seq(S) /\ LastReads(seen) /\ after = Append(seen, r)
      BY <2>1, <2>2, <2>3 DEF RunInv
    <3> HIDE DEF after, seen, r
    <3>2. ASSUME NEW g
          PROVE  /\ ReadsOf(after, g) = ReadsOf(seen, g)
                                          \union (IF g = r[1] THEN {Len(seen) + 1} ELSE {})
                 /\ Names(after, g) = Names(seen, g) \union (IF g = r[1] THEN DOMAIN r[2] ELSE {})
      BY <3>1, ReadAgain
    <3>3. ASSUME NEW g, NEW k \in Names(after, g)
          PROVE  /\ Latest(after, g, k)
                      = IF g = r[1] /\ k \in DOMAIN r[2] THEN r[2][k] ELSE Latest(seen, g, k)
                 /\ \E m \in Holding(after, g, k) : \A j \in Holding(after, g, k) : j <= m
      BY <3>1, LatestAgain
    <3>4. after \in Seq(S \union {r})
      BY <3>1, Appended
    <3>5. LastReads(after)
      <4>1. \A i \in DOMAIN after : \A k \in DOMAIN after[i][2] : k \in Names(after, after[i][1])
        BY DEF Names, ReadsOf
      <4> QED BY <3>3, <4>1 DEF LastReads
    <3> QED BY <2>8, <3>2, <3>3, <3>4, <3>5
  <2>5. run'.shared = [k \in Names(after, "all") |-> Latest(after, "all", k)]
    <3>1. run.shared = [k \in Names(seen, "all") |-> Latest(seen, "all", k)]
      BY <2>1 DEF RunInv
    <3>2. CASE f = "all"
      <4>1. run'.shared = [k \in Names(after, f) |->
                             IF k \in DOMAIN x THEN x[k] ELSE run.shared[k]]
        BY <2>2, <2>4, <3>1, <3>2 DEF Over2
      <4>2. ASSUME NEW k \in Names(after, f)
            PROVE  (IF k \in DOMAIN x THEN x[k] ELSE run.shared[k]) = Latest(after, f, k)
        BY <2>4, <3>1, <3>2
      <4> QED BY <3>2, <4>1, <4>2
    <3>3. CASE f # "all"
      BY <2>2, <2>4, <3>1, <3>3
    <3> QED BY <3>2, <3>3
  <2>6. ASSUME NEW h \in ToSet(Hosts)
        PROVE  /\ h \in DOMAIN run'.own <=> ReadsOf(after, h) # {}
               /\ h \in DOMAIN run'.own =>
                    /\ DOMAIN run'.own[h] = Names(after, h)
                    /\ \A k \in Names(after, h) : run'.own[h][k] = Latest(after, h, k)
    <3>1. h # "all"
      BY SecretFilesAssumption
    <3>2. /\ h \in DOMAIN run.own <=> ReadsOf(seen, h) # {}
          /\ h \in DOMAIN run.own =>
               /\ DOMAIN run.own[h] = Names(seen, h)
               /\ \A k \in Names(seen, h) : run.own[h][k] = Latest(seen, h, k)
      BY <2>1 DEF RunInv
    <3>3. CASE f # h
      <4>1. (h \in DOMAIN run'.own <=> h \in DOMAIN run.own)
            /\ (h \in DOMAIN run.own => run'.own[h] = run.own[h])
        BY <2>2, <3>3 DEF Extended, Over2
      <4> QED BY <2>4, <3>2, <3>3, <4>1
    <3>4. CASE f = h
      <4>1. h \in DOMAIN run'.own
            /\ run'.own[h] = IF h \in DOMAIN run.own THEN Over2(run.own[h], x) ELSE x
        BY <2>2, <3>1, <3>4 DEF Extended, Over2
      <4>2. CASE h \in DOMAIN run.own
        BY <2>4, <3>2, <3>4, <4>1, <4>2 DEF Over2
      <4>3. CASE h \notin DOMAIN run.own
        <5>1. Names(seen, h) = {}
          BY <3>2, <4>3, NameIs
        <5> QED BY <2>4, <3>4, <4>1, <4>3, <5>1
      <4> QED BY <4>2, <4>3
    <3> QED BY <3>3, <3>4
  <2>7. DOMAIN run' = {"pc", "key", "todo", "seen", "shared", "own"}
    BY <2>1, <2>2 DEF RunInv
  <2> QED BY <2>4, <2>5, <2>6, <2>7 DEF RunInv
<1> QED BY <1>1, <1>2

LEMMA RunStep == ASSUME RunInv, [Next]_vars PROVE RunInv'
<1>1. CASE Deploy
  BY <1>1, DeployStep
<1>2. CASE DecryptFile
  BY <1>2, DecryptStep
<1>3. CASE PowerLoss \/ DeployEnds
  BY <1>3 DEF PowerLoss, DeployEnds, RunInv, NoRun
<1>4. CASE ~(Deploy \/ DecryptFile \/ PowerLoss \/ DeployEnds)
  <2>1. UNCHANGED run
    BY <1>4 DEF Next, Command, vars, Generate, MakeDirs, Encrypt, Edit, Editor, Link, Rename, Sync,
       Fails, Public, Flush
  <2> QED BY <2>1 DEF RunInv
<1> QED BY <1>1, <1>2, <1>3, <1>4

\* What was read decides what a host is given and what the list names.
LEMMA RunTells == ASSUME RunInv PROVE HostHasItsOwn
<1> SUFFICES ASSUME run.pc = "reads", NEW h \in ToSet(Hosts)
             PROVE  /\ Given(run, h) = FromFiles(h)
                    /\ IF Listed(run, h) = {} THEN DOMAIN FromFiles(h) = {}
                       ELSE Listed(run, h) = {DOMAIN FromFiles(h)}
                    /\ Listed(run, h) = {{}} => ReadsOf(run.seen, h) # {}
  BY DEF HostHasItsOwn
<1> DEFINE all == Names(run.seen, "all")
           own == Names(run.seen, h)
<1>1. run.shared = [k \in all |-> Latest(run.seen, "all", k)] /\ DOMAIN run.shared = all
  BY DEF RunInv
<1>2. /\ h \in DOMAIN run.own <=> ReadsOf(run.seen, h) # {}
      /\ h \in DOMAIN run.own =>
           /\ DOMAIN run.own[h] = own
           /\ \A k \in own : run.own[h][k] = Latest(run.seen, h, k)
  BY DEF RunInv
<1>3. DOMAIN FromFiles(h) = all \union own
  BY DEF FromFiles
<1>4. h \notin DOMAIN run.own => own = {}
  BY <1>2, NameIs
<1> HIDE DEF all, own
<1>5. Given(run, h) = FromFiles(h)
  BY <1>1, <1>2, <1>4 DEF Given, FromFiles, Over2, all, own
<1>6. UNION Exported(run.shared) = all
  BY <1>1 DEF Exported
<1>7. CASE h \in DOMAIN run.own
  <2>1. Listed(run, h) = {all \union own}
    <3>1. Listed(run, h) = {(UNION Exported(run.shared)) \union DOMAIN run.own[h]}
      BY <1>7 DEF Listed
    <3>2. DOMAIN run.own[h] = own
      BY <1>2, <1>7
    <3>3. (UNION Exported(run.shared)) \union DOMAIN run.own[h] = all \union own
      BY <1>6, <3>2
    <3> QED BY <3>1, <3>3
  <2> QED BY <1>2, <1>3, <1>5, <1>7, <2>1
<1>8. CASE h \notin DOMAIN run.own
  <2>1. Listed(run, h) = IF all = {} THEN {} ELSE {all}
    BY <1>1, <1>8 DEF Listed, Exported
  <2> QED BY <1>3, <1>4, <1>5, <1>8, <2>1
<1> QED BY <1>7, <1>8

\* A host's steps are given the values of the shared files and of its own, and
\* LT_SECRET_KEYS names exactly those.
THEOREM HostsCorrect == Spec => []HostHasItsOwn
BY RunStart, RunStep, RunTells, PTL DEF Spec
=============================================================================
