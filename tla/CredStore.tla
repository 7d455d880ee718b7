----------------------------- MODULE CredStore -----------------------------
(***************************************************************************)
(* The credential store of one service on its target: credstore_install    *)
(* seals the values of @secrets into a staging tree and swaps it with the  *)
(* live one; `host credstore` then checks the store against the units,     *)
(* which start from it at any time.  An installer may fail at any command, *)
(* a removal only warns when it leaves something behind (discard_tree),    *)
(* and the installer may be killed between two commands.                   *)
(***************************************************************************)
EXTENDS Integers, FiniteSets

CONSTANTS
  Keys,         \* the names in LT_SECRET_KEYS
  Values,       \* what they may hold; "empty" stands for an empty value
  Short,        \* the values too short to be searched for
  MaxInstalls,  \* bound: installers started
  MaxRotations  \* bound: new host keys

ASSUME CredStoreAssumption ==
  /\ IsFiniteSet(Keys) /\ "empty" \in Values /\ Short \subseteq Values
  /\ {MaxInstalls, MaxRotations} \subseteq Nat

VARIABLES
  caller,    \* "direct" (root, or the store is its own), or "user" (sudo)
  verb,      \* "install" (cred-env credstore-install) or "host" (host credstore)
  pc,        \* where the installer is
  wants,     \* the list and its values: a function from a set of keys
  reads,     \* HOST_KEY_PATH can be read
  print,     \* seal_fingerprint of them, once computed
  todo,      \* the keys still to seal
  live,      \* /etc/credstore.encrypted/<service>
  staging,   \* <service>.new
  retired,   \* <service>.old
  hostKey,   \* systemd's host key, by number
  declared,  \* the keys the units load from this store
  result,    \* "none", "ok", "failed"
  unit,      \* the last start of the unit: "none", "runs", "refused"
  had,       \* observation: the request that was last put in place
  stored,    \* observation: the store was made
  left,      \* observation: one was sealed over what a removal had left
  gap,       \* observation: an installer ended between the two renames
  installs

treeVars == <<live, staging, retired>>
jobVars == <<caller, verb, wants, reads, print, todo, installs>>
worldVars == <<declared, hostKey, unit>>
endVars == <<pc, result>>
seenVars == <<had, stored, left, gap>>
vars == <<treeVars, jobVars, worldVars, endVars, seenVars>>

Requests == UNION {[S -> Values] : S \in SUBSET Keys}
NoPrint == [of |-> [k \in {} |-> "empty"], key |-> -2]
\* Slip of Fingerprint: of the values alone.
PrintOfValues == [of |-> wants, key |-> 0]
\* The host key is part of it only where the file can be read: -1 stands for
\* its absence.
Fingerprint == [of |-> wants, key |-> IF reads THEN hostKey ELSE -1]

\* A tree: what is sealed in it, by key, and the fingerprint file.
Sealed == UNION {[S -> [value : Values, key : 0..MaxRotations]] : S \in SUBSET Keys}
Tree(there, creds, mark) == [there |-> there, creds |-> creds, mark |-> mark]
NoCreds == [k \in {} |-> 0]
NoTree == Tree(FALSE, NoCreds, NoPrint)
EmptyTree == Tree(TRUE, NoCreds, NoPrint)
Held(t) == DOMAIN t.creds
Contents(t) == [k \in Held(t) |-> t.creds[k].value]


\* discard_tree: gone, or what could not be removed is left.
Leavings(t) ==
  {NoTree} \union
    {u \in {Tree(t.there, [k \in S |-> t.creds[k]], m) :
              S \in SUBSET Held(t), m \in {t.mark, NoPrint}} : t.there}

-----------------------------------------------------------------------------
(* Steps. *)

Goes(to) == pc' = to /\ UNCHANGED result
Ends(code) == pc' = "over" /\ result' = code

\* A user is passed through `sudo --preserve-env` and the process that was
\* called ends with the elevated one's success: exit(0), in place.
AfterInstall ==
  IF caller = "direct" /\ verb = "host" THEN Goes("verify") ELSE Ends("ok")

Start ==
  /\ pc = "over" /\ installs < MaxInstalls /\ installs' = installs + 1
  /\ caller' \in {"direct", "user"} /\ verb' \in {"install", "host"}
  /\ wants' \in Requests /\ reads' \in BOOLEAN /\ print' = NoPrint /\ todo' = {}
  /\ pc' = "dir" /\ result' = "none"
  /\ UNCHANGED <<treeVars, worldVars, seenVars>>

\* sudo install -d: the live directory exists from here on.
MakeStore ==
  /\ pc = "dir" /\ Goes("check") /\ stored' = TRUE
  /\ IF live.there THEN UNCHANGED <<live, had>>
                   ELSE live' = EmptyTree /\ had' = NoCreds
  /\ UNCHANGED <<staging, retired, jobVars, worldVars, left, gap>>

\* seal_fingerprint and store_is_current: the mark and the listing.
IsCurrent(t, p) == t.mark = p /\ Held(t) = DOMAIN wants
Check ==
  /\ pc = "check" /\ print' = Fingerprint
  /\ IF IsCurrent(live, Fingerprint) THEN AfterInstall ELSE Goes("stage")
  /\ UNCHANGED <<treeVars, caller, verb, wants, reads, todo, installs,
                 worldVars, seenVars>>

\* discard_tree of a leftover, and install -d, which takes the directory as
\* the removal left it.
Stage ==
  /\ pc = "stage" /\ Goes("seal") /\ todo' = DOMAIN wants
  /\ \E t \in Leavings(staging) : staging' = [t EXCEPT !.there = TRUE]
  /\ left' = (left \/ staging' # EmptyTree)
  /\ UNCHANGED <<live, retired, caller, verb, wants, reads, print, installs,
                 worldVars, had, stored, gap>>

Put(t, k) ==
  [t EXCEPT !.creds = [j \in DOMAIN @ \union {k} |->
                         IF j = k THEN [value |-> wants[k], key |-> hostKey]
                         ELSE @[j]]]

\* Slip of SealOne: sealed into the live store.
SealInPlace ==
  /\ pc = "seal"
  /\ \E k \in todo : /\ wants[k] # "empty" /\ todo' = todo \ {k}
                     /\ staging' = Put(staging, k) /\ live' = Put(live, k)
  /\ UNCHANGED <<retired, caller, verb, wants, reads, print, installs,
                 worldVars, endVars, seenVars>>

\* seal_all: one systemd-creds encrypt per key, over a file that was left.
SealOne ==
  /\ pc = "seal"
  /\ \E k \in todo : /\ wants[k] # "empty" /\ todo' = todo \ {k}
                     /\ staging' = Put(staging, k)
  /\ UNCHANGED <<live, retired, caller, verb, wants, reads, print, installs,
                 worldVars, endVars, seenVars>>

\* An empty value or a failing command (encrypt, or the chmod of what it
\* wrote): the staging tree is dropped.
SealFails ==
  /\ pc = "seal" /\ Ends("failed")
  /\ \E k \in todo : \E t \in {staging, Put(staging, k)} :
       (wants[k] = "empty" => t = staging) /\ staging' \in Leavings(t)
  /\ UNCHANGED <<live, retired, jobVars, worldVars, seenVars>>

\* exchange_dirs: one renameat2.
Exchange ==
  /\ pc = "seal" /\ todo = {}
  /\ live' = staging /\ staging' = live /\ had' = wants /\ Goes("drop")
  /\ UNCHANGED <<retired, jobVars, worldVars, stored, left, gap>>
DropStaging ==
  /\ pc = "drop" /\ staging' \in Leavings(staging) /\ Goes("mark")
  /\ UNCHANGED <<live, retired, jobVars, worldVars, seenVars>>

\* No exchange, or a failing one: two renames, and the way back from the
\* second.  No directory is renamed onto one that holds something.
ClearRetired ==
  /\ pc = "seal" /\ todo = {} /\ retired' \in Leavings(retired) /\ Goes("retire")
  /\ UNCHANGED <<live, staging, jobVars, worldVars, seenVars>>
Retire ==
  /\ pc = "retire"
  /\ \/ /\ retired \in {NoTree, EmptyTree} /\ retired' = live /\ live' = NoTree
        /\ Goes("replace") /\ UNCHANGED staging
     \/ staging' \in Leavings(staging) /\ Ends("failed") /\ UNCHANGED <<live, retired>>
  /\ UNCHANGED <<jobVars, worldVars, seenVars>>
\* Slip of Replace: the failure drops the store that was renamed aside too.
ReplaceOrDropBoth ==
  /\ pc = "replace"
  /\ \/ /\ live' = staging /\ staging' = NoTree /\ had' = wants
        /\ Goes("drop-old") /\ UNCHANGED <<retired, gap>>
     \/ /\ staging' \in Leavings(staging) /\ retired' \in Leavings(retired)
        /\ gap' = TRUE /\ Ends("failed") /\ UNCHANGED <<live, had>>
  /\ UNCHANGED <<jobVars, worldVars, stored, left>>
\* The way back is tried once, and what came of it is not looked at.
Replace ==
  /\ pc = "replace"
  /\ \/ /\ live' = staging /\ staging' = NoTree /\ had' = wants
        /\ Goes("drop-old") /\ UNCHANGED <<retired, gap>>
     \/ /\ \/ live' = retired /\ retired' = NoTree /\ UNCHANGED gap
           \/ gap' = TRUE /\ UNCHANGED <<live, retired>>
        /\ staging' \in Leavings(staging) /\ Ends("failed") /\ UNCHANGED had
  /\ UNCHANGED <<jobVars, worldVars, stored, left>>
DropRetired ==
  /\ pc = "drop-old" /\ retired' \in Leavings(retired) /\ Goes("mark")
  /\ UNCHANGED <<live, staging, jobVars, worldVars, seenVars>>

\* record_fingerprint: its failure is ignored.
Mark ==
  /\ pc = "mark" /\ AfterInstall
  /\ live' \in {live, [live EXCEPT !.mark = print]}
  /\ UNCHANGED <<staging, retired, jobVars, worldVars, seenVars>>

\* A command that had no effect fails.
Fails ==
  /\ pc \in {"dir", "check", "stage"} /\ Ends("failed")
  /\ UNCHANGED <<treeVars, jobVars, worldVars, seenVars>>

\* store_disagreement: the keys held are the keys the units declare.
Agrees == live.there /\ Held(live) = declared
Verify ==
  /\ pc = "verify" /\ Ends(IF Agrees THEN "ok" ELSE "failed")
  /\ UNCHANGED <<treeVars, jobVars, worldVars, seenVars>>

\* Killed in the middle of a removal, it leaves what a failing one leaves;
\* the next removal meets that as a part of the whole tree.
Killed ==
  /\ pc # "over" /\ Ends("none") /\ gap' = (gap \/ pc = "replace")
  /\ UNCHANGED <<treeVars, jobVars, worldVars, had, stored, left>>

-----------------------------------------------------------------------------
(* Others on the target. *)

Readable(k) == k \in Held(live) /\ live.creds[k].key = hostKey

\* systemd decrypts what the unit declares; cred-env exec and render go on
\* only with all of it.
StartUnit ==
  /\ unit' = IF \A k \in declared : Readable(k) THEN "runs" ELSE "refused"
  /\ UNCHANGED <<treeVars, jobVars, declared, hostKey, endVars, seenVars>>

\* assert_no_leak, when `found` are the values the journal holds.  What it
\* cannot decrypt it does not look for.
Leaks(found) ==
  {k \in Held(live) : Readable(k) /\ live.creds[k].value \in found \ Short}
AssertNoLeak ==
  /\ pc = "over" /\ installs > 0
  /\ \E found \in SUBSET (Values \ {"empty"}) :
       result' = IF Leaks(found) = {} THEN "ok" ELSE "failed"
  /\ verb' = "leak"
  /\ UNCHANGED <<treeVars, caller, wants, reads, print, todo, installs, worldVars,
                 pc, seenVars>>

RotateHostKey ==
  /\ hostKey < MaxRotations /\ hostKey' = hostKey + 1
  /\ UNCHANGED <<treeVars, jobVars, declared, unit, endVars, seenVars>>

-----------------------------------------------------------------------------
Init ==
  /\ caller = "direct" /\ verb = "install" /\ pc = "over"
  /\ wants = NoCreds /\ reads = FALSE /\ print = NoPrint /\ todo = {}
  /\ live = NoTree /\ staging = NoTree /\ retired = NoTree
  /\ hostKey = 0 /\ declared \in SUBSET Keys /\ result = "none" /\ unit = "none"
  /\ had = NoCreds /\ stored = FALSE /\ left = FALSE /\ gap = FALSE /\ installs = 0

Install == \/ Start \/ MakeStore \/ Check \/ Stage \/ SealOne \/ SealFails
           \/ Exchange \/ DropStaging \/ ClearRetired \/ Retire \/ Replace
           \/ DropRetired \/ Mark \/ Fails \/ Verify \/ Killed
Next == Install \/ StartUnit \/ AssertNoLeak \/ RotateHostKey
Spec == Init /\ [][Next]_vars

-----------------------------------------------------------------------------
(* Properties. *)

\* Every variable has its type.
TypeOK ==
  /\ caller \in {"direct", "user"} /\ verb \in {"install", "host", "leak"}
  /\ wants \in Requests /\ reads \in BOOLEAN /\ todo \subseteq DOMAIN wants
  /\ \A t \in {live, staging, retired} : t.there \in BOOLEAN /\ t.creds \in Sealed
  /\ hostKey \in 0..MaxRotations /\ declared \subseteq Keys
  /\ pc \in {"dir", "check", "stage", "seal", "drop", "retire", "replace",
             "drop-old", "mark", "verify", "over"}
  /\ result \in {"none", "ok", "failed"} /\ unit \in {"none", "runs", "refused"}
  /\ had \in Requests /\ {stored, left, gap} \subseteq BOOLEAN
  /\ installs \in 0..MaxInstalls

\* The tree holds all of a request, and no more unless `more`.
Holds(t, r, more) ==
  /\ DOMAIN r \subseteq Held(t) /\ \A k \in DOMAIN r : t.creds[k].value = r[k]
  /\ more \/ Held(t) \subseteq DOMAIN r

\* Whatever command fails and wherever it is killed, a unit that starts from
\* the live store finds the whole of the request that was last put in place,
\* no value of an older or a broken-off one under its keys, and no other key
\* unless a removal of the staging tree had failed (seal_into_store, its
\* comments; discard_tree only warns).
StoreIsOneRequest == live.there => Holds(live, had, left)

\* An install that is skipped would have changed nothing: a store that looks
\* current holds the values asked for, and those are sealed with the key of
\* this host where that key can be read.  A store sealed over leftovers may
\* have kept their mark.
CurrentIsTrue ==
  pc = "check" /\ live.there /\ IsCurrent(live, Fingerprint) /\ ~left
    => \A k \in DOMAIN wants : /\ live.creds[k].value = wants[k]
                               /\ reads => live.creds[k].key = hostKey

\* A service that had a store is without one only between the two renames,
\* and after an installer that was killed there or failed at both; and then
\* the store that was retired is whole.
StoreIsKept ==
  stored /\ ~live.there => /\ pc = "replace" \/ gap
                           /\ retired.there /\ Holds(retired, had, left)
=============================================================================
