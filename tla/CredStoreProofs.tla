-------------------------- MODULE CredStoreProofs --------------------------
(***************************************************************************)
(* Proofs about the credential store, for every set of keys and values and *)
(* any number of installs, failures, kills and new host keys: the live     *)
(* store holds the whole of one request, a single failing command does not *)
(* take it away, and a store that looks current is what was asked for.     *)
(***************************************************************************)
EXTENDS CredStore, TLAPS

-----------------------------------------------------------------------------
(* Trees.                                                                  *)

\* A tree is a record; the value of a key is a record too.
Shape(t) == /\ t = Tree(t.there, t.creds, t.mark)
            /\ t.creds = [k \in Held(t) |-> t.creds[k]]

LEMMA TreeFields ==
  ASSUME NEW there, NEW creds, NEW mark
  PROVE  /\ Tree(there, creds, mark).there = there
         /\ Tree(there, creds, mark).creds = creds
         /\ Tree(there, creds, mark).mark = mark
  BY DEF Tree

LEMMA NewTrees ==
  /\ Shape(NoTree) /\ ~NoTree.there /\ Held(NoTree) = {}
  /\ Shape(EmptyTree) /\ EmptyTree.there /\ Held(EmptyTree) = {}
  BY DEF Shape, NoTree, EmptyTree, Tree, Held, NoCreds

LEMMA Marked ==
  ASSUME NEW t, Shape(t), NEW m, NEW u, u = [t EXCEPT !.mark = m]
  PROVE  Shape(u) /\ u.there = t.there /\ u.creds = t.creds
  BY DEF Shape, Tree, Held

\* What a removal leaves is gone, or a part of what was there.
LEMMA LeavingsArePart ==
  ASSUME NEW t, NEW u \in Leavings(t)
  PROVE  /\ Shape(u) /\ Held(u) \subseteq Held(t)
         /\ \A k \in Held(u) : u.creds[k] = t.creds[k]
         /\ u.mark \in {NoPrint, t.mark}
<1>1. CASE u = NoTree
  BY <1>1, NewTrees DEF NoTree, Tree, Held, NoCreds
<1>2. CASE \E S \in SUBSET Held(t), m \in {t.mark, NoPrint} :
             u = Tree(t.there, [k \in S |-> t.creds[k]], m)
  <2>1. PICK S \in SUBSET Held(t), m \in {t.mark, NoPrint} :
               u = Tree(t.there, [k \in S |-> t.creds[k]], m)
    BY <1>2
  <2> DEFINE c == [k \in S |-> t.creds[k]]
  <2>2. u.there = t.there /\ u.creds = c /\ u.mark = m
    BY <2>1, TreeFields
  <2>3. DOMAIN c = S /\ c = [k \in DOMAIN c |-> c[k]]
        /\ \A k \in S : c[k] = t.creds[k]
    OBVIOUS
  <2>4. Held(u) = S /\ \A k \in Held(u) : u.creds[k] = t.creds[k]
    BY <2>2, <2>3 DEF Held
  <2>5. Shape(u)
    BY <2>1, <2>2, <2>3 DEF Shape, Held
  <2> QED BY <2>2, <2>4, <2>5
<1> QED BY <1>1, <1>2 DEF Leavings

\* install -d of the staging directory, over what was left of it.
LEMMA MadeAgain ==
  ASSUME NEW t, Shape(t), NEW u, u = [t EXCEPT !.there = TRUE]
  PROVE  /\ Shape(u) /\ u.there /\ u.creds = t.creds /\ Held(u) = Held(t)
         /\ u.mark = t.mark
<1>1. u = Tree(TRUE, t.creds, t.mark)
  BY DEF Shape, Tree
<1>2. u.there /\ u.creds = t.creds /\ u.mark = t.mark
  BY <1>1, TreeFields
<1> QED BY <1>1, <1>2 DEF Shape, Held

\* One more credential is sealed.
LEMMA PutSeals ==
  ASSUME NEW t, Shape(t), NEW k
  PROVE  LET u == Put(t, k)
         IN /\ Shape(u) /\ u.there = t.there /\ u.mark = t.mark
            /\ Held(u) = Held(t) \union {k}
            /\ \A j \in Held(u) : u.creds[j] =
                 IF j = k THEN [value |-> wants[k], key |-> hostKey]
                 ELSE t.creds[j]
<1> DEFINE c == [j \in DOMAIN t.creds \union {k} |->
                  IF j = k THEN [value |-> wants[k], key |-> hostKey]
                  ELSE t.creds[j]]
<1>1. Put(t, k) = Tree(t.there, c, t.mark)
  BY DEF Put, Shape, Tree
<1>2. /\ Put(t, k).there = t.there /\ Put(t, k).creds = c
      /\ Put(t, k).mark = t.mark
  BY <1>1, TreeFields
<1>3. DOMAIN c = Held(t) \union {k} /\ c = [j \in DOMAIN c |-> c[j]]
  BY DEF Held
<1>4. \A j \in DOMAIN c : c[j] = IF j = k THEN [value |-> wants[k], key |-> hostKey]
                                ELSE t.creds[j]
  OBVIOUS
<1> QED BY <1>1, <1>2, <1>3, <1>4 DEF Shape, Held

-----------------------------------------------------------------------------
(* The store holds one request, and is kept.                               *)

Shapes == Shape(live) /\ Shape(staging) /\ Shape(retired)
\* From its creation to the swap, and from the swap on, the live store is
\* there; what will take its place is there before it goes.
Present ==
  /\ pc \in {"check", "stage", "seal", "drop", "retire", "drop-old", "mark"}
       => live.there /\ stored
  /\ pc \in {"seal", "retire", "replace"} => staging.there
  /\ pc = "replace" => stored /\ ~live.there
\* What was sealed so far of the request; the swap comes after the last key.
Sealing ==
  /\ pc \in {"seal", "retire", "replace"} =>
       /\ todo \subseteq DOMAIN wants /\ DOMAIN wants \ todo \subseteq Held(staging)
       /\ \A k \in DOMAIN wants \ todo : staging.creds[k].value = wants[k]
       /\ left \/ Held(staging) \subseteq DOMAIN wants
  /\ pc \in {"retire", "replace"} => todo = {}
StoreInv == Shapes /\ Present /\ Sealing /\ StoreIsOneRequest /\ StoreIsKept

\* What Holds says of a tree depends on its credentials only.
LEMMA HoldsStays ==
  ASSUME NEW t, NEW r, NEW u, u.creds = t.creds, NEW more, NEW most,
         more => most, Holds(t, r, more)
  PROVE  Holds(u, r, most)
  BY DEF Holds, Held

\* A tree in which every key was sealed holds the request.
LEMMA SealedHolds ==
  ASSUME Sealing, pc \in {"seal", "retire", "replace"}, todo = {}
  PROVE  Holds(staging, wants, left)
  BY DEF Sealing, Holds

LEMMA StoreInit == Init => StoreInv
  BY NewTrees DEF Init, StoreInv, Shapes, Present, Sealing, StoreIsOneRequest,
     StoreIsKept

\* Steps that leave the live and the retired store, and what was put in
\* place, as they are.
LEMMA StoreUntouched ==
  ASSUME StoreInv, UNCHANGED <<live, retired, had, stored>>, left => left',
         pc = "replace" \/ gap => pc' = "replace" \/ gap'
  PROVE  StoreIsOneRequest' /\ StoreIsKept'
<1>1. \A t \in {live, retired} : Holds(t, had, left) => Holds(t, had, left')
  BY HoldsStays
<1> QED BY <1>1 DEF StoreInv, StoreIsOneRequest, StoreIsKept

LEMMA StoreInstall ==
  ASSUME StoreInv, Install
  PROVE  StoreInv'
<1> USE DEF StoreInv
<1>a. Shapes /\ Present /\ Sealing /\ StoreIsOneRequest /\ StoreIsKept
  OBVIOUS
<1>1. CASE Start
  <2>1. UNCHANGED <<live, staging, retired, had, stored, left, gap>>
        /\ pc = "over" /\ pc' = "dir"
    BY <1>1 DEF Start, treeVars, seenVars
  <2>2. StoreIsOneRequest' /\ StoreIsKept'
    BY <2>1, StoreUntouched
  <2> QED BY <2>1, <2>2 DEF Shapes, Present, Sealing
<1>2. CASE MakeStore
  <2>1. /\ pc' = "check" /\ stored' /\ UNCHANGED <<staging, retired, left, gap>>
        /\ \/ live.there /\ UNCHANGED <<live, had>>
           \/ live' = EmptyTree /\ had' = NoCreds
    BY <1>2 DEF MakeStore, Goes, jobVars
  <2>2. Shape(live') /\ live'.there
    BY <2>1, NewTrees DEF Shapes
  <2>3. Holds(live', had', left')
    <3>1. CASE live.there /\ UNCHANGED <<live, had>>
      BY <2>1, <3>1, HoldsStays DEF StoreIsOneRequest
    <3>2. CASE live' = EmptyTree /\ had' = NoCreds
      BY <3>2, NewTrees DEF Holds, NoCreds
    <3> QED BY <2>1, <3>1, <3>2
  <2> QED BY <2>1, <2>2, <2>3
          DEF Shapes, Present, Sealing, StoreIsOneRequest, StoreIsKept
<1>3. CASE Check
  <2>1. /\ UNCHANGED <<live, staging, retired, had, stored, left, gap>>
        /\ pc = "check" /\ pc' \in {"stage", "verify", "over"}
    BY <1>3 DEF Check, AfterInstall, Goes, Ends, treeVars, seenVars
  <2>2. StoreIsOneRequest' /\ StoreIsKept'
    BY <2>1, StoreUntouched
  <2> QED BY <2>1, <2>2 DEF Shapes, Present, Sealing
<1>4. CASE Stage
  <2>1. /\ pc = "stage" /\ pc' = "seal" /\ todo' = DOMAIN wants
        /\ UNCHANGED <<live, retired, wants, had, stored, gap>>
        /\ left' = (left \/ staging' # EmptyTree)
    BY <1>4 DEF Stage, Goes
  <2>2. PICK t \in Leavings(staging) : staging' = [t EXCEPT !.there = TRUE]
    BY <1>4 DEF Stage
  <2>3. Shape(staging') /\ staging'.there
    BY <2>2, LeavingsArePart, MadeAgain
  <2>4. left' \/ Held(staging') = {}
    BY <2>1, NewTrees
  <2>5. StoreIsOneRequest' /\ StoreIsKept'
    BY <2>1, StoreUntouched
  <2> QED BY <2>1, <2>3, <2>4, <2>5 DEF Shapes, Present, Sealing, Held
<1>5. CASE SealOne
  <2>1. PICK k \in todo : todo' = todo \ {k} /\ staging' = Put(staging, k)
    BY <1>5 DEF SealOne
  <2>2. /\ Shape(staging') /\ staging'.there = staging.there
        /\ Held(staging') = Held(staging) \union {k}
        /\ \A j \in Held(staging') : staging'.creds[j] =
             IF j = k THEN [value |-> wants[k], key |-> hostKey]
             ELSE staging.creds[j]
    BY <2>1, PutSeals DEF Shapes
  <2>3. pc = "seal" /\ UNCHANGED <<live, retired, wants, pc, had, stored, left, gap>>
    BY <1>5 DEF SealOne, endVars, seenVars
  <2>4. StoreIsOneRequest' /\ StoreIsKept'
    BY <2>3, StoreUntouched
  <2>5. Sealing'
    <3>1. Sealing /\ k \in DOMAIN wants
      BY <2>1, <2>3 DEF Sealing
    <3>2. \A j \in DOMAIN wants \ todo' :
            j \in Held(staging') /\ staging'.creds[j].value = wants[j]
      BY <2>1, <2>2, <2>3, <3>1 DEF Sealing
    <3> QED BY <2>1, <2>2, <2>3, <3>1, <3>2 DEF Sealing, Held
  <2> QED BY <2>2, <2>3, <2>4, <2>5 DEF Shapes, Present
<1>6. CASE SealFails
  <2>1. \E k \in todo : \E t \in {staging, Put(staging, k)} : staging' \in Leavings(t)
    BY <1>6 DEF SealFails
  <2>2. /\ pc = "seal" /\ pc' = "over"
        /\ UNCHANGED <<live, retired, had, stored, left, gap>>
    BY <1>6 DEF SealFails, Ends, seenVars
  <2>3. Shape(staging') /\ StoreIsOneRequest' /\ StoreIsKept'
    BY <2>1, <2>2, LeavingsArePart, StoreUntouched
  <2> QED BY <2>2, <2>3 DEF Shapes, Present, Sealing
<1>7. CASE Exchange
  <2>1. /\ live' = staging /\ staging' = live /\ had' = wants /\ pc = "seal"
        /\ todo = {} /\ pc' = "drop" /\ UNCHANGED <<retired, wants, stored, left, gap>>
    BY <1>7 DEF Exchange, Goes, jobVars
  <2>2. Holds(live', had', left')
    BY <2>1, SealedHolds, HoldsStays
  <2> QED BY <2>1, <2>2
          DEF Shapes, Present, Sealing, StoreIsOneRequest, StoreIsKept
<1>8. CASE DropStaging
  <2>1. /\ pc = "drop" /\ pc' = "mark"
        /\ UNCHANGED <<live, retired, had, stored, left, gap>>
    BY <1>8 DEF DropStaging, Goes, seenVars
  <2>2. Shape(staging') /\ StoreIsOneRequest' /\ StoreIsKept'
    BY <1>8, <2>1, LeavingsArePart, StoreUntouched DEF DropStaging
  <2> QED BY <2>1, <2>2 DEF Shapes, Present, Sealing
<1>9. CASE ClearRetired
  <2>1. /\ pc = "seal" /\ pc' = "retire" /\ todo = {}
        /\ UNCHANGED <<live, staging, wants, todo, had, stored, left, gap>>
    BY <1>9 DEF ClearRetired, Goes, jobVars, seenVars
  <2>2. Shape(retired')
    BY <1>9, LeavingsArePart DEF ClearRetired
  <2>3. live'.there /\ StoreIsOneRequest'
    BY <2>1, HoldsStays DEF Present, StoreIsOneRequest
  <2> QED BY <2>1, <2>2, <2>3 DEF Shapes, Present, Sealing, StoreIsKept, Held
<1>10. CASE Retire
  <2>1. CASE retired' = live /\ live' = NoTree /\ Goes("replace") /\ UNCHANGED staging
    <3>1. /\ pc = "retire" /\ pc' = "replace"
          /\ UNCHANGED <<wants, todo, had, stored, left, gap>>
      BY <1>10, <2>1 DEF Retire, Goes, jobVars, seenVars
    <3>2. retired'.there /\ Holds(retired', had', left')
      BY <2>1, <3>1, HoldsStays DEF Present, StoreIsOneRequest
    <3> QED BY <2>1, <3>1, <3>2, NewTrees
            DEF Shapes, Present, Sealing, StoreIsOneRequest, StoreIsKept, Held
  <2>2. CASE staging' \in Leavings(staging) /\ Ends("failed") /\ UNCHANGED <<live, retired>>
    <3>1. pc = "retire" /\ pc' = "over" /\ UNCHANGED <<had, stored, left, gap>>
      BY <1>10, <2>2 DEF Retire, Ends, seenVars
    <3>2. Shape(staging') /\ StoreIsOneRequest' /\ StoreIsKept'
      BY <2>2, <3>1, LeavingsArePart, StoreUntouched
    <3> QED BY <2>2, <3>1, <3>2 DEF Shapes, Present, Sealing
  <2> QED BY <1>10, <2>1, <2>2 DEF Retire
<1>11. CASE Replace
  <2>0. pc = "replace" /\ UNCHANGED <<wants, stored, left>>
    BY <1>11 DEF Replace, jobVars
  <2>1. CASE /\ live' = staging /\ staging' = NoTree /\ had' = wants
             /\ Goes("drop-old") /\ UNCHANGED <<retired, gap>>
    <3>1. Holds(live', had', left')
      BY <2>0, <2>1, SealedHolds, HoldsStays DEF Sealing
    <3> QED BY <2>0, <2>1, <3>1, NewTrees
            DEF Goes, Shapes, Present, Sealing, StoreIsOneRequest, StoreIsKept
  <2>2. CASE /\ live' = retired /\ retired' = NoTree /\ UNCHANGED gap
             /\ staging' \in Leavings(staging) /\ Ends("failed") /\ UNCHANGED had
    <3>1. retired.there /\ Holds(retired, had, left)
      BY <2>0 DEF Present, StoreIsKept
    <3>2. live'.there /\ Holds(live', had', left')
      BY <2>0, <2>2, <3>1, HoldsStays
    <3> QED BY <2>0, <2>2, <3>2, NewTrees, LeavingsArePart
            DEF Ends, Shapes, Present, Sealing, StoreIsOneRequest, StoreIsKept
  <2>3. CASE /\ gap' = TRUE /\ UNCHANGED <<live, retired>>
             /\ staging' \in Leavings(staging) /\ Ends("failed") /\ UNCHANGED had
    <3>1. Shape(staging') /\ StoreIsOneRequest' /\ StoreIsKept'
      BY <2>0, <2>3, LeavingsArePart, StoreUntouched
    <3> QED BY <2>3, <3>1 DEF Ends, Shapes, Present, Sealing
  <2> QED BY <1>11, <2>1, <2>2, <2>3 DEF Replace
<1>12. CASE DropRetired
  <2>1. /\ pc = "drop-old" /\ pc' = "mark" /\ UNCHANGED <<live, staging, had, stored, left>>
    BY <1>12 DEF DropRetired, Goes, seenVars
  <2>2. Shape(retired') /\ live'.there /\ StoreIsOneRequest'
    BY <1>12, <2>1, LeavingsArePart, HoldsStays
       DEF DropRetired, Present, StoreIsOneRequest
  <2> QED BY <2>1, <2>2 DEF Shapes, Present, Sealing, StoreIsKept
<1>13. CASE Mark
  <2>1. /\ pc = "mark" /\ pc' \in {"verify", "over"} /\ live.there
        /\ UNCHANGED <<staging, retired, had, left>>
    BY <1>13 DEF Mark, AfterInstall, Goes, Ends, seenVars, Present
  <2>2. Shape(live') /\ live'.there = live.there /\ live'.creds = live.creds
    BY <1>13, Marked DEF Mark, Shapes
  <2>3. Holds(live', had', left')
    BY <2>1, <2>2, HoldsStays DEF StoreIsOneRequest
  <2> QED BY <2>1, <2>2, <2>3
          DEF Shapes, Present, Sealing, StoreIsOneRequest, StoreIsKept
<1>14. CASE Fails \/ Verify \/ Killed
  <2>1. UNCHANGED <<live, staging, retired, had, stored, left>> /\ pc' = "over"
    BY <1>14 DEF Fails, Verify, Killed, Ends, treeVars, seenVars
  <2>2. pc = "replace" \/ gap => gap'
    <3>1. CASE (Fails \/ Verify) /\ pc # "replace" /\ UNCHANGED gap
      BY <3>1
    <3>2. CASE gap' = (gap \/ pc = "replace")
      BY <3>2
    <3>3. (Fails \/ Verify) => pc # "replace" /\ UNCHANGED gap
      BY DEF Fails, Verify, seenVars
    <3>4. Killed => gap' = (gap \/ pc = "replace")
      BY DEF Killed
    <3> QED BY <1>14, <3>1, <3>2, <3>3, <3>4
  <2>3. StoreIsOneRequest' /\ StoreIsKept'
    BY <2>1, <2>2, StoreUntouched
  <2> QED BY <2>1, <2>3 DEF Shapes, Present, Sealing
<1> QED BY <1>1, <1>2, <1>3, <1>4, <1>5, <1>6, <1>7, <1>8, <1>9, <1>10, <1>11,
           <1>12, <1>13, <1>14 DEF Install

LEMMA StoreNext == StoreInv /\ [Next]_vars => StoreInv'
<1> SUFFICES ASSUME StoreInv, [Next]_vars PROVE StoreInv'
  OBVIOUS
<1>1. CASE Install
  BY <1>1, StoreInstall
<1>2. CASE StartUnit \/ AssertNoLeak \/ RotateHostKey \/ UNCHANGED vars
  <2>1. UNCHANGED <<live, staging, retired, wants, todo, pc, had, stored, left, gap>>
    BY <1>2 DEF StartUnit, AssertNoLeak, RotateHostKey, vars, treeVars, jobVars,
       endVars, seenVars
  <2>2. StoreIsOneRequest' /\ StoreIsKept'
    BY <2>1, StoreUntouched
  <2> QED BY <2>1, <2>2 DEF StoreInv, Shapes, Present, Sealing, Held
<1> QED BY <1>1, <1>2 DEF Next

\* A unit that starts from the live store finds the whole of the request last
\* put in place, and nothing else under its keys, whatever command fails and
\* wherever an install is killed (seal_into_store: sealed beside, then
\* swapped); other keys only where a removal of the staging tree had failed.
THEOREM OneRequestCorrect == Spec => []StoreIsOneRequest
<1>1. StoreInv => StoreIsOneRequest
  BY DEF StoreInv
<1> QED BY StoreInit, StoreNext, <1>1, PTL DEF Spec

\* A service that had a store is without one only between the two renames of
\* seal_into_store, and after an installer that was killed there or failed at
\* both; the retired store is whole then.
THEOREM KeptCorrect == Spec => []StoreIsKept
<1>1. StoreInv => StoreIsKept
  BY DEF StoreInv
<1> QED BY StoreInit, StoreNext, <1>1, PTL DEF Spec

-----------------------------------------------------------------------------
(* A store that looks current is current.                                  *)

\* Every credential of t holds what `of` says, sealed with no older a key
\* than `key` and no newer one than the host's; -1 is older than every key.
SealedFrom(t, of, key) ==
  \A k \in Held(t) : /\ t.creds[k].value = of[k]
                     /\ t.creds[k].key \in key..hostKey

\* A mark is true of the tree that has it.
MarkTrue(t) ==
  \/ t.mark = NoPrint
  \/ t.mark.key \in -1..hostKey /\ SealedFrom(t, t.mark.of, t.mark.key)

\* From the check on there is a print of what is wanted; the tree that is
\* sealed after it has no mark until the end.
Printed ==
  /\ pc \in {"stage", "seal", "drop", "retire", "replace", "drop-old", "mark"}
       => print.of = wants /\ print.key \in -1..hostKey
  /\ pc \in {"seal", "retire", "replace"} =>
       staging.mark = NoPrint /\ SealedFrom(staging, wants, print.key)
  /\ pc \in {"drop", "drop-old", "mark"} => SealedFrom(live, wants, print.key)
\* All of it unless a store was sealed over what a removal had left.
CurrentInv ==
  /\ hostKey \in Nat /\ Shapes
  /\ ~left => MarkTrue(live) /\ MarkTrue(retired) /\ Printed

LEMMA NewMarks ==
  NoTree.mark = NoPrint /\ EmptyTree.mark = NoPrint
  BY DEF NoTree, EmptyTree, Tree

\* The fields of the two kinds of prints.
LEMMA PrintFields ==
  ASSUME hostKey \in Nat
  PROVE  /\ Fingerprint.of = wants /\ Fingerprint.key \in -1..hostKey
         /\ Fingerprint # NoPrint /\ (reads => Fingerprint.key = hostKey)
<1>1. Fingerprint.of = wants /\ Fingerprint.key = IF reads THEN hostKey ELSE -1
  BY DEF Fingerprint
<1>2. NoPrint.key = -2
  BY DEF NoPrint
<1> QED BY <1>1, <1>2

\* One more credential is sealed, with the key of the host.
LEMMA PutFresh ==
  ASSUME NEW t, Shape(t), NEW k, hostKey \in Nat, NEW p \in -1..hostKey,
         SealedFrom(t, wants, p), NEW u, u = Put(t, k)
  PROVE  u.mark = t.mark /\ SealedFrom(u, wants, p)
<1>1. /\ u.mark = t.mark /\ Held(u) = Held(t) \union {k}
      /\ \A j \in Held(u) : u.creds[j] =
           IF j = k THEN [value |-> wants[k], key |-> hostKey] ELSE t.creds[j]
  BY PutSeals
<1>2. hostKey \in p..hostKey
  OBVIOUS
<1> QED BY <1>1, <1>2 DEF SealedFrom

\* A part of a tree is sealed as the whole, and its mark as true.
LEMMA PartTrue ==
  ASSUME NEW t, MarkTrue(t), NEW u \in Leavings(t)
  PROVE  MarkTrue(u)
  BY LeavingsArePart DEF MarkTrue, SealedFrom

\* What is said of a tree depends on its credentials, its mark and the age of
\* the host's key only.
LEMMA SealedSame ==
  ASSUME NEW t, NEW u, u.creds = t.creds, NEW of, NEW key, SealedFrom(t, of, key)
  PROVE  SealedFrom(u, of, key)
  BY DEF SealedFrom, Held

LEMMA CurrentInit == Init => CurrentInv
  BY NewTrees, NewMarks DEF Init, CurrentInv, Shapes, MarkTrue, Printed

LEMMA CurrentInstall ==
  ASSUME CurrentInv, Shapes', Install
  PROVE  CurrentInv'
<1>0. UNCHANGED hostKey
  BY DEF Install, Start, MakeStore, Check, Stage, SealOne, SealFails, Exchange,
     DropStaging, ClearRetired, Retire, Replace, DropRetired, Mark, Fails,
     Verify, Killed, worldVars
<1>00. left => left'
  BY DEF Install, Start, MakeStore, Check, Stage, SealOne, SealFails, Exchange,
     DropStaging, ClearRetired, Retire, Replace, DropRetired, Mark, Fails,
     Verify, Killed, seenVars
<1> SUFFICES ASSUME ~left'
             PROVE  MarkTrue(live)' /\ MarkTrue(retired)' /\ Printed'
  BY <1>0 DEF CurrentInv
<1>a. /\ hostKey \in Nat /\ hostKey' = hostKey /\ ~left /\ Shapes
      /\ MarkTrue(live) /\ MarkTrue(retired) /\ Printed
  BY <1>0, <1>00 DEF CurrentInv
<1>b. ASSUME NEW t PROVE SealedFrom(t, wants, print.key) /\ UNCHANGED <<t, wants, print>>
                           => SealedFrom(t, wants, print.key)'
  BY <1>a DEF SealedFrom, Held
<1>c. (UNCHANGED live => MarkTrue(live)') /\ (UNCHANGED retired => MarkTrue(retired)')
  BY <1>a DEF MarkTrue, SealedFrom, Held
<1>1. CASE Start
  BY <1>c, <1>1 DEF Start, treeVars, Printed
<1>2. CASE MakeStore
  <2>1. MarkTrue(live)'
    BY <1>2, <1>c, NewMarks DEF MakeStore, MarkTrue
  <2> QED BY <1>2, <1>c, <2>1 DEF MakeStore, Goes, Printed
<1>3. CASE Check
  <2>1. print'.of = wants' /\ print'.key \in -1..hostKey'
    BY <1>3, <1>a, PrintFields DEF Check
  <2>2. pc' \in {"stage", "verify", "over"}
    BY <1>3 DEF Check, AfterInstall, Goes, Ends
  <2> QED BY <1>3, <1>c, <2>1, <2>2 DEF Check, treeVars, Printed
<1>4. CASE Stage
  <2>1. /\ pc = "stage" /\ pc' = "seal" /\ UNCHANGED <<live, retired, wants, print>>
        /\ staging' = EmptyTree
    BY <1>4 DEF Stage, Goes
  <2>2. staging'.mark = NoPrint /\ SealedFrom(staging, wants, print.key)'
    BY <2>1, NewTrees, NewMarks DEF SealedFrom, Held
  <2> QED BY <1>a, <1>c, <2>1, <2>2 DEF Printed
<1>5. CASE SealOne
  <2>1. PICK k : staging' = Put(staging, k)
    BY <1>5 DEF SealOne
  <2>2. pc = "seal" /\ UNCHANGED <<live, retired, wants, print, pc>>
    BY <1>5 DEF SealOne, endVars
  <2>3. staging'.mark = NoPrint /\ SealedFrom(staging', wants, print.key)
    BY <1>a, <2>1, <2>2, PutFresh DEF Printed, Shapes
  <2>4. SealedFrom(staging, wants, print.key)'
    BY <1>a, <2>2, <2>3 DEF SealedFrom, Held
  <2> QED BY <1>a, <1>c, <2>2, <2>3, <2>4 DEF Printed
<1>6. CASE SealFails
  BY <1>c, <1>6 DEF SealFails, Ends, Printed
<1>7. CASE Exchange
  <2>1. /\ live' = staging /\ pc = "seal" /\ pc' = "drop"
        /\ UNCHANGED <<retired, wants, print>>
    BY <1>7 DEF Exchange, Goes, jobVars
  <2>2. MarkTrue(live)' /\ SealedFrom(live, wants, print.key)'
    BY <1>a, <2>1 DEF Printed, MarkTrue, SealedFrom, Held
  <2> QED BY <1>a, <1>c, <2>1, <2>2 DEF Printed
<1>8. CASE DropStaging
  <2>1. pc = "drop" /\ pc' = "mark" /\ UNCHANGED <<live, retired, wants, print>>
    BY <1>8 DEF DropStaging, Goes, jobVars
  <2> QED BY <1>a, <1>b, <1>c, <2>1 DEF Printed
<1>9. CASE ClearRetired
  <2>1. /\ pc = "seal" /\ pc' = "retire" /\ retired' \in Leavings(retired)
        /\ UNCHANGED <<live, staging, wants, print>>
    BY <1>9 DEF ClearRetired, Goes, jobVars
  <2>2. MarkTrue(retired')
    BY <1>a, <2>1, PartTrue
  <2>3. MarkTrue(retired)'
    BY <1>a, <2>2 DEF MarkTrue, SealedFrom, Held
  <2> QED BY <1>a, <1>b, <1>c, <2>1, <2>3 DEF Printed
<1>10. CASE Retire
  <2>1. CASE retired' = live /\ live' = NoTree /\ Goes("replace") /\ UNCHANGED staging
    <3>1. pc = "retire" /\ pc' = "replace" /\ UNCHANGED <<wants, print>>
      BY <1>10, <2>1 DEF Retire, Goes, jobVars
    <3>2. MarkTrue(live)' /\ MarkTrue(retired)'
      BY <1>a, <2>1, NewMarks DEF MarkTrue, SealedFrom, Held
    <3> QED BY <1>a, <1>b, <2>1, <3>1, <3>2 DEF Printed
  <2>2. CASE Ends("failed") /\ UNCHANGED <<live, retired>>
    BY <1>c, <2>2 DEF Ends, Printed
  <2> QED BY <1>10, <2>1, <2>2 DEF Retire
<1>11. CASE Replace
  <2>0. pc = "replace" /\ UNCHANGED <<wants, print>>
    BY <1>11 DEF Replace, jobVars
  <2>1. CASE live' = staging /\ Goes("drop-old") /\ UNCHANGED retired
    <3>1. MarkTrue(live)' /\ SealedFrom(live, wants, print.key)'
      BY <1>a, <2>0, <2>1 DEF Printed, MarkTrue, SealedFrom, Held
    <3> QED BY <1>a, <1>c, <2>0, <2>1, <3>1 DEF Goes, Printed
  <2>2. CASE live' = retired /\ retired' = NoTree /\ Ends("failed")
    <3>1. MarkTrue(live)' /\ MarkTrue(retired)'
      BY <1>a, <2>2, NewMarks DEF MarkTrue, SealedFrom, Held
    <3> QED BY <2>2, <3>1 DEF Ends, Printed
  <2>3. CASE UNCHANGED <<live, retired>> /\ Ends("failed")
    BY <1>c, <2>3 DEF Ends, Printed
  <2> QED BY <1>11, <2>1, <2>2, <2>3 DEF Replace
<1>12. CASE DropRetired
  <2>1. /\ pc = "drop-old" /\ pc' = "mark" /\ retired' \in Leavings(retired)
        /\ UNCHANGED <<live, wants, print>>
    BY <1>12 DEF DropRetired, Goes, jobVars
  <2>2. MarkTrue(retired')
    BY <1>a, <2>1, PartTrue
  <2>3. MarkTrue(retired)'
    BY <1>a, <2>2 DEF MarkTrue, SealedFrom, Held
  <2> QED BY <1>a, <1>b, <1>c, <2>1, <2>3 DEF Printed
<1>13. CASE Mark
  <2>1. pc = "mark" /\ pc' \in {"verify", "over"} /\ UNCHANGED retired
    BY <1>13 DEF Mark, AfterInstall, Goes, Ends
  <2>2. MarkTrue(live)'
    <3>1. CASE live' = live
      BY <1>c, <3>1
    <3>2. CASE live' = [live EXCEPT !.mark = print]
      <4>1. live'.creds = live.creds /\ live'.mark = print
        BY <1>a, <3>2, Marked DEF Shapes, Shape, Tree
      <4>2. SealedFrom(live', print.of, print.key) /\ print.key \in -1..hostKey
        BY <1>a, <2>1, <4>1, SealedSame DEF Printed
      <4> QED BY <1>a, <4>1, <4>2 DEF MarkTrue, SealedFrom, Held
    <3> QED BY <1>13, <3>1, <3>2 DEF Mark
  <2> QED BY <1>c, <2>1, <2>2 DEF Printed
<1>14. CASE Fails \/ Verify \/ Killed
  BY <1>c, <1>14 DEF Fails, Verify, Killed, Ends, treeVars, Printed
<1> QED BY <1>1, <1>2, <1>3, <1>4, <1>5, <1>6, <1>7, <1>8, <1>9, <1>10, <1>11,
           <1>12, <1>13, <1>14 DEF Install

\* A newer host key leaves the older credentials and marks as they are.
LEMMA CurrentRotated ==
  ASSUME CurrentInv, RotateHostKey
  PROVE  CurrentInv'
<1>1. /\ UNCHANGED <<live, staging, retired, wants, print, pc, left>>
      /\ hostKey \in Nat /\ hostKey' = hostKey + 1
  BY DEF RotateHostKey, CurrentInv, treeVars, jobVars, endVars, seenVars
<1>2. ASSUME NEW t, NEW of, NEW key \in -1..hostKey, SealedFrom(t, of, key)
      PROVE  key \in -1..(hostKey + 1)
             /\ \A k \in Held(t) : /\ t.creds[k].value = of[k]
                                   /\ t.creds[k].key \in key..(hostKey + 1)
  BY <1>1, <1>2 DEF SealedFrom
<1>3. CASE ~left
  <2>1. MarkTrue(live) /\ MarkTrue(retired) /\ Printed
    BY <1>3 DEF CurrentInv
  <2>2. MarkTrue(live)' /\ MarkTrue(retired)'
    BY <1>1, <1>2, <2>1 DEF MarkTrue, SealedFrom, Held
  <2>3. Printed'
    BY <1>1, <1>2, <2>1 DEF Printed, SealedFrom, Held
  <2> QED BY <1>1, <2>2, <2>3 DEF CurrentInv, Shapes
<1> QED BY <1>1, <1>3 DEF CurrentInv, Shapes

\* An install is skipped only where it would have changed nothing: a store
\* that looks current holds the values asked for, sealed with the key of this
\* host where that key can be read (store_is_current), unless a store was
\* sealed over what a failed removal had left.
THEOREM CurrentCorrect == Spec => []CurrentIsTrue
<1>1. StoreInv /\ CurrentInv /\ [Next]_vars => CurrentInv'
  <2>1. CurrentInv /\ (StartUnit \/ AssertNoLeak) => CurrentInv'
    BY DEF CurrentInv, Shapes, MarkTrue, Printed, SealedFrom, Held, StartUnit,
       AssertNoLeak, treeVars, worldVars, jobVars, endVars, seenVars
  <2>2. CurrentInv /\ UNCHANGED vars => CurrentInv'
    BY DEF CurrentInv, Shapes, MarkTrue, Printed, SealedFrom, Held, vars,
       treeVars, jobVars, worldVars, endVars, seenVars
  <2>3. StoreInv /\ Install => Shapes'
    BY StoreInstall DEF StoreInv
  <2> QED BY CurrentInstall, CurrentRotated, <2>1, <2>2, <2>3 DEF Next
<1>2. CurrentInv => CurrentIsTrue
  <2> SUFFICES ASSUME CurrentInv, live.mark = Fingerprint, ~left,
                      Held(live) = DOMAIN wants, NEW k \in DOMAIN wants
               PROVE  /\ live.creds[k].value = wants[k]
                      /\ reads => live.creds[k].key = hostKey
    BY DEF CurrentIsTrue, IsCurrent
  <2>1. hostKey \in Nat /\ MarkTrue(live)
    BY DEF CurrentInv
  <2>2. SealedFrom(live, wants, Fingerprint.key)
    BY <2>1, PrintFields DEF MarkTrue
  <2>3. /\ live.creds[k].value = wants[k]
        /\ live.creds[k].key \in Fingerprint.key..hostKey
    BY <2>2 DEF SealedFrom
  <2> QED BY <2>1, <2>3, PrintFields
<1> QED BY StoreInit, StoreNext, CurrentInit, <1>1, <1>2, PTL DEF Spec
=============================================================================
