--------------------------- MODULE PlaybookProofs ---------------------------
(***************************************************************************)
(* Proofs about the reading of a playbook, for every set of lines and      *)
(* every length of a script.                                               *)
(*                                                                         *)
(* The argument is about three things: q, the lines read; r, the directive *)
(* that each of them was read as (Nil: none); and s, the state of the      *)
(* parser after them.  None of the lemmas mentions a primed variable: they *)
(* compare s after the lines q with the next state after one line more.    *)
(***************************************************************************)
EXTENDS Playbook, SequenceTheorems, TLAPS

-----------------------------------------------------------------------------
(* What is open after each line.  OpenAfter is a recursive function; that  *)
(* its equation has exactly one solution is an invariant of the reading.   *)

Opened(open, l) ==
  IF open # <<>> THEN IF l.ends = open[1] THEN Tail(open) ELSE open
  ELSE IF l.dir = Nil THEN l.opens ELSE <<>>
Solves(f, q) ==
  f = [n \in 0..Len(q) |->
        IF n = 0 THEN <<>>
        ELSE IF f[n - 1] # <<>>
        THEN IF q[n].ends = f[n - 1][1] THEN Tail(f[n - 1]) ELSE f[n - 1]
        ELSE IF q[n].dir = Nil THEN q[n].opens ELSE <<>>]
Opens(q) == CHOOSE f : Solves(f, q)
OneReading(q) == /\ \E f : Solves(f, q)
                 /\ \A f, g : Solves(f, q) /\ Solves(g, q) => f = g

\* The first solution for a longer script, cut, is one for the shorter.
Cut(f, n) == [i \in 0..n |-> f[i]]

\* The equation of the open here-documents, point by point.
LEMMA SolvesByPoint ==
  ASSUME NEW q, Len(q) \in Nat, NEW f
  PROVE  Solves(f, q) <=>
           /\ f = [n \in 0..Len(q) |-> f[n]] /\ f[0] = <<>>
           /\ \A n \in 1..Len(q) : f[n] = Opened(f[n - 1], q[n])
<1> DEFINE h == [n \in 0..Len(q) |->
        IF n = 0 THEN <<>>
        ELSE IF f[n - 1] # <<>>
        THEN IF q[n].ends = f[n - 1][1] THEN Tail(f[n - 1]) ELSE f[n - 1]
        ELSE IF q[n].dir = Nil THEN q[n].opens ELSE <<>>]
<1>1. \A n \in 1..Len(q) : h[n] = Opened(f[n - 1], q[n])
  BY DEF Opened
<1>2. h[0] = <<>> /\ h = [n \in 0..Len(q) |-> h[n]]
  OBVIOUS
<1>3. 0..Len(q) = {0} \union 1..Len(q)
  OBVIOUS
<1>4. Solves(f, q) <=> f = h
  BY DEF Solves
<1> HIDE DEF h
<1>5. ASSUME f = [n \in 0..Len(q) |-> f[n]], f[0] = <<>>,
             \A n \in 1..Len(q) : f[n] = Opened(f[n - 1], q[n])
      PROVE  f = h
  <2>1. \A n \in 0..Len(q) : f[n] = h[n]
    BY <1>1, <1>2, <1>3, <1>5
  <2> QED BY <2>1, <1>2, <1>5
<1> QED BY <1>1, <1>2, <1>4, <1>5

\* The empty script has one reading: nothing is open.
LEMMA OneReadingOfNothing == OneReading(<<>>) /\ Opens(<<>>)[0] = <<>>
<1>1. \A f : Solves(f, <<>>) <=> f = [n \in 0..0 |-> f[n]] /\ f[0] = <<>>
  BY SolvesByPoint
<1>2. Solves([n \in 0..0 |-> <<>>], <<>>)
  BY <1>1
<1>3. ASSUME NEW f, NEW g, Solves(f, <<>>), Solves(g, <<>>)
      PROVE  f = g
  <2>1. \A n \in 0..0 : f[n] = g[n]
    BY <1>1, <1>3
  <2> QED BY <1>1, <1>3, <2>1
<1>4. Solves(Opens(<<>>), <<>>)
  BY <1>2 DEF Opens
<1> QED BY <1>1, <1>2, <1>3, <1>4 DEF OneReading

\* One line more: the reading of the script so far is extended by one value,
\* and by no other.
LEMMA OneReadingGrows ==
  ASSUME NEW q \in Seq(Lines), OneReading(q), NEW l \in Lines
  PROVE  LET p == Append(q, l)
         IN /\ OneReading(p)
            /\ \A n \in 0..Len(q) : Opens(p)[n] = Opens(q)[n]
            /\ Opens(p)[Len(q) + 1] = Opened(Opens(q)[Len(q)], l)
<1> DEFINE p == Append(q, l)
           N1 == Len(q) + 1
<1>1. Len(q) \in Nat /\ Len(p) = N1 /\ p[N1] = l
      /\ \A n \in 1..Len(q) : p[n] = q[n]
  OBVIOUS
<1> HIDE DEF p
<1>2. ASSUME NEW f, Solves(f, p)
      PROVE  /\ Solves(Cut(f, Len(q)), q)
             /\ f[N1] = Opened(Cut(f, Len(q))[Len(q)], l)
             /\ f = [n \in 0..N1 |-> f[n]]
  <2> DEFINE g == Cut(f, Len(q))
  <2>1. f = [n \in 0..N1 |-> f[n]] /\ f[0] = <<>>
        /\ \A n \in 1..N1 : f[n] = Opened(f[n - 1], p[n])
    BY <1>1, <1>2, SolvesByPoint
  <2>2. g = [n \in 0..Len(q) |-> g[n]] /\ \A n \in 0..Len(q) : g[n] = f[n]
    BY DEF Cut
  <2>3. \A n \in 1..Len(q) : g[n] = Opened(g[n - 1], q[n])
    <3> SUFFICES ASSUME NEW n \in 1..Len(q) PROVE g[n] = Opened(g[n - 1], q[n])
      OBVIOUS
    <3>1. n \in 1..N1 /\ n - 1 \in 0..Len(q) /\ n \in 0..Len(q)
      BY <1>1
    <3> HIDE DEF g
    <3> QED BY <2>1, <2>2, <1>1, <3>1
  <2>4. g[0] = <<>>
    BY <2>1, <2>2, <1>1
  <2>5. Solves(g, q)
    BY <1>1, <2>2, <2>3, <2>4, SolvesByPoint
  <2>6. f[N1] = Opened(f[N1 - 1], p[N1]) /\ N1 - 1 = Len(q)
    BY <1>1, <2>1
  <2> QED BY <1>1, <2>1, <2>2, <2>5, <2>6
<1>3. PICK f0 : Solves(f0, q)
  BY DEF OneReading
<1> DEFINE f1 == [n \in 0..N1 |-> IF n = N1 THEN Opened(f0[Len(q)], l) ELSE f0[n]]
<1>4. Solves(f1, p)
  <2>1. f0[0] = <<>> /\ \A n \in 1..Len(q) : f0[n] = Opened(f0[n - 1], q[n])
    BY <1>1, <1>3, SolvesByPoint
  <2>2. f1 = [n \in 0..N1 |-> f1[n]] /\ f1[N1] = Opened(f0[Len(q)], l)
        /\ \A n \in 0..Len(q) : f1[n] = f0[n]
    BY <1>1
  <2> HIDE DEF f1
  <2>3. f1[0] = <<>>
    BY <1>1, <2>1, <2>2
  <2>4. \A n \in 1..N1 : f1[n] = Opened(f1[n - 1], p[n])
    <3> SUFFICES ASSUME NEW n \in 1..N1 PROVE f1[n] = Opened(f1[n - 1], p[n])
      OBVIOUS
    <3>1. CASE n = N1
      <4>1. n - 1 = Len(q) /\ Len(q) \in 0..Len(q)
        BY <1>1, <3>1
      <4> QED BY <1>1, <2>2, <3>1, <4>1
    <3>2. CASE n # N1
      <4>1. n \in 1..Len(q) /\ n - 1 \in 0..Len(q) /\ n \in 0..Len(q)
        BY <1>1, <3>2
      <4> QED BY <1>1, <2>1, <2>2, <4>1
    <3> QED BY <3>1, <3>2
  <2> QED BY <1>1, <2>2, <2>3, <2>4, SolvesByPoint
<1> HIDE DEF f1
<1>5. ASSUME NEW f, NEW g, Solves(f, p), Solves(g, p)
      PROVE  f = g
  <2>1. Cut(f, Len(q)) = Cut(g, Len(q))
    BY <1>2, <1>5 DEF OneReading
  <2>2. f[N1] = g[N1]
    BY <1>2, <1>5, <2>1
  <2>3. \A n \in 0..Len(q) : f[n] = g[n]
    <3>1. \A n \in 0..Len(q) : Cut(f, Len(q))[n] = f[n] /\ Cut(g, Len(q))[n] = g[n]
      BY DEF Cut
    <3> QED BY <2>1, <3>1
  <2>4. \A n \in 0..N1 : f[n] = g[n]
    BY <1>1, <2>2, <2>3
  <2>5. f = [n \in 0..N1 |-> f[n]] /\ g = [n \in 0..N1 |-> g[n]]
    BY <1>2, <1>5
  <2> QED BY <2>4, <2>5
<1>6. OneReading(p)
  BY <1>4, <1>5 DEF OneReading
<1>7. Solves(Opens(q), q) /\ Solves(Opens(p), p)
  BY <1>3, <1>4 DEF Opens
<1>8. Cut(Opens(p), Len(q)) = Opens(q)
  BY <1>2, <1>7 DEF OneReading
<1>9. \A n \in 0..Len(q) : Cut(Opens(p), Len(q))[n] = Opens(p)[n]
  BY DEF Cut
<1> QED BY <1>1, <1>2, <1>6, <1>7, <1>8, <1>9 DEF p

-----------------------------------------------------------------------------
(* The invariant.  Which directive each line was read as, and the last one *)
(* of a kind: facts about r alone.                                         *)

Reads(q) == [i \in 1..Len(q) |-> IF Opens(q)[i - 1] = <<>> THEN q[i].dir ELSE Nil]

\* The last line before n that was read as one of the directives d; 0: none.
LastOf(r, n, d) == Max0({i \in 1..(n - 1) : r[i] \in d})
Since(r, dir, first, before) ==
  LET k == LastOf(r, first, {dir}) IN IF k > before THEN k ELSE 0
TimeoutAt(q, r, first, before) ==
  LET t == Since(r, "timeout", first, before)
  IN IF t = 0 THEN Nil ELSE Text(q[t].words[1])
ModeAt(r, n) ==
  LET k == LastOf(r, n, {"local", "remote", "copy"})
  IN IF k # 0 /\ r[k] = "remote" THEN "remote" ELSE "local"
TargetAt(q, r, n) ==
  IF ModeAt(r, n) = "local" THEN Nil
  ELSE Text(q[LastOf(r, n, {"remote"})].words[1])

\* The plan: the last line in it, and the one before the lines of step k.
Final(x) == x.lines[Len(x.lines)]
LastLine(s) == IF s.steps = <<>> THEN 0 ELSE Final(s.steps[Len(s.steps)])
LineBefore(s, k) == IF k = 1 THEN 0 ELSE Final(s.steps[k - 1])
InStep(x, n) == \E i \in DOMAIN x.lines : x.lines[i] = n
InPlan(s, n) == \E k \in DOMAIN s.steps : InStep(s.steps[k], n)
Awaits(s, n) == \E i \in DOMAIN s.pending : s.pending[i] = n

-----------------------------------------------------------------------------
(* What is true of the state s after the lines q, read as r. *)

StateFields == {"ok", "servers", "groups", "env", "secrets", "workdir", "steps",
                "mode", "target", "pending", "name", "guard", "timeout", "export",
                "last", "heredocs"}
StepFields == {"kind", "target", "lines", "name", "guard", "timeout", "export",
               "env", "opts"}
IsSeq(f) == f \in Seq(Range(f))

\* A step by itself: the lines it was made of are lines of the script.
StepShape(x, n) ==
  /\ DOMAIN x = StepFields
  /\ x.lines \in Seq(1..n) /\ x.lines # <<>> /\ x.export \in Seq(1..n)
  /\ x.env \in Nat
\* The lines of a block ran where the script put them.
StepPut(q, r, x) ==
  x.kind \in {"local", "remote"} =>
    \A j \in DOMAIN x.lines :
      /\ r[x.lines[j]] = Nil
      /\ ModeAt(r, x.lines[j]) = x.kind /\ TargetAt(q, r, x.lines[j]) = x.target
\* A step has what was declared after the line before it.
StepBound(q, r, x, before) ==
  /\ x.guard = Since(r, "only_if", x.lines[1], before)
  /\ x.name = Since(r, "name", x.lines[1], before)
  /\ x.kind \in {"local", "remote", "copy", "assert"}
       => x.timeout = TimeoutAt(q, r, x.lines[1], before)
\* So has each line that was merged into it.
StepMerged(q, r, x) ==
  x.kind \in {"copy", "assert"} => \A i \in 2..Len(x.lines) :
    /\ x.timeout = TimeoutAt(q, r, x.lines[i], x.lines[i - 1])
    /\ x.kind = "copy" => \A e \in x.lines[1]..x.lines[i] : r[e] # "env"
StepWell(q, r, x, before) ==
  /\ StepShape(x, Len(q)) /\ StepPut(q, r, x) /\ StepBound(q, r, x, before)
  /\ StepMerged(q, r, x)
Plan(q, r, s) ==
  \A k \in DOMAIN s.steps : StepWell(q, r, s.steps[k], LineBefore(s, k))

Shape(q, s) ==
  /\ DOMAIN s = StateFields /\ s.ok = TRUE /\ IsSeq(s.steps)
  /\ s.pending \in Seq(1..Len(q)) /\ s.export \in Seq(1..Len(q))
  /\ s.mode \in {"local", "remote"} /\ s.target # Nil
  /\ s.env \in Nat

\* Steps and pending lines increase, within and across.
Ordered(s) ==
  /\ \A k, m \in DOMAIN s.steps :
       \A i \in DOMAIN s.steps[k].lines : \A j \in DOMAIN s.steps[m].lines :
         k < m \/ (k = m /\ i < j) => s.steps[k].lines[i] < s.steps[m].lines[j]
  /\ \A i, j \in DOMAIN s.pending : i < j => s.pending[i] < s.pending[j]
  /\ \A k \in DOMAIN s.steps : \A i \in DOMAIN s.steps[k].lines :
       \A j \in DOMAIN s.pending : s.steps[k].lines[i] < s.pending[j]

\* No statement is lost and no step.
MakeSteps == Stepping \union Asserting \union {"copy"}
Kept(q, r, s) ==
  \A n \in 1..Len(q) : q[n].exec \/ r[n] \in MakeSteps => InPlan(s, n) \/ Awaits(s, n)

\* The pending block: where it will run, and that only exports are read in it.
Pending(q, r, s) ==
  /\ s.mode = ModeAt(r, Len(q) + 1)
  /\ s.mode = "remote" => s.target = TargetAt(q, r, Len(q) + 1)
  /\ \A j \in DOMAIN s.pending : r[s.pending[j]] = Nil
  /\ s.pending # <<>> => \A i \in s.pending[1]..Len(q) : r[i] \in {Nil, "export"}

\* What was declared since the last line of the plan is what is remembered.
Remembered(q, r, s) ==
  /\ s.guard = Since(r, "only_if", Len(q) + 1, LastLine(s))
  /\ s.name = Since(r, "name", Len(q) + 1, LastLine(s))
  /\ s.timeout = TimeoutAt(q, r, Len(q) + 1, LastLine(s))

\* The last target of the plan.
Inherited(s) ==
  \/ s.last = Nil /\ \A k \in DOMAIN s.steps : s.steps[k].target = Nil
  \/ \E k \in DOMAIN s.steps :
       /\ s.steps[k].target # Nil /\ s.last = s.steps[k].target
       /\ \A m \in DOMAIN s.steps : k < m => s.steps[m].target = Nil

\* A line that says something: it has a statement, or the form of a directive.
\* Only a block with a statement has such lines, an open here-document or an
\* export; and what speaks after a step comes after the exports of the step.
Speaks(q, n) == q[n].exec \/ q[n].dir # Nil
Executable(q, s) == \E i \in DOMAIN s.pending : q[s.pending[i]].exec
Exports(q, s) ==
  /\ s.heredocs # <<>> => Executable(q, s)
  /\ \A i \in DOMAIN s.pending : q[s.pending[i]].dir # Nil => Executable(q, s)
  /\ s.export # <<>> => s.mode = "local" /\ Executable(q, s)
  /\ \A k \in DOMAIN s.steps : \A e \in DOMAIN s.steps[k].export :
       /\ s.steps[k].kind = "local"
       /\ \A m \in DOMAIN s.steps : \A i \in DOMAIN s.steps[m].lines :
            k < m /\ Speaks(q, s.steps[m].lines[i])
              => s.steps[k].export[e] < s.steps[m].lines[i]
       /\ \A i \in DOMAIN s.pending :
            Speaks(q, s.pending[i]) => s.steps[k].export[e] < s.pending[i]

\* A step has the present environment only when none was declared since.
Environments(q, r, s) ==
  \A k \in DOMAIN s.steps :
    /\ s.steps[k].env <= s.env
    /\ s.steps[k].env = s.env => \A e \in s.steps[k].lines[1]..Len(q) : r[e] # "env"

After(q, r, s) ==
  /\ Shape(q, s) /\ Plan(q, r, s) /\ Ordered(s) /\ Kept(q, r, s)
  /\ Pending(q, r, s) /\ Remembered(q, r, s) /\ Inherited(s) /\ Exports(q, s)
  /\ Environments(q, r, s)

-----------------------------------------------------------------------------
(* The last line of a kind, when a line is added. *)

LastKnown(r, n) ==
  \A m \in 1..(n + 1) : \A d :
    LET k == LastOf(r, m, d)
    IN /\ k \in 0..(m - 1) /\ (k # 0 => r[k] \in d)
       /\ \A i \in (k + 1)..(m - 1) : r[i] \notin d

\* One line more, l, that was read as d.
Grows(q, r, l, d, r2) ==
  /\ q \in Seq(Lines) /\ l \in Lines /\ LastKnown(r, Len(q))
  /\ \A i \in 1..Len(q) : r2[i] = r[i] /\ (r[i] # Nil => r[i] = q[i].dir)
  /\ r2[Len(q) + 1] = d /\ (d # Nil => d = l.dir)

\* The greatest member of a set that has one.
LEMMA MaxIs ==
  ASSUME NEW S \in SUBSET Int, NEW m \in S, \A j \in S : j <= m
  PROVE  Max0(S) = m
<1>1. \A i \in S : (\A j \in S : j <= i) => i = m
  OBVIOUS
<1> QED BY <1>1 DEF Max0

\* Of no numbers, Max0 is 0.
LEMMA MaxOfNone == Max0({}) = 0
  BY DEF Max0

\* How to find the last line of a kind: one that is, and none after it.
LEMMA LastIs ==
  ASSUME NEW r, NEW m \in Nat \ {0}, NEW d, NEW k \in 0..(m - 1),
         k # 0 => r[k] \in d, \A i \in (k + 1)..(m - 1) : r[i] \notin d
  PROVE  LastOf(r, m, d) = k
<1> DEFINE S == {i \in 1..(m - 1) : r[i] \in d}
<1>1. \A i \in S : i <= k
  OBVIOUS
<1>2. CASE k = 0
  <2>1. S = {}
    BY <1>2, <1>1
  <2> QED BY <1>2, <2>1, MaxOfNone DEF LastOf
<1>3. CASE k # 0
  <2>1. k \in S /\ S \in SUBSET Int
    BY <1>3
  <2> HIDE DEF S
  <2>2. Max0(S) = k
    BY <2>1, <1>1, MaxIs
  <2> QED BY <2>2 DEF LastOf, S
<1> QED BY <1>2, <1>3

\* Of an empty script everything is known.
LEMMA NothingLast == ASSUME NEW r PROVE LastKnown(r, 0)
<1>1. \A d : LastOf(r, 1, d) = 0
  BY LastIs
<1> QED BY <1>1 DEF LastKnown

\* The last line of a kind, when one line is added: that line, or the same.
LEMMA LastGrows ==
  ASSUME NEW q, NEW r, NEW l, NEW d, NEW r2, Grows(q, r, l, d, r2)
  PROVE  /\ \A m \in 1..(Len(q) + 1) : \A D : LastOf(r2, m, D) = LastOf(r, m, D)
         /\ \A D : LastOf(r2, Len(q) + 2, D) =
              IF d \in D THEN Len(q) + 1 ELSE LastOf(r, Len(q) + 1, D)
         /\ LastKnown(r2, Len(q) + 1)
<1>1. Len(q) \in Nat
  BY DEF Grows
<1>2. ASSUME NEW m \in 1..(Len(q) + 1), NEW D
      PROVE  LastOf(r2, m, D) = LastOf(r, m, D)
  <2> DEFINE k == LastOf(r, m, D)
  <2>1. k \in 0..(m - 1) /\ (k # 0 => r[k] \in D)
        /\ \A i \in (k + 1)..(m - 1) : r[i] \notin D
    BY DEF Grows, LastKnown
  <2> HIDE DEF k
  <2>2. \A i \in 1..(m - 1) : r2[i] = r[i]
    BY <1>1 DEF Grows
  <2>3. (k # 0 => r2[k] \in D) /\ \A i \in (k + 1)..(m - 1) : r2[i] \notin D
    BY <1>1, <2>1, <2>2
  <2>4. m \in Nat \ {0} /\ k \in 0..(m - 1)
    BY <1>1, <2>1
  <2>5. LastOf(r2, m, D) = k
    BY <2>3, <2>4, LastIs
  <2> QED BY <2>5 DEF k
<1>3. ASSUME NEW D
      PROVE  LastOf(r2, Len(q) + 2, D) =
               IF d \in D THEN Len(q) + 1 ELSE LastOf(r, Len(q) + 1, D)
  <2>1. CASE d \in D
    <3>1. r2[Len(q) + 1] \in D
      BY <2>1 DEF Grows
    <3> QED BY <1>1, <2>1, <3>1, LastIs
  <2>2. CASE d \notin D
    <3> DEFINE k == LastOf(r, Len(q) + 1, D)
    <3>1. k \in 0..Len(q) /\ (k # 0 => r[k] \in D)
          /\ \A i \in (k + 1)..Len(q) : r[i] \notin D
      BY <1>1 DEF Grows, LastKnown
    <3> HIDE DEF k
    <3>2. (\A i \in 1..Len(q) : r2[i] = r[i]) /\ r2[Len(q) + 1] \notin D
      BY <2>2 DEF Grows
    <3>3. (k # 0 => r2[k] \in D) /\ \A i \in (k + 1)..(Len(q) + 1) : r2[i] \notin D
      BY <1>1, <3>1, <3>2
    <3>4. LastOf(r2, Len(q) + 2, D) = k
      BY <1>1, <3>1, <3>3, LastIs
    <3> QED BY <2>2, <3>4 DEF k
  <2> QED BY <2>1, <2>2
<1>4. LastKnown(r2, Len(q) + 1)
  <2> SUFFICES ASSUME NEW m \in 1..(Len(q) + 2), NEW D
               PROVE  /\ LastOf(r2, m, D) \in 0..(m - 1)
                      /\ LastOf(r2, m, D) # 0 => r2[LastOf(r2, m, D)] \in D
                      /\ \A i \in (LastOf(r2, m, D) + 1)..(m - 1) : r2[i] \notin D
    BY <1>1 DEF LastKnown
  <2>1. /\ \A i \in 1..Len(q) : r2[i] = r[i]
        /\ r2[Len(q) + 1] = d
    BY DEF Grows
  <2>2. CASE m \in 1..(Len(q) + 1)
    <3>1. /\ LastOf(r, m, D) \in 0..(m - 1)
          /\ LastOf(r, m, D) # 0 => r[LastOf(r, m, D)] \in D
          /\ \A i \in (LastOf(r, m, D) + 1)..(m - 1) : r[i] \notin D
      BY <2>2 DEF Grows, LastKnown
    <3>2. LastOf(r2, m, D) = LastOf(r, m, D)
      BY <1>2, <2>2
    <3> QED BY <1>1, <2>1, <2>2, <3>1, <3>2
  <2>3. CASE m = Len(q) + 2
    <3> DEFINE k == LastOf(r, Len(q) + 1, D)
    <3>1. /\ k \in 0..Len(q) /\ (k # 0 => r[k] \in D)
          /\ \A i \in (k + 1)..Len(q) : r[i] \notin D
      BY <1>1 DEF Grows, LastKnown
    <3>2. LastOf(r2, m, D) = IF d \in D THEN Len(q) + 1 ELSE k
      BY <1>3, <2>3
    <3> HIDE DEF k
    <3> QED BY <1>1, <2>1, <2>3, <3>1, <3>2
  <2> QED BY <1>1, <2>2, <2>3
<1> QED BY <1>2, <1>3, <1>4

\* Nothing of a kind since line p: the last one is the one before p.
LEMMA NoneSince ==
  ASSUME NEW r, NEW n \in Nat, LastKnown(r, n), NEW D, NEW p \in 1..(n + 1),
         \A i \in p..n : r[i] \notin D
  PROVE  LastOf(r, n + 1, D) = LastOf(r, p, D)
<1> DEFINE k == LastOf(r, p, D)
<1>1. /\ k \in 0..(p - 1) /\ (k # 0 => r[k] \in D)
      /\ \A i \in (k + 1)..(p - 1) : r[i] \notin D
  BY DEF LastKnown
<1> HIDE DEF k
<1>2. \A i \in (k + 1)..n : r[i] \notin D
  BY <1>1
<1>3. k \in 0..n
  BY <1>1
<1>4. LastOf(r, n + 1, D) = k
  BY <1>1, <1>2, <1>3, LastIs, SMTT(20)
<1> QED BY <1>4 DEF k

\* The same for what is read off the last lines of a kind: nothing changes up
\* to the added line, and after it only what that line is about.
LEMMA SinceGrows ==
  ASSUME NEW q, NEW r, NEW l, NEW d, NEW r2, Grows(q, r, l, d, r2)
  PROVE  /\ \A m \in 1..(Len(q) + 1) : \A dir, b : Since(r2, dir, m, b) = Since(r, dir, m, b)
         /\ \A dir : \A b \in 0..Len(q) :
              Since(r2, dir, Len(q) + 2, b) =
                IF d = dir THEN Len(q) + 1 ELSE Since(r, dir, Len(q) + 1, b)
         /\ \A dir : d # dir => Since(r2, dir, Len(q) + 2, Len(q) + 1) = 0
<1>1. Len(q) \in Nat
  BY DEF Grows
<1>2. ASSUME NEW m \in 1..(Len(q) + 1), NEW dir, NEW b
      PROVE  Since(r2, dir, m, b) = Since(r, dir, m, b)
  <2>1. LastOf(r2, m, {dir}) = LastOf(r, m, {dir})
    BY LastGrows
  <2> QED BY <2>1 DEF Since
<1>3. ASSUME NEW dir
      PROVE  LastOf(r2, Len(q) + 2, {dir}) =
               IF d = dir THEN Len(q) + 1 ELSE LastOf(r, Len(q) + 1, {dir})
  BY LastGrows
<1>4. ASSUME NEW dir
      PROVE  LastOf(r, Len(q) + 1, {dir}) \in 0..Len(q)
  BY <1>1 DEF Grows, LastKnown
<1>5. ASSUME NEW dir, NEW b \in 0..Len(q)
      PROVE  Since(r2, dir, Len(q) + 2, b) =
               IF d = dir THEN Len(q) + 1 ELSE Since(r, dir, Len(q) + 1, b)
  <2>1. CASE d = dir
    BY <1>1, <1>3, <2>1 DEF Since
  <2>2. CASE d # dir
    <3>1. LastOf(r2, Len(q) + 2, {dir}) = LastOf(r, Len(q) + 1, {dir})
      BY <1>3, <2>2
    <3> QED BY <2>2, <3>1 DEF Since
  <2> QED BY <2>1, <2>2
<1>6. ASSUME NEW dir, d # dir
      PROVE  Since(r2, dir, Len(q) + 2, Len(q) + 1) = 0
  <2>1. LastOf(r2, Len(q) + 2, {dir}) = LastOf(r, Len(q) + 1, {dir})
    BY <1>3, <1>6
  <2>2. LastOf(r, Len(q) + 1, {dir}) \in 0..Len(q)
    BY <1>4
  <2> QED BY <1>1, <2>1, <2>2 DEF Since
<1> QED BY <1>2, <1>5, <1>6

\* What was declared since a line is a line before, and of that kind.
LEMMA SinceIn ==
  ASSUME NEW r, NEW n \in Nat, LastKnown(r, n), NEW m \in 1..(n + 1), NEW dir, NEW b
  PROVE  /\ Since(r, dir, m, b) \in 0..(m - 1)
         /\ Since(r, dir, m, b) # 0 => r[Since(r, dir, m, b)] = dir
<1>1. LastOf(r, m, {dir}) \in 0..(m - 1)
      /\ (LastOf(r, m, {dir}) # 0 => r[LastOf(r, m, {dir})] = dir)
  BY DEF LastKnown
<1> QED BY <1>1 DEF Since

\* The budget in force, one line later.
LEMMA TimeoutGrows ==
  ASSUME NEW q, NEW r, NEW l, NEW d, NEW r2, Grows(q, r, l, d, r2)
  PROVE  LET p == Append(q, l)
         IN /\ \A m \in 1..(Len(q) + 1) : \A b :
                 TimeoutAt(p, r2, m, b) = TimeoutAt(q, r, m, b)
            /\ \A b \in 0..Len(q) :
                 TimeoutAt(p, r2, Len(q) + 2, b) =
                   IF d = "timeout" THEN Text(l.words[1])
                   ELSE TimeoutAt(q, r, Len(q) + 1, b)
            /\ d # "timeout" => TimeoutAt(p, r2, Len(q) + 2, Len(q) + 1) = Nil
<1> DEFINE p == Append(q, l)
<1>1. Len(q) \in Nat /\ LastKnown(r, Len(q))
  BY DEF Grows
<1>2. (\A i \in 1..Len(q) : p[i] = q[i]) /\ p[Len(q) + 1] = l
  BY DEF Grows
<1> HIDE DEF p
<1>3. ASSUME NEW m \in 1..(Len(q) + 1), NEW b
      PROVE  TimeoutAt(p, r2, m, b) = TimeoutAt(q, r, m, b)
  <2>1. Since(r2, "timeout", m, b) = Since(r, "timeout", m, b)
    BY SinceGrows
  <2>2. Since(r, "timeout", m, b) \in 0..(m - 1)
    BY <1>1, SinceIn
  <2>3. Since(r, "timeout", m, b) # 0
          => p[Since(r, "timeout", m, b)] = q[Since(r, "timeout", m, b)]
    BY <1>1, <1>2, <2>2
  <2> QED BY <2>1, <2>3 DEF TimeoutAt
<1>4. ASSUME NEW b \in 0..Len(q)
      PROVE  TimeoutAt(p, r2, Len(q) + 2, b) =
               IF d = "timeout" THEN Text(l.words[1])
               ELSE TimeoutAt(q, r, Len(q) + 1, b)
  <2>1. Since(r2, "timeout", Len(q) + 2, b) =
          IF d = "timeout" THEN Len(q) + 1 ELSE Since(r, "timeout", Len(q) + 1, b)
    BY SinceGrows
  <2>2. CASE d = "timeout"
    BY <1>1, <1>2, <2>1, <2>2 DEF TimeoutAt
  <2>3. CASE d # "timeout"
    <3>1. Since(r, "timeout", Len(q) + 1, b) \in 0..Len(q)
      BY <1>1, SinceIn
    <3>2. Since(r, "timeout", Len(q) + 1, b) # 0
            => p[Since(r, "timeout", Len(q) + 1, b)] = q[Since(r, "timeout", Len(q) + 1, b)]
      BY <1>1, <1>2, <3>1
    <3> QED BY <2>1, <2>3, <3>2 DEF TimeoutAt
  <2> QED BY <2>2, <2>3
<1>5. ASSUME d # "timeout"
      PROVE  TimeoutAt(p, r2, Len(q) + 2, Len(q) + 1) = Nil
  <2>1. Since(r2, "timeout", Len(q) + 2, Len(q) + 1) = 0
    BY <1>5, SinceGrows
  <2> QED BY <2>1 DEF TimeoutAt
<1> QED BY <1>3, <1>4, <1>5 DEF p

\* A line runs here or on a target, and the directive that says so was read.
LEMMA PlaceIn ==
  ASSUME NEW r, NEW n \in Nat, LastKnown(r, n), NEW m \in 1..(n + 1)
  PROVE  /\ ModeAt(r, m) \in {"local", "remote"}
         /\ ModeAt(r, m) = "remote" => LastOf(r, m, {"remote"}) \in 1..(m - 1)
<1> DEFINE k == LastOf(r, m, {"local", "remote", "copy"})
           j == LastOf(r, m, {"remote"})
<1>1. k \in 0..(m - 1) /\ j \in 0..(m - 1) /\ \A i \in (j + 1)..(m - 1) : r[i] # "remote"
  BY DEF LastKnown
<1>2. ModeAt(r, m) = IF k # 0 /\ r[k] = "remote" THEN "remote" ELSE "local"
  BY DEF ModeAt
<1> HIDE DEF k, j
<1>3. k # 0 /\ r[k] = "remote" => j # 0
  BY <1>1
<1> QED BY <1>1, <1>2, <1>3 DEF j

\* Where a line runs, one line later.
LEMMA PlaceGrows ==
  ASSUME NEW q, NEW r, NEW l, NEW d, NEW r2, Grows(q, r, l, d, r2)
  PROVE  LET p == Append(q, l)
         IN /\ \A m \in 1..(Len(q) + 1) :
                 ModeAt(r2, m) = ModeAt(r, m) /\ TargetAt(p, r2, m) = TargetAt(q, r, m)
            /\ ModeAt(r2, Len(q) + 2) =
                 IF d \in {"local", "copy"} THEN "local"
                 ELSE IF d = "remote" THEN "remote" ELSE ModeAt(r, Len(q) + 1)
            /\ TargetAt(p, r2, Len(q) + 2) =
                 IF d \in {"local", "copy"} THEN Nil
                 ELSE IF d = "remote" THEN Text(l.words[1]) ELSE TargetAt(q, r, Len(q) + 1)
<1> DEFINE p == Append(q, l)
           D == {"local", "remote", "copy"}
<1>1. Len(q) \in Nat /\ LastKnown(r, Len(q))
  BY DEF Grows
<1>2. (\A i \in 1..Len(q) : p[i] = q[i]) /\ p[Len(q) + 1] = l
  BY DEF Grows
<1>3. (\A i \in 1..Len(q) : r2[i] = r[i]) /\ r2[Len(q) + 1] = d
  BY DEF Grows
<1> HIDE DEF p
<1>4. ASSUME NEW m \in 1..(Len(q) + 1)
      PROVE  ModeAt(r2, m) = ModeAt(r, m) /\ TargetAt(p, r2, m) = TargetAt(q, r, m)
  <2>1. LastOf(r2, m, D) = LastOf(r, m, D)
        /\ LastOf(r2, m, {"remote"}) = LastOf(r, m, {"remote"})
    BY LastGrows
  <2>2. LastOf(r, m, D) \in 0..Len(q)
    BY <1>1 DEF LastKnown
  <2>3. LastOf(r, m, D) # 0 => r2[LastOf(r, m, D)] = r[LastOf(r, m, D)]
    BY <1>1, <1>3, <2>2
  <2>4. ModeAt(r2, m) = ModeAt(r, m)
    BY <2>1, <2>3 DEF ModeAt
  <2>5. ModeAt(r, m) # "local"
          => p[LastOf(r, m, {"remote"})] = q[LastOf(r, m, {"remote"})]
    BY <1>1, <1>2, PlaceIn
  <2> QED BY <2>1, <2>4, <2>5 DEF TargetAt
<1>5. LastOf(r2, Len(q) + 2, D) =
        IF d \in D THEN Len(q) + 1 ELSE LastOf(r, Len(q) + 1, D)
  BY LastGrows
<1>6. LastOf(r2, Len(q) + 2, {"remote"}) =
        IF d = "remote" THEN Len(q) + 1 ELSE LastOf(r, Len(q) + 1, {"remote"})
  <2>1. LastOf(r2, Len(q) + 2, {"remote"}) =
          IF d \in {"remote"} THEN Len(q) + 1 ELSE LastOf(r, Len(q) + 1, {"remote"})
    BY LastGrows
  <2> QED BY <2>1
<1>7. LastOf(r, Len(q) + 1, D) \in 0..Len(q)
  BY <1>1 DEF LastKnown
<1>8. CASE d \in {"local", "copy"}
  <2>1. ModeAt(r2, Len(q) + 2) = "local"
    BY <1>1, <1>3, <1>5, <1>8 DEF ModeAt
  <2> QED BY <1>4, <1>8, <2>1 DEF TargetAt, p
<1>9. CASE d = "remote"
  <2>1. ModeAt(r2, Len(q) + 2) = "remote"
    BY <1>1, <1>3, <1>5, <1>9 DEF ModeAt
  <2>2. TargetAt(p, r2, Len(q) + 2) = Text(l.words[1])
    BY <1>2, <1>6, <1>9, <2>1 DEF TargetAt
  <2> QED BY <1>4, <1>9, <2>1, <2>2 DEF p
<1>10. CASE d \notin D
  <2>1. LastOf(r2, Len(q) + 2, D) = LastOf(r, Len(q) + 1, D)
        /\ LastOf(r2, Len(q) + 2, {"remote"}) = LastOf(r, Len(q) + 1, {"remote"})
    BY <1>5, <1>6, <1>10
  <2>2. LastOf(r, Len(q) + 1, D) # 0
          => r2[LastOf(r, Len(q) + 1, D)] = r[LastOf(r, Len(q) + 1, D)]
    BY <1>1, <1>3, <1>7
  <2>3. ModeAt(r2, Len(q) + 2) = ModeAt(r, Len(q) + 1)
    BY <2>1, <2>2 DEF ModeAt
  <2>4. Len(q) + 1 \in 1..(Len(q) + 1)
    BY <1>1
  <2>5. ModeAt(r, Len(q) + 1) # "local"
          => p[LastOf(r, Len(q) + 1, {"remote"})] = q[LastOf(r, Len(q) + 1, {"remote"})]
    BY <1>1, <1>2, <2>4, PlaceIn
  <2>6. TargetAt(p, r2, Len(q) + 2) = TargetAt(q, r, Len(q) + 1)
    BY <2>1, <2>3, <2>5 DEF TargetAt
  <2> QED BY <1>4, <1>10, <2>3, <2>6 DEF p
<1> QED BY <1>8, <1>9, <1>10

-----------------------------------------------------------------------------
(* Steps: a step stays well when the script grows; a step is added to the  *)
(* plan, or the last one replaced.                                         *)

\* A step that is well stays so when the script grows.
LEMMA WellGrows ==
  ASSUME NEW q, NEW r, NEW l, NEW d, NEW r2, Grows(q, r, l, d, r2),
         NEW x, NEW b, StepWell(q, r, x, b)
  PROVE  StepWell(Append(q, l), r2, x, b)
<1> DEFINE p == Append(q, l)
<1>1. Len(q) \in Nat /\ Len(p) = Len(q) + 1
  BY DEF Grows
<1>2. \A i \in 1..Len(q) : r2[i] = r[i]
  BY DEF Grows
<1> HIDE DEF p
<1>3. /\ x.lines \in Seq(1..Len(q)) /\ x.lines # <<>>
      /\ Len(x.lines) \in Nat \ {0}
      /\ \A i \in 1..Len(x.lines) : x.lines[i] \in 1..Len(q)
      /\ \A i \in 1..Len(x.lines) : x.lines[i] \in 1..(Len(q) + 1)
  <2>1. StepShape(x, Len(q))
    BY DEF StepWell
  <2>2. /\ x.lines \in Seq(1..Len(q)) /\ x.lines # <<>> /\ Len(x.lines) \in Nat \ {0}
        /\ \A i \in 1..Len(x.lines) : x.lines[i] \in 1..Len(q)
    <3>1. x.lines \in Seq(1..Len(q)) /\ x.lines # <<>>
      BY <2>1 DEF StepShape
    <3> QED BY <3>1
  <2>3. 1..Len(q) \subseteq 1..(Len(q) + 1)
    BY <1>1
  <2> QED BY <2>2, <2>3
<1>4. StepShape(x, Len(p))
  <2>1. StepShape(x, Len(q)) /\ 1..Len(q) \subseteq 1..Len(p)
    BY <1>1 DEF StepWell
  <2>2. x.lines \in Seq(1..Len(p)) /\ x.export \in Seq(1..Len(p))
    BY <1>1, <2>1 DEF StepShape
  <2> QED BY <2>1, <2>2 DEF StepShape
<1>5. \A m \in 1..(Len(q) + 1) :
        ModeAt(r2, m) = ModeAt(r, m) /\ TargetAt(p, r2, m) = TargetAt(q, r, m)
  BY PlaceGrows DEF p
<1>6. StepPut(p, r2, x)
  <2> SUFFICES ASSUME x.kind \in {"local", "remote"}, NEW j \in DOMAIN x.lines
               PROVE  /\ r2[x.lines[j]] = Nil
                      /\ ModeAt(r2, x.lines[j]) = x.kind
                      /\ TargetAt(p, r2, x.lines[j]) = x.target
    BY DEF StepPut
  <2>1. /\ r[x.lines[j]] = Nil
        /\ ModeAt(r, x.lines[j]) = x.kind /\ TargetAt(q, r, x.lines[j]) = x.target
    BY DEF StepWell, StepPut
  <2>2. x.lines[j] \in 1..Len(q) /\ x.lines[j] \in 1..(Len(q) + 1)
    BY <1>3
  <2> QED BY <1>2, <1>5, <2>1, <2>2
<1>7. \A m \in 1..(Len(q) + 1) : \A dir, c : Since(r2, dir, m, c) = Since(r, dir, m, c)
  BY SinceGrows
<1>8. \A m \in 1..(Len(q) + 1) : \A c : TimeoutAt(p, r2, m, c) = TimeoutAt(q, r, m, c)
  BY TimeoutGrows DEF p
<1>9. StepBound(p, r2, x, b)
  BY <1>3, <1>7, <1>8 DEF StepWell, StepBound
<1>10. StepMerged(p, r2, x)
  <2> SUFFICES ASSUME x.kind \in {"copy", "assert"}, NEW i \in 2..Len(x.lines)
               PROVE  /\ x.timeout = TimeoutAt(p, r2, x.lines[i], x.lines[i - 1])
                      /\ x.kind = "copy" =>
                           \A e \in x.lines[1]..x.lines[i] : r2[e] # "env"
    BY DEF StepMerged
  <2>1. x.timeout = TimeoutAt(q, r, x.lines[i], x.lines[i - 1])
        /\ (x.kind = "copy" => \A e \in x.lines[1]..x.lines[i] : r[e] # "env")
    BY DEF StepWell, StepMerged
  <2>2. x.lines[i] \in 1..Len(q) /\ x.lines[i] \in 1..(Len(q) + 1)
        /\ x.lines[1] \in 1..Len(q)
    BY <1>3
  <2>3. TimeoutAt(p, r2, x.lines[i], x.lines[i - 1]) =
          TimeoutAt(q, r, x.lines[i], x.lines[i - 1])
    BY <1>8, <2>2
  <2>4. \A e \in x.lines[1]..x.lines[i] : r2[e] = r[e]
    BY <1>1, <1>2, <2>2
  <2> QED BY <2>1, <2>3, <2>4
<1> QED BY <1>4, <1>6, <1>9, <1>10 DEF StepWell, p

\* What a sequence is when an element is added to it.
LEMMA Appended ==
  ASSUME NEW f, IsSeq(f), NEW e
  PROVE  /\ Len(f) \in Nat /\ DOMAIN f = 1..Len(f)
         /\ IsSeq(Append(f, e)) /\ Append(f, e) # <<>>
         /\ Len(Append(f, e)) = Len(f) + 1
         /\ DOMAIN Append(f, e) = 1..(Len(f) + 1)
         /\ \A k \in 1..Len(f) : Append(f, e)[k] = f[k]
         /\ Append(f, e)[Len(f) + 1] = e
<1> DEFINE S == Range(f) \union {e}
           g == Append(f, e)
<1>1. f \in Seq(S) /\ e \in S
  BY DEF IsSeq
<1>2. /\ Len(f) \in Nat /\ DOMAIN f = 1..Len(f)
      /\ g \in Seq(S) /\ Len(g) = Len(f) + 1 /\ DOMAIN g = 1..(Len(f) + 1)
      /\ \A k \in 1..Len(f) : g[k] = f[k]
      /\ g[Len(f) + 1] = e
  BY <1>1
<1> HIDE DEF g, S
<1>3. g \in Seq(Range(g))
  <2>1. \A k \in 1..Len(g) : g[k] \in Range(g)
    BY <1>2 DEF Range
  <2> QED BY <1>2, <2>1
<1>4. g # <<>>
  BY <1>2
<1> QED BY <1>2, <1>3, <1>4 DEF IsSeq, g

\* What a sequence is when one of its elements, the last, is replaced.
LEMMA Replaced ==
  ASSUME NEW f, IsSeq(f), f # <<>>, NEW e
  PROVE  LET g == [f EXCEPT ![Len(f)] = e]
         IN /\ Len(f) \in Nat \ {0} /\ DOMAIN f = 1..Len(f)
            /\ IsSeq(g) /\ g # <<>> /\ Len(g) = Len(f) /\ DOMAIN g = 1..Len(f)
            /\ \A k \in 1..(Len(f) - 1) : g[k] = f[k]
            /\ g[Len(f)] = e
<1> DEFINE S == Range(f) \union {e}
           g == [f EXCEPT ![Len(f)] = e]
           n == Len(f)
<1>1. f \in Seq(S) /\ e \in S
  BY DEF IsSeq
<1> HIDE DEF S
<1>2. n \in Nat /\ n # 0 /\ DOMAIN f = 1..n /\ n \in 1..n
  BY <1>1
<1>3. g \in Seq(S) /\ Len(g) = n /\ \A k \in 1..n : g[k] = IF k = n THEN e ELSE f[k]
  BY <1>1, <1>2, ExceptSeq
<1> HIDE DEF g, n
<1>4. DOMAIN g = 1..n /\ g # <<>>
  BY <1>2, <1>3
<1>5. g[n] = e /\ \A k \in 1..(n - 1) : g[k] = f[k]
  <2>1. \A k \in 1..(n - 1) : k \in 1..n /\ k # n
    BY <1>2
  <2> QED BY <1>2, <1>3, <2>1
<1>6. g \in Seq(Range(g))
  <2>1. \A k \in 1..Len(g) : g[k] \in Range(g)
    BY <1>3, <1>4 DEF Range
  <2> QED BY <1>3, <2>1
<1>7. IsSeq(g)
  BY <1>6 DEF IsSeq
<1> QED BY <1>2, <1>3, <1>4, <1>5, <1>7 DEF g, n

\* The lines of a step are lines of the script.
LEMMA StepLines ==
  ASSUME NEW n \in Nat, NEW x, StepShape(x, n)
  PROVE  /\ Len(x.lines) \in Nat \ {0} /\ DOMAIN x.lines = 1..Len(x.lines)
         /\ \A i \in 1..Len(x.lines) : x.lines[i] \in 1..n
         /\ Final(x) \in 1..n /\ x.lines[1] \in 1..n
<1>1. Len(x.lines) \in Nat \ {0} /\ DOMAIN x.lines = 1..Len(x.lines)
      /\ \A i \in 1..Len(x.lines) : x.lines[i] \in 1..n
  BY DEF StepShape
<1> QED BY <1>1 DEF Final

\* The last line of the plan is a line of the script, and after all of them.
LEMMA LastLineIn ==
  ASSUME NEW q, Len(q) \in Nat, NEW r, NEW s, Shape(q, s), Plan(q, r, s), Ordered(s)
  PROVE  /\ LastLine(s) \in 0..Len(q)
         /\ \A k \in DOMAIN s.steps : \A i \in DOMAIN s.steps[k].lines :
              s.steps[k].lines[i] <= LastLine(s)
         /\ \A j \in DOMAIN s.pending : LastLine(s) < s.pending[j]
<1>1. Len(s.steps) \in Nat /\ DOMAIN s.steps = 1..Len(s.steps)
      /\ (s.steps = <<>> <=> Len(s.steps) = 0)
  BY DEF Shape, IsSeq
<1>2. \A k \in DOMAIN s.steps : StepShape(s.steps[k], Len(q))
  BY DEF Plan, StepWell
<1>3. DOMAIN s.pending = 1..Len(s.pending) /\ Len(s.pending) \in Nat
      /\ \A j \in DOMAIN s.pending : s.pending[j] \in 1..Len(q)
  BY DEF Shape
<1>4. CASE s.steps = <<>>
  BY <1>1, <1>3, <1>4 DEF LastLine
<1>5. CASE s.steps # <<>>
  <2> DEFINE m == Len(s.steps)
             x == s.steps[m]
  <2>1. m \in DOMAIN s.steps
    BY <1>1, <1>5
  <2>2. /\ Len(x.lines) \in Nat \ {0} /\ DOMAIN x.lines = 1..Len(x.lines)
        /\ Final(x) \in 1..Len(q)
    BY <1>2, <2>1, StepLines
  <2>3. LastLine(s) = Final(x) /\ Final(x) = x.lines[Len(x.lines)]
        /\ Len(x.lines) \in DOMAIN x.lines
    BY <1>5, <2>2 DEF LastLine, Final
  <2>4. ASSUME NEW k \in DOMAIN s.steps, NEW i \in DOMAIN s.steps[k].lines
        PROVE  s.steps[k].lines[i] <= LastLine(s)
    <3>1. CASE k = m /\ i = Len(x.lines)
      BY <2>2, <2>3, <3>1
    <3>2. CASE ~(k = m /\ i = Len(x.lines))
      <4>1. k < m \/ (k = m /\ i < Len(x.lines))
        BY <1>1, <2>2, <3>2
      <4>2. s.steps[k].lines[i] < x.lines[Len(x.lines)]
        BY <2>1, <2>3, <4>1 DEF Ordered
      <4>3. s.steps[k].lines[i] \in 1..Len(q)
        BY <1>2, StepLines
      <4> QED BY <2>2, <2>3, <4>2, <4>3
    <3> QED BY <3>1, <3>2
  <2>5. \A j \in DOMAIN s.pending : LastLine(s) < s.pending[j]
    BY <2>1, <2>3 DEF Ordered
  <2> QED BY <2>2, <2>3, <2>4, <2>5
<1> QED BY <1>4, <1>5

\* The plan with one more step.
LEMMA PlanAppends ==
  ASSUME NEW q, NEW r, NEW s, IsSeq(s.steps), Plan(q, r, s), NEW t, NEW x,
         t.steps = Append(s.steps, x), StepWell(q, r, x, LastLine(s))
  PROVE  Plan(q, r, t) /\ LastLine(t) = Final(x)
<1> DEFINE n == Len(s.steps)
<1>1. /\ n \in Nat /\ DOMAIN s.steps = 1..n
      /\ t.steps # <<>> /\ Len(t.steps) = n + 1 /\ DOMAIN t.steps = 1..(n + 1)
      /\ \A k \in 1..n : t.steps[k] = s.steps[k]
      /\ t.steps[n + 1] = x
  BY Appended
<1>2. LastLine(t) = Final(x)
  BY <1>1 DEF LastLine
<1>3. ASSUME NEW k \in 1..n
      PROVE  StepWell(q, r, t.steps[k], LineBefore(t, k))
  <2>1. LineBefore(t, k) = LineBefore(s, k)
    BY <1>1 DEF LineBefore
  <2>2. StepWell(q, r, s.steps[k], LineBefore(s, k))
    BY <1>1 DEF Plan
  <2> QED BY <1>1, <2>1, <2>2
<1>4. LineBefore(t, n + 1) = LastLine(s)
  <2>1. n = 0 <=> s.steps = <<>>
    BY <1>1 DEF IsSeq
  <2> QED BY <1>1, <2>1 DEF LineBefore, LastLine
<1>5. StepWell(q, r, t.steps[n + 1], LineBefore(t, n + 1))
  BY <1>1, <1>4
<1> QED BY <1>1, <1>2, <1>3, <1>5 DEF Plan

\* The plan with its last step replaced.
LEMMA PlanReplaces ==
  ASSUME NEW q, NEW r, NEW s, IsSeq(s.steps), s.steps # <<>>, Plan(q, r, s),
         NEW t, NEW y, t.steps = [s.steps EXCEPT ![Len(s.steps)] = y],
         StepWell(q, r, y, LineBefore(s, Len(s.steps)))
  PROVE  Plan(q, r, t) /\ LastLine(t) = Final(y)
<1> DEFINE n == Len(s.steps)
<1>1. /\ n \in Nat \ {0} /\ DOMAIN s.steps = 1..n
      /\ t.steps # <<>> /\ Len(t.steps) = n /\ DOMAIN t.steps = 1..n
      /\ \A k \in 1..(n - 1) : t.steps[k] = s.steps[k]
      /\ t.steps[n] = y
  BY Replaced
<1>2. \A k \in 1..n : LineBefore(t, k) = LineBefore(s, k)
  BY <1>1 DEF LineBefore
<1>3. ASSUME NEW k \in 1..n
      PROVE  StepWell(q, r, t.steps[k], LineBefore(t, k))
  <2>1. CASE k = n
    BY <1>1, <1>2, <2>1
  <2>2. CASE k # n
    <3>1. k \in 1..(n - 1)
      BY <1>1, <2>2
    <3>2. StepWell(q, r, s.steps[k], LineBefore(s, k))
      BY <1>1 DEF Plan
    <3> QED BY <1>1, <1>2, <3>1, <3>2
  <2> QED BY <2>1, <2>2
<1> QED BY <1>1, <1>3 DEF Plan, LastLine

-----------------------------------------------------------------------------
(* State::flush: the pending block becomes a step, or is dropped. *)

BlockOf(s) ==
  [kind |-> s.mode, target |-> IF s.mode = "remote" THEN s.target ELSE Nil,
   lines |-> s.pending, name |-> s.name, guard |-> s.guard, timeout |-> s.timeout,
   export |-> s.export, env |-> s.env, opts |-> NoOpts]
\* The fields of t that are those of s.
Same(s, t, fields) == \A f \in fields : t[f] = s[f]
Flushed(q, s, t) ==
  /\ DOMAIN t = StateFields /\ t.pending = <<>>
  /\ Same(s, t, {"ok", "servers", "groups", "env", "mode", "target", "heredocs"})
  /\ IF Executable(q, s)
     THEN /\ t.steps = Append(s.steps, BlockOf(s))
          /\ t.name = 0 /\ t.guard = 0 /\ t.timeout = Nil /\ t.export = <<>>
          /\ t.last = IF s.mode = "remote" THEN s.target ELSE s.last
     ELSE Same(s, t, {"steps", "name", "guard", "timeout", "export", "last"})

\* Flush does one of two things: it adds the block, or it drops it.
LEMMA FlushDoes ==
  ASSUME NEW s, DOMAIN s = StateFields
  PROVE  Flushed(script, s, Flush(s))
<1>1. HasExecutable(s) <=> Executable(script, s)
  BY DEF HasExecutable, Executable
<1>2. CASE HasExecutable(s)
  BY <1>1, <1>2 DEF Flush, Flushed, Step, BlockOf, StateFields, Same
<1>3. CASE ~HasExecutable(s)
  BY <1>1, <1>3 DEF Flush, Flushed, StateFields, Same
<1> QED BY <1>2, <1>3

\* Between its first line and the end nothing was read but exports: what holds
\* at the end of the script holds at each of the lines of the block.
LEMMA QuietBlock ==
  ASSUME NEW q, NEW r, NEW n \in Nat, LastKnown(r, n), NEW p \in 1..(n + 1),
         \A i \in p..n : r[i] \in {Nil, "export"}
  PROVE  /\ ModeAt(r, p) = ModeAt(r, n + 1) /\ TargetAt(q, r, p) = TargetAt(q, r, n + 1)
         /\ \A dir \in {"only_if", "name", "timeout"} : \A b :
              /\ Since(r, dir, p, b) = Since(r, dir, n + 1, b)
              /\ b >= p /\ b \in Nat => Since(r, dir, n + 1, b) = 0
         /\ \A b : TimeoutAt(q, r, p, b) = TimeoutAt(q, r, n + 1, b)
<1>1. ASSUME NEW D, Nil \notin D, "export" \notin D
      PROVE  LastOf(r, p, D) = LastOf(r, n + 1, D)
  <2>1. \A i \in p..n : r[i] \notin D
    BY <1>1
  <2> QED BY <2>1, NoneSince
<1>2. LastOf(r, p, {"local", "remote", "copy"}) = LastOf(r, n + 1, {"local", "remote", "copy"})
      /\ LastOf(r, p, {"remote"}) = LastOf(r, n + 1, {"remote"})
  BY <1>1 DEF Nil
<1>3. ModeAt(r, p) = ModeAt(r, n + 1) /\ TargetAt(q, r, p) = TargetAt(q, r, n + 1)
  BY <1>2 DEF ModeAt, TargetAt
<1>4. ASSUME NEW dir \in {"only_if", "name", "timeout"}, NEW b
      PROVE  /\ Since(r, dir, p, b) = Since(r, dir, n + 1, b)
             /\ b >= p /\ b \in Nat => Since(r, dir, n + 1, b) = 0
  <2>1. LastOf(r, p, {dir}) = LastOf(r, n + 1, {dir})
    BY <1>1 DEF Nil
  <2>2. LastOf(r, p, {dir}) \in 0..(p - 1)
    BY DEF LastKnown
  <2> QED BY <2>1, <2>2 DEF Since
<1>5. ASSUME NEW b
      PROVE  TimeoutAt(q, r, p, b) = TimeoutAt(q, r, n + 1, b)
  BY <1>4 DEF TimeoutAt
<1> QED BY <1>3, <1>4, <1>5

\* The pending block, made into a step, is a step like the others.
LEMMA BlockIsWell ==
  ASSUME NEW q, Len(q) \in Nat, NEW r, LastKnown(r, Len(q)), NEW s, After(q, r, s),
         Executable(q, s)
  PROVE  /\ StepWell(q, r, BlockOf(s), LastLine(s))
         /\ s.pending # <<>> /\ s.pending[1] \in 1..Len(q)
         /\ \A i \in DOMAIN s.pending :
              s.pending[i] \in 1..Len(q) /\ s.pending[1] <= s.pending[i]
         /\ Final(BlockOf(s)) \in 1..Len(q) /\ s.pending[1] <= Final(BlockOf(s))
<1> DEFINE n == Len(q)
           x == BlockOf(s)
<1>1. /\ s.pending \in Seq(1..n) /\ s.pending # <<>>
      /\ Len(s.pending) \in Nat \ {0} /\ DOMAIN s.pending = 1..Len(s.pending)
      /\ \A i \in DOMAIN s.pending : s.pending[i] \in 1..n
  BY DEF After, Shape, Executable
<1>2. \A i \in DOMAIN s.pending : s.pending[1] <= s.pending[i]
  <2> SUFFICES ASSUME NEW i \in DOMAIN s.pending PROVE s.pending[1] <= s.pending[i]
    OBVIOUS
  <2>1. CASE i = 1
    BY <1>1, <2>1
  <2>2. CASE i # 1
    <3>1. 1 \in DOMAIN s.pending /\ 1 < i
      BY <1>1, <2>2
    <3>2. s.pending[1] < s.pending[i]
      BY <3>1 DEF After, Ordered
    <3> QED BY <1>1, <3>1, <3>2
  <2> QED BY <2>1, <2>2
<1>3. \A i \in s.pending[1]..n : r[i] \in {Nil, "export"}
  BY <1>1 DEF After, Pending
<1>4. ASSUME NEW j \in DOMAIN s.pending
      PROVE  /\ ModeAt(r, s.pending[j]) = ModeAt(r, n + 1)
             /\ TargetAt(q, r, s.pending[j]) = TargetAt(q, r, n + 1)
  <2>1. s.pending[j] \in 1..(n + 1) /\ \A i \in s.pending[j]..n : r[i] \in {Nil, "export"}
    BY <1>1, <1>2, <1>3
  <2> QED BY <2>1, QuietBlock
<1>5. s.pending[1] \in 1..(n + 1)
  BY <1>1
<1>6. /\ x.kind = s.mode /\ x.lines = s.pending /\ x.name = s.name /\ x.guard = s.guard
      /\ x.timeout = s.timeout /\ x.export = s.export /\ x.env = s.env
      /\ x.target = (IF s.mode = "remote" THEN s.target ELSE Nil)
      /\ DOMAIN x = StepFields
  BY DEF BlockOf, StepFields
<1> HIDE DEF x
<1>7. StepShape(x, n)
  BY <1>1, <1>6 DEF After, Shape, StepShape
<1>8. StepPut(q, r, x)
  <2> SUFFICES ASSUME NEW j \in DOMAIN s.pending
               PROVE  /\ r[s.pending[j]] = Nil /\ ModeAt(r, s.pending[j]) = s.mode
                      /\ TargetAt(q, r, s.pending[j]) =
                           (IF s.mode = "remote" THEN s.target ELSE Nil)
    BY <1>6 DEF StepPut
  <2>1. r[s.pending[j]] = Nil /\ s.mode = ModeAt(r, n + 1)
        /\ (s.mode = "remote" => s.target = TargetAt(q, r, n + 1))
    BY DEF After, Pending
  <2>2. ModeAt(r, n + 1) = "local" => TargetAt(q, r, n + 1) = Nil
    BY DEF TargetAt
  <2>3. s.mode \in {"local", "remote"}
    BY DEF After, Shape
  <2> QED BY <1>4, <2>1, <2>2, <2>3
<1>9. StepBound(q, r, x, LastLine(s))
  <2>1. /\ s.guard = Since(r, "only_if", n + 1, LastLine(s))
        /\ s.name = Since(r, "name", n + 1, LastLine(s))
        /\ s.timeout = TimeoutAt(q, r, n + 1, LastLine(s))
    BY DEF After, Remembered
  <2>2. /\ Since(r, "only_if", s.pending[1], LastLine(s)) = s.guard
        /\ Since(r, "name", s.pending[1], LastLine(s)) = s.name
        /\ TimeoutAt(q, r, s.pending[1], LastLine(s)) = s.timeout
    <3>1. /\ \A dir \in {"only_if", "name", "timeout"} : \A b :
               Since(r, dir, s.pending[1], b) = Since(r, dir, n + 1, b)
          /\ \A b : TimeoutAt(q, r, s.pending[1], b) = TimeoutAt(q, r, n + 1, b)
      BY <1>3, <1>5, QuietBlock
    <3> QED BY <2>1, <3>1
  <2> QED BY <1>6, <2>2 DEF StepBound
<1>10. StepMerged(q, r, x)
  BY <1>6 DEF StepMerged, After, Shape
<1>11. Final(x) \in 1..n /\ s.pending[1] <= Final(x)
  <2>1. Len(s.pending) \in DOMAIN s.pending
    BY <1>1
  <2>2. Final(x) = s.pending[Len(s.pending)]
    BY <1>6 DEF Final
  <2> QED BY <1>1, <1>2, <2>1, <2>2
<1> QED BY <1>1, <1>2, <1>7, <1>8, <1>9, <1>10, <1>11 DEF StepWell, x

-----------------------------------------------------------------------------
(* The other parts of the invariant, when a step is added to the plan. *)

\* The order of the lines, when a step of later lines is added.
LEMMA OrderAppends ==
  ASSUME NEW s, IsSeq(s.steps), Ordered(s), NEW t, NEW x,
         t.steps = Append(s.steps, x), t.pending = <<>>,
         \A i, j \in DOMAIN x.lines : i < j => x.lines[i] < x.lines[j],
         \A k \in DOMAIN s.steps : \A i \in DOMAIN s.steps[k].lines :
           \A j \in DOMAIN x.lines : s.steps[k].lines[i] < x.lines[j]
  PROVE  Ordered(t)
<1> DEFINE n == Len(s.steps)
<1>1. /\ n \in Nat /\ DOMAIN s.steps = 1..n /\ DOMAIN t.steps = 1..(n + 1)
      /\ \A k \in 1..n : t.steps[k] = s.steps[k]
      /\ t.steps[n + 1] = x
  BY Appended
<1>2. ASSUME NEW k \in DOMAIN t.steps, NEW m \in DOMAIN t.steps,
             NEW i \in DOMAIN t.steps[k].lines, NEW j \in DOMAIN t.steps[m].lines,
             k < m \/ (k = m /\ i < j)
      PROVE  t.steps[k].lines[i] < t.steps[m].lines[j]
  <2>1. CASE m \in 1..n
    <3>1. k \in 1..n
      BY <1>1, <1>2, <2>1
    <3> QED BY <1>1, <1>2, <2>1, <3>1 DEF Ordered
  <2>2. CASE m = n + 1 /\ k \in 1..n
    BY <1>1, <1>2, <2>2
  <2>3. CASE m = n + 1 /\ k = n + 1
    BY <1>1, <1>2, <2>3
  <2> QED BY <1>1, <2>1, <2>2, <2>3
<1>3. DOMAIN t.pending = {}
  OBVIOUS
<1> QED BY <1>2, <1>3 DEF Ordered

\* The lines of the plan, when a step is added.
LEMMA InPlanAppends ==
  ASSUME NEW s, IsSeq(s.steps), NEW t, NEW x, t.steps = Append(s.steps, x), NEW n
  PROVE  InPlan(t, n) <=> InPlan(s, n) \/ InStep(x, n)
<1> DEFINE m == Len(s.steps)
<1>1. /\ m \in Nat /\ DOMAIN s.steps = 1..m /\ DOMAIN t.steps = 1..(m + 1)
      /\ \A k \in 1..m : t.steps[k] = s.steps[k]
      /\ t.steps[m + 1] = x
  BY Appended
<1>2. 1..(m + 1) = 1..m \union {m + 1}
  BY <1>1
<1> HIDE DEF m
<1> QED BY <1>1, <1>2 DEF InPlan

\* The last target of the plan, when a step is added.
LEMMA InheritedAppends ==
  ASSUME NEW s, IsSeq(s.steps), Inherited(s), NEW t, NEW x,
         t.steps = Append(s.steps, x),
         t.last = IF x.target = Nil THEN s.last ELSE x.target
  PROVE  Inherited(t)
<1> DEFINE n == Len(s.steps)
<1>1. /\ n \in Nat /\ DOMAIN s.steps = 1..n /\ DOMAIN t.steps = 1..(n + 1)
      /\ \A k \in 1..n : t.steps[k] = s.steps[k]
      /\ t.steps[n + 1] = x
  BY Appended
<1> HIDE DEF n
<1>2. CASE x.target # Nil
  <2>1. n + 1 \in DOMAIN t.steps /\ \A m \in DOMAIN t.steps : ~(n + 1 < m)
    BY <1>1
  <2> QED BY <1>1, <1>2, <2>1 DEF Inherited
<1>3. CASE x.target = Nil /\ \A k \in DOMAIN s.steps : s.steps[k].target = Nil
  <2>1. s.last = Nil
    BY <1>3 DEF Inherited
  <2>2. \A k \in DOMAIN t.steps : t.steps[k].target = Nil
    BY <1>1, <1>3
  <2> QED BY <1>3, <2>1, <2>2 DEF Inherited
<1>4. ASSUME x.target = Nil, NEW k \in DOMAIN s.steps,
             s.steps[k].target # Nil /\ s.last = s.steps[k].target,
             \A m \in DOMAIN s.steps : k < m => s.steps[m].target = Nil
      PROVE  Inherited(t)
  <2>1. k \in DOMAIN t.steps /\ t.steps[k] = s.steps[k]
    BY <1>1
  <2>2. \A m \in DOMAIN t.steps : k < m => t.steps[m].target = Nil
    BY <1>1, <1>4
  <2> QED BY <1>4, <2>1, <2>2 DEF Inherited
<1> QED BY <1>2, <1>3, <1>4 DEF Inherited

\* The environments of the steps, when one with the present one is added.
LEMMA EnvironmentsAppend ==
  ASSUME NEW q, NEW r, NEW s, IsSeq(s.steps), Environments(q, r, s), NEW t, NEW x,
         t.steps = Append(s.steps, x), t.env = s.env, x.env = s.env, s.env \in Nat,
         \A e \in x.lines[1]..Len(q) : r[e] # "env"
  PROVE  Environments(q, r, t)
<1> DEFINE n == Len(s.steps)
<1>1. /\ n \in Nat /\ DOMAIN s.steps = 1..n /\ DOMAIN t.steps = 1..(n + 1)
      /\ \A k \in 1..n : t.steps[k] = s.steps[k]
      /\ t.steps[n + 1] = x
  BY Appended
<1>2. \A k \in 1..(n + 1) : k \in 1..n \/ k = n + 1
  BY <1>1
<1> HIDE DEF n
<1> QED BY <1>1, <1>2 DEF Environments

\* x is a block with exports, or a step that is none and has none.
LEMMA ExportsAppend ==
  ASSUME NEW q, NEW s, IsSeq(s.steps), Exports(q, s), NEW t, NEW x,
         t.steps = Append(s.steps, x), t.pending = <<>>, t.heredocs = <<>>,
         t.export = <<>>,
         \A e \in DOMAIN x.export : x.kind = "local",
         \A k \in DOMAIN s.steps : \A e \in DOMAIN s.steps[k].export :
           \A j \in DOMAIN x.lines :
             Speaks(q, x.lines[j]) => s.steps[k].export[e] < x.lines[j]
  PROVE  Exports(q, t)
<1> DEFINE n == Len(s.steps)
<1>1. /\ n \in Nat /\ DOMAIN s.steps = 1..n /\ DOMAIN t.steps = 1..(n + 1)
      /\ \A k \in 1..n : t.steps[k] = s.steps[k]
      /\ t.steps[n + 1] = x
  BY Appended
<1>2. DOMAIN t.pending = {}
  OBVIOUS
<1>3. ASSUME NEW k \in DOMAIN t.steps, NEW e \in DOMAIN t.steps[k].export
      PROVE  t.steps[k].kind = "local"
  <2>1. CASE k \in 1..n
    BY <1>1, <2>1 DEF Exports
  <2>2. CASE k = n + 1
    BY <1>1, <2>2
  <2> QED BY <1>1, <2>1, <2>2
<1>4. ASSUME NEW k \in DOMAIN t.steps, NEW e \in DOMAIN t.steps[k].export,
             NEW m \in DOMAIN t.steps, NEW i \in DOMAIN t.steps[m].lines,
             k < m, Speaks(q, t.steps[m].lines[i])
      PROVE  t.steps[k].export[e] < t.steps[m].lines[i]
  <2>1. k \in 1..n
    BY <1>1, <1>4
  <2>2. CASE m \in 1..n
    BY <1>1, <1>4, <2>1, <2>2 DEF Exports
  <2>3. CASE m = n + 1
    BY <1>1, <1>4, <2>1, <2>3
  <2> QED BY <1>1, <2>2, <2>3
<1> QED BY <1>2, <1>3, <1>4 DEF Exports

\* Flush keeps the invariant: the block is a step like the others, or had no
\* statement to lose.
LEMMA FlushKeeps ==
  ASSUME NEW q, Len(q) \in Nat, NEW r, LastKnown(r, Len(q)), NEW s, After(q, r, s),
         s.heredocs = <<>>, NEW t, Flushed(q, s, t)
  PROVE  After(q, r, t)
<1> DEFINE n == Len(q)
           x == BlockOf(s)
<1> USE DEF Same
<1>1. /\ IsSeq(s.steps) /\ s.env \in Nat /\ s.mode \in {"local", "remote"}
      /\ s.target # Nil /\ s.pending \in Seq(1..n) /\ s.export \in Seq(1..n)
  BY DEF After, Shape
<1>2. /\ x.kind = s.mode /\ x.lines = s.pending /\ x.export = s.export /\ x.env = s.env
      /\ x.target = (IF s.mode = "remote" THEN s.target ELSE Nil)
  BY DEF BlockOf
<1>3. /\ t.pending = <<>> /\ DOMAIN t.pending = {} /\ t.heredocs = <<>> /\ t.mode = s.mode
      /\ t.target = s.target /\ t.env = s.env /\ t.ok = s.ok /\ DOMAIN t = StateFields
  BY DEF Flushed
<1> HIDE DEF x
<1>4. CASE Executable(q, s)
  <2>1. /\ t.steps = Append(s.steps, x) /\ t.name = 0 /\ t.guard = 0 /\ t.timeout = Nil
        /\ t.export = <<>> /\ t.last = (IF s.mode = "remote" THEN s.target ELSE s.last)
    BY <1>4 DEF Flushed, x
  <2>2. /\ StepWell(q, r, x, LastLine(s))
        /\ s.pending # <<>> /\ s.pending[1] \in 1..n
        /\ \A i \in DOMAIN s.pending : s.pending[1] <= s.pending[i]
        /\ Final(x) \in 1..n /\ s.pending[1] <= Final(x)
    BY <1>4, BlockIsWell DEF x
  <2>3. Plan(q, r, t) /\ LastLine(t) = Final(x)
    BY <1>1, <2>1, <2>2, PlanAppends DEF After
  <2>4. \A i \in s.pending[1]..n : r[i] \in {Nil, "export"}
    BY <2>2 DEF After, Pending
  <2>5. Shape(q, t)
    BY <1>1, <1>3, <2>1, Appended DEF After, Shape
  <2>6. Ordered(t)
    BY <1>1, <1>2, <1>3, <2>1, OrderAppends, SMTT(20) DEF After, Ordered
  <2>7. Kept(q, r, t)
    <3>1. ASSUME NEW m
          PROVE  InPlan(t, m) <=> InPlan(s, m) \/ Awaits(s, m)
      <4>1. InPlan(t, m) <=> InPlan(s, m) \/ InStep(x, m)
        BY <1>1, <2>1, InPlanAppends
      <4> QED BY <1>2, <4>1 DEF Awaits, InStep
    <3> QED BY <3>1 DEF After, Kept
  <2>8. Pending(q, r, t)
    BY <1>3 DEF After, Pending
  <2>9. Remembered(q, r, t)
    <3>1. \A dir \in {"only_if", "name", "timeout"} : Since(r, dir, n + 1, Final(x)) = 0
      <4>1. s.pending[1] \in 1..(n + 1) /\ Final(x) >= s.pending[1] /\ Final(x) \in Nat
        BY <2>2
      <4>2. Since(r, "only_if", n + 1, Final(x)) = 0
        BY <2>4, <4>1, QuietBlock
      <4>3. Since(r, "name", n + 1, Final(x)) = 0
        BY <2>4, <4>1, QuietBlock
      <4>4. Since(r, "timeout", n + 1, Final(x)) = 0
        BY <2>4, <4>1, QuietBlock
      <4> QED BY <4>2, <4>3, <4>4
    <3> QED BY <2>1, <2>3, <3>1 DEF Remembered, TimeoutAt
  <2>10. Inherited(t)
    <3>1. t.last = IF x.target = Nil THEN s.last ELSE x.target
      BY <1>1, <1>2, <2>1
    <3> QED BY <1>1, <2>1, <3>1, InheritedAppends DEF After
  <2>11. Exports(q, t)
    <3>1. \A e \in DOMAIN x.export : x.kind = "local"
      BY <1>1, <1>2 DEF After, Exports
    <3>2. \A k \in DOMAIN s.steps : \A e \in DOMAIN s.steps[k].export :
            \A j \in DOMAIN x.lines :
              Speaks(q, x.lines[j]) => s.steps[k].export[e] < x.lines[j]
      BY <1>2 DEF After, Exports
    <3> QED BY <1>1, <1>3, <2>1, <3>1, <3>2, ExportsAppend DEF After
  <2>12. Environments(q, r, t)
    <3>1. \A e \in x.lines[1]..n : r[e] # "env"
      BY <1>2, <2>4 DEF Nil
    <3> QED BY <1>1, <1>2, <1>3, <2>1, <3>1, EnvironmentsAppend DEF After
  <2> QED BY <2>3, <2>5, <2>6, <2>7, <2>8, <2>9, <2>10, <2>11, <2>12 DEF After
<1>5. CASE ~Executable(q, s)
  <2>1. /\ t.steps = s.steps /\ t.name = s.name /\ t.guard = s.guard
        /\ t.timeout = s.timeout /\ t.export = s.export /\ t.last = s.last
    BY <1>5 DEF Flushed
  <2>2. s.export = <<>>
    BY <1>5 DEF After, Exports
  <2>3. LastLine(t) = LastLine(s) /\ \A k : LineBefore(t, k) = LineBefore(s, k)
    BY <2>1 DEF LastLine, LineBefore
  <2>4. Plan(q, r, t)
    BY <2>1, <2>3 DEF After, Plan
  <2>5. Shape(q, t) /\ Ordered(t)
    BY <1>1, <1>3, <2>1 DEF After, Shape, Ordered
  <2>6. Kept(q, r, t)
    <3> SUFFICES ASSUME NEW m \in 1..n, q[m].exec \/ r[m] \in MakeSteps
                 PROVE  InPlan(t, m)
      BY DEF Kept
    <3>1. InPlan(s, m) \/ Awaits(s, m)
      BY DEF After, Kept
    <3>2. ASSUME Awaits(s, m) PROVE FALSE
      <4>1. PICK i \in DOMAIN s.pending : s.pending[i] = m
        BY <3>2 DEF Awaits
      <4>2. ~q[m].exec
        BY <1>5, <4>1 DEF Executable
      <4>3. r[m] = Nil
        BY <4>1 DEF After, Pending
      <4> QED BY <4>2, <4>3 DEF MakeSteps, Stepping, Asserting, Nil
    <3> QED BY <2>1, <3>1, <3>2 DEF InPlan
  <2>7. Pending(q, r, t) /\ Remembered(q, r, t)
    BY <1>3, <2>1, <2>3 DEF After, Pending, Remembered
  <2>8. Inherited(t) /\ Environments(q, r, t)
    BY <1>3, <2>1 DEF After, Inherited, Environments
  <2>9. Exports(q, t)
    BY <1>3, <2>1, <2>2 DEF After, Exports
  <2> QED BY <2>4, <2>5, <2>6, <2>7, <2>8, <2>9 DEF After
<1> QED BY <1>4, <1>5

-----------------------------------------------------------------------------
(* One line more: what it leaves alone. *)

\* What the invariant says of the lines so far is true with one more.
LEMMA Carried ==
  ASSUME NEW q, NEW r, NEW l, NEW d, NEW r2, Grows(q, r, l, d, r2), NEW s, After(q, r, s)
  PROVE  LET p == Append(q, l)
         IN /\ Len(q) \in Nat /\ Len(p) = Len(q) + 1
            /\ p[Len(q) + 1] = l /\ \A m \in 1..Len(q) : p[m] = q[m]
            /\ Shape(p, s) /\ Plan(p, r2, s) /\ Exports(p, s)
            /\ \A m \in 1..Len(q) : p[m].exec \/ r2[m] \in MakeSteps
                                      => InPlan(s, m) \/ Awaits(s, m)
            /\ LastLine(s) \in 0..Len(q)
            /\ \A k \in DOMAIN s.steps : \A i \in DOMAIN s.steps[k].lines :
                 s.steps[k].lines[i] \in 1..Len(q) /\ s.steps[k].lines[i] <= LastLine(s)
            /\ \A k \in DOMAIN s.steps : \A e \in DOMAIN s.steps[k].export :
                 s.steps[k].export[e] \in 1..Len(q)
            /\ \A j \in DOMAIN s.pending : s.pending[j] \in 1..Len(q)
            /\ d # "env" => Environments(p, r2, s)
<1> DEFINE p == Append(q, l)
           n == Len(q)
<1>1. /\ n \in Nat /\ Len(p) = n + 1
      /\ p[n + 1] = l /\ \A m \in 1..n : p[m] = q[m]
  BY DEF Grows
<1>2. \A m \in 1..n : r2[m] = r[m]
  BY DEF Grows
<1>3. r2[n + 1] = d
  BY DEF Grows
<1>4. Plan(p, r2, s)
  <2> SUFFICES ASSUME NEW k \in DOMAIN s.steps
               PROVE  StepWell(p, r2, s.steps[k], LineBefore(s, k))
    BY DEF Plan
  <2>1. StepWell(q, r, s.steps[k], LineBefore(s, k))
    BY DEF After, Plan
  <2> QED BY <2>1, WellGrows
<1> HIDE DEF p, n
<1>5. Shape(p, s)
  <2>1. 1..n \subseteq 1..Len(p)
    BY <1>1
  <2>2. s.pending \in Seq(1..n) /\ s.export \in Seq(1..n)
    BY DEF After, Shape, n
  <2>3. s.pending \in Seq(1..Len(p)) /\ s.export \in Seq(1..Len(p))
    BY <2>1, <2>2, <1>1
  <2> QED BY <2>3 DEF After, Shape
<1>6. \A k \in DOMAIN s.steps : StepShape(s.steps[k], n)
  BY DEF After, Plan, StepWell, n
<1>7. \A k \in DOMAIN s.steps : \A i \in DOMAIN s.steps[k].lines :
        s.steps[k].lines[i] \in 1..n /\ s.steps[k].lines[i] <= LastLine(s)
  <2>1. \A k \in DOMAIN s.steps : \A i \in DOMAIN s.steps[k].lines :
          s.steps[k].lines[i] <= LastLine(s)
    BY <1>1, LastLineIn DEF After, n
  <2> QED BY <1>1, <1>6, <2>1, StepLines
<1>8. \A j \in DOMAIN s.pending : s.pending[j] \in 1..n
  BY DEF After, Shape, n
<1>9. Exports(p, s)
  <2>1. \A m \in 1..n : Speaks(p, m) <=> Speaks(q, m)
    BY <1>1 DEF Speaks
  <2>2. Executable(p, s) <=> Executable(q, s)
    BY <1>1, <1>8 DEF Executable
  <2>3. \A i \in DOMAIN s.pending : p[s.pending[i]] = q[s.pending[i]]
    BY <1>1, <1>8
  <2>4. \A i \in DOMAIN s.pending : Speaks(p, s.pending[i]) <=> Speaks(q, s.pending[i])
    BY <1>8, <2>1
  <2>5. \A k \in DOMAIN s.steps : \A i \in DOMAIN s.steps[k].lines :
          Speaks(p, s.steps[k].lines[i]) <=> Speaks(q, s.steps[k].lines[i])
    BY <1>7, <2>1
  <2> QED BY <2>2, <2>3, <2>4, <2>5 DEF After, Exports
<1>10. \A m \in 1..n : p[m].exec \/ r2[m] \in MakeSteps => InPlan(s, m) \/ Awaits(s, m)
  BY <1>1, <1>2 DEF After, Kept, n
<1>11. LastLine(s) \in 0..n
  BY <1>1, LastLineIn DEF After, n
<1>12. \A k \in DOMAIN s.steps : \A e \in DOMAIN s.steps[k].export :
         s.steps[k].export[e] \in 1..n
  <2> SUFFICES ASSUME NEW k \in DOMAIN s.steps, NEW e \in DOMAIN s.steps[k].export
               PROVE  s.steps[k].export[e] \in 1..n
    OBVIOUS
  <2>1. s.steps[k].export \in Seq(1..n)
    BY <1>6 DEF StepShape
  <2>2. DOMAIN s.steps[k].export = 1..Len(s.steps[k].export)
    BY <2>1
  <2> QED BY <1>1, <2>1, <2>2
<1>13. ASSUME d # "env"
       PROVE  Environments(p, r2, s)
  <2> SUFFICES ASSUME NEW k \in DOMAIN s.steps
               PROVE  /\ s.steps[k].env <= s.env
                      /\ s.steps[k].env = s.env =>
                           \A e \in s.steps[k].lines[1]..(n + 1) : r2[e] # "env"
    BY <1>1 DEF Environments
  <2>1. /\ s.steps[k].env <= s.env
        /\ s.steps[k].env = s.env => \A e \in s.steps[k].lines[1]..n : r[e] # "env"
    BY DEF After, Environments, n
  <2>2. s.steps[k].lines[1] \in 1..n
    BY <1>1, <1>6, StepLines
  <2>3. \A e \in s.steps[k].lines[1]..(n + 1) :
          e = n + 1 \/ (e \in s.steps[k].lines[1]..n /\ e \in 1..n)
    BY <1>1, <2>2
  <2> QED BY <1>2, <1>3, <1>13, <2>1, <2>3
<1> QED BY <1>1, <1>4, <1>5, <1>7, <1>8, <1>9, <1>10, <1>11, <1>12, <1>13 DEF p, n

\* What is remembered of the lines since the plan's last, one line later.
LEMMA RememberedGrows ==
  ASSUME NEW q, NEW r, NEW l, NEW d, NEW r2, Grows(q, r, l, d, r2), NEW s, After(q, r, s),
         NEW t, LastLine(t) = LastLine(s),
         t.guard = IF d = "only_if" THEN Len(q) + 1 ELSE s.guard,
         t.name = IF d = "name" THEN Len(q) + 1 ELSE s.name,
         t.timeout = IF d = "timeout" THEN Text(l.words[1]) ELSE s.timeout
  PROVE  Remembered(Append(q, l), r2, t)
<1> DEFINE b == LastLine(s)
<1>1. b \in 0..Len(q) /\ Len(q) \in Nat /\ Len(Append(q, l)) = Len(q) + 1
  BY Carried
<1>2. (Len(q) + 1) + 1 = Len(q) + 2
  BY <1>1
<1>3. /\ s.guard = Since(r, "only_if", Len(q) + 1, b)
      /\ s.name = Since(r, "name", Len(q) + 1, b)
      /\ s.timeout = TimeoutAt(q, r, Len(q) + 1, b)
  BY DEF After, Remembered
<1> HIDE DEF b
<1>4. /\ Since(r2, "only_if", Len(q) + 2, b) =
           IF d = "only_if" THEN Len(q) + 1 ELSE Since(r, "only_if", Len(q) + 1, b)
      /\ Since(r2, "name", Len(q) + 2, b) =
           IF d = "name" THEN Len(q) + 1 ELSE Since(r, "name", Len(q) + 1, b)
  BY <1>1, SinceGrows
<1>5. TimeoutAt(Append(q, l), r2, Len(q) + 2, b) =
        IF d = "timeout" THEN Text(l.words[1]) ELSE TimeoutAt(q, r, Len(q) + 1, b)
  BY <1>1, TimeoutGrows
<1> QED BY <1>1, <1>2, <1>3, <1>4, <1>5 DEF Remembered, b

\* The plan is that of s: so is what is said of it alone.
LEMMA PlanIsKept ==
  ASSUME NEW s, NEW t, t.steps = s.steps
  PROVE  /\ LastLine(t) = LastLine(s)
         /\ \A q, r : Plan(q, r, s) => Plan(q, r, t)
         /\ t.last = s.last /\ Inherited(s) => Inherited(t)
         /\ \A n : InPlan(s, n) <=> InPlan(t, n)
<1>1. LastLine(t) = LastLine(s) /\ \A k : LineBefore(t, k) = LineBefore(s, k)
  BY DEF LastLine, LineBefore
<1> QED BY <1>1 DEF Plan, Inherited, InPlan

-----------------------------------------------------------------------------
(* The lines of a block. *)

\* A line of script, or of a here-document: one pending line more.
Collected(l, n, s, t) ==
  /\ DOMAIN t = StateFields /\ t.pending = Append(s.pending, n)
  /\ Same(s, t, {"ok", "groups", "servers", "env", "mode", "target", "steps", "name",
                 "guard", "timeout", "export", "last"})
  /\ t.heredocs # <<>> \/ l.dir # Nil => l.exec \/ s.heredocs # <<>>

\* A line of a block or of a here-document keeps the invariant.
LEMMA CollectedKeeps ==
  ASSUME NEW q, NEW r, NEW l, NEW r2, Grows(q, r, l, Nil, r2), NEW s, After(q, r, s),
         NEW t, Collected(l, Len(q) + 1, s, t)
  PROVE  After(Append(q, l), r2, t)
<1> DEFINE p == Append(q, l)
           n == Len(q)
<1> USE DEF Same
<1>1. /\ n \in Nat /\ Len(p) = n + 1 /\ p[n + 1] = l /\ \A m \in 1..n : p[m] = q[m]
      /\ Shape(p, s) /\ Plan(p, r2, s) /\ Exports(p, s)
      /\ \A m \in 1..n : p[m].exec \/ r2[m] \in MakeSteps => InPlan(s, m) \/ Awaits(s, m)
      /\ \A j \in DOMAIN s.pending : s.pending[j] \in 1..n
  BY Carried
<1>2. /\ \A k \in DOMAIN s.steps : \A i \in DOMAIN s.steps[k].lines :
           s.steps[k].lines[i] \in 1..n
      /\ \A k \in DOMAIN s.steps : \A e \in DOMAIN s.steps[k].export :
           s.steps[k].export[e] \in 1..n
  BY Carried
<1>3. Environments(p, r2, s)
  <2>1. Nil # "env"
    BY DEF Nil
  <2> QED BY <2>1, Carried
<1>4. /\ \A m \in 1..n : r2[m] = r[m]
      /\ r2[n + 1] = Nil
  BY DEF Grows
<1>5. Remembered(p, r2, t)
  <2>1. LastLine(t) = LastLine(s)
    BY DEF Collected, LastLine
  <2>2. t.guard = s.guard /\ t.name = s.name /\ t.timeout = s.timeout
    BY DEF Collected
  <2>3. Nil \notin {"only_if", "name", "timeout"}
    BY DEF Nil
  <2> QED BY <2>1, <2>2, <2>3, RememberedGrows
<1>6. /\ ModeAt(r2, n + 2) = ModeAt(r, n + 1)
      /\ TargetAt(p, r2, n + 2) = TargetAt(q, r, n + 1)
  BY PlaceGrows DEF Nil
<1> HIDE DEF p, n
<1>7. /\ s.pending \in Seq(1..(n + 1)) /\ Len(s.pending) \in Nat
      /\ DOMAIN s.pending = 1..Len(s.pending)
  BY <1>1 DEF Shape
<1>8. /\ t.pending \in Seq(1..(n + 1)) /\ t.pending # <<>>
      /\ DOMAIN t.pending = 1..(Len(s.pending) + 1)
      /\ \A i \in 1..Len(s.pending) : t.pending[i] = s.pending[i]
      /\ t.pending[Len(s.pending) + 1] = n + 1
  BY <1>1, <1>7 DEF Collected, n
<1>9. \A i \in DOMAIN t.pending : i \in DOMAIN s.pending \/ i = Len(s.pending) + 1
  BY <1>7, <1>8
<1>10. t.steps = s.steps /\ t.last = s.last
  BY DEF Collected
<1>11. Shape(p, t)
  BY <1>1, <1>8, <1>10 DEF Shape, Collected
<1>12. Plan(p, r2, t) /\ Inherited(t)
  BY <1>1, <1>10, PlanIsKept DEF After
<1>13. Ordered(t)
  <2>1. \A i, j \in DOMAIN t.pending : i < j => t.pending[i] < t.pending[j]
    <3> SUFFICES ASSUME NEW i \in DOMAIN t.pending, NEW j \in DOMAIN t.pending, i < j
                 PROVE  t.pending[i] < t.pending[j]
      OBVIOUS
    <3>1. i \in DOMAIN s.pending
      BY <1>7, <1>8
    <3>2. CASE j \in DOMAIN s.pending
      BY <1>7, <1>8, <3>1, <3>2 DEF After, Ordered
    <3>3. CASE j = Len(s.pending) + 1
      <4>1. s.pending[i] \in 1..n
        BY <1>1, <3>1
      <4>2. t.pending[i] = s.pending[i]
        BY <1>7, <1>8, <3>1
      <4>3. t.pending[j] = n + 1
        BY <1>8, <3>3
      <4> QED BY <1>1, <4>1, <4>2, <4>3
    <3> QED BY <1>9, <3>2, <3>3
  <2>2. ASSUME NEW k \in DOMAIN s.steps, NEW i \in DOMAIN s.steps[k].lines,
               NEW j \in DOMAIN t.pending
        PROVE  s.steps[k].lines[i] < t.pending[j]
    <3>1. CASE j \in DOMAIN s.pending
      BY <1>7, <1>8, <3>1 DEF After, Ordered
    <3>2. CASE j = Len(s.pending) + 1
      <4>1. s.steps[k].lines[i] \in 1..n
        BY <1>2
      <4> QED BY <1>1, <1>8, <3>2, <4>1
    <3> QED BY <1>9, <3>1, <3>2
  <2> QED BY <1>10, <2>1, <2>2 DEF After, Ordered
<1>14. Kept(p, r2, t)
  <2> SUFFICES ASSUME NEW m \in 1..(n + 1), p[m].exec \/ r2[m] \in MakeSteps
               PROVE  InPlan(t, m) \/ Awaits(t, m)
    BY <1>1 DEF Kept
  <2>1. CASE m = n + 1
    <3>1. Len(s.pending) + 1 \in DOMAIN t.pending
      BY <1>7, <1>8
    <3> QED BY <1>8, <2>1, <3>1 DEF Awaits
  <2>2. CASE m \in 1..n
    <3>1. InPlan(s, m) \/ Awaits(s, m)
      BY <1>1, <2>2
    <3>2. InPlan(s, m) => InPlan(t, m)
      BY <1>10 DEF InPlan
    <3>3. Awaits(s, m) => Awaits(t, m)
      BY <1>7, <1>8 DEF Awaits
    <3> QED BY <3>1, <3>2, <3>3
  <2> QED BY <1>1, <2>1, <2>2
<1>15. Pending(p, r2, t)
  <2>1. t.mode = s.mode /\ t.target = s.target
    BY DEF Collected
  <2>2. t.mode = ModeAt(r2, (n + 1) + 1)
        /\ (t.mode = "remote" => t.target = TargetAt(p, r2, (n + 1) + 1))
    <3>1. (n + 1) + 1 = n + 2
      BY <1>1
    <3> QED BY <1>6, <2>1, <3>1 DEF After, Pending, n
  <2>3. \A j \in DOMAIN t.pending : r2[t.pending[j]] = Nil
    <3>1. \A j \in DOMAIN s.pending : r2[s.pending[j]] = Nil
      BY <1>1, <1>4 DEF After, Pending
    <3> QED BY <1>4, <1>7, <1>8, <1>9, <3>1
  <2>4. \A i \in t.pending[1]..(n + 1) : r2[i] \in {Nil, "export"}
    <3>1. CASE s.pending = <<>>
      <4>1. t.pending[1] = n + 1
        BY <1>8, <3>1
      <4> QED BY <1>1, <1>4, <4>1
    <3>2. CASE s.pending # <<>>
      <4>0. Len(s.pending) # 0
        BY <1>7, <3>2
      <4>1. 1 \in DOMAIN s.pending /\ t.pending[1] = s.pending[1] /\ s.pending[1] \in 1..n
        <5>1. 1 \in 1..Len(s.pending)
          BY <1>7, <4>0
        <5>2. t.pending[1] = s.pending[1]
          BY <1>8, <5>1
        <5>3. s.pending[1] \in 1..n
          BY <1>1, <1>7, <5>1
        <5> QED BY <1>7, <5>1, <5>2, <5>3
      <4>2. \A i \in s.pending[1]..n : r[i] \in {Nil, "export"}
        BY <3>2 DEF After, Pending, n
      <4>3. \A i \in s.pending[1]..(n + 1) : i = n + 1 \/ (i \in s.pending[1]..n /\ i \in 1..n)
        BY <1>1, <4>1
      <4> QED BY <1>4, <4>1, <4>2, <4>3
    <3> QED BY <3>1, <3>2
  <2> QED BY <1>1, <2>2, <2>3, <2>4 DEF Pending
<1>16. Exports(p, t)
  <2>1. Executable(p, s) => Executable(p, t)
    BY <1>7, <1>8 DEF Executable
  <2>2. l.exec => Executable(p, t)
    <3>1. Len(s.pending) + 1 \in DOMAIN t.pending
      BY <1>7, <1>8
    <3> QED BY <1>1, <1>8, <3>1 DEF Executable
  <2>3. t.heredocs # <<>> \/ l.dir # Nil => Executable(p, t)
    BY <1>1, <2>1, <2>2 DEF Exports, Collected
  <2>4. \A i \in DOMAIN t.pending : p[t.pending[i]].dir # Nil => Executable(p, t)
    <3> SUFFICES ASSUME NEW i \in DOMAIN t.pending, p[t.pending[i]].dir # Nil
                 PROVE  Executable(p, t)
      OBVIOUS
    <3>1. CASE i \in DOMAIN s.pending
      BY <1>1, <1>7, <1>8, <2>1, <3>1 DEF Exports
    <3>2. CASE i = Len(s.pending) + 1
      BY <1>1, <1>8, <2>3, <3>2
    <3> QED BY <1>9, <3>1, <3>2
  <2>5. t.export # <<>> => t.mode = "local" /\ Executable(p, t)
    BY <1>1, <2>1 DEF Exports, Collected
  <2>6. ASSUME NEW k \in DOMAIN s.steps, NEW e \in DOMAIN s.steps[k].export,
               NEW i \in DOMAIN t.pending, Speaks(p, t.pending[i])
        PROVE  s.steps[k].export[e] < t.pending[i]
    <3>1. CASE i \in DOMAIN s.pending
      BY <1>1, <1>7, <1>8, <2>6, <3>1 DEF Exports
    <3>2. CASE i = Len(s.pending) + 1
      <4>1. s.steps[k].export[e] \in 1..n
        BY <1>2
      <4> QED BY <1>1, <1>8, <3>2, <4>1
    <3> QED BY <1>9, <3>1, <3>2
  <2> QED BY <1>1, <1>10, <2>3, <2>4, <2>5, <2>6 DEF Exports
<1>17. Environments(p, r2, t)
  BY <1>3, <1>10 DEF Environments, Collected
<1> QED BY <1>5, <1>11, <1>12, <1>13, <1>14, <1>15, <1>16, <1>17 DEF After, p

-----------------------------------------------------------------------------
(* The directives that make no step. *)

\* Where the lines after the directive run.
Moved(l, d, s, t) ==
  IF d = "remote" THEN t.mode = "remote" /\ t.target = Text(l.words[1])
  ELSE IF d \in {"local", "copy"} THEN t.mode = "local" /\ t.target = ""
  ELSE t.mode = s.mode /\ t.target = s.target

\* What is true of the pending block is true after a directive.
LEMMA PendingGrows ==
  ASSUME NEW q, NEW r, NEW l, NEW d, NEW r2, Grows(q, r, l, d, r2), NEW s, After(q, r, s),
         NEW t, Moved(l, d, s, t), t.pending = s.pending,
         s.pending = <<>> \/ d = "export"
  PROVE  Pending(Append(q, l), r2, t)
<1> DEFINE p == Append(q, l)
           n == Len(q)
<1>1. /\ n \in Nat /\ Len(p) = n + 1 /\ (n + 1) + 1 = n + 2
      /\ \A j \in DOMAIN s.pending : s.pending[j] \in 1..n
  BY Carried
<1>2. /\ \A m \in 1..n : r2[m] = r[m]
      /\ r2[n + 1] = d
  BY DEF Grows
<1>3. /\ ModeAt(r2, n + 2) = IF d \in {"local", "copy"} THEN "local"
                             ELSE IF d = "remote" THEN "remote" ELSE ModeAt(r, n + 1)
      /\ TargetAt(p, r2, n + 2) =
           IF d \in {"local", "copy"} THEN Nil
           ELSE IF d = "remote" THEN Text(l.words[1]) ELSE TargetAt(q, r, n + 1)
  BY PlaceGrows
<1>4. s.mode = ModeAt(r, n + 1) /\ (s.mode = "remote" => s.target = TargetAt(q, r, n + 1))
  BY DEF After, Pending
<1>5. /\ Len(s.pending) \in Nat /\ DOMAIN s.pending = 1..Len(s.pending)
      /\ (s.pending # <<>> => Len(s.pending) # 0)
      /\ \A j \in DOMAIN s.pending : r[s.pending[j]] = Nil
      /\ s.pending # <<>> => \A i \in s.pending[1]..n : r[i] \in {Nil, "export"}
  BY DEF After, Shape, Pending
<1> HIDE DEF p, n
<1>6. t.mode = ModeAt(r2, n + 2) /\ (t.mode = "remote" => t.target = TargetAt(p, r2, n + 2))
  BY <1>3, <1>4 DEF Moved
<1>7. \A j \in DOMAIN t.pending : r2[t.pending[j]] = Nil
  BY <1>1, <1>2, <1>5
<1>8. ASSUME t.pending # <<>>
      PROVE  \A i \in t.pending[1]..(n + 1) : r2[i] \in {Nil, "export"}
  <2>1. 1 \in DOMAIN s.pending
    BY <1>5, <1>8
  <2>2. s.pending[1] \in 1..n
    BY <1>1, <2>1
  <2>3. \A i \in s.pending[1]..(n + 1) : i = n + 1 \/ (i \in s.pending[1]..n /\ i \in 1..n)
    BY <1>1, <2>2
  <2> QED BY <1>2, <1>5, <1>8, <2>3
<1> QED BY <1>1, <1>6, <1>7, <1>8 DEF Pending, p

\* A declaration, a change of mode, or a remembered name, guard or budget.
Telling == Declarations \union {"local", "remote", "name", "only_if", "timeout"}
Told(l, d, n, s, t) ==
  /\ DOMAIN t = StateFields /\ t.target # Nil /\ Moved(l, d, s, t)
  /\ Same(s, t, {"ok", "steps", "pending", "export", "last", "heredocs"})
  /\ t.guard = IF d = "only_if" THEN n ELSE s.guard
  /\ t.name = IF d = "name" THEN n ELSE s.name
  /\ t.timeout = IF d = "timeout" THEN Text(l.words[1]) ELSE s.timeout
  /\ t.env = IF d = "env" THEN s.env + 1 ELSE s.env

\* A directive that makes no step keeps the invariant.
LEMMA ToldKeeps ==
  ASSUME NEW q, NEW r, NEW l, NEW d \in Telling, NEW r2, Grows(q, r, l, d, r2),
         NEW s, After(q, r, s), s.pending = <<>>, ~l.exec,
         NEW t, Told(l, d, Len(q) + 1, s, t)
  PROVE  After(Append(q, l), r2, t)
<1> DEFINE p == Append(q, l)
           n == Len(q)
<1> USE DEF Same
<1>1. /\ n \in Nat /\ Len(p) = n + 1 /\ p[n + 1] = l
      /\ Shape(p, s) /\ Plan(p, r2, s) /\ Exports(p, s)
      /\ \A m \in 1..n : p[m].exec \/ r2[m] \in MakeSteps => InPlan(s, m) \/ Awaits(s, m)
      /\ d # "env" => Environments(p, r2, s)
  BY Carried
<1>2. /\ \A m \in 1..n : r2[m] = r[m]
      /\ r2[n + 1] = d
  BY DEF Grows
<1>3. /\ t.steps = s.steps /\ t.last = s.last /\ t.export = s.export
      /\ t.pending = <<>> /\ t.ok = s.ok /\ t.heredocs = s.heredocs
  BY DEF Told
<1>4. Remembered(p, r2, t)
  BY <1>3, PlanIsKept, RememberedGrows DEF Told
<1>5. Pending(p, r2, t)
  BY <1>3, PendingGrows DEF Told
<1>6. Plan(p, r2, t) /\ Inherited(t) /\ \A m : InPlan(s, m) <=> InPlan(t, m)
  BY <1>1, <1>3, PlanIsKept DEF After
<1> HIDE DEF p
<1>7. Shape(p, t)
  <2>1. t.mode \in {"local", "remote"}
    <3>1. s.mode \in {"local", "remote"}
      BY <1>1 DEF Shape
    <3>2. CASE d = "remote"
      BY <3>2 DEF Told, Moved
    <3>3. CASE d # "remote" /\ d \in {"local", "copy"}
      BY <3>3 DEF Told, Moved
    <3>4. CASE d # "remote" /\ d \notin {"local", "copy"}
      BY <3>1, <3>4 DEF Told, Moved
    <3> QED BY <3>2, <3>3, <3>4
  <2>2. t.env \in Nat
    <3>1. s.env \in Nat
      BY <1>1 DEF Shape
    <3>2. CASE d = "env"
      BY <3>1, <3>2 DEF Told
    <3>3. CASE d # "env"
      BY <3>1, <3>3 DEF Told
    <3> QED BY <3>2, <3>3
  <2>3. DOMAIN t = StateFields /\ t.target # Nil
    BY DEF Told
  <2>4. t.pending \in Seq(1..Len(p))
    BY <1>3
  <2> QED BY <1>1, <1>3, <2>1, <2>2, <2>3, <2>4 DEF Shape
<1>8. Ordered(t)
  BY <1>3 DEF After, Ordered
<1>9. Kept(p, r2, t)
  <2>1. ~Awaits(s, n + 1) /\ \A m \in 1..n : ~Awaits(s, m)
    BY DEF Awaits
  <2>2. d \notin MakeSteps
    BY DEF Telling, MakeSteps, Declarations, Stepping, Asserting
  <2>3. \A m \in 1..(n + 1) : m = n + 1 \/ m \in 1..n
    BY <1>1
  <2> QED BY <1>1, <1>2, <1>6, <2>1, <2>2, <2>3 DEF Kept
<1>10. Exports(p, t)
  <2>1. ~Executable(p, s) /\ DOMAIN t.pending = {}
    BY <1>3 DEF Executable
  <2> QED BY <1>1, <1>3, <2>1 DEF Exports
<1>11. Environments(p, r2, t)
  <2>1. CASE d = "env"
    <3>1. \A k \in DOMAIN s.steps : s.steps[k].env \in Nat /\ s.steps[k].env <= s.env
      BY DEF After, Plan, StepWell, StepShape, Environments
    <3>2. s.env \in Nat /\ t.env = s.env + 1
      BY <1>1, <2>1 DEF Shape, Told
    <3>3. \A k \in DOMAIN s.steps : s.steps[k].env <= t.env /\ s.steps[k].env # t.env
      BY <3>1, <3>2
    <3> QED BY <1>3, <3>3 DEF Environments
  <2>2. CASE d # "env"
    BY <1>1, <1>3, <2>2 DEF Environments, Told
  <2> QED BY <2>1, <2>2
<1> QED BY <1>4, <1>5, <1>6, <1>7, <1>8, <1>9, <1>10, <1>11 DEF After, p

\* An export of the pending block.
ExportedHere(q, n, s, t) ==
  /\ DOMAIN t = StateFields /\ t.export = Append(s.export, n)
  /\ Same(s, t, {"ok", "env", "mode", "target", "steps", "pending", "name", "guard",
                 "timeout", "last", "heredocs"})
  /\ Executable(q, s) /\ s.mode = "local"

\* An @export below statements, of the block it is in, keeps the invariant.
LEMMA ExportedHereKeeps ==
  ASSUME NEW q, NEW r, NEW l, NEW r2, Grows(q, r, l, "export", r2),
         NEW s, After(q, r, s), ~l.exec, NEW t, ExportedHere(q, Len(q) + 1, s, t)
  PROVE  After(Append(q, l), r2, t)
<1> DEFINE p == Append(q, l)
           n == Len(q)
<1> USE DEF Same
<1>1. /\ n \in Nat /\ Len(p) = n + 1 /\ p[n + 1] = l /\ \A m \in 1..n : p[m] = q[m]
      /\ Shape(p, s) /\ Plan(p, r2, s) /\ Exports(p, s)
      /\ \A m \in 1..n : p[m].exec \/ r2[m] \in MakeSteps => InPlan(s, m) \/ Awaits(s, m)
      /\ \A j \in DOMAIN s.pending : s.pending[j] \in 1..n
  BY Carried
<1>2. Environments(p, r2, s)
  BY Carried
<1>3. r2[n + 1] = "export"
  BY DEF Grows
<1>4. /\ t.steps = s.steps /\ t.last = s.last /\ t.pending = s.pending /\ t.ok = s.ok
      /\ t.mode = s.mode /\ t.target = s.target /\ t.heredocs = s.heredocs
      /\ t.env = s.env /\ t.guard = s.guard /\ t.name = s.name /\ t.timeout = s.timeout
  BY DEF ExportedHere
<1>5. Remembered(p, r2, t)
  BY <1>4, PlanIsKept, RememberedGrows
<1>6. Pending(p, r2, t)
  BY <1>4, PendingGrows DEF Moved
<1>7. Plan(p, r2, t) /\ Inherited(t) /\ \A m : InPlan(s, m) <=> InPlan(t, m)
  BY <1>1, <1>4, PlanIsKept DEF After
<1> HIDE DEF p
<1>8. Shape(p, t)
  <2>1. t.export \in Seq(1..(n + 1))
    <3>1. s.export \in Seq(1..(n + 1)) /\ n + 1 \in 1..(n + 1)
      BY <1>1 DEF Shape
    <3> QED BY <3>1 DEF ExportedHere
  <2> QED BY <1>1, <1>4, <2>1 DEF Shape, ExportedHere
<1>9. Ordered(t) /\ Environments(p, r2, t)
  BY <1>2, <1>4 DEF After, Ordered, Environments
<1>10. Kept(p, r2, t)
  <2>1. "export" \notin MakeSteps
    BY DEF MakeSteps, Stepping, Asserting
  <2>2. \A m \in 1..(n + 1) : m = n + 1 \/ m \in 1..n
    BY <1>1
  <2>3. \A m : Awaits(s, m) <=> Awaits(t, m)
    BY <1>4 DEF Awaits
  <2> QED BY <1>1, <1>3, <1>7, <2>1, <2>2, <2>3 DEF Kept
<1>11. Exports(p, t)
  <2>1. Executable(p, t)
    BY <1>1, <1>4 DEF Executable, ExportedHere
  <2> QED BY <1>1, <1>4, <2>1 DEF Exports, ExportedHere
<1> QED BY <1>5, <1>6, <1>7, <1>8, <1>9, <1>10, <1>11 DEF After, p

\* An export of the block before, the last step of the plan.
ExportedBack(q, n, s, t) ==
  /\ DOMAIN t = StateFields /\ s.steps # <<>>
  /\ LET k == Len(s.steps)
     IN /\ s.steps[k].kind = "local"
        /\ t.steps = [s.steps EXCEPT ![k] = [s.steps[k] EXCEPT !.export = Append(@, n)]]
  /\ Same(s, t, {"ok", "env", "mode", "target", "pending", "name", "guard", "timeout",
                 "export", "last", "heredocs"})
  /\ ~Executable(q, s)

\* An @export right after a block that is done goes back to it; the lines since
\* have no statement (Exports).
LEMMA ExportedBackKeeps ==
  ASSUME NEW q, NEW r, NEW l, NEW r2, Grows(q, r, l, "export", r2),
         NEW s, After(q, r, s), ~l.exec, NEW t, ExportedBack(q, Len(q) + 1, s, t)
  PROVE  After(Append(q, l), r2, t)
<1> DEFINE p == Append(q, l)
           n == Len(q)
           k == Len(s.steps)
           x == s.steps[k]
           y == [x EXCEPT !.export = Append(@, n + 1)]
<1> USE DEF Same
<1>1. /\ n \in Nat /\ Len(p) = n + 1 /\ p[n + 1] = l /\ \A m \in 1..n : p[m] = q[m]
      /\ Shape(p, s) /\ Plan(p, r2, s) /\ Exports(p, s)
      /\ \A m \in 1..n : p[m].exec \/ r2[m] \in MakeSteps => InPlan(s, m) \/ Awaits(s, m)
      /\ \A j \in DOMAIN s.pending : s.pending[j] \in 1..n
      /\ Environments(p, r2, s)
  BY Carried
<1>2. r2[n + 1] = "export"
  BY DEF Grows
<1>3. /\ t.last = s.last /\ t.pending = s.pending /\ t.ok = s.ok /\ t.export = s.export
      /\ t.mode = s.mode /\ t.target = s.target /\ t.heredocs = s.heredocs
      /\ t.env = s.env /\ t.guard = s.guard /\ t.name = s.name /\ t.timeout = s.timeout
      /\ t.steps = [s.steps EXCEPT ![k] = y] /\ x.kind = "local" /\ s.steps # <<>>
  BY DEF ExportedBack
<1>4. Pending(p, r2, t)
  <2>1. Moved(l, "export", s, t)
    BY <1>3 DEF Moved
  <2>2. t.pending = s.pending
    BY <1>3
  <2> QED BY <2>1, <2>2, PendingGrows
<1>4a. t.steps = [s.steps EXCEPT ![Len(s.steps)] = y] /\ s.steps # <<>>
  BY <1>3
<1> HIDE DEF p, n, k
<1>5. /\ k \in Nat \ {0} /\ DOMAIN s.steps = 1..k /\ DOMAIN t.steps = 1..k
      /\ IsSeq(t.steps) /\ \A j \in 1..(k - 1) : t.steps[j] = s.steps[j]
      /\ t.steps[k] = y
  <2>1. IsSeq(s.steps) /\ s.steps # <<>>
    BY <1>1, <1>4a DEF Shape
  <2> HIDE DEF y
  <2>2. LET g == [s.steps EXCEPT ![Len(s.steps)] = y]
        IN /\ Len(s.steps) \in Nat \ {0} /\ DOMAIN s.steps = 1..Len(s.steps)
           /\ IsSeq(g) /\ DOMAIN g = 1..Len(s.steps)
           /\ \A j \in 1..(Len(s.steps) - 1) : g[j] = s.steps[j]
           /\ g[Len(s.steps)] = y
    BY <2>1, Replaced, SMTT(20)
  <2> QED BY <1>4a, <2>2 DEF k
<1>6. k \in DOMAIN s.steps /\ \A j \in 1..k : j = k \/ j \in 1..(k - 1)
  BY <1>5
<1>7. StepWell(p, r2, x, LineBefore(s, k))
  BY <1>1, <1>6 DEF Plan
<1>8. /\ DOMAIN x = StepFields /\ x.export \in Seq(1..(n + 1))
  BY <1>1, <1>7 DEF StepWell, StepShape
<1>9. /\ DOMAIN y = StepFields /\ y.export = Append(x.export, n + 1)
      /\ y.lines = x.lines /\ y.kind = x.kind /\ y.target = x.target /\ y.env = x.env
      /\ y.guard = x.guard /\ y.name = x.name /\ y.timeout = x.timeout
  BY <1>8 DEF StepFields
<1>10. /\ y.export \in Seq(1..(n + 1)) /\ Len(x.export) \in Nat
       /\ DOMAIN x.export = 1..Len(x.export)
       /\ DOMAIN y.export = 1..(Len(x.export) + 1)
       /\ \A e \in 1..Len(x.export) : y.export[e] = x.export[e]
       /\ y.export[Len(x.export) + 1] = n + 1
  <2>1. n + 1 \in 1..(n + 1)
    BY <1>1
  <2> QED BY <1>8, <1>9, <2>1
<1> HIDE DEF x, y
<1>11. \A j \in 1..k : /\ t.steps[j].lines = s.steps[j].lines
                       /\ t.steps[j].kind = s.steps[j].kind
                       /\ t.steps[j].target = s.steps[j].target
                       /\ t.steps[j].env = s.steps[j].env
  BY <1>5, <1>6, <1>9 DEF x
<1>12. StepWell(p, r2, y, LineBefore(s, k))
  BY <1>1, <1>7, <1>9, <1>10
     DEF StepWell, StepShape, StepPut, StepBound, StepMerged
<1>13. Plan(p, r2, t) /\ LastLine(t) = Final(y)
  <2>1. IsSeq(s.steps)
    BY <1>1 DEF Shape
  <2> QED BY <1>1, <1>4a, <1>12, <2>1, PlanReplaces DEF k
<1>14. LastLine(t) = LastLine(s)
  BY <1>3, <1>9, <1>13 DEF LastLine, Final, x, k
<1>15. Remembered(p, r2, t)
  BY <1>3, <1>14, RememberedGrows DEF p
<1>16. Shape(p, t)
  BY <1>1, <1>3, <1>5 DEF Shape, ExportedBack
<1>17. Ordered(t) /\ Inherited(t) /\ Environments(p, r2, t)
  <2>1. Ordered(t)
    <3>1. Ordered(s)
      BY DEF After
    <3>2. \A j \in DOMAIN s.steps : t.steps[j].lines = s.steps[j].lines
      BY <1>5, <1>11
    <3>3. t.pending = s.pending /\ DOMAIN t.steps = DOMAIN s.steps
      BY <1>3, <1>5
    <3> QED BY <3>1, <3>2, <3>3 DEF Ordered
  <2>2. Inherited(t)
    <3>1. Inherited(s)
      BY DEF After
    <3>2. \A j \in DOMAIN s.steps : t.steps[j].target = s.steps[j].target
      BY <1>5, <1>11
    <3>3. t.last = s.last /\ DOMAIN t.steps = DOMAIN s.steps
      BY <1>3, <1>5
    <3> QED BY <3>1, <3>2, <3>3 DEF Inherited
  <2>3. Environments(p, r2, t)
    BY <1>1, <1>3, <1>5, <1>11 DEF Environments
  <2> QED BY <2>1, <2>2, <2>3
<1>18. Kept(p, r2, t)
  <2>1. "export" \notin MakeSteps
    BY DEF MakeSteps, Stepping, Asserting
  <2>2. \A m \in 1..(n + 1) : m = n + 1 \/ m \in 1..n
    BY <1>1
  <2>3. \A m : (Awaits(s, m) <=> Awaits(t, m)) /\ (InPlan(s, m) => InPlan(t, m))
    BY <1>3, <1>5, <1>11 DEF Awaits, InPlan, InStep
  <2> QED BY <1>1, <1>2, <2>1, <2>2, <2>3 DEF Kept
<1>19. Exports(p, t)
  <2>1. ~Executable(p, s)
    BY <1>1 DEF Executable, ExportedBack
  <2>2. ~Executable(p, t)
    BY <1>3, <2>1 DEF Executable
  <2>3. \A i \in DOMAIN t.pending : ~Speaks(p, t.pending[i])
    BY <1>1, <1>3, <2>1 DEF Exports, Speaks, Executable
  <2>4. t.heredocs = <<>> /\ t.export = <<>>
        /\ \A i \in DOMAIN t.pending : p[t.pending[i]].dir # Nil => Executable(p, t)
    BY <1>1, <1>3, <2>1, <2>3 DEF Exports, Speaks
  <2>5. ASSUME NEW j \in DOMAIN t.steps, NEW e \in DOMAIN t.steps[j].export
        PROVE  /\ t.steps[j].kind = "local"
               /\ \A m \in DOMAIN t.steps : \A i \in DOMAIN t.steps[m].lines :
                    j < m /\ Speaks(p, t.steps[m].lines[i])
                      => t.steps[j].export[e] < t.steps[m].lines[i]
    <3>1. CASE j \in 1..(k - 1)
      <4>1. j \in 1..k /\ e \in DOMAIN s.steps[j].export /\ t.steps[j] = s.steps[j]
        BY <1>5, <2>5, <3>1
      <4> QED BY <1>1, <1>5, <1>11, <4>1 DEF Exports
    <3>2. CASE j = k
      <4>1. \A m \in DOMAIN t.steps : ~(j < m)
        BY <1>5, <3>2
      <4> QED BY <1>3, <1>5, <1>9, <3>2, <4>1
    <3> QED BY <1>5, <1>6, <3>1, <3>2
  <2> QED BY <2>3, <2>4, <2>5 DEF Exports
<1> QED BY <1>4, <1>13, <1>15, <1>16, <1>17, <1>18, <1>19 DEF After, p

-----------------------------------------------------------------------------
(* The directives that are steps. *)

\* A step of its own, of one line.
Added(l, d, n, s, t, x) ==
  /\ DOMAIN t = StateFields /\ t.steps = Append(s.steps, x) /\ Moved(l, d, s, t)
  /\ Same(s, t, {"ok", "env", "pending", "guard", "export", "heredocs"})
  /\ t.name = 0 /\ s.guard = 0 /\ t.timeout = Nil /\ t.last = x.target
  /\ DOMAIN x = StepFields /\ x.lines = <<n>> /\ x.kind \notin {"local", "remote"}
  /\ x.target # Nil
  /\ Same(s, x, {"name", "guard", "env", "export"})
  /\ x.kind \in {"copy", "assert"} => x.timeout = s.timeout

\* A directive that is a step of its own keeps the invariant.
LEMMA AddedKeeps ==
  ASSUME NEW q, NEW r, NEW l, NEW d \in MakeSteps, NEW r2, Grows(q, r, l, d, r2),
         NEW s, After(q, r, s), s.pending = <<>>, ~l.exec,
         NEW t, NEW x, Added(l, d, Len(q) + 1, s, t, x)
  PROVE  After(Append(q, l), r2, t)
<1> DEFINE p == Append(q, l)
           n == Len(q)
           b == LastLine(s)
<1> USE DEF Same
<1>1. /\ n \in Nat /\ Len(p) = n + 1 /\ p[n + 1] = l
      /\ Shape(p, s) /\ Plan(p, r2, s) /\ Exports(p, s) /\ b \in 0..n
      /\ \A m \in 1..n : p[m].exec \/ r2[m] \in MakeSteps => InPlan(s, m) \/ Awaits(s, m)
  BY Carried
<1>2. /\ \A k \in DOMAIN s.steps : \A i \in DOMAIN s.steps[k].lines :
           s.steps[k].lines[i] \in 1..n
      /\ \A k \in DOMAIN s.steps : \A e \in DOMAIN s.steps[k].export :
           s.steps[k].export[e] \in 1..n
  BY Carried
<1>3. d \notin {"only_if", "name", "timeout", "env", "remote", "local"}
  BY DEF MakeSteps, Stepping, Asserting
<1>4. Environments(p, r2, s)
  BY <1>3, Carried
<1>5. r2[n + 1] = d
  BY DEF Grows
<1>6. /\ t.steps = Append(s.steps, x) /\ t.pending = <<>> /\ t.ok = s.ok
      /\ t.env = s.env /\ t.export = s.export /\ t.heredocs = s.heredocs
      /\ t.name = 0 /\ t.guard = 0 /\ t.timeout = Nil /\ t.last = x.target
      /\ x.lines = <<n + 1>> /\ x.target # Nil /\ x.env = s.env /\ x.export = s.export
      /\ x.name = s.name /\ x.guard = s.guard /\ DOMAIN x = StepFields
      /\ x.kind \notin {"local", "remote"}
  BY DEF Added
<1>7. Pending(p, r2, t)
  BY <1>6, PendingGrows DEF Added
<1>8. /\ \A dir \in {"only_if", "name"} : Since(r2, dir, n + 1, b) = Since(r, dir, n + 1, b)
      /\ \A dir \in {"only_if", "name", "timeout"} : Since(r2, dir, n + 2, n + 1) = 0
  BY <1>1, <1>3, SinceGrows
<1>9. TimeoutAt(p, r2, n + 1, b) = TimeoutAt(q, r, n + 1, b)
      /\ TimeoutAt(p, r2, n + 2, n + 1) = Nil
  BY <1>1, <1>3, TimeoutGrows
<1>10. /\ s.guard = Since(r, "only_if", n + 1, b) /\ s.name = Since(r, "name", n + 1, b)
       /\ s.timeout = TimeoutAt(q, r, n + 1, b)
  BY DEF After, Remembered
<1> HIDE DEF p, n, b
<1>11. /\ s.export = <<>> /\ s.heredocs = <<>> /\ IsSeq(s.steps) /\ s.env \in Nat
       /\ s.mode \in {"local", "remote"} /\ s.target # Nil
  <2>1. ~Executable(p, s)
    BY DEF Executable
  <2> QED BY <1>1, <2>1 DEF Exports, Shape
<1>12. DOMAIN x.lines = {1} /\ x.lines[1] = n + 1 /\ Len(x.lines) = 1 /\ Final(x) = n + 1
       /\ x.lines \in Seq(1..(n + 1)) /\ x.lines # <<>>
  BY <1>1, <1>6 DEF Final
<1>13. StepWell(p, r2, x, b)
  <2>1. StepShape(x, Len(p))
    BY <1>1, <1>6, <1>11, <1>12 DEF StepShape
  <2>2. StepPut(p, r2, x) /\ StepMerged(p, r2, x)
    BY <1>6, <1>12 DEF StepPut, StepMerged
  <2>3. StepBound(p, r2, x, b)
    BY <1>6, <1>8, <1>9, <1>10, <1>12 DEF StepBound, Added
  <2> QED BY <2>1, <2>2, <2>3 DEF StepWell
<1>14. Plan(p, r2, t) /\ LastLine(t) = n + 1
  BY <1>1, <1>6, <1>11, <1>12, <1>13, PlanAppends DEF b
<1>15. Shape(p, t)
  <2>1. IsSeq(t.steps)
    BY <1>6, <1>11, Appended
  <2>2. t.mode \in {"local", "remote"} /\ t.target # Nil
    <3>1. CASE d \in {"local", "copy"}
      BY <1>3, <3>1 DEF Added, Moved, Nil
    <3>2. CASE d \notin {"local", "copy"}
      BY <1>3, <1>11, <3>2 DEF Added, Moved
    <3> QED BY <3>1, <3>2
  <2> QED BY <1>1, <1>6, <1>11, <2>1, <2>2 DEF Shape, Added
<1>16. Ordered(t)
  <2>1. \A i, j \in DOMAIN x.lines : i < j => x.lines[i] < x.lines[j]
    BY <1>12
  <2>2. \A k \in DOMAIN s.steps : \A i \in DOMAIN s.steps[k].lines :
          \A j \in DOMAIN x.lines : s.steps[k].lines[i] < x.lines[j]
    BY <1>1, <1>2, <1>12
  <2> QED BY <1>6, <1>11, <2>1, <2>2, OrderAppends DEF After
<1>17. Kept(p, r2, t)
  <2>1. ASSUME NEW m
        PROVE  InPlan(t, m) <=> InPlan(s, m) \/ m = n + 1
    <3>1. InPlan(t, m) <=> InPlan(s, m) \/ InStep(x, m)
      BY <1>6, <1>11, InPlanAppends
    <3> QED BY <1>12, <3>1 DEF InStep
  <2>2. \A m : ~Awaits(s, m)
    BY DEF Awaits
  <2>3. \A m \in 1..(n + 1) : m = n + 1 \/ m \in 1..n
    BY <1>1
  <2> QED BY <1>1, <2>1, <2>2, <2>3 DEF Kept
<1>18. Remembered(p, r2, t)
  <2>1. (n + 1) + 1 = n + 2
    BY <1>1
  <2> QED BY <1>1, <1>6, <1>8, <1>9, <1>14, <2>1 DEF Remembered
<1>19. Inherited(t)
  BY <1>6, <1>11, InheritedAppends DEF After
<1>20. Exports(p, t)
  <2>1. \A e \in DOMAIN x.export : x.kind = "local"
    BY <1>6, <1>11
  <2>2. \A k \in DOMAIN s.steps : \A e \in DOMAIN s.steps[k].export :
          \A j \in DOMAIN x.lines :
            Speaks(p, x.lines[j]) => s.steps[k].export[e] < x.lines[j]
    BY <1>1, <1>2, <1>12
  <2>3. t.pending = <<>> /\ t.heredocs = <<>> /\ t.export = <<>>
        /\ t.steps = Append(s.steps, x)
    BY <1>6, <1>11
  <2> HIDE DEF Same
  <2> QED BY <1>1, <1>11, <2>1, <2>2, <2>3, ExportsAppend
<1>21. Environments(p, r2, t)
  <2>1. \A e \in x.lines[1]..Len(p) : r2[e] # "env"
    BY <1>1, <1>3, <1>5, <1>12
  <2> QED BY <1>4, <1>6, <1>11, <2>1, EnvironmentsAppend
<1> QED BY <1>7, <1>14, <1>15, <1>16, <1>17, <1>18, <1>19, <1>20, <1>21 DEF After, p

\* A line that joins the last step of the plan.
Joined(l, d, n, s, t) ==
  /\ DOMAIN t = StateFields /\ s.steps # <<>> /\ Moved(l, d, s, t)
  /\ LET k == Len(s.steps)
         x == s.steps[k]
     IN /\ t.steps = [s.steps EXCEPT ![k] = [x EXCEPT !.lines = Append(@, n)]]
        /\ x.kind \in {"copy", "assert"} /\ x.target # Nil /\ x.timeout = s.timeout
        /\ x.kind = "copy" => x.env = s.env
        /\ t.last \in {s.last, x.target}
  /\ Same(s, t, {"ok", "env", "pending", "guard", "export", "heredocs"})
  /\ s.name = 0 /\ t.name = 0 /\ s.guard = 0 /\ t.timeout = Nil

\* A directive that joins the last step keeps the invariant.
LEMMA JoinedKeeps ==
  ASSUME NEW q, NEW r, NEW l, NEW d \in MakeSteps, NEW r2, Grows(q, r, l, d, r2),
         NEW s, After(q, r, s), s.pending = <<>>, ~l.exec,
         NEW t, Joined(l, d, Len(q) + 1, s, t)
  PROVE  After(Append(q, l), r2, t)
<1> DEFINE p == Append(q, l)
           n == Len(q)
           b == LastLine(s)
           k == Len(s.steps)
           x == s.steps[k]
           y == [x EXCEPT !.lines = Append(@, n + 1)]
<1> USE DEF Same
<1>1. /\ n \in Nat /\ Len(p) = n + 1 /\ p[n + 1] = l
      /\ Shape(p, s) /\ Plan(p, r2, s) /\ Exports(p, s) /\ b \in 0..n
      /\ \A m \in 1..n : p[m].exec \/ r2[m] \in MakeSteps => InPlan(s, m) \/ Awaits(s, m)
  BY Carried
<1>2. /\ \A j \in DOMAIN s.steps : \A i \in DOMAIN s.steps[j].lines :
           s.steps[j].lines[i] \in 1..n
      /\ \A j \in DOMAIN s.steps : \A e \in DOMAIN s.steps[j].export :
           s.steps[j].export[e] \in 1..n
  BY Carried
<1>3. d \notin {"only_if", "name", "timeout", "env", "remote", "local"}
  BY DEF MakeSteps, Stepping, Asserting
<1>4. Environments(p, r2, s)
  BY <1>3, Carried
<1>5. r2[n + 1] = d
  BY DEF Grows
<1>6. /\ t.pending = <<>> /\ t.ok = s.ok /\ t.env = s.env /\ t.export = s.export
      /\ t.heredocs = s.heredocs /\ s.name = 0 /\ t.name = 0 /\ s.guard = 0
      /\ t.guard = 0 /\ t.timeout = Nil /\ x.kind \in {"copy", "assert"}
      /\ x.target # Nil /\ x.timeout = s.timeout /\ (x.kind = "copy" => x.env = s.env)
      /\ t.last \in {s.last, x.target}
  BY DEF Joined
<1>7. t.steps = [s.steps EXCEPT ![Len(s.steps)] = y] /\ s.steps # <<>>
  BY DEF Joined
<1>8. Pending(p, r2, t)
  <2>1. Moved(l, d, s, t)
    BY DEF Joined
  <2> QED BY <1>6, <2>1, PendingGrows
<1>9. \A dir \in {"only_if", "name", "timeout"} : Since(r2, dir, n + 2, n + 1) = 0
  BY <1>1, <1>3, SinceGrows
<1>10. TimeoutAt(p, r2, n + 1, b) = TimeoutAt(q, r, n + 1, b)
       /\ TimeoutAt(p, r2, n + 2, n + 1) = Nil
  BY <1>1, <1>3, TimeoutGrows
<1>11. s.timeout = TimeoutAt(q, r, n + 1, b)
  BY DEF After, Remembered
<1> HIDE DEF p, n, b, k
<1>12. /\ s.export = <<>> /\ s.heredocs = <<>> /\ IsSeq(s.steps) /\ s.env \in Nat
       /\ s.mode \in {"local", "remote"} /\ s.target # Nil
  <2>1. ~Executable(p, s)
    BY DEF Executable
  <2> QED BY <1>1, <2>1 DEF Exports, Shape
<1>13. /\ k \in Nat \ {0} /\ DOMAIN s.steps = 1..k /\ DOMAIN t.steps = 1..k
       /\ IsSeq(t.steps) /\ \A j \in 1..(k - 1) : t.steps[j] = s.steps[j]
       /\ t.steps[k] = y
  <2> HIDE DEF y
  <2>1. LET g == [s.steps EXCEPT ![Len(s.steps)] = y]
        IN /\ Len(s.steps) \in Nat \ {0} /\ DOMAIN s.steps = 1..Len(s.steps)
           /\ IsSeq(g) /\ DOMAIN g = 1..Len(s.steps)
           /\ \A j \in 1..(Len(s.steps) - 1) : g[j] = s.steps[j]
           /\ g[Len(s.steps)] = y
    BY <1>7, <1>12, Replaced
  <2> QED BY <1>7, <2>1 DEF k
<1>14. k \in DOMAIN s.steps /\ \A j \in 1..k : j = k \/ j \in 1..(k - 1)
  BY <1>13
<1>15. StepWell(p, r2, x, LineBefore(s, k))
  BY <1>1, <1>14 DEF Plan
<1>16. b = Final(x)
  BY <1>7 DEF b, LastLine, k
<1>17. DOMAIN x = StepFields /\ x.lines \in Seq(1..(n + 1)) /\ x.lines # <<>>
       /\ StepShape(x, n + 1)
  BY <1>1, <1>15 DEF StepWell, StepShape
<1> DEFINE c == Len(x.lines)
<1>18. /\ DOMAIN y = StepFields /\ y.lines = Append(x.lines, n + 1) /\ y.export = x.export
       /\ y.kind = x.kind /\ y.target = x.target /\ y.env = x.env
       /\ y.guard = x.guard /\ y.name = x.name /\ y.timeout = x.timeout
  BY <1>17 DEF StepFields
<1> HIDE DEF x, y
<1>19. /\ y.lines \in Seq(1..(n + 1)) /\ c \in Nat \ {0} /\ DOMAIN x.lines = 1..c
       /\ DOMAIN y.lines = 1..(c + 1) /\ Len(y.lines) = c + 1 /\ y.lines # <<>>
       /\ \A i \in 1..c : y.lines[i] = x.lines[i]
       /\ y.lines[c + 1] = n + 1
  <2>1. n + 1 \in 1..(n + 1)
    BY <1>1
  <2> QED BY <1>17, <1>18, <2>1
<1> HIDE DEF c
<1>20. /\ y.lines[1] = x.lines[1] /\ x.lines[c] = b /\ Final(y) = n + 1
       /\ \A i \in 1..(c + 1) : i = c + 1 \/ i \in 1..c
  <2>1. 1 \in 1..c
    BY <1>19
  <2> QED BY <1>16, <1>19, <2>1 DEF Final, c
<1>21. \A j \in 1..k : /\ t.steps[j].export = s.steps[j].export
                       /\ t.steps[j].kind = s.steps[j].kind
                       /\ t.steps[j].target = s.steps[j].target
                       /\ t.steps[j].env = s.steps[j].env
                       /\ t.steps[j].lines[1] = s.steps[j].lines[1]
  BY <1>13, <1>14, <1>18, <1>20 DEF x
\* The lines of the plan are those it had, at the same places, and the new one.
<1>22. /\ \A j \in 1..k : \A i \in DOMAIN s.steps[j].lines :
            /\ i \in DOMAIN t.steps[j].lines
            /\ t.steps[j].lines[i] = s.steps[j].lines[i]
       /\ \A j \in 1..k : \A i \in DOMAIN t.steps[j].lines :
            \/ i \in DOMAIN s.steps[j].lines
            \/ j = k /\ i = c + 1 /\ t.steps[j].lines[i] = n + 1
  <2>1. \A i \in DOMAIN x.lines : i \in DOMAIN y.lines /\ y.lines[i] = x.lines[i]
    BY <1>19
  <2>2. \A i \in DOMAIN y.lines : i \in DOMAIN x.lines \/ (i = c + 1 /\ y.lines[i] = n + 1)
    BY <1>19, <1>20
  <2> QED BY <1>13, <1>14, <2>1, <2>2 DEF x
<1>23. StepWell(p, r2, y, LineBefore(s, k))
  <2>1. StepShape(y, Len(p)) /\ StepPut(p, r2, y)
    BY <1>1, <1>6, <1>17, <1>18, <1>19 DEF StepShape, StepPut
  <2>2. StepBound(p, r2, y, LineBefore(s, k))
    BY <1>15, <1>18, <1>20 DEF StepWell, StepBound
  <2>3. StepMerged(p, r2, y)
    <3> SUFFICES ASSUME NEW i \in 2..(c + 1)
                 PROVE  /\ y.timeout = TimeoutAt(p, r2, y.lines[i], y.lines[i - 1])
                        /\ y.kind = "copy" =>
                             \A e \in y.lines[1]..y.lines[i] : r2[e] # "env"
      BY <1>19 DEF StepMerged
    <3>1. CASE i = c + 1
      <4>1. i - 1 = c /\ c \in 1..c
        BY <1>19, <3>1
      <4>2. y.lines[i] = n + 1 /\ y.lines[i - 1] = b
        BY <1>19, <1>20, <3>1, <4>1
      <4>3. y.timeout = TimeoutAt(p, r2, n + 1, b)
        BY <1>6, <1>10, <1>11, <1>18
      <4>4. ASSUME y.kind = "copy"
            PROVE  \A e \in y.lines[1]..(n + 1) : r2[e] # "env"
        BY <1>1, <1>4, <1>6, <1>14, <1>18, <1>20, <4>4 DEF Environments, x
      <4> QED BY <4>2, <4>3, <4>4
    <3>2. CASE i # c + 1
      <4>1. i \in 2..c /\ i \in 1..c /\ i - 1 \in 1..c
        BY <1>19, <3>2
      <4>2. y.lines[i] = x.lines[i] /\ y.lines[i - 1] = x.lines[i - 1]
        BY <1>19, <4>1
      <4>3. /\ x.timeout = TimeoutAt(p, r2, x.lines[i], x.lines[i - 1])
            /\ x.kind = "copy" => \A e \in x.lines[1]..x.lines[i] : r2[e] # "env"
        BY <1>6, <1>15, <4>1 DEF StepWell, StepMerged, c
      <4> QED BY <1>18, <1>20, <4>2, <4>3
    <3> QED BY <3>1, <3>2
  <2> QED BY <2>1, <2>2, <2>3 DEF StepWell
<1>24. Plan(p, r2, t) /\ LastLine(t) = n + 1
  <2>1. StepWell(p, r2, y, LineBefore(s, Len(s.steps)))
    BY <1>23 DEF k
  <2>2. Plan(p, r2, t) /\ LastLine(t) = Final(y)
    BY <1>1, <1>7, <1>12, <2>1, PlanReplaces
  <2> QED BY <1>20, <2>2
<1>25. Shape(p, t)
  <2>1. t.mode \in {"local", "remote"} /\ t.target # Nil
    <3>1. CASE d \in {"local", "copy"}
      BY <1>3, <3>1 DEF Joined, Moved, Nil
    <3>2. CASE d \notin {"local", "copy"}
      BY <1>3, <1>12, <3>2 DEF Joined, Moved
    <3> QED BY <3>1, <3>2
  <2> QED BY <1>1, <1>6, <1>12, <1>13, <2>1 DEF Shape, Joined
<1>26. Ordered(t)
  <2>1. ASSUME NEW j \in 1..k, NEW m \in 1..k, NEW i \in DOMAIN t.steps[j].lines,
               NEW h \in DOMAIN t.steps[m].lines, j < m \/ (j = m /\ i < h)
        PROVE  t.steps[j].lines[i] < t.steps[m].lines[h]
    <3>1. i \in DOMAIN s.steps[j].lines
      <4>1. CASE j = k
        <5>1. m = k /\ i < h /\ h \in 1..(c + 1)
          BY <1>13, <1>19, <2>1, <4>1
        <5>2. i \in 1..(c + 1)
          BY <1>13, <1>19, <2>1, <4>1
        <5>3. i \in 1..c
          BY <1>19, <5>1, <5>2
        <5> QED BY <1>19, <4>1, <5>3 DEF x
      <4>2. CASE j # k
        BY <1>22, <2>1, <4>2
      <4> QED BY <4>1, <4>2
    <3>2. t.steps[j].lines[i] = s.steps[j].lines[i] /\ s.steps[j].lines[i] \in 1..n
      BY <1>2, <1>13, <1>22, <3>1
    <3>3. CASE h \in DOMAIN s.steps[m].lines
      <4>1. t.steps[m].lines[h] = s.steps[m].lines[h]
        BY <1>22, <3>3
      <4> QED BY <1>13, <2>1, <3>1, <3>2, <3>3, <4>1 DEF After, Ordered
    <3>4. CASE h \notin DOMAIN s.steps[m].lines
      BY <1>1, <1>22, <3>2, <3>4
    <3> QED BY <3>3, <3>4
  <2>2. DOMAIN t.pending = {}
    BY <1>6
  <2> QED BY <1>13, <2>1, <2>2 DEF Ordered
<1>27. Kept(p, r2, t)
  <2>1. \A m : InPlan(s, m) => InPlan(t, m)
    BY <1>13, <1>22 DEF InPlan, InStep
  <2>2. InPlan(t, n + 1)
    <3>1. k \in DOMAIN t.steps /\ c + 1 \in DOMAIN t.steps[k].lines
          /\ t.steps[k].lines[c + 1] = n + 1
      BY <1>13, <1>19
    <3> QED BY <3>1 DEF InPlan, InStep
  <2>3. \A m : ~Awaits(s, m)
    BY DEF Awaits
  <2>4. \A m \in 1..(n + 1) : m = n + 1 \/ m \in 1..n
    BY <1>1
  <2> QED BY <1>1, <2>1, <2>2, <2>3, <2>4 DEF Kept
<1>28. Remembered(p, r2, t)
  <2>1. (n + 1) + 1 = n + 2
    BY <1>1
  <2> QED BY <1>1, <1>6, <1>9, <1>10, <1>24, <2>1 DEF Remembered
<1>29. Inherited(t)
  <2>1. s.last = x.target
    <3>1. \E j \in DOMAIN s.steps :
            /\ s.steps[j].target # Nil /\ s.last = s.steps[j].target
            /\ \A m \in DOMAIN s.steps : j < m => s.steps[m].target = Nil
      BY <1>6, <1>14 DEF After, Inherited, x
    <3>2. PICK j \in DOMAIN s.steps :
            /\ s.steps[j].target # Nil /\ s.last = s.steps[j].target
            /\ \A m \in DOMAIN s.steps : j < m => s.steps[m].target = Nil
      BY <3>1
    <3>3. j = k
      BY <1>6, <1>13, <1>14, <3>2 DEF x
    <3> QED BY <3>2, <3>3 DEF x
  <2>2. /\ k \in DOMAIN t.steps /\ t.steps[k].target = x.target /\ t.last = x.target
        /\ \A m \in DOMAIN t.steps : ~(k < m)
    BY <1>6, <1>13, <1>18, <2>1
  <2> QED BY <1>6, <2>2 DEF Inherited
<1>30. Exports(p, t)
  <2>1. ASSUME NEW j \in 1..k, NEW e \in DOMAIN t.steps[j].export
        PROVE  /\ t.steps[j].kind = "local"
               /\ \A m \in 1..k : \A i \in DOMAIN t.steps[m].lines :
                    j < m /\ Speaks(p, t.steps[m].lines[i])
                      => t.steps[j].export[e] < t.steps[m].lines[i]
    <3>1. e \in DOMAIN s.steps[j].export /\ t.steps[j].export[e] = s.steps[j].export[e]
          /\ s.steps[j].export[e] \in 1..n
      BY <1>2, <1>13, <1>21, <2>1
    <3>2. t.steps[j].kind = "local"
      BY <1>1, <1>13, <1>21, <3>1 DEF Exports
    <3>3. ASSUME NEW m \in 1..k, NEW i \in DOMAIN t.steps[m].lines, j < m,
                 Speaks(p, t.steps[m].lines[i])
          PROVE  t.steps[j].export[e] < t.steps[m].lines[i]
      <4>1. CASE i \in DOMAIN s.steps[m].lines
        <5>1. t.steps[m].lines[i] = s.steps[m].lines[i]
          BY <1>22, <4>1
        <5> QED BY <1>1, <1>13, <3>1, <3>3, <4>1, <5>1 DEF Exports
      <4>2. CASE i \notin DOMAIN s.steps[m].lines
        BY <1>1, <1>22, <3>1, <3>3, <4>2
      <4> QED BY <4>1, <4>2
    <3> QED BY <3>2, <3>3
  <2>2. DOMAIN t.pending = {}
    BY <1>6
  <2> QED BY <1>6, <1>12, <1>13, <2>1, <2>2 DEF Exports
<1>31. Environments(p, r2, t)
  BY <1>4, <1>6, <1>13, <1>21 DEF Environments
<1> QED BY <1>8, <1>24, <1>25, <1>26, <1>27, <1>28, <1>29, <1>30, <1>31 DEF After, p

-----------------------------------------------------------------------------
(* The handlers: each does one of these, or refuses. *)

\* Every text of a line is a text.
LEMMA WordsAreTexts ==
  ASSUME NEW l \in Lines, l.words # <<>>
  PROVE  Text(l.words[1]) # Nil
<1>1. l \in LineType
  BY PlaybookAssumption
<1> DEFINE words == [at : BOOLEAN, flag : STRING, parts : Seq(Texts)]
<1>2. l.words \in Seq(words)
  BY <1>1 DEF LineType
<1> HIDE DEF words
<1>3. Len(l.words) \in Nat /\ Len(l.words) # 0
  BY <1>2
<1>4. l.words[1] \in words
  BY <1>2, <1>3
<1>5. l.words[1].parts \in Seq(Texts)
  BY <1>4 DEF words
<1>6. CASE l.words[1].parts = <<>>
  BY <1>6 DEF Text, Nil
<1>7. CASE l.words[1].parts # <<>>
  <2>1. l.words[1].parts[1] \in Texts
    BY <1>5, <1>7
  <2> QED BY <1>7, <2>1 DEF Text, Texts
<1> QED BY <1>6, <1>7

\* declare_server and the other declarations only tell.
LEMMA DeclareDoes ==
  ASSUME NEW s, DOMAIN s = StateFields, s.target # Nil, NEW l, NEW d \in Declarations,
         NEW n, Declare(s, d, l.words).ok
  PROVE  Told(l, d, n, s, Declare(s, d, l.words))
<1> DEFINE t == Declare(s, d, l.words)
<1> USE DEF StateFields, Refuse, Told, Moved, Same
<1>1. CASE d = "server"
  BY <1>1 DEF Declare, DeclareServer
<1>2. CASE d = "group"
  BY <1>2 DEF Declare, DeclareGroup
<1>3. CASE d = "env"
  BY <1>3 DEF Declare, DeclareEnv
<1>4. CASE d = "secrets"
  BY <1>4 DEF Declare, DeclareSecrets
<1>5. CASE d = "workdir"
  BY <1>5 DEF Declare, DeclareWorkdir
<1> QED BY <1>1, <1>2, <1>3, <1>4, <1>5 DEF Declarations

\* @local and @remote only say where the lines after them run.
LEMMA SetModeDoes ==
  ASSUME NEW s, DOMAIN s = StateFields, NEW l \in Lines,
         NEW d \in {"local", "remote"}, NEW n, SetMode(s, d, l.words).ok
  PROVE  Told(l, d, n, s, SetMode(s, d, l.words))
<1>1. l.words # <<>> => Text(l.words[1]) # Nil
  BY WordsAreTexts
<1> USE DEF StateFields, Refuse, Told, Moved, Same, SetMode
<1>2. CASE d = "local"
  BY <1>2 DEF Nil
<1>3. CASE d = "remote"
  <2>1. l.words # <<>>
    BY <1>3
  <2> QED BY <1>1, <1>3, <2>1
<1> HIDE DEF StateFields, Refuse, Told, Moved, Same, SetMode
<1> QED BY <1>2, <1>3

\* @name, @only_if and @timeout are remembered for the next step.
LEMMA RememberDoes ==
  ASSUME NEW s, DOMAIN s = StateFields, s.target # Nil, NEW l,
         NEW d \in {"name", "only_if", "timeout"}, NEW n, Remember(s, d, l.words, n).ok
  PROVE  Told(l, d, n, s, Remember(s, d, l.words, n))
<1> USE DEF StateFields, Refuse, Told, Moved, Same, Remember
<1>1. CASE d = "name"
  BY <1>1
<1>2. CASE d = "only_if"
  BY <1>2
<1>3. CASE d = "timeout"
  BY <1>3
<1> QED BY <1>1, <1>2, <1>3

\* @export belongs to the pending block, or to the block before.
LEMMA DeclareExportDoes ==
  ASSUME NEW s, DOMAIN s = StateFields, IsSeq(s.steps), NEW words, NEW n,
         DeclareExport(s, words, n).ok
  PROVE  \/ ExportedHere(script, n, s, DeclareExport(s, words, n))
         \/ ExportedBack(script, n, s, DeclareExport(s, words, n))
<1> DEFINE t == DeclareExport(s, words, n)
           k == Len(s.steps)
<1>1. ~Refuse(s).ok
  BY DEF Refuse, StateFields
<1>2. HasExecutable(s) <=> Executable(script, s)
  BY DEF HasExecutable, Executable
<1>3. CASE HasExecutable(s)
  <2>1. t = [s EXCEPT !.export = Append(@, n)] /\ s.mode = "local"
    BY <1>1, <1>3 DEF DeclareExport
  <2> QED BY <1>2, <1>3, <2>1 DEF ExportedHere, Same, StateFields
<1>4. CASE ~HasExecutable(s)
  <2>1. /\ t = [s EXCEPT !.steps[k].export = Append(@, n)]
        /\ k > 0 /\ s.steps[k].kind = "local"
    BY <1>1, <1>4 DEF DeclareExport
  <2>2. s.steps # <<>>
    BY <2>1
  <2> HIDE DEF t
  <2>3. t.steps = [s.steps EXCEPT ![k] = [s.steps[k] EXCEPT !.export = Append(@, n)]]
    BY <2>1 DEF StateFields
  <2>4. /\ DOMAIN t = StateFields /\ t.ok = s.ok /\ t.env = s.env /\ t.mode = s.mode
        /\ t.target = s.target /\ t.pending = s.pending /\ t.name = s.name
        /\ t.guard = s.guard /\ t.timeout = s.timeout /\ t.export = s.export
        /\ t.last = s.last /\ t.heredocs = s.heredocs
    BY <2>1 DEF StateFields
  <2>5. ExportedBack(script, n, s, t)
    BY <1>2, <1>4, <2>1, <2>2, <2>3, <2>4 DEF ExportedBack, Same
  <2> QED BY <2>5 DEF t
<1> QED BY <1>3, <1>4

\* Every directive that is a step of its own: x is the step.
LEMMA AddStepDoes ==
  ASSUME NEW s, DOMAIN s = StateFields, NEW l, NEW kind, NEW rd, NEW n,
         NEW d \in Stepping \union Asserting,
         kind \notin {"local", "remote", "copy"}, kind = "assert" => rd.secs = Nil,
         AddStep(s, kind, rd, n).ok
  PROVE  \E x : Added(l, d, n, s, AddStep(s, kind, rd, n), x)
<1> DEFINE target == IF rd.target = Nil THEN s.last ELSE rd.target
           secs == IF rd.secs = Nil THEN s.timeout ELSE rd.secs
           x == Step(s, kind, target, <<n>>, secs, NoOpts)
           t == AddStep(s, kind, rd, n)
<1>1. ~Refuse(s).ok
  BY DEF Refuse, StateFields
<1>2. /\ t = [Spent(s) EXCEPT !.steps = Append(@, x), !.last = target]
      /\ s.guard = 0 /\ target # Nil
  BY <1>1 DEF AddStep
<1>3. d \notin {"remote", "local", "copy"}
  BY DEF Stepping, Asserting
<1>4. /\ DOMAIN x = StepFields /\ x.lines = <<n>> /\ x.kind = kind /\ x.target = target
      /\ x.name = s.name /\ x.guard = s.guard /\ x.env = s.env /\ x.export = s.export
      /\ x.timeout = secs
  BY DEF Step, StepFields
<1> HIDE DEF t, x, target
<1>5. /\ DOMAIN t = StateFields /\ t.steps = Append(s.steps, x)
      /\ t.ok = s.ok /\ t.env = s.env /\ t.pending = s.pending /\ t.guard = s.guard
      /\ t.export = s.export /\ t.heredocs = s.heredocs /\ t.mode = s.mode
      /\ t.target = s.target /\ t.name = 0 /\ t.timeout = Nil /\ t.last = target
  BY <1>2 DEF Spent, StateFields
<1>6. Added(l, d, n, s, t, x)
  BY <1>2, <1>3, <1>4, <1>5 DEF Added, Moved, Same
<1> QED BY <1>6 DEF t

\* What joining the last step changes: its lines, and what is remembered.
LEMMA JoinDoes ==
  ASSUME NEW s, DOMAIN s = StateFields, NEW n
  PROVE  LET t == Join(s, n)
             k == Len(s.steps)
         IN /\ DOMAIN t = StateFields
            /\ t.steps = [s.steps EXCEPT ![k] = [s.steps[k] EXCEPT !.lines = Append(@, n)]]
            /\ t.ok = s.ok /\ t.env = s.env /\ t.pending = s.pending /\ t.guard = s.guard
            /\ t.export = s.export /\ t.heredocs = s.heredocs /\ t.mode = s.mode
            /\ t.target = s.target /\ t.last = s.last /\ t.name = 0 /\ t.timeout = Nil
  BY DEF Join, Spent, StateFields

\* push_assertion: a step of its own, or one more check of the last one.
LEMMA AddAssertionDoes ==
  ASSUME NEW s, DOMAIN s = StateFields, NEW l, NEW rd, NEW n, NEW d \in Asserting,
         rd.secs = Nil, AddAssertion(s, rd, n).ok
  PROVE  \/ \E x : Added(l, d, n, s, AddAssertion(s, rd, n), x)
         \/ Joined(l, d, n, s, AddAssertion(s, rd, n))
<1> DEFINE target == IF rd.target = Nil THEN s.last ELSE rd.target
           merges == s.guard = 0 /\ rd.ok /\ target \notin {"", Nil}
                       /\ MergesAssert(s, target)
<1>1. CASE ~merges
  <2>1. AddAssertion(s, rd, n) = AddStep(s, "assert", rd, n)
    BY <1>1 DEF AddAssertion
  <2> QED BY <2>1, AddStepDoes
<1>2. CASE merges
  <2>1. AddAssertion(s, rd, n) = Join(s, n)
    BY <1>2 DEF AddAssertion
  <2>2. d \notin {"remote", "local", "copy"}
    BY DEF Asserting
  <2>3. /\ s.name = 0 /\ s.steps # <<>> /\ s.steps[Len(s.steps)].kind = "assert"
        /\ s.steps[Len(s.steps)].target = target
        /\ s.steps[Len(s.steps)].timeout = s.timeout
    BY <1>2 DEF MergesAssert
  <2>4. s.guard = 0 /\ target # Nil
    BY <1>2
  <2> DEFINE t == Join(s, n)
  <2>5. /\ DOMAIN t = StateFields
        /\ t.steps = [s.steps EXCEPT ![Len(s.steps)] =
                        [s.steps[Len(s.steps)] EXCEPT !.lines = Append(@, n)]]
        /\ t.ok = s.ok /\ t.env = s.env /\ t.pending = s.pending /\ t.guard = s.guard
        /\ t.export = s.export /\ t.heredocs = s.heredocs /\ t.mode = s.mode
        /\ t.target = s.target /\ t.last = s.last /\ t.name = 0 /\ t.timeout = Nil
    BY JoinDoes
  <2> HIDE DEF t, target
  <2>6. Joined(l, d, n, s, t)
    BY <2>2, <2>3, <2>4, <2>5 DEF Joined, Moved, Same
  <2> QED BY <2>1, <2>6 DEF t
<1> QED BY <1>1, <1>2

\* A copy is a step of its own, or one more pair of the last one.
LEMMA AddCopyDoes ==
  ASSUME NEW f, DOMAIN f = StateFields, NEW l, NEW n, AddCopy(f, l.words, n).ok
  PROVE  \/ \E x : Added(l, "copy", n, f, AddCopy(f, l.words, n), x)
         \/ Joined(l, "copy", n, f, AddCopy(f, l.words, n))
<1> DEFINE s == [f EXCEPT !.mode = "local", !.target = ""]
           pf == SplitFlags(AfterArrow(l.words), {"--delete"})
           target == Text(Positional(pf, Len(pf.pos)))
           opts == [delete |-> Given(pf, "--delete") # {},
                    excludes |-> SelectSeq(pf.flags, LAMBDA g : g.flag = "--exclude")]
           x == Step(s, "copy", target, <<n>>, s.timeout, opts)
           joined == [Join(s, n) EXCEPT !.last = target]
           ownStep == [Spent(s) EXCEPT !.steps = Append(@, x), !.last = target]
           t == AddCopy(f, l.words, n)
<1>1. /\ DOMAIN s = StateFields /\ s.ok = f.ok /\ s.env = f.env /\ s.pending = f.pending
      /\ s.guard = f.guard /\ s.export = f.export /\ s.heredocs = f.heredocs
      /\ s.mode = "local" /\ s.target = "" /\ s.name = f.name /\ s.steps = f.steps
      /\ s.timeout = f.timeout /\ s.last = f.last
  BY DEF StateFields
<1>2. ~Refuse(s).ok
  BY <1>1 DEF Refuse, StateFields
<1>3. s.guard = 0 /\ target # Nil /\ t = (IF MergesCopy(s, target, opts) THEN joined ELSE ownStep)
  BY <1>2 DEF AddCopy
<1>4. /\ DOMAIN x = StepFields /\ x.lines = <<n>> /\ x.kind = "copy" /\ x.target = target
      /\ x.name = s.name /\ x.guard = s.guard /\ x.env = s.env /\ x.export = s.export
      /\ x.timeout = s.timeout
  BY DEF Step, StepFields
<1> HIDE DEF s, target, opts, x, t
<1>5. CASE MergesCopy(s, target, opts)
  <2>1. t = joined
    BY <1>3, <1>5
  <2>2. /\ s.name = 0 /\ s.steps # <<>> /\ s.steps[Len(s.steps)].kind = "copy"
        /\ s.steps[Len(s.steps)].target = target
        /\ s.steps[Len(s.steps)].timeout = s.timeout
        /\ s.steps[Len(s.steps)].env = s.env
    BY <1>5 DEF MergesCopy
  <2> DEFINE j == Join(s, n)
  <2>3. /\ DOMAIN j = StateFields
        /\ j.steps = [s.steps EXCEPT ![Len(s.steps)] =
                        [s.steps[Len(s.steps)] EXCEPT !.lines = Append(@, n)]]
        /\ j.ok = s.ok /\ j.env = s.env /\ j.pending = s.pending /\ j.guard = s.guard
        /\ j.export = s.export /\ j.heredocs = s.heredocs /\ j.mode = s.mode
        /\ j.target = s.target /\ j.last = s.last /\ j.name = 0 /\ j.timeout = Nil
    BY <1>1, JoinDoes, ZenonT(30)
  <2> HIDE DEF j
  <2>4. /\ DOMAIN t = StateFields /\ t.steps = j.steps
        /\ t.ok = s.ok /\ t.env = s.env /\ t.pending = s.pending /\ t.guard = s.guard
        /\ t.export = s.export /\ t.heredocs = s.heredocs /\ t.mode = s.mode
        /\ t.target = s.target /\ t.last = target /\ t.name = 0 /\ t.timeout = Nil
    BY <2>1, <2>3 DEF j, StateFields
  <2>5. t.steps = [f.steps EXCEPT ![Len(f.steps)] =
                     [f.steps[Len(f.steps)] EXCEPT !.lines = Append(@, n)]]
    BY <1>1, <2>3, <2>4
  <2>6. Moved(l, "copy", f, t)
    BY <1>1, <2>4 DEF Moved
  <2>7. Same(f, t, {"ok", "env", "pending", "guard", "export", "heredocs"})
    BY <1>1, <2>4 DEF Same
  <2>8. /\ DOMAIN t = StateFields /\ f.steps # <<>> /\ f.guard = 0 /\ f.name = 0
        /\ f.steps[Len(f.steps)].kind = "copy"
        /\ f.steps[Len(f.steps)].target = target
        /\ f.steps[Len(f.steps)].timeout = f.timeout
        /\ f.steps[Len(f.steps)].env = f.env
        /\ t.last = target /\ t.name = 0 /\ t.timeout = Nil /\ target # Nil
    BY <1>1, <1>3, <2>2, <2>4
  <2>9. Joined(l, "copy", n, f, t)
    BY <2>5, <2>6, <2>7, <2>8 DEF Joined
  <2> QED BY <2>9 DEF t
<1>6. CASE ~MergesCopy(s, target, opts)
  <2>1. t = ownStep
    BY <1>3, <1>6
  <2>2. /\ DOMAIN t = StateFields /\ t.steps = Append(s.steps, x)
        /\ t.ok = s.ok /\ t.env = s.env /\ t.pending = s.pending /\ t.guard = s.guard
        /\ t.export = s.export /\ t.heredocs = s.heredocs /\ t.mode = s.mode
        /\ t.target = s.target /\ t.name = 0 /\ t.timeout = Nil /\ t.last = target
    BY <1>1, <2>1 DEF Spent, StateFields
  <2>3. Moved(l, "copy", f, t)
    BY <1>1, <2>2 DEF Moved
  <2>4. Same(f, t, {"ok", "env", "pending", "guard", "export", "heredocs"})
        /\ Same(f, x, {"name", "guard", "env", "export"})
    BY <1>1, <1>4, <2>2, ZenonT(30) DEF Same
  <2>5. /\ DOMAIN t = StateFields /\ t.steps = Append(f.steps, x) /\ f.guard = 0
        /\ t.name = 0 /\ t.timeout = Nil /\ t.last = target /\ target # Nil
        /\ x.timeout = f.timeout
    BY <1>1, <1>3, <1>4, <2>2
  <2>6. Added(l, "copy", n, f, t, x)
    BY <1>4, <2>3, <2>4, <2>5 DEF Added
  <2> QED BY <2>6 DEF t
<1> QED BY <1>5, <1>6

\* No assertion names a budget of its own, so it has the remembered one.
LEMMA AssertionsHaveNoBudget ==
  ASSUME NEW d \in Asserting, NEW words
  PROVE  ReadAssert(d, words).secs = Nil
<1> USE DEF ReadAssert, Reading
<1>1. CASE d \in {"assert", "assert_port", "assert_port_free", "assert_rendered"}
  BY <1>1 DEF AssertUnit, AssertPort, AssertPortFree, AssertRendered
<1>2. CASE d \in {"assert_enabled", "assert_no_leak", "assert_digest", "assert_credstore"}
  BY <1>2 DEF AssertEnabled, AssertNoLeak, AssertDigest, AssertCredstore
<1>3. CASE d = "assert_health"
  BY <1>3 DEF AssertHealth
<1> HIDE DEF ReadAssert, Reading
<1> QED BY <1>1, <1>2, <1>3 DEF Asserting

\* Who handles a directive.
LEMMA HandleIs ==
  ASSUME NEW f, NEW d, NEW words, NEW n
  PROVE  LET t == Handle(f, d, words, n)
         IN /\ d \in Declarations => t = Declare(f, d, words)
            /\ d \in {"local", "remote"} => t = SetMode(f, d, words)
            /\ d \in {"name", "only_if", "timeout"} => t = Remember(f, d, words, n)
            /\ d = "export" => t = DeclareExport(f, words, n)
            /\ d = "copy" => t = AddCopy(f, words, n)
            /\ d \in Stepping => t = AddStep(f, d, ReadStep(d, words), n)
            /\ d \in Asserting => t = AddAssertion(f, ReadAssert(d, words), n)
            /\ \/ d \in Declarations \/ d \in {"local", "remote"} \/ d = "export"
               \/ d \in {"name", "only_if", "timeout"} \/ d = "copy"
               \/ d \in Stepping \/ d \in Asserting
               \/ t = Refuse(f)
  BY DEF Handle, Declarations, Stepping, Asserting

\* A directive that is not refused keeps the invariant.
LEMMA HandleKeeps ==
  ASSUME NEW r, NEW l, NEW r2, Grows(script, r, l, l.dir, r2), l.dir # Nil, ~l.exec,
         NEW f, After(script, r, f), f.heredocs = <<>>,
         f.pending = <<>> \/ l.dir = "export",
         Handle(f, l.dir, l.words, Len(script) + 1).ok
  PROVE  LET t == Handle(f, l.dir, l.words, Len(script) + 1)
         IN After(Append(script, l), r2, t) /\ t.heredocs = <<>>
<1> DEFINE d == l.dir
           n == Len(script) + 1
           t == Handle(f, d, l.words, n)
<1>1. /\ DOMAIN f = StateFields /\ IsSeq(f.steps) /\ f.target # Nil /\ l \in Lines
  BY DEF After, Shape, Grows
<1>2. d \in Declarations \/ d \in {"local", "remote"} \/ d \in {"name", "only_if", "timeout"}
      \/ d = "export" \/ d = "copy" \/ d \in Stepping \/ d \in Asserting
  <2>1. ~Refuse(f).ok
    BY <1>1 DEF Refuse, StateFields
  <2> QED BY <2>1, HandleIs
<1>3. ASSUME d \in Telling, Told(l, d, n, f, t)
      PROVE  After(Append(script, l), r2, t) /\ t.heredocs = <<>>
  <2>1. f.pending = <<>>
    BY <1>3 DEF Telling, Declarations
  <2>2. t.heredocs = <<>>
    BY <1>3 DEF Told, Same
  <2> QED BY <1>3, <2>1, <2>2, ToldKeeps
<1>4. ASSUME d \in MakeSteps, NEW x, Added(l, d, n, f, t, x)
      PROVE  After(Append(script, l), r2, t) /\ t.heredocs = <<>>
  <2>1. f.pending = <<>>
    BY <1>4 DEF MakeSteps, Stepping, Asserting
  <2>2. t.heredocs = <<>>
    BY <1>4 DEF Added, Same
  <2> QED BY <1>4, <2>1, <2>2, AddedKeeps
<1>5. ASSUME d \in MakeSteps, Joined(l, d, n, f, t)
      PROVE  After(Append(script, l), r2, t) /\ t.heredocs = <<>>
  <2>1. f.pending = <<>>
    BY <1>5 DEF MakeSteps, Stepping, Asserting
  <2>2. t.heredocs = <<>>
    BY <1>5 DEF Joined, Same
  <2> QED BY <1>5, <2>1, <2>2, JoinedKeeps
<1>6. CASE d \in Declarations
  <2>1. t = Declare(f, d, l.words)
    BY <1>6, HandleIs
  <2>2. Told(l, d, n, f, t)
    BY <1>1, <1>6, <2>1, DeclareDoes
  <2> QED BY <1>3, <1>6, <2>2 DEF Telling
<1>7. CASE d \in {"local", "remote"}
  <2>1. t = SetMode(f, d, l.words)
    BY <1>7, HandleIs
  <2>2. Told(l, d, n, f, t)
    BY <1>1, <1>7, <2>1, SetModeDoes
  <2> QED BY <1>3, <1>7, <2>2 DEF Telling
<1>8. CASE d \in {"name", "only_if", "timeout"}
  <2>1. t = Remember(f, d, l.words, n)
    BY <1>8, HandleIs
  <2>2. Told(l, d, n, f, t)
    BY <1>1, <1>8, <2>1, RememberDoes
  <2> QED BY <1>3, <1>8, <2>2 DEF Telling
<1>9. CASE d = "export"
  <2>1. t = DeclareExport(f, l.words, n)
    BY <1>9, HandleIs
  <2>2. ExportedHere(script, n, f, t) \/ ExportedBack(script, n, f, t)
    BY <1>1, <2>1, DeclareExportDoes
  <2>3. t.heredocs = <<>>
    BY <2>2 DEF ExportedHere, ExportedBack, Same
  <2> QED BY <1>9, <2>2, <2>3, ExportedHereKeeps, ExportedBackKeeps
<1>10. CASE d = "copy"
  <2>1. t = AddCopy(f, l.words, n)
    BY <1>10, HandleIs
  <2>2. (\E x : Added(l, d, n, f, t, x)) \/ Joined(l, d, n, f, t)
    BY <1>1, <1>10, <2>1, AddCopyDoes
  <2> QED BY <1>4, <1>5, <1>10, <2>2 DEF MakeSteps
<1>11. CASE d \in Stepping
  <2>1. t = AddStep(f, d, ReadStep(d, l.words), n)
    BY <1>11, HandleIs
  <2>2. d \notin {"local", "remote", "copy", "assert"}
    BY <1>11 DEF Stepping
  <2> DEFINE rd == ReadStep(d, l.words)
  <2>3. AddStep(f, d, rd, n).ok /\ d \in Stepping \union Asserting
        /\ d \notin {"local", "remote", "copy"} /\ (d = "assert" => rd.secs = Nil)
    BY <1>11, <2>1, <2>2
  <2> HIDE DEF rd, d
  <2>4. \E x : Added(l, d, n, f, AddStep(f, d, rd, n), x)
    BY <1>1, <2>3, AddStepDoes
  <2>5. \E x : Added(l, d, n, f, t, x)
    BY <2>1, <2>4 DEF rd
  <2> QED BY <1>4, <1>11, <2>5 DEF MakeSteps, d
<1>12. CASE d \in Asserting
  <2>1. t = AddAssertion(f, ReadAssert(d, l.words), n)
    BY <1>12, HandleIs
  <2>2. ReadAssert(d, l.words).secs = Nil
    BY <1>12, AssertionsHaveNoBudget
  <2>3. (\E x : Added(l, d, n, f, t, x)) \/ Joined(l, d, n, f, t)
    BY <1>1, <1>12, <2>1, <2>2, AddAssertionDoes
  <2> QED BY <1>4, <1>5, <1>12, <2>3 DEF MakeSteps
<1> QED BY <1>2, <1>6, <1>7, <1>8, <1>9, <1>10, <1>11, <1>12

-----------------------------------------------------------------------------
(* The pass keeps the invariant. *)

ReadingInv ==
  LET r == Reads(script)
  IN /\ script \in Seq(Lines) /\ OneReading(script) /\ LastKnown(r, Len(script))
     /\ phase # "refused" =>
          /\ After(script, r, st)
          /\ st.heredocs \in Seq(STRING)
          /\ st.heredocs = Opens(script)[Len(script)]
     /\ phase = "accepted" =>
          /\ st.heredocs = <<>>
          /\ \A g \in DOMAIN st.groups : st.groups[g] \subseteq st.servers

\* One line more, and how it was read.
LEMMA ReadsGrows ==
  ASSUME NEW q \in Seq(Lines), OneReading(q), LastKnown(Reads(q), Len(q)), NEW l \in Lines
  PROVE  LET p == Append(q, l)
             d == IF Opens(q)[Len(q)] = <<>> THEN l.dir ELSE Nil
         IN /\ Grows(q, Reads(q), l, d, Reads(p))
            /\ OneReading(p) /\ LastKnown(Reads(p), Len(p)) /\ p \in Seq(Lines)
            /\ Opens(p)[Len(p)] = Opened(Opens(q)[Len(q)], l)
<1> DEFINE p == Append(q, l)
           n == Len(q)
           d == IF Opens(q)[Len(q)] = <<>> THEN l.dir ELSE Nil
<1>1. /\ n \in Nat /\ Len(p) = n + 1 /\ p \in Seq(Lines)
      /\ p[n + 1] = l /\ \A i \in 1..n : p[i] = q[i]
  OBVIOUS
<1>2. /\ OneReading(p)
      /\ \A i \in 0..n : Opens(p)[i] = Opens(q)[i]
      /\ Opens(p)[n + 1] = Opened(Opens(q)[n], l)
  BY OneReadingGrows
<1> HIDE DEF p
<1>3. \A i \in 1..n : Reads(p)[i] = Reads(q)[i]
  <2> SUFFICES ASSUME NEW i \in 1..n PROVE Reads(p)[i] = Reads(q)[i]
    OBVIOUS
  <2>1. i \in 1..(n + 1) /\ i - 1 \in 0..n
    BY <1>1
  <2> QED BY <1>1, <1>2, <2>1 DEF Reads
<1>4. \A i \in 1..n : Reads(q)[i] # Nil => Reads(q)[i] = q[i].dir
  BY DEF Reads
<1>5. Reads(p)[n + 1] = d
  <2>1. n + 1 \in 1..(n + 1) /\ (n + 1) - 1 = n /\ n \in 0..n
    BY <1>1
  <2>2. Opens(p)[(n + 1) - 1] = Opens(q)[n] /\ p[n + 1] = l
    BY <1>1, <1>2, <2>1
  <2> QED BY <1>1, <2>1, <2>2 DEF Reads
<1>6. Grows(q, Reads(q), l, d, Reads(p))
  BY <1>3, <1>4, <1>5 DEF Grows
<1>7. LastKnown(Reads(p), n + 1)
  BY <1>6, LastGrows
<1> QED BY <1>1, <1>2, <1>6, <1>7 DEF p

\* Nothing was read, and the state is the empty one.
LEMMA AfterNothing ==
  ASSUME NEW q, q = <<>>, NEW r, LastKnown(r, Len(q)), NEW s, s = Empty
  PROVE  After(q, r, s)
<1>1. Len(q) = 0 /\ Len(q) + 1 = 1
  OBVIOUS
<1>2. \A d : LastOf(r, 1, d) = 0
  BY <1>1 DEF LastKnown
<1>3. /\ s.steps = <<>> /\ s.pending = <<>> /\ s.export = <<>> /\ s.heredocs = <<>>
      /\ s.name = 0 /\ s.guard = 0 /\ s.timeout = Nil /\ s.last = Nil
      /\ s.mode = "local" /\ s.target = "" /\ s.env = 0 /\ s.ok = TRUE
  BY DEF Empty
<1>4. DOMAIN s = StateFields
  BY DEF Empty, StateFields
<1>5. DOMAIN s.steps = {} /\ DOMAIN s.pending = {}
  <2>1. DOMAIN <<>> = {}
    OBVIOUS
  <2> QED BY <1>3, <2>1
<1>6. Shape(q, s)
  <2>1. \A S : <<>> \in Seq(S)
    OBVIOUS
  <2>2. /\ IsSeq(s.steps) /\ s.pending \in Seq(1..Len(q))
        /\ s.export \in Seq(1..Len(q))
    BY <1>3, <2>1 DEF IsSeq
  <2>3. "" # Nil
    BY DEF Nil
  <2>4. s.mode \in {"local", "remote"} /\ s.target # Nil
    BY <1>3, <2>3
  <2>5. s.ok = TRUE
    BY DEF Empty
  <2>6. s.env \in Nat
    BY DEF Empty
  <2> QED BY <1>4, <2>2, <2>4, <2>5, <2>6 DEF Shape
<1>7. Plan(q, r, s) /\ Ordered(s) /\ Kept(q, r, s) /\ Inherited(s)
  <2>1. Plan(q, r, s)
    BY <1>5 DEF Plan
  <2>2. Ordered(s)
    BY <1>5 DEF Ordered
  <2>3. Kept(q, r, s)
    BY <1>1 DEF Kept
  <2>4. Inherited(s)
    BY <1>3, <1>5 DEF Inherited
  <2> QED BY <2>1, <2>2, <2>3, <2>4
<1>8. Exports(q, s) /\ Environments(q, r, s)
  BY <1>1, <1>3, <1>5 DEF Exports, Environments
<1>9. Pending(q, r, s)
  <2>1. ModeAt(r, 1) = "local"
    BY <1>2 DEF ModeAt
  <2> QED BY <1>1, <1>3, <1>5, <2>1 DEF Pending
<1>10. Remembered(q, r, s)
  <2>1. LastLine(s) = 0
    BY <1>3 DEF LastLine
  <2>2. \A dir : Since(r, dir, 1, 0) = 0
    BY <1>2 DEF Since
  <2>3. TimeoutAt(q, r, 1, 0) = Nil
    BY <2>2 DEF TimeoutAt
  <2> QED BY <1>1, <1>3, <2>1, <2>2, <2>3 DEF Remembered
<1> QED BY <1>6, <1>7, <1>8, <1>9, <1>10 DEF After

\* Before the first line: the empty script has its one reading.
LEMMA ReadingInvInit == Init => ReadingInv
<1> SUFFICES ASSUME Init PROVE ReadingInv
  OBVIOUS
<1> DEFINE r == Reads(script)
<1>1. script = <<>> /\ st = Empty /\ phase = "reading" /\ Len(script) = 0
  BY DEF Init
<1>2. OneReading(<<>>) /\ Opens(<<>>)[0] = <<>>
  BY OneReadingOfNothing
<1>3. LastKnown(r, Len(script))
  BY <1>1, NothingLast
<1>4. After(script, r, st)
  BY <1>1, <1>3, AfterNothing
<1>5. st.heredocs = <<>>
  BY <1>1 DEF Empty
<1>6. <<>> \in Seq(Lines) /\ <<>> \in Seq(STRING)
  OBVIOUS
<1>7. st.heredocs = Opens(script)[Len(script)] /\ OneReading(script)
  BY <1>1, <1>2, <1>5
<1>8. script \in Seq(Lines) /\ st.heredocs \in Seq(STRING)
  BY <1>1, <1>5, <1>6
<1> QED BY <1>1, <1>3, <1>4, <1>7, <1>8 DEF ReadingInv, r

\* The oldest delimiter is the first.
LEMMA HeadIsFirst ==
  ASSUME NEW S, NEW f \in Seq(S), f # <<>>
  PROVE  Head(f) = f[1] /\ Tail(f) \in Seq(S)
  OBVIOUS

\* A line of script or of a here-document.
LEMMA CollectingKeeps ==
  ASSUME ReadingInv, NEW l \in Lines, BodyLine(l) \/ ScriptLine(l)
  PROVE  ReadingInv'
<1> DEFINE r == Reads(script)
           r2 == Reads(Append(script, l))
           n == Len(script) + 1
           open == Opens(script)[Len(script)]
<1>1. /\ script \in Seq(Lines) /\ OneReading(script) /\ LastKnown(r, Len(script))
      /\ phase = "reading" /\ phase' = "reading" /\ script' = Append(script, l)
  BY DEF ReadingInv, BodyLine, ScriptLine, More
<1>2. /\ After(script, r, st) /\ st.heredocs = open /\ st.heredocs \in Seq(STRING)
  BY <1>1 DEF ReadingInv
<1>3. DOMAIN st = StateFields
  BY <1>2 DEF After, Shape
<1>4. /\ OneReading(script') /\ LastKnown(Reads(script'), Len(script'))
      /\ script' \in Seq(Lines)
      /\ Opens(script')[Len(script')] = Opened(st.heredocs, l)
      /\ Grows(script, r, l, IF st.heredocs = <<>> THEN l.dir ELSE Nil, r2)
  BY <1>1, <1>2, ReadsGrows
<1>5. /\ st'.heredocs = Opened(st.heredocs, l) /\ st'.heredocs \in Seq(STRING)
      /\ Grows(script, r, l, Nil, r2)
      /\ st'.heredocs # <<>> \/ l.dir # Nil => l.exec \/ st.heredocs # <<>>
  <2>1. CASE BodyLine(l)
    <3>1. st.heredocs # <<>>
          /\ st'.heredocs = IF l.ends = Head(st.heredocs) THEN Tail(st.heredocs)
                            ELSE st.heredocs
      BY <1>3, <2>1 DEF BodyLine, StateFields
    <3>2. Head(st.heredocs) = st.heredocs[1] /\ Tail(st.heredocs) \in Seq(STRING)
      BY <1>2, <3>1, HeadIsFirst
    <3> QED BY <1>2, <1>4, <3>1, <3>2 DEF Opened
  <2>2. CASE ScriptLine(l)
    <3>1. st.heredocs = <<>> /\ l.dir = Nil /\ st'.heredocs = st.heredocs \o l.opens
      BY <1>3, <2>2 DEF ScriptLine, StateFields
    <3>2. l.opens \in Seq(STRING) /\ (l.opens # <<>> => l.exec)
      BY PlaybookAssumption DEF LineType
    <3>3. st'.heredocs = l.opens
      BY <3>1, <3>2
    <3> QED BY <1>4, <3>1, <3>2, <3>3 DEF Opened
  <2> QED BY <2>1, <2>2
<1>6. Collected(l, n, st, st')
  <2>1. /\ DOMAIN st' = StateFields /\ st'.pending = Append(st.pending, n)
        /\ st'.ok = st.ok /\ st'.groups = st.groups /\ st'.servers = st.servers
        /\ st'.env = st.env /\ st'.mode = st.mode /\ st'.target = st.target
        /\ st'.steps = st.steps /\ st'.name = st.name /\ st'.guard = st.guard
        /\ st'.timeout = st.timeout /\ st'.export = st.export /\ st'.last = st.last
    BY <1>3 DEF BodyLine, ScriptLine, StateFields, N
  <2> QED BY <1>5, <2>1 DEF Collected, Same
<1>7. After(script', Reads(script'), st')
  BY <1>1, <1>2, <1>5, <1>6, CollectedKeeps
<1> HIDE DEF r, r2, n, open
<1> QED BY <1>1, <1>4, <1>5, <1>7 DEF ReadingInv

\* A directive, and the end of the script.
LEMMA FlushingKeeps ==
  ASSUME ReadingInv, phase = "reading", st.heredocs = <<>>
  PROVE  /\ After(script, Reads(script), Flush(st)) /\ Flush(st).pending = <<>>
         /\ Flush(st).heredocs = <<>> /\ Flush(st).groups = st.groups
         /\ Flush(st).servers = st.servers
<1>1. /\ script \in Seq(Lines) /\ LastKnown(Reads(script), Len(script))
      /\ After(script, Reads(script), st)
  BY DEF ReadingInv
<1>2. Len(script) \in Nat /\ DOMAIN st = StateFields
  BY <1>1 DEF After, Shape
<1>3. Flushed(script, st, Flush(st))
  BY <1>2, FlushDoes
<1>4. After(script, Reads(script), Flush(st))
  BY <1>1, <1>2, <1>3, FlushKeeps
<1> QED BY <1>3, <1>4 DEF Flushed, Same

\* A directive, after the block before it was flushed or was left pending.
LEMMA DirectiveKeeps ==
  ASSUME ReadingInv, NEW l \in Lines, DirectiveLine(l)
  PROVE  ReadingInv'
<1> DEFINE r == Reads(script)
           r2 == Reads(Append(script, l))
           n == Len(script) + 1
           f == IF l.dir = "export" THEN st ELSE Flush(st)
<1>1. /\ script \in Seq(Lines) /\ OneReading(script) /\ LastKnown(r, Len(script))
      /\ phase = "reading" /\ script' = Append(script, l)
      /\ st.heredocs = <<>> /\ l.dir # Nil
      /\ phase' = (IF st'.ok THEN "reading" ELSE "refused")
  BY DEF ReadingInv, DirectiveLine, More
<1>2. After(script, r, st) /\ st.heredocs = Opens(script)[Len(script)]
  BY <1>1 DEF ReadingInv
<1>3. /\ OneReading(script') /\ LastKnown(Reads(script'), Len(script'))
      /\ script' \in Seq(Lines)
      /\ Opens(script')[Len(script')] = Opened(st.heredocs, l)
      /\ Grows(script, r, l, IF st.heredocs = <<>> THEN l.dir ELSE Nil, r2)
  BY <1>1, <1>2, ReadsGrows
<1>4. Opened(st.heredocs, l) = <<>> /\ Grows(script, r, l, l.dir, r2)
  BY <1>1, <1>3 DEF Opened
<1>5. st' = Handle(f, l.dir, l.words, n)
  BY DEF DirectiveLine, Directive, N
<1>6. After(script, r, f) /\ f.heredocs = <<>> /\ (f.pending = <<>> \/ l.dir = "export")
  BY <1>1, <1>2, FlushingKeeps
<1>7. ~l.exec
  BY <1>1, PlaybookAssumption
<1> HIDE DEF f
<1>8. ASSUME st'.ok
      PROVE  After(script', Reads(script'), st') /\ st'.heredocs = <<>>
  <2>1. Handle(f, l.dir, l.words, Len(script) + 1).ok
    BY <1>5, <1>8
  <2> QED BY <1>1, <1>4, <1>5, <1>6, <1>7, <2>1, HandleKeeps
<1> HIDE DEF r, r2, n
<1>9. <<>> \in Seq(STRING)
  OBVIOUS
<1> QED BY <1>1, <1>3, <1>4, <1>8, <1>9 DEF ReadingInv

\* The end of the script: the last block and the groups.
LEMMA EndKeeps ==
  ASSUME ReadingInv, EndOfScript
  PROVE  ReadingInv'
<1>1. /\ phase = "reading" /\ script' = script /\ st' = Flush(st)
      /\ phase' = "accepted" =>
           /\ st.heredocs = <<>>
           /\ \A g \in DOMAIN Flush(st).groups : Flush(st).groups[g] \subseteq Flush(st).servers
      /\ phase' \in {"accepted", "refused"}
      /\ phase' = "refused" \/ phase' = "accepted"
  BY DEF EndOfScript
<1>2. /\ script \in Seq(Lines) /\ OneReading(script)
      /\ LastKnown(Reads(script), Len(script))
      /\ st.heredocs = Opens(script)[Len(script)]
  BY <1>1 DEF ReadingInv
<1>3. CASE phase' = "refused"
  BY <1>1, <1>2, <1>3 DEF ReadingInv
<1>4. CASE phase' = "accepted"
  <2>1. After(script, Reads(script), st') /\ st'.heredocs = <<>>
    BY <1>1, <1>4, FlushingKeeps
  <2>2. Opens(script)[Len(script)] = <<>>
    BY <1>1, <1>2, <1>4
  <2>3. <<>> \in Seq(STRING)
    OBVIOUS
  <2> QED BY <1>1, <1>2, <1>4, <2>1, <2>2, <2>3 DEF ReadingInv
<1> QED BY <1>1, <1>3, <1>4

\* Every line that is read, and the end, keep the invariant.
LEMMA ReadingInvNext == ReadingInv /\ [Next]_vars => ReadingInv'
<1> SUFFICES ASSUME ReadingInv, [Next]_vars PROVE ReadingInv'
  OBVIOUS
<1>1. CASE UNCHANGED vars
  BY <1>1 DEF vars, ReadingInv
<1>2. CASE Next
  <2>1. ASSUME NEW l \in Lines, BodyLine(l) \/ ScriptLine(l) PROVE ReadingInv'
    BY <2>1, CollectingKeeps
  <2>2. ASSUME NEW l \in Lines, DirectiveLine(l) PROVE ReadingInv'
    BY <2>2, DirectiveKeeps
  <2>3. ASSUME EndOfScript PROVE ReadingInv'
    BY <2>3, EndKeeps
  <2> QED BY <1>2, <2>1, <2>2, <2>3 DEF Next
<1> QED BY <1>1, <1>2

\* The inductive invariant of the reading.
LEMMA AlwaysReadingInv == Spec => []ReadingInv
BY ReadingInvInit, ReadingInvNext, PTL DEF Spec

-----------------------------------------------------------------------------
(* What the properties say, in terms of q, r and s. *)

\* A member of the range is a value at some place.
LEMMA InRange ==
  ASSUME NEW f, NEW x
  PROVE  x \in Range(f) <=> \E i \in DOMAIN f : f[i] = x
  BY DEF Range

\* The here-documents of the properties are those of the invariant.
LEMMA OpenAfterIs == OpenAfter = Opens(script)
  BY DEF OpenAfter, Opens, Solves

\* A line is a directive for the properties when it was read as one.
LEMMA DirectiveIs ==
  ASSUME NEW n \in 1..Len(script), NEW D, Nil \notin D
  PROVE  IsDirective(n, D) <=> Reads(script)[n] \in D
  BY OpenAfterIs DEF IsDirective, Reads

\* The last directive of a kind, for the properties and for the invariant.
LEMMA LastDirectiveIs ==
  ASSUME Len(script) \in Nat, NEW n \in 1..(Len(script) + 1), NEW D, Nil \notin D
  PROVE  LastDirective(n, D) = LastOf(Reads(script), n, D)
<1>1. \A i \in 1..(n - 1) : IsDirective(i, D) <=> Reads(script)[i] \in D
  <2> SUFFICES ASSUME NEW i \in 1..(n - 1)
               PROVE  IsDirective(i, D) <=> Reads(script)[i] \in D
    OBVIOUS
  <2>1. i \in 1..Len(script)
    OBVIOUS
  <2> QED BY <2>1, DirectiveIs
<1>2. {i \in 1..(n - 1) : IsDirective(i, D)} = {i \in 1..(n - 1) : Reads(script)[i] \in D}
  BY <1>1
<1> QED BY <1>2 DEF LastDirective, LastOf

\* What a step was declared with, likewise.
LEMMA DeclaredIs ==
  ASSUME Len(script) \in Nat, NEW n \in 1..(Len(script) + 1), NEW dir, dir # Nil, NEW b
  PROVE  Declared(dir, n, b) = Since(Reads(script), dir, n, b)
  BY LastDirectiveIs DEF Declared, Since

\* Where a line runs, likewise.
LEMMA PlaceIs ==
  ASSUME script \in Seq(Lines), LastKnown(Reads(script), Len(script)),
         NEW n \in 1..(Len(script) + 1)
  PROVE  /\ AmbientMode(n) = ModeAt(Reads(script), n)
         /\ AmbientTarget(n) = TargetAt(script, Reads(script), n)
<1> DEFINE r == Reads(script)
           D == {"local", "remote", "copy"}
           k == LastOf(r, n, D)
<1>1. Len(script) \in Nat
  OBVIOUS
<1>2. Nil \notin D /\ Nil \notin {"remote"}
  BY DEF Nil
<1>3. LastDirective(n, D) = k
  BY <1>1, <1>2, LastDirectiveIs
<1>4. LastDirective(n, {"remote"}) = LastOf(r, n, {"remote"})
  BY <1>1, <1>2, LastDirectiveIs
<1>5. k \in 0..(n - 1) /\ (k # 0 => r[k] \in D)
  BY DEF LastKnown
<1> HIDE DEF k
<1>6. k # 0 => r[k] = script[k].dir
  <2> SUFFICES ASSUME k # 0 PROVE r[k] = script[k].dir
    OBVIOUS
  <2>1. k \in 1..Len(script)
    BY <1>1, <1>5
  <2> QED BY <1>2, <1>5, <2>1 DEF Reads
<1> HIDE DEF r
<1>7. AmbientMode(n) = ModeAt(r, n)
  BY <1>3, <1>6 DEF AmbientMode, ModeAt, k
<1> QED BY <1>4, <1>7 DEF AmbientTarget, TargetAt, r

\* What the invariant gives, of a plan that is not refused.
LEMMA Known ==
  ASSUME ReadingInv, Healthy
  PROVE  LET r == Reads(script)
         IN /\ script \in Seq(Lines) /\ Len(script) \in Nat
            /\ LastKnown(r, Len(script)) /\ After(script, r, st)
            /\ DOMAIN st.steps = 1..Len(st.steps) /\ Len(st.steps) \in Nat
            /\ \A k \in DOMAIN st.steps :
                 /\ StepWell(script, r, st.steps[k], LineBefore(st, k))
                 /\ Len(st.steps[k].lines) \in Nat \ {0}
                 /\ DOMAIN st.steps[k].lines = 1..Len(st.steps[k].lines)
                 /\ 1 \in DOMAIN st.steps[k].lines
                 /\ \A i \in DOMAIN st.steps[k].lines :
                      st.steps[k].lines[i] \in 1..Len(script)
<1> DEFINE r == Reads(script)
<1>1. /\ script \in Seq(Lines) /\ LastKnown(r, Len(script)) /\ After(script, r, st)
  BY DEF ReadingInv, Healthy
<1>2. Len(script) \in Nat
  BY <1>1
<1>3. IsSeq(st.steps)
  BY <1>1 DEF After, Shape
<1>4. DOMAIN st.steps = 1..Len(st.steps) /\ Len(st.steps) \in Nat
  BY <1>3 DEF IsSeq
<1> HIDE DEF r
<1>5. ASSUME NEW k \in DOMAIN st.steps
      PROVE  /\ StepWell(script, r, st.steps[k], LineBefore(st, k))
             /\ Len(st.steps[k].lines) \in Nat \ {0}
             /\ DOMAIN st.steps[k].lines = 1..Len(st.steps[k].lines)
             /\ 1 \in DOMAIN st.steps[k].lines
             /\ \A i \in DOMAIN st.steps[k].lines : st.steps[k].lines[i] \in 1..Len(script)
  <2>1. StepWell(script, r, st.steps[k], LineBefore(st, k))
    BY <1>1, <1>5 DEF After, Plan
  <2>2. StepShape(st.steps[k], Len(script))
    BY <2>1 DEF StepWell
  <2> DEFINE x == st.steps[k]
  <2> HIDE DEF x
  <2>3. /\ Len(x.lines) \in Nat \ {0} /\ DOMAIN x.lines = 1..Len(x.lines)
        /\ \A i \in 1..Len(x.lines) : x.lines[i] \in 1..Len(script)
    BY <1>2, <2>2, StepLines DEF x
  <2>4. 1 \in 1..Len(x.lines)
    BY <2>3
  <2> QED BY <2>1, <2>3, <2>4 DEF x
<1> QED BY <1>1, <1>2, <1>4, <1>5 DEF r

\* No line moves to another host and no block bleeds into another: the lines of
\* a step run where the script put them, and nothing in a here-document is read
\* as a directive (apply_directive, which flushes before it handles).
THEOREM BlocksStayPutCorrect == Spec => []BlocksStayPut
<1>1. ReadingInv => BlocksStayPut
  <2> SUFFICES ASSUME ReadingInv, Healthy, NEW k \in DOMAIN st.steps,
                      st.steps[k].kind \in {"local", "remote"},
                      NEW n \in Range(st.steps[k].lines)
               PROVE  /\ AmbientMode(n) = st.steps[k].kind
                      /\ AmbientTarget(n) = st.steps[k].target
                      /\ ~IsDirective(n, {script[n].dir} \ {Nil})
    BY DEF BlocksStayPut
  <2> DEFINE r == Reads(script)
             x == st.steps[k]
  <2>1. /\ script \in Seq(Lines) /\ Len(script) \in Nat /\ LastKnown(r, Len(script))
        /\ StepWell(script, r, x, LineBefore(st, k))
        /\ \A i \in DOMAIN x.lines : x.lines[i] \in 1..Len(script)
    BY Known
  <2>2. PICK j \in DOMAIN x.lines : x.lines[j] = n
    BY InRange
  <2>3. n \in 1..Len(script) /\ n \in 1..(Len(script) + 1)
    BY <2>1, <2>2
  <2>4. r[n] = Nil /\ ModeAt(r, n) = x.kind /\ TargetAt(script, r, n) = x.target
    BY <2>1, <2>2 DEF StepWell, StepPut
  <2>5. AmbientMode(n) = ModeAt(r, n) /\ AmbientTarget(n) = TargetAt(script, r, n)
    BY <2>1, <2>3, PlaceIs
  <2>6. ~IsDirective(n, {script[n].dir} \ {Nil})
    BY <2>3, <2>4, DirectiveIs
  <2> QED BY <2>4, <2>5, <2>6
<1> QED BY AlwaysReadingInv, <1>1, PTL

\* The plan has every statement and every directive that is a step, once and in
\* the order of the script; what is accepted has no here-document open and no
\* group that names an unknown server (flush, and the end of parse).
THEOREM PlanKeepsTheOrderCorrect == Spec => []PlanKeepsTheOrder
<1>1. ReadingInv => PlanKeepsTheOrder
  <2> SUFFICES ASSUME ReadingInv, Healthy PROVE PlanKeepsTheOrder
    BY DEF PlanKeepsTheOrder
  <2> DEFINE r == Reads(script)
  <2>1. /\ script \in Seq(Lines) /\ Len(script) \in Nat /\ After(script, r, st)
    BY Known
  <2>2. Ordered(st) /\ Kept(script, r, st)
    BY <2>1 DEF After
  <2>3. ASSUME NEW n \in 1..Len(script),
               script[n].exec \/ IsDirective(n, Stepping \union Asserting \union {"copy"})
        PROVE  n \in PlanLines \union Range(st.pending)
    <3>1. Nil \notin Stepping \union Asserting \union {"copy"}
      BY DEF Nil, Stepping, Asserting
    <3>2. script[n].exec \/ r[n] \in MakeSteps
      BY <2>3, <3>1, DirectiveIs DEF MakeSteps
    <3>3. InPlan(st, n) \/ Awaits(st, n)
      BY <2>2, <3>2 DEF Kept
    <3>4. InPlan(st, n) => n \in PlanLines
      BY InRange DEF InPlan, InStep, PlanLines
    <3>5. Awaits(st, n) => n \in Range(st.pending)
      BY InRange DEF Awaits
    <3> QED BY <3>3, <3>4, <3>5
  <2>4. AcceptedIsWhole
    <3> SUFFICES ASSUME phase = "accepted"
                 PROVE  /\ \A g \in DOMAIN st.groups : ResolveHosts(st, g, {}) \subseteq st.servers
                        /\ OpenAfter[Len(script)] = <<>>
      BY DEF AcceptedIsWhole
    <3>1. /\ \A g \in DOMAIN st.groups : st.groups[g] \subseteq st.servers
          /\ Opens(script)[Len(script)] = <<>>
      BY DEF ReadingInv
    <3>2. \A g \in DOMAIN st.groups : ResolveHosts(st, g, {}) = st.groups[g]
      BY DEF ResolveHosts, HostsOf
    <3> QED BY <3>1, <3>2, OpenAfterIs
  <2> QED BY <2>2, <2>3, <2>4 DEF PlanKeepsTheOrder, Ordered
<1> QED BY AlwaysReadingInv, <1>1, PTL

\* The last line of a step is the greatest of its lines.
LEMMA GreatestLine ==
  ASSUME ReadingInv, Healthy, NEW k \in DOMAIN st.steps
  PROVE  Max0(Range(st.steps[k].lines)) = Final(st.steps[k])
<1> DEFINE f == st.steps[k].lines
<1>1. /\ Len(f) \in Nat \ {0} /\ DOMAIN f = 1..Len(f) /\ Len(script) \in Nat
      /\ \A i \in DOMAIN f : f[i] \in 1..Len(script)
      /\ After(script, Reads(script), st)
  BY Known
<1>2. \A i, j \in DOMAIN f : i < j => f[i] < f[j]
  BY <1>1 DEF After, Ordered
<1> HIDE DEF f
<1>3. Len(f) \in DOMAIN f /\ \A i \in DOMAIN f : i = Len(f) \/ i < Len(f)
  BY <1>1
<1>4. \A i \in DOMAIN f : f[i] <= f[Len(f)]
  BY <1>1, <1>2, <1>3
<1>5. \A x : x \in Range(f) <=> \E i \in DOMAIN f : f[i] = x
  BY InRange
<1>6. Range(f) \in SUBSET Int /\ f[Len(f)] \in Range(f)
  BY <1>1, <1>3, <1>5
<1>7. \A x \in Range(f) : x <= f[Len(f)]
  BY <1>4, <1>5
<1> QED BY <1>6, <1>7, MaxIs DEF Final, f

\* A guard, a name and a budget are those of the step after them and of no
\* other, an assertion without a target takes that of the step before it, and an
\* @export belongs to the block above it (State::flush, push_assertion, @export).
THEOREM BoundAsWrittenCorrect == Spec => []BoundAsWritten
<1>1. ASSUME ReadingInv, Healthy
      PROVE  MetadataBindsNext
  <2> DEFINE r == Reads(script)
  <2> SUFFICES ASSUME NEW k \in DOMAIN st.steps
               PROVE  LET s == st.steps[k]
                          first == s.lines[1]
                          before == IF k = 1 THEN 0 ELSE Max0(Range(st.steps[k - 1].lines))
                      IN /\ s.guard = Declared("only_if", first, before)
                         /\ s.name = Declared("name", first, before)
                         /\ s.kind \in {"local", "remote", "copy", "assert"} =>
                              s.timeout = LET t == Declared("timeout", first, before)
                                          IN IF t = 0 THEN Nil ELSE Text(script[t].words[1])
    BY <1>1 DEF MetadataBindsNext
  <2> DEFINE x == st.steps[k]
             first == x.lines[1]
             before == IF k = 1 THEN 0 ELSE Max0(Range(st.steps[k - 1].lines))
  <2>1. /\ Len(script) \in Nat /\ DOMAIN st.steps = 1..Len(st.steps)
        /\ Len(st.steps) \in Nat /\ StepWell(script, r, x, LineBefore(st, k))
        /\ first \in 1..Len(script)
    BY <1>1, Known
  <2>2. before = LineBefore(st, k)
    <3>1. CASE k = 1
      BY <3>1 DEF LineBefore
    <3>2. CASE k # 1
      <4>1. k - 1 \in DOMAIN st.steps
        BY <2>1, <3>2
      <4>2. Max0(Range(st.steps[k - 1].lines)) = Final(st.steps[k - 1])
        BY <1>1, <4>1, GreatestLine
      <4> QED BY <3>2, <4>2 DEF LineBefore
    <3> QED BY <3>1, <3>2
  <2> HIDE DEF first, before, x
  <2>3. first \in 1..(Len(script) + 1)
    BY <2>1
  <2>4. /\ Declared("only_if", first, before) = Since(r, "only_if", first, before)
        /\ Declared("name", first, before) = Since(r, "name", first, before)
        /\ Declared("timeout", first, before) = Since(r, "timeout", first, before)
    <3>1. "only_if" # Nil /\ "name" # Nil /\ "timeout" # Nil
      BY DEF Nil
    <3> QED BY <2>1, <2>3, <3>1, DeclaredIs
  <2>5. StepBound(script, r, x, before)
    BY <2>1, <2>2 DEF StepWell
  <2> QED BY <2>4, <2>5 DEF StepBound, TimeoutAt, first, before, x
<1>2. ASSUME ReadingInv, Healthy
      PROVE  InheritsThePrevious
  <2> DEFINE targeted == {k \in DOMAIN st.steps : st.steps[k].target # Nil}
  <2>1. Inherited(st) /\ DOMAIN st.steps = 1..Len(st.steps) /\ Len(st.steps) \in Nat
    BY <1>2, Known DEF After
  <2>2. CASE st.last = Nil /\ \A k \in DOMAIN st.steps : st.steps[k].target = Nil
    <3>1. targeted = {}
      BY <2>2
    <3> QED BY <2>2, <3>1 DEF InheritsThePrevious
  <2>3. ASSUME NEW k \in DOMAIN st.steps, st.steps[k].target # Nil,
               st.last = st.steps[k].target,
               \A m \in DOMAIN st.steps : k < m => st.steps[m].target = Nil
        PROVE  InheritsThePrevious
    <3>1. k \in targeted /\ targeted \in SUBSET Int
      BY <2>1, <2>3
    <3>2. \A m \in targeted : m <= k
      BY <2>1, <2>3
    <3> HIDE DEF targeted
    <3>3. Max0(targeted) = k
      BY <3>1, <3>2, MaxIs
    <3>4. targeted # {}
      BY <3>1
    <3> QED BY <2>3, <3>3, <3>4 DEF InheritsThePrevious, targeted
  <2> QED BY <2>1, <2>2, <2>3 DEF Inherited
<1>3. ASSUME ReadingInv, Healthy
      PROVE  ExportsBindBack
  <2>1. /\ Ordered(st) /\ Exports(script, st) /\ DOMAIN st.steps = 1..Len(st.steps)
        /\ Len(st.steps) \in Nat
        /\ \A k \in DOMAIN st.steps : 1 \in DOMAIN st.steps[k].lines
    BY <1>3, Known DEF After
  <2> SUFFICES ASSUME NEW k \in DOMAIN st.steps, NEW e \in Range(st.steps[k].export)
               PROVE  /\ st.steps[k].kind = "local"
                      /\ \A n \in PlanLines \ Range(st.steps[k].lines) :
                           (script[n].exec \/ script[n].dir # Nil) =>
                           n < st.steps[k].lines[1] \/ n > e
    BY DEF ExportsBindBack
  <2>2. PICK h \in DOMAIN st.steps[k].export : st.steps[k].export[h] = e
    BY InRange
  <2>3. st.steps[k].kind = "local"
    BY <2>1, <2>2 DEF Exports
  <2>4. ASSUME NEW n \in PlanLines \ Range(st.steps[k].lines),
               script[n].exec \/ script[n].dir # Nil
        PROVE  n < st.steps[k].lines[1] \/ n > e
    <3>1. PICK m \in DOMAIN st.steps : n \in Range(st.steps[m].lines)
      BY <2>4 DEF PlanLines
    <3>2. PICK i \in DOMAIN st.steps[m].lines : st.steps[m].lines[i] = n
      BY <3>1, InRange
    <3>3. m # k
      BY <2>4, <3>1
    <3>4. CASE m < k
      <4>1. st.steps[m].lines[i] < st.steps[k].lines[1]
        BY <2>1, <3>4 DEF Ordered
      <4> QED BY <3>2, <4>1
    <3>5. CASE k < m
      <4>1. Speaks(script, st.steps[m].lines[i])
        BY <2>4, <3>2 DEF Speaks
      <4>2. st.steps[k].export[h] < st.steps[m].lines[i]
        BY <2>1, <2>2, <3>5, <4>1 DEF Exports
      <4>3. e < n
        BY <2>2, <3>2, <4>2
      <4>4. e \in Int /\ n \in Int
        <5>1. n \in Int
          BY <2>4 DEF PlanLines
        <5>2. StepShape(st.steps[k], Len(script)) /\ Len(script) \in Nat
          BY <1>3, Known DEF StepWell
        <5>3. st.steps[k].export \in Seq(1..Len(script))
          BY <5>2 DEF StepShape
        <5>4. st.steps[k].export[h] \in 1..Len(script)
          BY <2>2, <5>3
        <5> QED BY <2>2, <5>1, <5>4
      <4> QED BY <4>3, <4>4
    <3> QED BY <2>1, <3>3, <3>4, <3>5
  <2> QED BY <2>3, <2>4
<1>4. ReadingInv => BoundAsWritten
  <2>1. CASE Healthy
    BY <1>1, <1>2, <1>3, <2>1 DEF BoundAsWritten
  <2>2. CASE ~Healthy
    BY <2>2 DEF BoundAsWritten, MetadataBindsNext, InheritsThePrevious, ExportsBindBack
  <2> QED BY <2>1, <2>2
<1> QED BY AlwaysReadingInv, <1>4, PTL

\* What joins a step that is there, a copy or an assertion, has the budget and
\* for a copy the environment of the step it joins (the merge conditions).
THEOREM MergedAlikeCorrect == Spec => []MergedAlike
<1>1. ReadingInv => MergedAlike
  <2> DEFINE r == Reads(script)
  <2> SUFFICES ASSUME ReadingInv, Healthy, NEW k \in DOMAIN st.steps,
                      st.steps[k].kind \in {"copy", "assert"},
                      NEW i \in 2..Len(st.steps[k].lines)
               PROVE  LET s == st.steps[k]
                      IN /\ s.timeout = LET t == Declared("timeout", s.lines[i], s.lines[i - 1])
                                        IN IF t = 0 THEN Nil ELSE Text(script[t].words[1])
                         /\ s.kind = "copy" =>
                              ~\E e \in s.lines[1]..s.lines[i] : IsDirective(e, {"env"})
    BY DEF MergedAlike
  <2> DEFINE x == st.steps[k]
  <2>1. /\ Len(script) \in Nat /\ StepWell(script, r, x, LineBefore(st, k))
        /\ Len(x.lines) \in Nat \ {0} /\ DOMAIN x.lines = 1..Len(x.lines)
        /\ 1 \in DOMAIN x.lines
        /\ \A j \in DOMAIN x.lines : x.lines[j] \in 1..Len(script)
    BY Known
  <2> HIDE DEF x
  <2>2. i \in DOMAIN x.lines /\ i - 1 \in DOMAIN x.lines
    BY <2>1 DEF x
  <2>3. /\ x.lines[i] \in 1..Len(script) /\ x.lines[1] \in 1..Len(script)
        /\ x.lines[i] \in 1..(Len(script) + 1)
    BY <2>1, <2>2
  <2>4. /\ x.timeout = TimeoutAt(script, r, x.lines[i], x.lines[i - 1])
        /\ x.kind = "copy" => \A e \in x.lines[1]..x.lines[i] : r[e] # "env"
    BY <2>1 DEF StepWell, StepMerged, x
  <2>5. "timeout" # Nil /\ Nil \notin {"env"}
    BY DEF Nil
  <2>6. Declared("timeout", x.lines[i], x.lines[i - 1])
          = Since(r, "timeout", x.lines[i], x.lines[i - 1])
    BY <2>1, <2>3, <2>5, DeclaredIs
  <2>7. \A e \in x.lines[1]..x.lines[i] : IsDirective(e, {"env"}) <=> r[e] = "env"
    <3> SUFFICES ASSUME NEW e \in x.lines[1]..x.lines[i]
                 PROVE  IsDirective(e, {"env"}) <=> r[e] = "env"
      OBVIOUS
    <3>1. e \in 1..Len(script)
      BY <2>1, <2>3
    <3> QED BY <2>5, <3>1, DirectiveIs
  <2> QED BY <2>4, <2>6, <2>7 DEF TimeoutAt, x
<1> QED BY AlwaysReadingInv, <1>1, PTL
=============================================================================
