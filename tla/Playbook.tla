------------------------------ MODULE Playbook ------------------------------
(***************************************************************************)
(* The reading of a playbook: the single pass of parser.rs that turns the  *)
(* lines of a Bash script, and the directives in its comments, into a plan *)
(* of steps.  A line is what the pass tells apart of it: whether it is a   *)
(* directive and of which words, whether it holds a statement, which       *)
(* here-documents it opens, which one it ends.  The script is any sequence *)
(* of lines; what a step was made of is recorded by line numbers.          *)
(***************************************************************************)
EXTENDS Integers, Sequences, FiniteSets, SequencesExt

CONSTANTS
  Lines,        \* the lines a script is made of, see LineType
  MaxLines,     \* bound: length of a script
  MaxWithRare   \* bound: length of a script with a rare line, at most one

\* A line: the directive (or none) and its words; whether it holds a
\* statement; the here-documents it opens; the delimiter it is; whether it is
\* one of the rare lines, whose number is bounded.
Nil == "nil"   \* no directive, no flag, no name: never a text
Texts == STRING \ {Nil}
LineType == [dir : STRING, words : Seq([at : BOOLEAN, flag : STRING, parts : Seq(Texts)]),
             exec : BOOLEAN, opens : Seq(STRING), ends : STRING, rare : BOOLEAN]

\* A directive is a comment, and a comment holds no statement and opens no
\* here-document (has_executable, scan_openers).
ASSUME PlaybookAssumption ==
  /\ Lines \subseteq LineType /\ MaxLines \in Nat /\ MaxWithRare \in Nat
  /\ \A l \in Lines : (l.dir # Nil => ~l.exec) /\ (l.opens # <<>> => l.exec)

VARIABLES
  script,   \* the lines read so far
  st,       \* parser.rs State, with the plan it builds
  phase     \* "reading", "accepted" or "refused"

vars == <<script, st, phase>>

-----------------------------------------------------------------------------
(* Words.  A word is "@name", a flag (with its value when it is written    *)
(* --flag=value), or a plain word, the parts of which commas separate.     *)

Word(at, flag, parts) == [at |-> at, flag |-> flag, parts |-> parts]
W(t) == Word(FALSE, Nil, <<t>>)
At(t) == Word(TRUE, Nil, <<t>>)
List(ts) == Word(FALSE, Nil, ts)
Flag(f) == Word(FALSE, f, <<>>)
FlagWith(f, t) == Word(FALSE, f, <<t>>)

IsFlag(w) == w.flag # Nil
Text(w) == IF w.parts = <<>> THEN "" ELSE w.parts[1]

\* The vocabulary: what each rule accepts (the other words are refused by it).
Aliases == {"web", "db", "all"}
Specs == {"deploy@h1", "deploy@h2"}
UnitNames == {"app", "web", "db", "all"}
VarNames == {"VER", "KEY"}
ActiveStates == {"active", "failed"}
EnabledStates == {"enabled", "masked"}
Tools == {"os", "cargo"}
Ports == {"80", "443"}
Patterns == {"200", "2xx"}
Urls == {"http://h"}
Absolute == {"/etc/app", "/var/backups"}
Modes == {"0644"}
Owners == {"root:root"}
Counts == {"1", "5", "9"}      \* also the seconds of a budget
Repos == {"acme/app"}
Signals == {"SIGUSR1"}
Digests == {"sha"}
Anything == Aliases \union Specs \union UnitNames \union VarNames \union Tools
         \union Ports \union Absolute \union Counts \union Repos \union {"text"}

\* split_flags: which words are positional, and the value each flag takes.
SplitFlags(words, bools) ==
  LET Take(acc, w) ==
        IF ~IsFlag(w)
        THEN IF acc.open
             THEN [acc EXCEPT !.open = FALSE,
                              !.flags[Len(acc.flags)].value = Text(w)]
             ELSE [acc EXCEPT !.pos = Append(@, w)]
        ELSE [acc EXCEPT
               !.flags = Append(@, [flag |-> w.flag,
                                    value |-> IF w.parts = <<>> THEN Nil ELSE Text(w),
                                    list |-> w.parts]),
               !.open = w.flag \notin bools /\ w.parts = <<>>,
               !.ok = @ /\ ~(w.flag \in bools /\ w.parts # <<>>)]
  IN FoldLeft(Take, [pos |-> <<>>, flags |-> <<>>, open |-> FALSE, ok |-> TRUE],
              words)

\* Every flag is one the directive knows, with a value the flag accepts
\* (flag_value, unknown_flag and the parsers of values).
Accepts(p, known) ==
  p.ok /\ \A i \in DOMAIN p.flags :
            /\ p.flags[i].flag \in DOMAIN known
            /\ p.flags[i].value \in known[p.flags[i].flag]
Switches(names) == [f \in names |-> {Nil}]
Given(p, flag) == {p.flags[i].value : i \in {j \in DOMAIN p.flags : p.flags[j].flag = flag}}
Budget(p) ==
  LET own == {i \in DOMAIN p.flags : p.flags[i].flag = "--timeout"}
  IN IF own = {} THEN Nil ELSE p.flags[CHOOSE i \in own : \A j \in own : j <= i].value
Positional(p, k) == IF k \in DOMAIN p.pos THEN p.pos[k] ELSE W("")

-----------------------------------------------------------------------------
(* What a directive reads from its words: whether they are well formed,    *)
(* the target they name ("" is an empty name; Nil leaves it to be          *)
(* inherited), and a budget of their own.                                  *)

Reading(ok, target, secs) == [ok |-> ok, target |-> target, secs |-> secs]
OptionalTarget(p, k) == IF k \in DOMAIN p.pos THEN Text(p.pos[k]) ELSE Nil

\* The directives that read "@target" wherever it stands: at most one.
Named(words) == SelectSeq(words, LAMBDA w : w.at)
Others(words) == SelectSeq(words, LAMBDA w : ~w.at)
OneTarget(words) == Len(Named(words)) <= 1
TargetIn(words) == IF Named(words) = <<>> THEN Nil ELSE Text(Named(words)[1])
AllParts(words, class) ==
  \A i \in DOMAIN words : ~IsFlag(words[i]) /\ Range(words[i].parts) \subseteq class
SomePart(words) == \E i \in DOMAIN words : words[i].parts # <<>>

WaitActive(words) ==
  LET p == SplitFlags(words, {})
  IN Reading(/\ Accepts(p, "--timeout" :> Counts)
             /\ Len(p.pos) = 2 /\ Text(p.pos[1]) \in UnitNames,
             Text(Positional(p, 2)), Budget(p))

Reload(words) ==
  LET p == SplitFlags(words, {"--wait"})
  IN Reading(/\ Accepts(p, Switches({"--wait"}) @@ ("--timeout" :> Counts)
                             @@ ("--signal" :> Signals))
             /\ Len(p.pos) = 2 /\ Text(p.pos[1]) \in UnitNames,
             Text(Positional(p, 2)), Budget(p))

ServiceFlags == {"--enable", "--restart", "--reload", "--wait", "--verify",
                 "--force-start"}
Service(words) ==
  LET p == SplitFlags(words, ServiceFlags)
  IN Reading(/\ Accepts(p, Switches(ServiceFlags) @@ ("--timeout" :> Counts))
             /\ Len(p.pos) = 2 /\ Text(p.pos[1]) \in UnitNames,
             Text(Positional(p, 2)), Budget(p))

\* The arrow between source and destination; a word of its own here.
ArrowAt(words) ==
  LET arrows == {i \in DOMAIN words : words[i] = W("->")}
  IN IF arrows = {} THEN 0 ELSE CHOOSE i \in arrows : \A j \in arrows : i <= j
AfterArrow(words) == SubSeq(words, ArrowAt(words) + 1, Len(words))

Install(words) ==
  LET p == SplitFlags(AfterArrow(words), {})
  IN Reading(/\ ArrowAt(words) > 1
             /\ Accepts(p, ("--mode" :> Modes) @@ ("--dir-mode" :> Modes)
                             @@ ("--owner" :> Owners))
             /\ Len(p.pos) = 2 /\ Text(p.pos[1]) \in Absolute,
             Text(Positional(p, 2)), Nil)

Backup(words) ==
  LET p == SplitFlags(words, {"--seal"})
  IN Reading(/\ Accepts(p, Switches({"--seal"}) @@ ("--keep" :> Counts)
                             @@ ("--service" :> UnitNames) @@ ("--dir" :> Absolute))
             /\ Len(p.pos) >= 2
             /\ \A i \in 1..(Len(p.pos) - 1) : Text(p.pos[i]) \in Absolute,
             Text(Positional(p, Len(p.pos))), Nil)

Credstore(words) ==
  LET p == SplitFlags(words, {})
  IN Reading(/\ Accepts(p, "--require" :> VarNames)
             /\ Len(p.pos) = 2 /\ Text(p.pos[1]) \in UnitNames,
             Text(Positional(p, 2)), Nil)

Helper(words) ==
  LET p == SplitFlags(words, {})
  IN Reading(/\ Accepts(p, ("--source" :> Anything) @@ ("--triple" :> Anything)
                             @@ ("--install-path" :> Absolute))
             /\ Len(p.pos) <= 1,
             OptionalTarget(p, 1), Nil)

\* Flags are split off and then not looked at.
UnitInventory(words) ==
  LET p == SplitFlags(words, {}) IN Reading(p.ok, OptionalTarget(p, 1), Nil)

Release(words) ==
  LET p == SplitFlags(words, {})
  IN Reading(/\ Accepts(p, ("--installed-cmd" :> Anything) @@ ("--asset" :> Anything)
                             @@ ("--to" :> Absolute) @@ ("--base-url" :> Urls))
             /\ Len(p.pos) = 2 /\ Text(p.pos[1]) \in Repos
             /\ \A f \in {"--installed-cmd", "--asset", "--to"} : Given(p, f) # {},
             Text(Positional(p, 2)), Nil)

BuildFlags == ("--ref" :> Anything) @@ ("--build" :> Anything) @@ ("--prep" :> Anything)
                @@ ("--workdir" :> Absolute) @@ ("--artifacts" :> Anything)
                @@ ("--install-dirs" :> Absolute) @@ ("--units" :> UnitNames)
                @@ ("--version-flag" :> Anything) @@ ("--min-free-gb" :> Counts \union {"0"})
Build(words) ==
  LET p == SplitFlags(words, {})
  IN Reading(/\ Accepts(p, BuildFlags) /\ Len(p.pos) = 2 /\ Text(p.pos[1]) # ""
             /\ \A f \in {"--ref", "--build", "--artifacts", "--install-dirs"} :
                  Given(p, f) # {},
             Text(Positional(p, 2)), Nil)

Toolchain(words) ==
  Reading(/\ OneTarget(words) /\ SomePart(Others(words))
          /\ AllParts(Others(words), Tools), TargetIn(words), Nil)

Image(words) ==
  LET p == SplitFlags(words, {"--prune"})
  IN Reading(/\ Accepts(p, Switches({"--prune"})) /\ OneTarget(p.pos)
             /\ Others(p.pos) # <<>>, TargetIn(p.pos), Nil)

-----------------------------------------------------------------------------
(* The assertions.  The first group reads its words one by one, so a flag  *)
(* is a plain word to it; the second splits the flags off.                 *)

AssertUnit(words) ==
  LET rest == Others(words)
  IN Reading(/\ OneTarget(words) /\ Len(rest) \in {1, 2}
             /\ Text(rest[1]) \in UnitNames
             /\ Len(rest) = 2 => Text(rest[2]) \in ActiveStates,
             TargetIn(words), Nil)

\* A flag takes the word after it whatever that is, and has no value inline.
AssertHealth(words) ==
  LET known == ("--expect" :> Patterns) @@ ("--method" :> Anything)
                 @@ ("--body" :> Anything) @@ ("--header" :> Anything)
      Take(acc, w) ==
        IF acc.open # Nil
        THEN [acc EXCEPT !.open = Nil,
                         !.ok = @ /\ Range(w.parts) \subseteq known[acc.open]]
        ELSE IF IsFlag(w)
             THEN [acc EXCEPT !.ok = @ /\ w.flag \in DOMAIN known /\ w.parts = <<>>,
                              !.open = IF w.flag \in DOMAIN known THEN w.flag ELSE Nil]
             ELSE [acc EXCEPT !.pos = Append(@, w)]
      p == FoldLeft(Take, [pos |-> <<>>, open |-> Nil, ok |-> TRUE], words)
  IN Reading(/\ p.ok /\ p.open = Nil /\ OneTarget(p.pos)
             /\ Len(Others(p.pos)) = 1 /\ Text(Others(p.pos)[1]) \in Urls,
             TargetIn(p.pos), Nil)

AssertPort(words) ==
  LET rest == SelectSeq(Others(words), LAMBDA w : w # Flag("--udp"))
  IN Reading(OneTarget(words) /\ SomePart(rest) /\ AllParts(rest, Ports),
             TargetIn(words), Nil)

AssertPortFree(words) ==
  LET rest == Others(words)
  IN Reading(OneTarget(words) /\ SomePart(rest) /\ AllParts(rest, Ports),
             TargetIn(words), Nil)

AssertRendered(words) ==
  LET rest == Others(words)
  IN Reading(OneTarget(words) /\ Len(rest) = 1 /\ Text(rest[1]) \in Absolute,
             TargetIn(words), Nil)

AssertEnabled(words) ==
  LET rest == Others(words)
  IN Reading(/\ OneTarget(words) /\ Len(rest) = 2
             /\ Text(rest[1]) \in UnitNames /\ Text(rest[2]) \in EnabledStates,
             TargetIn(words), Nil)

AssertNoLeak(words) ==
  LET p == SplitFlags(words, {})
  IN Reading(/\ Accepts(p, "--lines" :> Counts)
             /\ p.pos # <<>> /\ Text(Positional(p, 1)) \in UnitNames,
             OptionalTarget(p, 2), Nil)

AssertDigest(words) ==
  LET p == SplitFlags(words, {})
  IN Reading(/\ Accepts(p, ("--sha256" :> Digests) @@ ("--local" :> Anything))
             /\ p.pos # <<>> /\ Text(Positional(p, 1)) \in Absolute,
             OptionalTarget(p, 2), Nil)

\* Flags are split off and then not looked at.
AssertCredstore(words) ==
  LET p == SplitFlags(words, {})
  IN Reading(/\ p.ok /\ p.pos # <<>> /\ Text(Positional(p, 1)) \in UnitNames,
             OptionalTarget(p, 2), Nil)

-----------------------------------------------------------------------------
(* The plan and the pending block.                                         *)

Empty == [ok |-> TRUE,
          servers |-> {}, groups |-> << >>, env |-> 0, secrets |-> 0,
          workdir |-> FALSE, steps |-> <<>>,
          mode |-> "local", target |-> "",
          pending |-> <<>>,    \* lines of the block that is not a step yet
          name |-> 0, guard |-> 0,          \* the line that declared it, 0: none
          timeout |-> Nil, export |-> <<>>,
          last |-> Nil,        \* last_target
          heredocs |-> <<>>]   \* the open here-documents, oldest first

Refuse(s) == [s EXCEPT !.ok = FALSE]

\* has_executable: a block of comments and blank lines is none.
HasExecutable(s) == \E i \in DOMAIN s.pending : script[s.pending[i]].exec

NoOpts == [delete |-> FALSE, excludes |-> <<>>]

\* A step, the lines it was made of, and what it was declared with.
Step(s, kind, target, lines, timeout, opts) ==
  [kind |-> kind, target |-> target, lines |-> lines, name |-> s.name,
   guard |-> s.guard, timeout |-> timeout, export |-> s.export, env |-> s.env,
   opts |-> opts]

\* Slip: the guard of a block outlives it.
GuardOutlives(s) ==
  IF ~HasExecutable(s) THEN [s EXCEPT !.pending = <<>>]
  ELSE LET target == IF s.mode = "remote" THEN s.target ELSE Nil
       IN [s EXCEPT !.steps = Append(@, Step(s, s.mode, target, s.pending, s.timeout, NoOpts)),
                    !.pending = <<>>, !.name = 0, !.timeout = Nil, !.export = <<>>,
                    !.last = IF target = Nil THEN @ ELSE target]

\* State::flush
Flush(s) ==
  LET remote == s.mode = "remote"
  IN IF ~HasExecutable(s) THEN [s EXCEPT !.pending = <<>>]
     ELSE [s EXCEPT
            !.steps = Append(@, Step(s, s.mode, IF remote THEN s.target ELSE Nil,
                                     s.pending, s.timeout, NoOpts)),
            !.pending = <<>>, !.name = 0, !.guard = 0, !.timeout = Nil,
            !.export = <<>>, !.last = IF remote THEN s.target ELSE @]

\* name and timeout go to the step that was just read.
Spent(s) == [s EXCEPT !.name = 0, !.timeout = Nil]

\* reject_guard, resolve_assert_target, and the step: every directive that
\* is a step of its own.
AddStep(s, kind, r, n) ==
  LET target == IF r.target = Nil THEN s.last ELSE r.target
      secs == IF r.secs = Nil THEN s.timeout ELSE r.secs
  IN IF s.guard # 0 \/ ~r.ok \/ target \in {"", Nil} THEN Refuse(s)
     ELSE [Spent(s) EXCEPT
            !.steps = Append(@, Step(s, kind, target, <<n>>, secs, NoOpts)),
            !.last = target]

\* A line that joins the step before it instead of making one.
Join(s, n) == [Spent(s) EXCEPT !.steps[Len(s.steps)].lines = Append(@, n)]

\* push_assertion: assertions of one target are one step.
MergesAssert(s, target) ==
  /\ s.name = 0 /\ s.steps # <<>>
  /\ LET before == s.steps[Len(s.steps)]
     IN before.kind = "assert" /\ before.target = target /\ before.timeout = s.timeout
AddAssertion(s, r, n) ==
  LET target == IF r.target = Nil THEN s.last ELSE r.target
  IN IF s.guard = 0 /\ r.ok /\ target \notin {"", Nil} /\ MergesAssert(s, target)
     THEN Join(s, n)
     ELSE AddStep(s, "assert", r, n)

\* Slip: the environment is not part of what copies must share.
MergesAnyCopy(s, target, opts) ==
  /\ s.name = 0 /\ s.steps # <<>>
  /\ LET before == s.steps[Len(s.steps)]
     IN /\ before.kind = "copy" /\ before.target = target
        /\ before.opts = opts /\ before.timeout = s.timeout

\* Copies of one target, with the same options and environment, are one step.
MergesCopy(s, target, opts) ==
  /\ s.name = 0 /\ s.steps # <<>>
  /\ LET before == s.steps[Len(s.steps)]
     IN /\ before.kind = "copy" /\ before.target = target
        /\ before.opts = opts /\ before.timeout = s.timeout /\ before.env = s.env
AddCopy(local, words, n) ==
  LET s == [local EXCEPT !.mode = "local", !.target = ""]
      p == SplitFlags(AfterArrow(words), {"--delete"})
      target == Text(Positional(p, Len(p.pos)))
      opts == [delete |-> Given(p, "--delete") # {},
               excludes |-> SelectSeq(p.flags, LAMBDA f : f.flag = "--exclude")]
      joined == [Join(s, n) EXCEPT !.last = target]
      ownStep == [Spent(s) EXCEPT
               !.steps = Append(@, Step(s, "copy", target, <<n>>, s.timeout, opts)),
               !.last = target]
  IN IF \/ s.guard # 0 \/ ArrowAt(words) <= 1
        \/ ~Accepts(p, Switches({"--delete"}) @@ ("--exclude" :> Anything))
        \/ target \in {"", Nil} \/ Len(p.pos) < 2 THEN Refuse(s)
     ELSE IF MergesCopy(s, target, opts) THEN joined ELSE ownStep

-----------------------------------------------------------------------------
(* The declarations. *)

DeclareServer(s, words) ==
  IF /\ Len(words) = 2 /\ Text(words[1]) \in Aliases /\ Text(words[2]) \in Specs
     /\ Text(words[1]) \notin s.servers
  THEN [s EXCEPT !.servers = @ \union {Text(words[1])}]
  ELSE Refuse(s)

\* A group may not take the name of a server that was declared before it.
DeclareGroup(s, words) ==
  LET name == Text(words[1])
      members == words[2].parts
  IN IF /\ Len(words) = 2 /\ name \in Aliases
        /\ name \notin s.servers /\ name \notin DOMAIN s.groups
        /\ members # <<>> /\ Range(members) \subseteq Aliases \ {name}
     THEN [s EXCEPT !.groups = (name :> Range(members)) @@ @]
     ELSE Refuse(s)

DeclareEnv(s, words) ==
  IF words # <<>> /\ Text(words[1]) \in VarNames
  THEN [s EXCEPT !.env = @ + 1] ELSE Refuse(s)

\* One file, then --identity and a path, as often as one likes.
DeclareSecrets(s, words) ==
  LET more == Tail(words)
  IN IF /\ words # <<>> /\ Len(more) % 2 = 0
        /\ \A i \in DOMAIN more : i % 2 = 1 => more[i] = Flag("--identity")
     THEN [s EXCEPT !.secrets = @ + 1] ELSE Refuse(s)

DeclareWorkdir(s, words) ==
  LET p == SplitFlags(words, {})
  IN IF Accepts(p, "--prefix" :> VarNames \union Aliases) /\ ~s.workdir
     THEN [s EXCEPT !.workdir = TRUE] ELSE Refuse(s)

\* declare_export: to the pending local block, else to the step before.
DeclareExport(s, words, n) ==
  LET p == SplitFlags(words, {"--public"})
      wellFormed == /\ Accepts(p, Switches({"--public"})) /\ Len(p.pos) = 1
                    /\ p.pos[1].parts # <<>>
                    /\ Range(p.pos[1].parts) \subseteq VarNames
      k == Len(s.steps)
  IN CASE ~wellFormed -> Refuse(s)
       [] wellFormed /\ HasExecutable(s) ->
            IF s.mode = "local" THEN [s EXCEPT !.export = Append(@, n)] ELSE Refuse(s)
       [] OTHER ->
            IF k > 0 /\ s.steps[k].kind = "local"
            THEN [s EXCEPT !.steps[k].export = Append(@, n)] ELSE Refuse(s)

\* @local and @remote: where the lines that follow run.
SetMode(s, mode, words) ==
  LET target == IF words = <<>> THEN "" ELSE Text(words[1])
  IN IF mode = "remote" /\ target = "" THEN Refuse(s)
     ELSE [s EXCEPT !.mode = mode, !.target = IF mode = "remote" THEN target ELSE ""]

\* @name, @only_if and @timeout: for the next block.
Remember(s, dir, words, n) ==
  CASE words = <<>> -> Refuse(s)
    [] words # <<>> /\ dir = "name" -> [s EXCEPT !.name = n]
    [] words # <<>> /\ dir = "only_if" -> [s EXCEPT !.guard = n]
    [] words # <<>> /\ dir = "timeout" ->
         IF Text(words[1]) \in Counts THEN [s EXCEPT !.timeout = Text(words[1])]
         ELSE Refuse(s)

-----------------------------------------------------------------------------
(* The pass. *)

Declarations == {"server", "group", "env", "secrets", "workdir"}
Declare(s, dir, words) ==
  CASE dir = "server" -> DeclareServer(s, words)
    [] dir = "group" -> DeclareGroup(s, words)
    [] dir = "env" -> DeclareEnv(s, words)
    [] dir = "secrets" -> DeclareSecrets(s, words)
    [] dir = "workdir" -> DeclareWorkdir(s, words)

Stepping == {"wait_active", "reload", "service", "install", "backup", "credstore",
             "helper", "unit_inventory", "release", "build", "toolchain", "image"}
ReadStep(dir, words) ==
  CASE dir = "wait_active" -> WaitActive(words)
    [] dir = "reload" -> Reload(words)
    [] dir = "service" -> Service(words)
    [] dir = "install" -> Install(words)
    [] dir = "backup" -> Backup(words)
    [] dir = "credstore" -> Credstore(words)
    [] dir = "helper" -> Helper(words)
    [] dir = "unit_inventory" -> UnitInventory(words)
    [] dir = "release" -> Release(words)
    [] dir = "build" -> Build(words)
    [] dir = "toolchain" -> Toolchain(words)
    [] dir = "image" -> Image(words)

Asserting == {"assert", "assert_health", "assert_port", "assert_port_free",
              "assert_rendered", "assert_enabled", "assert_no_leak",
              "assert_digest", "assert_credstore"}
ReadAssert(dir, words) ==
  CASE dir = "assert" -> AssertUnit(words)
    [] dir = "assert_health" -> AssertHealth(words)
    [] dir = "assert_port" -> AssertPort(words)
    [] dir = "assert_port_free" -> AssertPortFree(words)
    [] dir = "assert_rendered" -> AssertRendered(words)
    [] dir = "assert_enabled" -> AssertEnabled(words)
    [] dir = "assert_no_leak" -> AssertNoLeak(words)
    [] dir = "assert_digest" -> AssertDigest(words)
    [] dir = "assert_credstore" -> AssertCredstore(words)

Handle(f, dir, words, n) ==
  CASE dir \in Declarations -> Declare(f, dir, words)
    [] dir \in {"local", "remote"} -> SetMode(f, dir, words)
    [] dir \in {"name", "only_if", "timeout"} -> Remember(f, dir, words, n)
    [] dir = "export" -> DeclareExport(f, words, n)
    [] dir = "copy" -> AddCopy(f, words, n)
    [] dir \in Stepping -> AddStep(f, dir, ReadStep(dir, words), n)
    [] dir \in Asserting -> AddAssertion(f, ReadAssert(dir, words), n)
    [] OTHER -> Refuse(f)     \* an unknown directive

\* Slip: a change of mode does not end the block before it.
ModeInPlace(s, dir, words, n) ==
  Handle(IF dir \in {"export", "local", "remote"} THEN s ELSE Flush(s), dir, words, n)

\* Slip: the block before a directive is thrown away.
BlockDropped(s, dir, words, n) ==
  Handle(IF dir = "export" THEN s ELSE [Flush(s) EXCEPT !.steps = s.steps],
         dir, words, n)

\* apply_directive: every directive but @export ends the pending block.
Directive(s, dir, words, n) ==
  Handle(IF dir = "export" THEN s ELSE Flush(s), dir, words, n)

More(l) ==
  /\ phase = "reading"
  /\ LET rare == \E i \in DOMAIN script : script[i].rare
     IN /\ l.rare => ~rare
        /\ Len(script) < IF l.rare \/ rare THEN MaxWithRare ELSE MaxLines
  /\ script' = Append(script, l)
N == Len(script) + 1

\* HeredocTracker::consume_body: data, until the oldest delimiter.
BodyLine(l) ==
  /\ st.heredocs # <<>> /\ More(l)
  /\ st' = [st EXCEPT !.pending = Append(@, N),
                      !.heredocs = IF l.ends = Head(@) THEN Tail(@) ELSE @]
  /\ UNCHANGED phase

ScriptLine(l) ==
  /\ st.heredocs = <<>> /\ l.dir = Nil /\ More(l)
  /\ st' = [st EXCEPT !.pending = Append(@, N), !.heredocs = @ \o l.opens]
  /\ UNCHANGED phase

DirectiveLine(l) ==
  /\ st.heredocs = <<>> /\ l.dir # Nil /\ More(l)
  /\ st' = Directive(st, l.dir, l.words, N)
  /\ phase' = IF st'.ok THEN "reading" ELSE "refused"

\* The end of the script: no open here-document, the last block, the groups.
EndOfScript ==
  /\ phase = "reading"
  /\ LET s == Flush(st)
         resolved == \A g \in DOMAIN s.groups : s.groups[g] \subseteq s.servers
     IN /\ st' = s
        /\ phase' = IF st.heredocs = <<>> /\ resolved THEN "accepted" ELSE "refused"
  /\ UNCHANGED script

Init == script = <<>> /\ st = Empty /\ phase = "reading"
Next == \/ \E l \in Lines : BodyLine(l) \/ ScriptLine(l) \/ DirectiveLine(l)
        \/ EndOfScript
Spec == Init /\ [][Next]_vars

-----------------------------------------------------------------------------
(* resolve_hosts: the hosts of a target, narrowed by --target.             *)

Allowed(s, restrict) ==
  UNION {IF r \in DOMAIN s.groups THEN s.groups[r] ELSE {r} : r \in restrict}
HostsOf(s, target) ==
  CASE target \in DOMAIN s.groups -> s.groups[target]
    [] target \in s.servers \ DOMAIN s.groups -> {target}
    [] OTHER -> IF target \in Specs \union Aliases THEN {target} ELSE {}
ResolveHosts(s, target, restrict) ==
  IF restrict = {} THEN HostsOf(s, target)
  ELSE HostsOf(s, target) \intersect Allowed(s, restrict)

-----------------------------------------------------------------------------
(* Properties.  They compare the plan with the script it was read from.    *)

Max0(S) == IF S = {} THEN 0 ELSE CHOOSE i \in S : \A j \in S : j <= i

\* The here-documents that are open after n lines, and the lines that are
\* directives for Bash's reader of the script.
OpenAfter ==
  LET open[n \in 0..Len(script)] ==
        IF n = 0 THEN <<>>
        ELSE IF open[n - 1] # <<>>
        THEN IF script[n].ends = open[n - 1][1] THEN Tail(open[n - 1]) ELSE open[n - 1]
        ELSE IF script[n].dir = Nil THEN script[n].opens ELSE <<>>
  IN open
IsDirective(n, dirs) == script[n].dir \in dirs /\ OpenAfter[n - 1] = <<>>
LastDirective(n, dirs) == Max0({i \in 1..(n - 1) : IsDirective(i, dirs)})

\* Where line n runs: the last directive that says where.
AmbientMode(n) ==
  LET k == LastDirective(n, {"local", "remote", "copy"})
  IN IF k # 0 /\ script[k].dir = "remote" THEN "remote" ELSE "local"
AmbientTarget(n) ==
  IF AmbientMode(n) = "local" THEN Nil
  ELSE Text(script[LastDirective(n, {"remote"})].words[1])

PlanLines == {i \in 1..Len(script) : \E k \in DOMAIN st.steps : i \in Range(st.steps[k].lines)}
Healthy == phase # "refused"

\* Every variable has its type.
TypeOK ==
  /\ phase \in {"reading", "accepted", "refused"}
  /\ script \in Seq(Lines) /\ Len(script) <= MaxLines
  /\ st.mode \in {"local", "remote"} /\ st.env \in Nat
  /\ {st.name, st.guard} \union Range(st.pending) \union Range(st.export)
       \subseteq 0..Len(script)
  /\ st.timeout \in Counts \union {Nil}

\* No line moves to another host, and no block bleeds into another (the
\* comment of apply_directive): the lines of a step ran where the script put
\* them, and nothing in a here-document is read as a directive.
BlocksStayPut ==
  Healthy => \A k \in DOMAIN st.steps :
    LET s == st.steps[k]
    IN s.kind \in {"local", "remote"} =>
         \A n \in Range(s.lines) : /\ AmbientMode(n) = s.kind
                                   /\ AmbientTarget(n) = s.target
                                   /\ ~IsDirective(n, {script[n].dir} \ {Nil})

\* A plan that is accepted holds the whole script: every group can be
\* resolved, and no here-document swallowed what followed it.
AcceptedIsWhole ==
  phase = "accepted" =>
    /\ \A g \in DOMAIN st.groups : ResolveHosts(st, g, {}) \subseteq st.servers
    /\ OpenAfter[Len(script)] = <<>>

\* Nothing is lost and nothing is reordered: the lines of the plan increase,
\* every statement, and every directive that is a step, is one of them or
\* still pending, and an accepted plan is whole.
PlanKeepsTheOrder ==
  Healthy =>
    /\ \A k, m \in DOMAIN st.steps :
         \A i \in DOMAIN st.steps[k].lines : \A j \in DOMAIN st.steps[m].lines :
           k < m \/ (k = m /\ i < j) => st.steps[k].lines[i] < st.steps[m].lines[j]
    /\ \A n \in 1..Len(script) :
         script[n].exec \/ IsDirective(n, Stepping \union Asserting \union {"copy"})
           => n \in PlanLines \union Range(st.pending)
    /\ AcceptedIsWhole

\* @only_if, @name and @timeout hold for the next block that has statements,
\* and for no other (rule 4 of design 4.1): no guard is left out, none is
\* carried past the block it was written for.
Declared(dir, first, before) ==
  LET k == LastDirective(first, {dir}) IN IF k > before THEN k ELSE 0
MetadataBindsNext ==
  Healthy => \A k \in DOMAIN st.steps :
    LET s == st.steps[k]
        first == s.lines[1]
        before == IF k = 1 THEN 0 ELSE Max0(Range(st.steps[k - 1].lines))
    IN /\ s.guard = Declared("only_if", first, before)
       /\ s.name = Declared("name", first, before)
       /\ s.kind \in {"local", "remote", "copy", "assert"} =>
            s.timeout = LET t == Declared("timeout", first, before)
                        IN IF t = 0 THEN Nil ELSE Text(script[t].words[1])

\* What is merged into a step has the budget and, for a copy, the environment
\* the step has.
MergedAlike ==
  Healthy => \A k \in DOMAIN st.steps :
    LET s == st.steps[k]
    IN s.kind \in {"copy", "assert"} =>
         \A i \in 2..Len(s.lines) :
           /\ s.timeout = LET t == Declared("timeout", s.lines[i], s.lines[i - 1])
                          IN IF t = 0 THEN Nil ELSE Text(script[t].words[1])
           /\ s.kind = "copy" =>
                ~\E e \in s.lines[1]..s.lines[i] : IsDirective(e, {"env"})

\* The target an assertion inherits is that of the step before it that has
\* one (its doc comment), even after copies and assertions were merged.
InheritsThePrevious ==
  LET targeted == {k \in DOMAIN st.steps : st.steps[k].target # Nil}
  IN Healthy =>
       st.last = IF targeted = {} THEN Nil ELSE st.steps[Max0(targeted)].target

\* An export is bound to the local block before it, and nothing that runs on
\* another host was written between the two.
ExportsBindBack ==
  Healthy => \A k \in DOMAIN st.steps : \A e \in Range(st.steps[k].export) :
    /\ st.steps[k].kind = "local"
    /\ \A n \in PlanLines \ Range(st.steps[k].lines) :
         (script[n].exec \/ script[n].dir # Nil) =>
         n < st.steps[k].lines[1] \/ n > e

\* What one line says of another reaches the step it was written for, and no
\* other: guards, labels and budgets the next block, exports the block before
\* them, an assertion without a target the step before it.
BoundAsWritten == MetadataBindsNext /\ InheritsThePrevious /\ ExportsBindBack
=============================================================================
