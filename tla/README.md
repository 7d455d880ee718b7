# A verification of shellflow

shellflow runs a *playbook*: a shell script whose comments (`# @remote`,
`# @copy`, `# @reload` …) cut it into steps.  The parser turns the script into a
plan, the executor runs the plan step by step, and each step runs on one or many
hosts, over `ssh` or through a *muxy* server that keeps the block's terminal
session alive on the target.  On the target, `shellflow host`, `systemd` and
`cred-env` install files, take backups, seal credentials, move units and
supervise services; on the controller, `keys` and `secret` keep encrypted files.
This directory models the parts of the program in which several things happen at
once or may fail half-way, checks the models with TLC and proves the properties
that matter most with TLAPS.

Paths below are relative to the repository's `src`; `muxy/` stands for
`crates/shellflow-muxy/src/`, `dsl/` for `crates/shellflow-dsl/src/`, `secrets/`
for `crates/shellflow-secrets/src/`, `executor/` for
`bin/shellflow/src/executor/`, and a file without a directory is in
`bin/shellflow/src/`.

## The system

| part | state it keeps | operations | what makes it hard |
| --- | --- | --- | --- |
| run scheduler (`executor/mod.rs`, `executor/remote.rs`, `main.rs`) | the plan position, the run state of exported values, per-host outcomes, the host semaphore, the cancel flag, the hosts whose work directory must be removed | the step loop, fan-out to hosts, fail-fast or `--continue-on-error`, interrupt with a grace of 15 s, teardown, exit code | hosts finish in any order; an interrupt arrives anywhere; teardown races the grace |
| muxy step transport (`muxy/session.rs`, `executor/muxy.rs`) | the host's cached connection, the payload file, the session, the one reconnect, the deadline | write the payload, create, attach, type the bootstrap, wait, end, clean up, fall back to ssh | the link drops and its replies are lost; the session outlives the client; a step that may have begun must not be run again |
| muxy pump (`muxy/conn.rs`) | the channels registered for steps, one bounded queue per step | deliver rows, the end of a session, the loss of the connection | a full queue stops it; a message for a channel nobody registered is lost |
| child processes (`executor/process.rs`, `executor/stream.rs`) | the child, its process group, three pipes | spawn, feed, read, deadline, interrupt, terminate, drain | descendants keep the pipes open; output after the exit; a dropped task |
| local steps (`executor/local.rs`) | captured exports | guard, block, capture, merge | a partial capture, a file left behind |
| probe cache (`executor/remote.rs`) | what is known of each host's shell | probe once, share, forget on failure | concurrent steps on one host |
| copy step (`executor/copy.rs`) | staged tree, destination | rsync or scp per host, staged local replace | failure between removing the old tree and renaming the new one |
| host-managed files (`host/install.rs`, `host/backup.rs`) | a destination, the file beside it, snapshots | install, digest, backup, seal, prune | every command may fail or be the last; leftovers; what sudo may see |
| service control (`host/lifecycle.rs`, `systemd.rs`, `systemctl.rs`) | the unit, the manager's definition of it | verify, enable, reload, restart, wait | the unit moves by itself between every two questions |
| supervisor (`systemd.rs exec`) | the child, its readiness, the watchdog thread, the stop flag | spawn, probe, notify, ping, forward signals, terminate | three threads of control and systemd end at the same time |
| credential store (`cred_env.rs`, `host/credstore.rs`) | the live tree, the staging tree, the retired tree, a fingerprint | seal, exchange, mark, verify | killed between two commands; removals that fail silently; a new host key; units that start meanwhile |
| secrets (`secrets/`, `secrets.rs`, `secret.rs`, `keys.rs`) | encrypted files, identities, the overlay of a deploy | generate, encrypt, edit, resolve | two processes, a loss of power, per-host overlays |
| parser and plan (`dsl/`) | the state of one pass over the script | directives, blocks, merging, here-documents, groups | what a directive binds to; state that survives a block |
| interpolation (`crates/shellflow-core`) | none | expand variables and templates | sequential; text |
| user interface, audit (`ui.rs`, `audit.rs`) | the open output blocks, the log | print, mask | lines of concurrent hosts |
| line assembler (`muxy/lines.rs`) | the last screen, the begin marker | turn screens back into lines | rows leave the screen, are redrawn, or look alike |
| service commands, lint, command line | none | render, compare, report | sequential; text |

They interact by calls: `main` parses the playbook, drives the scheduler, the
scheduler calls one step executor per step, those call the transports, and the
transports start child processes or talk to the pump over a channel.  The children
on a target are shellflow again (`host`, `systemd`, `cred-env`) or a shell.  The
shared state is the cancel flag (a watch channel), the run state, the two caches
(shell probe, muxy connection), the audit log, and the files of the targets.

## Modules

| module | what it is |
| --- | --- |
| `RunScheduler` | one run: the step loop, the fan-out over hosts, the interrupt, the removal of the staging directory, the exit code |
| `StepTask` | one step on one machine, from its probe to its verdict: its children, pipes, process groups, budget, capture file, staged copy |
| `MuxySession` | the steps of one run on one host over the muxy transport |
| `StepPromise` | what one host promises the run, whichever transport carries its steps (the abstract specification `MuxySession` implements) |
| `HostFiles` | the file verbs of `shellflow host` on one target |
| `UnitLifecycle` | the verbs that move a unit or wait for it |
| `Supervisor` | `shellflow systemd exec` around a service |
| `CredStore` | the credential store of one service on its target |
| `SecretFiles` | the encrypted env files of a repository and the identities that open them |
| `Playbook` | the parser's single pass over a script |
| `MC…` | the constants of each for TLC |
| `RunSchedulerProofs`, `StepTaskProofs`, `MuxySessionProofs`, `HostFilesProofs`, `CredStoreProofs`, `SecretFilesProofs`, `PlaybookProofs` | theorems about the module of that name |
| `SystemdProofs` | theorems about `UnitLifecycle` and `Supervisor` |

The modules meet at these places.  A host task of `RunScheduler` is `StepTask`
reduced to `running`, `closing` and an outcome; `StepTask` says what those states
are made of and why `closing` ends.  The muxy leg of `StepTask` is one event;
`MuxySession` is its protocol.  A `command` step of `RunScheduler` is one verb of
`HostFiles`, `UnitLifecycle` or `CredStore`, on a target whose shellflow the helper
step installed.  `@secrets` of a run is the resolution of `SecretFiles`.  The plan
`RunScheduler` starts from is what `Playbook` builds.

### RunScheduler

Four parts act at once: the executor task (`exec`: `execute_plan`), one host task
per worker of the current fan-out (`task`) or removal (`sweep`), the main task
(`main`: the `select!` of `run_plan`), and the world (children that end, budgets
that run out, the operator).

| variables | code |
| --- | --- |
| `plan`, `at` | `RunSetup::selected` and the position in it |
| `stats`, `failFast`, `firstError`, `verdict` | the locals of `execute_plan`, and the `RunOutcome` it returns |
| `results` | what `collect_hosts` has so far, in completion order |
| `permits` | the semaphore of `--parallel` |
| `pending`, `moved`, `timer` | inside a host task: the outcome it will return once its child is reaped and drained, the transfers a copy has done, the time the teardown may still take |
| `touched` | `WorkdirGuard::hosts` |
| `staged` | the target: where the staging directory exists |
| `blocked` | the threads of `spawn_blocking`: an assertion's batch, the build of the helper |
| `cancelled` | the watch channel of `Cancel` |
| `grace`, `exit`, `tornDown` | what is left of `INTERRUPT_GRACE`, the exit code, what the interrupt banner claims |
| `swept`, `sweepFrom` | observations: removals tried, the grace left when they began |

The 20 step classes of `run_single_step` differ, for the scheduler, only in what
their host tasks do about the interrupt and a spent budget; the module has eight
kinds:

| kind | budget spent | interrupt while running | looks at the flag before it starts |
| --- | --- | --- | --- |
| `local`, `remote` | timeout | cancelled | no |
| `copy` | timeout | cancelled | no |
| `localcopy` | error of the step | error of the step | no |
| `command` | transport | cancelled | yes |
| `wait` | timeout | cancelled | yes |
| `assert` | script or transport | not heard | yes |
| `helper` | transport | transport; the build does not hear it | yes |

Abstracted: the selection of steps (`--only`, `--skip`) gives `plan`; dry-run and
check modes, in which nothing is executed, are left out.  A child's readers, pipes
and group are one state, `closing`, that lasts at most `KILL_GRACE` and two drains.
The process ends in two steps: `run_plan` returns (`exit`), and the runtime shuts
down (`gone`) once no blocking thread is left.

### StepTask

One step is a sequence of *legs*, each a child of shellflow: the guard and the body
of a local block; the `cp` of a local copy with `--delete`; the probe, `mkdir`,
`rsync` or `scp` of a copy to a host; the transfer and the installation of the
helper; the probe and then `ssh` with a block, a check or a helper verb.  A leg is supervised in one
of three ways, which is what the sets `Piped`, `Watched` and `Collected` say.

| variables | code |
| --- | --- |
| `leg`, `pc`, `why` | where the task is: `start`, `feed`, `wait`, `stop` (terminate), `drain`, `drain2`, `report`, and what ended the child |
| `leader`, `code`, `kids` | the child, its status, the descendants by where they live (in the group or not, holding the output or not) |
| `armed` | `GroupGuard` |
| `todo`, `wrote`, `shown` | the lines of the child: to write, written, forwarded to the screen and the audit log |
| `capture`, `exported` | the capture file of `@export`, the values that reached the run state |
| `tries`, `muxy`, `rsync` | the probe: attempts, what it found |
| `dst`, `staging`, `hurt`, `deploys` | a local copy with `--delete`: the destination, the tree beside it, whether the swap failed or was aborted |
| `verdict` | the `HostOutcome` |

The child, its descendants, the reader threads, the clock, the operator and the
abort of the executor act between any two steps of the task.  Budgets are events,
not numbers.  `DRAIN_GRACE` is taken to be enough for what is already in a pipe.
Descendants are modelled where something depends on them: not for `cp`, `mkdir` and
the probe, whose output nobody forwards.

### MuxySession

One step holds the host's connection lock at a time (`executor/muxy.rs`, the
`Mutex` around `HostConnection`), so a single program counter `pc` follows the
thread that runs `run_step`; one action is one request or one receive.  Around it
the pump, the target (sessions, scripts, server), the link, the operator
(`Interrupt`) and the clock (`DeadlinePasses`, `GraceExpires`) act whenever they
can.

| variables | code |
| --- | --- |
| `conn`, `unavailable` | the entry of `MuxyCache`: `Available`, `Unavailable`, none |
| `stale` | the client `run_step` cloned is not the host's client any more |
| `noticed` | the pump of the current client has seen the end of its stream |
| `reg`, `rx` | the channel map entry of the step, and its `sync_channel` |
| `evt` | a `SessionEnded` event the pump has not handled |
| `reconnected`, `expired`, `cancelled` | `LoopState::reconnected`, `LoopState::expired`, the flag of the cancel watcher |
| `verdict`, `known`, `keep` | what `run_step` returns: `StepResult` or `MuxyFailure`, with `session.is_some()` and `still_running` |
| `why` | which caller waits in `wait_for_end` |
| `payload`, `sess`, `reason`, `loaded` | the target: payload files, sessions, their exit reasons, the script each executes |
| `typed`, `endReq`, `discarded` | what the server was asked to do |
| `starts`, `astray`, `left`, `outcome` | observations: starts of each script, the steps of which a request that puts something on the target or takes it away was not answered or not done, the hints about sessions left running, the reported outcomes |

A request has up to four outcomes: it is served, it fails, or it is served while no
answer comes, because the link drops or because the client's timeout for one request
passes while the link is up (`muxy/error.rs:165`).  A request that is not answered is
served at once or never; a later service would find the same end, since a step's
payload and session have names nothing else uses.  The end of a session may be asked
for over a live link and not be carried out; after a reconnect it, and the cleanup, go
to the client that was lost.  `AmbiguousInput` says whether a lost answer
can happen to the bootstrap line itself: `write_input` answers when the server has
the bytes, and the client's own request timeout makes the answer ambiguous.
`AtMostOnce` is checked and proved without it; with it, the property is false, and
the hazard list says so.

The payloads of the steps have names of their own (`StepId`), as `at_step` gives
them; the run `shared_payload` gives them the name `@remote` steps really share.

### HostFiles

| variables | code |
| --- | --- |
| `caller` | what the deploy user may do: `root`, `sudo`, or neither (`host/privileged.rs`) |
| `pc`, `verb`, `result` | where each verb is, its flags, its exit code |
| `tmp`, `dst` | `.name.shellflow-new` and the destination, with data, owner and mode |
| `next`, `stamp`, `snaps` | a backup: the path at hand, the directory of this run, what every directory holds |
| `doomed` | what `prune_snapshots` still has to remove |

A directory is the number at the end of its name, which is all `prune_snapshots` reads
of it.  The number comes from the clock, which several runs may read in one second and
which may be set back, or from `--dir`: a backup may take any directory, one named
without a number (0) or one that does not have the prefix at all (`Elsewhere`).  There
is one directory of each of the last two kinds, and one parent directory.  `--keep` is
absent (`NoKeep`) or a number, 0 among them.

Each command a verb starts is an action; it may fail, break off half-done, or be the
last before the verb is killed.  A verb that ended may be run again over what it left.
A loss of power is outside: nothing here is synced (`host/privileged.rs:192`, `:275`).

### UnitLifecycle

The unit is its ActiveState, SubState and Result (`unit`), the definition it was
started with (`runs`) and the one the manager has (`loaded`).  `UnitMoves` moves it
by itself; `Meddle` is an operator or another deploy.  The verb is one `pc` with the
questions it asks (`wasActive`, `seen`) and its budget (`late`).  `begun` is what
the verb asked to move: a unit that was stopped throughout, an active one, or one that
a start leaves as it is (`"kept"`), since it is up or on its way there.

### Supervisor

`at` follows `systemd_exec`; `overdue` says that the budget, then
the grace of the termination, is spent; `child`, `helpers`, `reaped` are the process group;
`dog` and `stop` the watchdog thread and its flag; `holds`, `probed` the declared
readiness conditions in the world and as found in this round; `stopped` is
`systemctl stop`.  The signal handlers are installed after the child was started, and
that may fail (`SetUp`).

### CredStore

`live`, `staging` and `retired` are the trees `<service>`, `<service>.new` and
`<service>.old`, each with the sealed values, the host key they were sealed with and
the fingerprint file (`mark`).  An exchange that fails, for want of
`renameat2(RENAME_EXCHANGE)` or otherwise, leads to the two renames; either may fail,
and so may the way back.  A removal only warns when it fails (`discard_tree`), so it
may leave any part of a tree behind (`Leavings`), into which the next request is
sealed.  `reads` says whether the file the fingerprint takes for the host key can be
read.  `todo` are the keys still to seal, `caller` whether the verb elevates itself.
`had`, `stored`, `left` and `gap` are observations: the request last put in place, that
there was a store, that one was sealed over leftovers, that an installer ended between
the two renames.  A unit starts from the live tree at any moment.

### SecretFiles

`home` and `sealed` are the identity files and the encrypted files as processes see
them, `homeDisk` and `sealedDisk` what a loss of power would leave: `fsx` syncs a
file and then its directory, and between the two a name may be lost.  `dirs` and
`dirsDisk` are the directories identities lie in: `keys generate` makes what is missing
of them, nothing syncs their own entries, and the kernel writes them when it likes
(`Flush`).  `lost` are the reported keys that went with such a directory.  `proc` is the
command of each process with what it has read; `run` is a deploy that resolves
`@secrets` file by file, host by host (`run.seen` is an observation).  Encryption is
a set of recipients.

### Playbook

`st` is the parser's `State` with the plan it builds, `script` the lines read so far;
one action reads one line, `Finish` is the end of the file.  A line is what the pass
tells apart of it: a directive with its words, a statement, the here-documents it
opens or ends.  A step records the numbers of its lines, so that properties can
compare the plan with the script.  The lines are any that `PlaybookAssumption`
admits: a directive is a comment, and a comment holds no statement and opens no
here-document, as `has_executable` and `scan_openers` have it.

## Runs

| run | shows |
| --- | --- |
| `run_deploy` | a staged copy and a remote step on two hosts, `--parallel 2`, fail-fast, host panics: `SuccessIsComplete`, `FailFastStops`, `TornDownTruthful`, `CopiedHostsSwept`, `SweepAfterSteps`, `SweepWithinGrace` |
| `run_mixed` | six playbooks of the other kinds, `--parallel 1`, `--continue-on-error`, panics of hosts and executor, no signal handler, texts that do not resolve: `FirstFailureWins`, and the liveness property `InterruptEnds` |
| `step_task` | every kind of step, a child that hangs, forks, writes more than the pipe holds or is reaped late, an interrupt and an abort anywhere: `NothingLeft`, `LinesShown`, `TreeIsWhole`, and the liveness property `StepEnds` |
| `muxy_one` | one secret-bearing step with a deadline, `auto`, two lost links, requests that are not answered, queue of two: `TypeOK`, `AtMostOnce`, `Truthful`, `LeavesNothingBehind`, and the liveness properties `InterruptStops`, `DeadlineStops` |
| `muxy_two` | two steps, `--transport muxy --muxy-keep --continue-on-error`, a guard on the first: `LivePayloadKept`, and the refinement `KeepsPromise` |
| `shared_payload` | `LivePayloadKept` again, with the payload names the code gives to `@remote` steps: violated |
| `host_files` | three verbs in a row on one target, for three kinds of caller, with every command failing or being the last, and every directory and `--keep`: `DstWhole`, `SealLeavesNoPlaintext`, `ReadyIsComplete`, `PruneTakesTheOldest` |
| `unit_lifecycle` | every verb on every kind of unit in every state, a unit that moves by itself: `StoppedStaysStopped`, `ReadyIsTheNewOne`, `TimeoutMeansPending`, and the liveness property `VerbEnds` |
| `supervisor` | a child that forks, exits, ignores SIGTERM or is never ready, stopped at any moment: `NothingOutlivesIt`, and the liveness properties `EndsOrServes`, `StopEnds` |
| `cred_store` | two installs, with and without the atomic exchange, failing or killed at any command, removals that leave something behind, a new host key that may not be readable: `StoreIsOneRequest`, `CurrentIsTrue`, `StoreIsKept` |
| `secret_files` | three commands of two operators in two processes, each failing or killed anywhere, one loss of power, deploys meanwhile: `CanStillRead`, `HostHasItsOwn` |
| `playbook` | every script of five common lines, and of three with one of the rare ones: `BlocksStayPut`, `PlanKeepsTheOrder`, `BoundAsWritten`, `MergedAlike` |

### Bounds

Scheduler.  Two hosts make the completion orders, the permit one of them waits for
and the host that fails while the other goes on; two or three steps make a failure,
a plan failure or an interrupt between steps.  Time is counted only during the
grace, in seconds; the budgets 9, 10 and 15 of the code (teardown, removal, grace)
are scaled to 1, 2 and 3, which keeps their order and that a removal fits in the
grace while two in turn do not.

Step.  Two lines and a pipe that holds one make a child wait for its reader and a
line that is still in the pipe when the child is gone.  There is one descendant of
each of the three places one can be in that matter: in the group with the output,
in the group without, outside with it.  Two copies make a second find the leftover
of the first.

Transport.  Two steps are enough for what one step leaves to the next (payload,
connection, cache); one step, with more lost links and a longer queue, for what
happens inside it.  Two lost links cover the one reconnect a step has and the loss
after it.  A queue of one or two stands for `PUMP_QUEUE` = 256: the pump's waiting
for room happens at any size.

Host files.  Three paths are one of each way a caller can be kept from a file: not
at all, by its mode, by its directory.  Three verbs are a failed one, the one that
finds its leftovers, and one more for retention, in any directory.  `--keep` is absent,
0, 1 or 2, and three numbers make one more than the largest of them.

Units.  One intervention of the operator, wherever the verb is; the moves of the
unit itself are not bounded.  The conditions of a supervisor may change three times,
more often than there are conditions of one kind to be probed twice.

Credential store.  Two names and two values make a mixture of two requests, and one
of a request and a part of itself; two installs make the second find what the first
left at any command and by any removal; one rotation makes a fingerprint that is right
and a seal that is not.

Secrets.  Two operators and two processes make one command act between the steps of
another; three commands are a generation, an encryption to it and an edit or deploy.
One value per name suffices for who may open what; the overlays are told apart by a
file that is empty, missing or has the name.

Scripts.  State of the parser that could bleed from one block into another is set by
one line and used by a later one; five common lines have room for a directive, a
block, a second directive, a second block and what it binds to.  The rare directives
differ in their own argument rules, for which one between two common lines is enough.

### Fairness

Scheduler.  Weak fairness of the executor, of the host tasks and of the main task:
tokio polls what is ready, a child that was killed is reaped, a removal is killed at
its bound.  The clock ticks, and the watchdog of a batch ends its thread.  Nothing is
assumed of children, budgets (a step need not have one), the build of the helper, or
the operator.

Step.  Weak fairness of the task, of its reader threads and of the timers.  A child
makes progress unless it is one that hangs; nothing is assumed of descendants, the
operator or the executor.  `StepEnds` is stated for the steps that owe an end: with a
budget, after an interrupt, or with a child that ends by itself.

Transport.  Weak fairness of the step thread: every request has the client's timeout
and every receive the 200 ms slice.  Weak fairness of `GraceExpires` (`END_GRACE`)
and `DeadlinePasses` (a clock).  Nothing is assumed of the pump, the target, the link
or the operator.

Units.  The verb, the clock of its budget, and a unit that is starting, reloading or
stopping (systemd bounds each).  Strong fairness of the end of a manager's job: the
job of a unit that restarts itself again and again ends with one of its attempts.
Nothing else is assumed of the unit.

Supervisor.  The supervisor, the watchdog thread and the clock go on; the child owes
nothing.

The other modules state safety only: their verbs end or are killed anywhere.

## Proofs

Eight modules of proofs, each for every value of the constants.  `Spec => []Inv` is
proved from an inductive strengthening, one step per action.

*Run.*  `SweepCorrect` and `BannerCorrect`: the staging directory is removed only
when every host task is over, and the banner claims the teardown only when no child
is left.  Both follow from `PhaseInv`: where the executor is says which host tasks and
which removals can exist, and only an executor that was dropped leaves any behind.
The property alone is not inductive, because the step that starts the removals has to
know that the fan-out before it was over.  `FailFastCorrect`: the strengthening
`FailInv` says that the plan stays what `Init` chose, that results are recorded in
sequences of results, and that `failFast` is set before the loop goes on (`CleanInv`).
`SuccessCorrect`: `SuccessInv` adds `FanInv` (the fan-out has a result, or a failure,
for every host that is done, and for no other), `ToldInv` (nothing is cancelled but by
an interrupt), `BooksInv` (without an error the position in the plan is the number of
full records) and `EndInv` (a success is concluded once and never revised); that a
step without an error has no failed host rests on the least element of a set of
numbers (`CleanHasNoFailure`).  `CopiedCorrect`: `GuardInv` follows a copied result
into the guard, the guard into the removals, and the removals to their end.
`FirstFailureCorrect`: `FirstInv` says that the error kept is that of the first
recorded step that is not clean, and none while every step is; `ExitInv` that the
verdict is drawn from it and the exit code from the verdict.  The pair (step, host)
that failed first is then the least failed result of the first step that is not clean
(`FirstFailureIs`).  None of these needs an assumption on the hosts, the budgets or
the faults; of the playbooks, only that they are sequences of well-formed steps.

`SweepInTime` is the one theorem about time, and the one that needs more: a permit of
`--parallel` for every host (`EnoughPermits`) and an executor that does not panic.
`PermitInv` counts: what the semaphore has left is `--parallel` minus the hosts that
hold a permit, so a removal that is queued finds one (`QueuedHasPermit`) before the
first second passes; `SweepTimeInv` ties the timer of a removal that runs to the part
of the grace that has passed since the removals began.  Without `EnoughPermits` the
property is false: with one permit and two hosts TLC shows the second removal cut off,
which is one of the findings below.

*Step.*  `NothingLeftCorrect`, `LinesShownCorrect`, `TreeCorrect` share `StepInv`:
which child may be at which place (`Phases`); a child nobody waits for was reaped
(`Reaped`); the group is empty, or its guard is armed, or the child ended by itself
and only what let go of the output is left (`Grouped`); what the staging tree holds
between the copy and the swap (`Tree`).

*Transport.*  `TypeCorrect`: the types, and that no queue outgrows its bound.
`OnceCorrect`: every script begins at most once, if every step has its own payload
file and input is unambiguous.  The strengthening `OnceInv` says which script a
payload file and a session can hold (`PayloadInv`), that every start is accounted for
by an ssh run or a session and never both (`StartsInv`), and that the position of the
thread rules out the other transport while the choice is open (`PositionInv`): a
failure which names no session was returned before the bootstrap was typed.

The other theorems share two invariants.  `SessionInv` says where sessions are: none
before its step creates it, none for the steps to come, an announced end is an end,
and a thread that stopped listening has asked its session to end, unless it has no
live connection and the request went astray.  `HistoryInv` says that what a session executes, and the exit codes that become a
verdict, are its own step's.

* `KeptCorrect`: a cleanup can take only the payload of the current step, and comes
  after its session is over or asked to end.  It needs payload names of their own
  (`OwnPayloads`), and the run `shared_payload` shows that it must.
* `TruthCorrect`: `TruthInv` extends the property to the verdict that is about to be
  reported and to a step at its ssh child.
* `LeaveCorrect` assumes nothing of the constants.  It speaks of the steps whose
  requests were answered and done (not in `astray`, which only grows), and of the
  screens of those that succeeded, as the documentation does.  `FreshInv` says that a
  step has no payload and no outcome before its turn; `LeaveInv` that the target is
  clean when the thread is about to report, or has gone to ssh.
* `PromiseCorrect`: every step of `MuxySession` is a step of `StepPromise` or changes
  nothing it sees, if payloads have their own names and input is unambiguous.  Beside
  the invariants above it needs that both transports leave a trace in the count of
  starts (`TraceInv`), and that a verdict about the script comes from one that began
  (`VerdictInv`).  The case that needs the most is a script that begins after its step
  was given up: the promise allows it only for a step reported as failed in transport,
  timed out or cancelled.

*Host files.*  `TypeCorrect` holds for any number of verbs at once.  `DstCorrect` and
the theorems about backups assume one (`OneDeployer`), because two share the name
beside the destination and may share the directory of the snapshot: `DstInv` says what
the staging file holds at each step of an install.  `BackupCorrect`, `SealCorrect` and
`PruneCorrect` share `SnapInv`: the paths already passed are in the directory of the
run (`Progress`); every snapshot still to be removed is outnumbered by directories with
higher numbers (`PruneTakesTheOldest`); and so is the directory of the run itself, if
its own retention removed it (`CountedOut`, `Reported`).  They hold for every `--keep`,
0 among them, and every directory.  The newest of the doomed goes first, and the ones
that outnumber it outnumber the others too (`PruneLeavesEnough`, with the library's
facts about cardinality).

*Units.*  `StoppedCorrect`, `ReadyCorrect` and `TimeoutCorrect`, from what the verb
has done at each place (`Stages`) and that a unit that is up was seen up (`Watched`),
for any number of interventions.  `ReadyCorrect` speaks of the restarts and of the
starts of a unit that was not up; the start of one that was is a finding.

*Supervisor.*  `NothingLeftCorrect`, from `ExecInv`: the way out is taken only with a
verdict and a reaped child, and left only when the watchdog thread is gone.  The
failure to install the signal handlers is no verdict, and a finding.

*Credential store.*  `KeptCorrect` and `OneRequestCorrect` share `StoreInv`: what takes
the place of the live tree is there before it goes (`Present`), and holds what was
sealed so far of the request, and nothing else unless a removal had left something
(`Sealing`).  `CurrentCorrect`: a mark, once written, is true of the tree that has it:
the values are those it was taken of, and no credential is older than the key in it
(`MarkTrue`, `Printed`).  No theorem assumes that a removal, a rename or the way back
succeeds, or that the host key can be read; where that matters the property says so.

*Secrets.*  `ReadersKept`: a reported key is in its place and its directory has it on
the disk, unless the directory itself was lost (`KeyInv`); a process that generates has
placed its key before it syncs it (`ProcInv`).  `HostsCorrect`: `RunInv` says that the
overlays a resolution holds are the latest values of its reads so far; one more read
changes the names and values of its own file only (`ReadAgain`, `LatestAgain`).  That
of the reads of a name one is the last (`LastReads`) is carried in the invariant,
since it would otherwise need an induction.

*Playbook.*  `BlocksStayPutCorrect`, `PlanKeepsTheOrderCorrect`,
`BoundAsWrittenCorrect` and `MergedAlikeCorrect`, for scripts of any length and any
set of lines.  The properties compare the plan with the script, and what a line of the
script means depends on all the lines before it: whether a here-document is open
(`OpenAfter`, a recursive function), and what was declared last.  The argument has three
things in hand: the lines `q`, the directive `r` that each was read as
(`Reads`), and the parser's state `s` after them.

* *Recursion without induction.*  What a recursive function is at a longer script
  would need an induction.  Instead the invariant itself says that the equation of
  `OpenAfter` has exactly one solution on the script so far (`OneReading`); one line more
  extends the one solution by one value (`OneReadingGrows`), so that `Reads` of the
  longer script agrees with that of the shorter.  Likewise that of the lines of a kind
  one is the last (`LastKnown`).  The parser's list of open here-documents is the value
  of that solution at the last line.
* *The inductive invariant*, `ReadingInv`, is `After(q, r, s)` in nine parts.  None of
  the four properties is inductive: each speaks of steps in the plan, and a step is made
  of what the parser remembered.  `Pending` and `Remembered` say the same of the block
  that is not a step yet as `Plan` says of the steps: its mode and target, and the
  guard, name and budget declared since the last line of the plan, are those the script
  puts there; `Plan` also has what a merge must preserve (`StepMerged`).  `Pending`
  adds that only exports are read inside a block, which is
  what lets `Flush` use at the end what held at its first line.  `Ordered` orders the lines
  of the plan and the pending ones, `Kept` says where each statement is.  `Exports` says
  that lines without a statement may lie between a block and its late `@export`, and no
  other; `Environments` that a step with the present environment is younger than the last
  `@env`, which is what a copy's merge condition compares; `Inherited` is what an
  assertion without a target takes.
* *One lemma per effect.*  A line is collected, tells, exports here or back, is added as
  a step, or joins one (`Collected`, `Told`, `ExportedHere`, `ExportedBack`, `Added`,
  `Joined`); each keeps the invariant (`CollectedKeeps` …), each handler has one of these
  effects or refuses (`DeclareDoes` … `AddCopyDoes`), `HandleKeeps` puts them together
  after the block before was flushed (`FlushKeeps`).

These theorems say of all scripts what the run says of those with five lines.

Assumptions.  Each module's `ASSUME` gives its constants their types; that of `Playbook` also says what a comment cannot hold
(above), which is a fact about how a line is read.  Beyond those,
`OwnPayloads` is what the names of `at_step` are for, and what `@remote` steps do not
have (see the findings); `~AmbiguousInput`, `OneDeployer` and `EnoughPermits` exclude
behaviour in which the property is false, and the hazards and findings name it.

Model-checked only:

* Liveness under fairness (`InterruptStops`, `DeadlineStops`, `InterruptEnds`,
  `StepEnds`, `VerbEnds`, `EndsOrServes`, `StopEnds`), which the prover does not reach.

Every safety invariant a passing run checks is a theorem, and so is the refinement.

## Findings

Shown by a run:

* All `@remote` steps of a run share the payload name `step-0`: the step number of
  the run-wide state is never set for them (`executor/remote.rs:544`), although it is
  documented as what names the payload (`executor/mod.rs:83`).

Visible in the models, without a run of their own.  The first list is about what a
document or comment of the repository says; the second about behaviour it is silent
on.

* A copy that fails after it created the staging directory leaves it behind
  (`MakeStaging`, `Closed`; `executor/copy.rs:198` against `executor/remote.rs:1104`).
* A target verb whose budget runs out exits 3, not 5; so does a helper transfer, and
  an assertion exits 4 (`Expired`; `executor/host.rs:256` against `docs/design.md:735`).
* A build of the helper holds an interrupted process (`StartBuild`, `Shutdown`;
  `executor/host.rs:701` against `main.rs:190`).
* A session ended from the Muxy app is a cancelled step, not a failed one
  (`muxy/outcome.rs:55` against `docs/muxy-transport.md:440`).
* After a reconnect, the interrupt and the deadline ask the lost client to end the
  session, and the cleanup asks it to remove the payload and the screen (`stale`;
  `muxy/session.rs:149`, `:435`, `:580` against `docs/muxy-transport.md:460`).
* A request whose answer does not come, because the link drops or because its timeout
  passes while the link is up, leads to ssh or to a failure while its effect stays: a
  session after a creation, a payload after a write (`astray`; `muxy/session.rs:201`,
  `:178` against `executor/muxy.rs:230`).
* A helper that reports its own timeout with exit 4 is a timeout over ssh and a failed
  script over muxy (`executor/muxy.rs:443` against `executor/mod.rs:254`, which says
  that the mapping is defined once).
* A target that does not resolve in a later step ends a run with exit code 1 after
  earlier steps ran (`PlanFailure`; `executor/remote.rs:1063` against `exit.rs:11`).
* An interrupt during the last removal is not in the exit code (`Conclude`,
  `Report`; `main.rs:325` against `docs/design.md:1039`).
* Assertions do not hear the interrupt (`ObservesCancel`;
  `executor/assert_step.rs:139` against `docs/design.md:1036`).
* With `--parallel 1` the removals are sequential, and two of them outrun the grace
  (`AcquireSweep`; `executor/remote.rs:186` against its comment, line 158):
  `SweepWithinGrace` holds only where the semaphore lets the removals run at once, as
  `SweepInTime` assumes.
* A failed local copy stops a run with `--continue-on-error` (`Settle`;
  `executor/copy.rs:132` against `cli.rs:113`).
* An unset variable in an assertion exits 4 (`AssertUnset`;
  `executor/assert_step.rs:103` against `docs/design.md:729`).
* The screen of a failed secret-bearing step is discarded (`Cleanup`;
  `muxy/session.rs:593` against `docs/muxy-transport.md:258`, `:735`);
  `LeavesNothingBehind` asks it of the successful ones only.
* The fingerprint of a store covers the host key only where `HOST_KEY_PATH` can be read,
  which it cannot where systemd keeps its key elsewhere: a store sealed with another key
  then looks current (`Fingerprint`; `cred_env.rs:278` against `:264`).
* An installer whose second rename fails puts the previous store back and does not look
  whether that worked: if it did not, the service has no store under its name
  (`Replace`, `gap`; `cred_env.rs:412` against its comment, line 410).
* The new store is not always whole and new: a removal of the staging tree that fails
  only warns, and what it left, an old fingerprint among it, is swapped in with the new
  values (`Stage`, `Leavings`, `left`; `cred_env.rs:375` against `:353`).
* `host service --restart --force-start` runs `systemctl start`, which does nothing for
  a unit that is up after all, because its state could not be read or it came up since:
  the deploy succeeds and the old instance goes on (`begun`; `host/lifecycle.rs:61`).
* `systemd exec` whose signal handlers cannot be installed returns with its child
  running (`SetUp`; `systemd.rs:426`).
* A backup whose directory stands below `--keep` others, one that `--dir` names without
  a number or any with `--keep 0`, is reported ready after its own retention removed it
  (`CountedOut`; `host/backup.rs:90`, `:153`).
* A loss of power may take an identity that was reported, with the directory
  `keys generate` made for it: `sync_parent` syncs the directory, nothing its own entry
  (`lost`; `secrets/identity.rs:248`, `secrets/fsx.rs:60`).
* `systemd exec` without a readiness condition never is ready and runs into its
  timeout (`systemd.rs:634`).
* A local copy with `--delete` removes the old tree before it renames the new one, and
  a rename that fails also removes the new one (`executor/copy.rs:406` against `:366`).
* An assertion without a name is merged into a named one before it, although a named
  assertion is its own step (`dsl/parser.rs:1073` against `docs/design.md:148`).
* `host credstore` called without root ends with the success of the elevated install
  and never verifies the store (`AfterInstall`; `cred_env.rs:520` against
  `host/credstore.rs:14`).
* A backup that is not sealed is always refused when it holds a configuration file
  (`Unexpected`; `host/backup.rs:75` against `docs/design.md:135`).
* A block that captures several variables and lacks one has exported those before it
  (`exported`; `executor/local.rs:168`).

Others:

* Probe cache: several waiters of a failed probe each drop the cache entry, and a late
  one may drop a newer good one; a failed probe makes a `--delete` copy fail as if the
  target had no rsync.
* A command that exits 255 is a lost connection over ssh and a failed script over muxy.
* Two installs of one destination share `.name.shellflow-new`; so do two transfers of
  the helper (`host/install.rs:35`, `executor/host.rs:650`).
* Retention counts partial snapshots, and a clock set back makes the newest the oldest;
  two paths of one name share an entry.
* `is-enabled` exits non-zero for a disabled unit, so `host service` fails on it;
  the readiness wait of `reload` accepts a unit that was active all the time; `watch`
  never reports a failed unit before its timeout.
* The supervisor forwards signals to the child only, not to its group, and leaves the
  group when the child ended in time.
* A credential installer killed between its two renames leaves the store under
  `.old`; the next one makes an empty store and may remove the old one before its own is
  in place (`gap`).
* Two edits of one secret file: the second writes what it read before the first.
* A directory sync that fails reports an error although the new name is in place; the
  plaintext file of `secret edit` stays when the editor's process is killed.
* Playbooks: a server declared after a group of its name is accepted and shadowed;
  two guards in a row, and metadata before the end of the file, are accepted; flags
  some assertions do not know are ignored.

## Hazards

`PROJECT.json` lists forty, each at its line, with the properties that would notice
it.  Some of them, or some part of them, no property covers, because the code has no
step that would keep it true; the models have the behaviour, and the properties and
proofs say from where on they hold:

| hazard | in the model |
| --- | --- |
| an ambiguous failure of the bootstrap line | `AmbiguousInput` |
| a request to the lost client after a reconnect; a request the client gives up on | `astray` |
| two installs of one destination at once | `Deployers` with two members |
| a retention that removes the snapshot of its own run | `Dirs`, and `Keeps` with 0 |
| the forced start of a unit that is up | `begun` = `"kept"` |
| signal handlers that cannot be installed | `SetUp` |
| a new directory that is not on the disk yet | `lost` |
| two edits of one file | two processes that edit |
| the moment between the removal and the renaming of a local `--delete` copy | `hurt` |

## Not modelled

* Interpolation, templates, rendering and comparison of unit files, lint, preflight,
  diff and the command line: sequential functions from text to text.
* The masking of secrets in output (`crates/shellflow-core/src/env.rs`, `ui.rs`): a
  function on characters.
* The line assembler of the muxy transport: it rebuilds text from the cells of a
  screen, which belong to a crate outside this repository.
* The text of the commands that build, release, toolchain, image and assertion steps
  send: to the models they are children with outcomes.
* Dry-run and check modes, except that a check is a kind of step (`check`); the
  selection of steps; local copies without `--delete`.
* Cryptography: a library's; encryption is a set of recipients, a fingerprint an
  injective function of what it is taken of.
* The D-Bus transport of `systemd_dbus.rs` (the same questions as `systemctl`), and
  `systemd transient`.
* The sweep of stale payloads on a target, and the handshake of the muxy client.

What would be worth adding: the probe cache of several steps on one host as a module of
its own, and two deployers on one target with a lock the code does not have yet.
