# A verification of hk's hook runs

hk runs the linters and fixers of a git hook in parallel over one working tree,
and sets the user's unstaged work aside meanwhile. This directory holds TLA+
modules of hk, the TLC runs that check them on small instances, and TLAPS
proofs, for any number of steps, jobs, files and processes, of what the file locks,
the jobs of a run, staging, the steps of a group, the stash and its journal, hook runs,
pushes, the installation, the runs of the MCP server and applied patches promise.
A path such as `step_job.rs` is relative to the crate's `src/`; `docs/`, `pkl/` and
`test/` are the repository's. `PROJECT.json` ("map") names the lines of code
each definition stands for.

## 1. Inventory: the system's parts

A **hook run** (`hook.rs`) recovers what an earlier run left stashed, selects
its files, takes the stash lock, stashes the unstaged changes, runs the hook's
**groups** of steps one after the other, stages what they fixed and restores the
stash. Inside a group everything is concurrent: one tokio task per step, one per
job. Around the runs there are processes that start them, end them and prepare
them: the MCP server, the Stop hook of an agent, the cache of the configuration,
the installation into git.

| Part | Code | State | Operations | What is hard |
|---|---|---|---|---|
| File locks | `file_rw_locks.rs` | per file: readers, a writer flag, a count of writes; a queue of requests | `read_locks`, `write_locks`, `try_*`, the drops of a waiter and a holder, `write_counts`, `add_files`, `remove_files` | wake-ups, a waiter dropped while it is woken, readers against a queued writer |
| Locks of a job | `step_job.rs`, `step_locks.rs` | file locks, a slot, access to the working tree | `take_locks`, `relock_for_write`, `lock_diff` | deadlock between slots and files; a job never waits with locks in hand |
| check_first / check_diff | `step/execution.rs`, `step/diff.rs`, `step/runner.rs` | the patch a check printed, the counts noted before it; the files moved aside | compare, diff again, apply, roll back, fall back to the fixer | a patch computed from files that changed since; a patch that fails half way |
| Staging | `stage_queue.rs`, `stage_files` in `step/execution.rs` | a queue of files with a shared result, git's mutex | stage the queue for everybody, share the result | a leader cancelled in between, `git add` of a file being rewritten |
| Steps of a group | `step_group.rs`, `step_context.rs`, `step_depends.rs`, `run_all_jobs` | status, done flags, slots, `failed` and `fail_fast_aborted` | start, wait for dependencies, join, settle, abort | what the result says when a failure, an abort and a Ctrl-C race |
| Hook run | `hook.rs`, `hook_options.rs`, `step/execution.rs`, `step/job_builder.rs` | the files at each stage of the run, why a step is skipped, which commands ran, what is staged | select, scan, plan, gate, stash, run, stage, fail on fix | the same question answered twice, at other times and in another order |
| Job building | `step/job_builder.rs`, `step/batching.rs`, `step/filtering.rs` | shares and batches while they are made | share jobs, split, search for what fits | boundaries, integer division |
| Stash and journal | `git.rs`, `stash_journal.rs` | a private ref, the working tree, a journal file | stash, record, restore, drop, recover | a crash between any two writes |
| Stash lock | `stash_lock.rs` | an flock between processes | acquire with timeout and cancel | two processes |
| Restore merge | `git.rs`, `merge.rs` | the restore plan, per path | three-way decisions per file, line merge, the final look | many cases: modes, links, blank ends, what steps left |
| Signals | `shutdown.rs`, `step/process_tree.rs` | first signal seen, exit code; on Windows the processes listed | cancel the run, exit after a grace period, end the tree | process numbers that are used again, the run winding down while the timer runs |
| Stop hook | `cli/agent/stop_hook.rs` | the check's process group, a kill plan | start, wait with a timeout, kill the tree, answer | processes that fork, regroup and are orphaned while they are listed and killed |
| MCP runs | `cli/mcp.rs` | the list of runs, a task and readers per run | start, cancel, follow, drain, report, forget | the end of hk, a cancellation and unread events race |
| Configuration cache | `config.rs`, `cache.rs` | two kinds of cached file, keyed by hashes | analyse, look up, evaluate, save | sources edited between two looks |
| Installation | `cli/install.rs`, `cli/uninstall.rs` | keys of git's configuration, scripts | remove what was there, write keys, write scripts | failure half way, two at once, a hook that fires twice |
| Git access | `git.rs`, `cli/run/pre_push.rs` | the status that was read; the refs of a push | read the status (with git, with libgit2, path by path), compare refs | renames, intents to add and conflicts said in four ways; tracking branches that are behind |
| Lists of files | `par.rs`, `cli/util/text_files.rs` | a budget of threads, a memo of what was read, results on their way | filter in chunks, fix in order | several steps at once, a file named twice, threads that read ahead |
| Text fixers | `cli/util/trailing_whitespace.rs`, `end_of_file_fixer.rs`, `mixed_line_ending.rs` | a text | check, fix | each has its own idea of a line's end |
| The rest | the other CLI commands and utilities, migration, templates, output | read once or request by request | | sequential |

How they interact: a **step** task (`Step::run_all_jobs`) waits for its
dependencies, holding a slot that it gives up while it waits; it creates its
jobs and joins them. A **job** takes a slot and its file locks (all of its files
in one request, dropped before it waits for anything else), runs its command,
and may turn its check's output into a patch. A step that fixed files then
**stages** them: file read locks, then git's mutex, then the shared queue. A
failing job marks the run as aborted and cancels the token that every command,
wait and loop watches; Ctrl-C cancels the same token. Hook runs of different
processes meet in the stash lock, the private ref and the journal. The MCP
server and the Stop hook run hk as a child, read its output and kill it.

What makes each part correct:

- *file locks*: exclusion, exact counters, no lost wake-up, first come first
  served among conflicting requests, and a write count that tells of every
  writer in between;
- *jobs*: no deadlock, no lost slot, a patch applied only to the files it was
  computed from, no reader of half a patch, a failed patch undone without
  touching what others wrote;
- *staging*: what a step was told is staged is staged, in a state in which
  no fixer was writing it;
- *groups*: dependents wait, failures are not hidden by cancellations, every run
  ends;
- *hook run*: the plan tells what the run does, `--safe` keeps unknown commands
  from running, nothing the user left unstaged is staged unless a check named it;
- *jobs' files*: every file goes to exactly one job, in a command line that fits;
- *lists of files*: each file looked at once, results in order, within the budget, nobody
  asleep for ever; *text fixers*: a fix satisfies its own check and the others';
- *git*: every unstaged change is told and stashed, in whatever way it was read, and a push
  checks what is new to the remote;
- *stash*: no unstaged change is lost; what a killed run left is put back or
  told of; a running process keeps its journal; edits and fixes are both there
  after the restore, or hk says where they are not;
- *around the runs*: what is to be killed is killed and nothing else is, a report
  says what hk did, a cached configuration is the one the sources evaluate to, an
  installation is whole and fires once.

`PROJECT.json` lists the hazards line by line with the properties that cover
each, and the components that are not modelled with the reason.

## 2. Modules

| Module | Models | Extends / composes |
|---|---|---|
| `FileLocks` | what a file lock service promises: a request waits, holds, leaves | |
| `FileRwLocks` | the table of `file_rw_locks.rs` | implements `FileLocks` |
| `WriteHistory` | the history that the table's write counts stand for | `FileRwLocks` |
| `FileRwLocksProofs` | invariants and refinement of `FileRwLocks`, proved | `WriteHistory` |
| `JobLocks`, `JobLocksProofs` | jobs with file locks, slots, working-tree access, patches | uses the states of `FileLocks` |
| `ApplyPatch` | one patch applied file by file, and rolled back | `JobLocks` takes its outcome as one choice |
| `Staging`, `StagingProofs` | `stage_files` and `StageQueue` | |
| `StepGroup`, `StepGroupProofs` | the steps and jobs of one group, their results and statuses | |
| `HookRun`, `HookRunProofs` | one run of a hook from its options to what is staged | |
| `Batches` | files shared over jobs and cut to command lines | the jobs that `HookRun` takes as one |
| `SharedChecks` | steps that filter their files with shared threads and a memo | the matches that `Batches` and `HookRun` take as given |
| `OrderedFix` | a fixer's pass over a list of files, with threads that read ahead | |
| `TextFix` | what three of hk's fixers make of a text | extends `Merge` for lines |
| `GitStatus` | the status of a tree, read in four ways | |
| `SetAside` | what is stashed of a status | extends `GitStatus`; the stash of `StashJournal` in full |
| `PushRange` | which files a push is checked for, between commits, fetches and pushes | the selection of `HookRun` for refs |
| `StashJournal`, `StashJournalProofs` | hk processes that stash, restore and recover in one tree | |
| `Merge` | the line diff and the three-way merge, pure | |
| `Restore` | what a restore does with each file's contents | extends `Merge`; the restore of `StashJournal` in full |
| `StopHook` | the Stop hook's check and the killing of its processes | |
| `StepTree` | how hk on Windows ends what cancelled steps left | |
| `McpRuns` | the MCP server's runs | |
| `ConfigCache` | loads of the configuration through the cache | |
| `Install` | install and uninstall commands | |
| `AroundProofs` | proofs about pushes, installation, MCP runs and patches | `PushRange`, `Install`, `McpRuns`, `ApplyPatch` |
| `Induction` | induction over a set of numbers, without an operator parameter | for `HookRunProofs` |
| `MC*` | instances for TLC | below |

Parts that are never in play together share a run: `MCFileRwLocks` extends
`WriteHistory` and `Staging`, `MCJobLocks` extends `JobLocks`, `OrderedFix` and
`SharedChecks`, `MCStashJournal` extends `StashJournal` and `SetAside`, `MCHookRun`
extends `HookRun`, `Batches`, `Restore` and `TextFix`, `MCAround` the seven modules
around the runs. Each part has an initial
state of its own and an idle state; the steps of one leave the variables of the
others alone, so the state space is the sum of the parts, not their product.

### FileRwLocks

`readers`, `writer`, `writes` and `known` are the per-file vectors of `Table` and its
`paths`; `queue` is `Table::queue`, ordered by `next_id`; `req[j]` is the request of
job `j`, and `pc[j]` says whether the future is not yet made, `queued`, `granted`
(woken, its channel not read yet) or `holding`. The table's mutex makes each method
one action: `Lock`, `TryLock`, `Receive` (the future is polled), `DropWait` (dropped
queued or granted), `Release` (drop of `Held`), `NoteWriteCounts`, `AddFiles`,
`RemoveFiles`. The loop of `wake` is `Wakes`, the set of requests it starts, in
closed form. `WriteHistory` adds the history of write locks that a count stands for.

`FileLocks` is the abstract service: a job is out, waiting or holding, and
`Ask`, grants and `Leave` are its moves; a grant needs all holders compatible.
The refinement maps `granted` and `holding` to holding, because a woken job has
its locks whether or not it has noticed.

### JobLocks

Each job has a kind (`check`, `fix`, `diff` for a `check_diff` that declares
itself read-only and `wdiff` for one that does not), its files, and how it
checks after a patch (`rechecks_under_read_locks`). `pc` walks through
`take_locks`, the check, `compare` (write counts against those noted before
the check), `relock_for_write`, `lock_diff`, the application of the patch and
the staging of what it changed. `slots` is the semaphore, `guard`/`line` the
fair `RwLock` on the working tree that a patch takes exclusively, `git` the
mutex. The history variables `stale` and `strayed` record, for a job between
its check and its patch, which of its files changed meanwhile under locks and
which were written by a patch that holds no lock on them; only properties read
them.

### ApplyPatch

`apply_patch` of `step/diff.rs`: `PlanPatch` works out every file's new contents, file patch
by file patch over what those before it left. The loop is in closed form: what a file patch
finds is what the last earlier one of its file leaves, or the file on the disk (`Contents`);
all have to fit (`AllFit`); the files are done in the order in which they are first named
(`TouchedIn`). Then each file is written
(`Write`) or moved aside (`MoveAside`), the moved ones go at the end (`AsideGoes`), and a
failure starts the rollback (`RestoreAside`, then `RollBackLook` and `RollBackWrite`). A
write that fails may leave an empty or a partial file. `OtherWrites` is anybody else's write
to one of the files, at any time. The rollback reads a file and decides whether hk may have
written what it holds (`MustUndo`); only then does it rewrite or remove it, whatever it holds by
now: two actions, with a place "put back" between them. `PatchesAssumption` says that a patch has file patches of
known files, and that a file to patch is not there or has its old contents.

### Staging

`paths` is the queue of `StageQueue`, `cell[s]` the result a step shares with
those in the same batch, `results` the cells so far, `batch` and `reads` the
files of the add under way. `racy` are the entries git would re-hash when it
writes the index; `stage_files` locks them as well, and looks again once it
holds git's mutex (`LockMore`).

### StepGroup

One process per step, one per job, and the group's own loop. Every read of a
token and every write of a status is a step of its own where another task can
come between: `SeeToken` and `MarkAbort`, `AbortStatuses`, `CancelRun` for
`abort_running_steps`; `BeginSettle` and `Settle` for the two reads in
`settle`; `Complete` and `Wrap` for the end of a task. `Errors` tells a failed
command, an error of hk and a cancellation apart because the code does.
`CtrlC` may come at any time.

### HookRun, Batches

A `scene` is what a run finds: options, hook, settings, repository, steps. `phase`
goes through `Setup` (options and the skipped hook), `ReadStatus` (the status, with
untracked files only if some option reads them), `EarlyExit`, `Refuse` (`--safe`),
`StashAndGo`, the groups (`StartGroup`, `GroupDone`) and `Finish` (`fail_on_fix`). In a
group a step's job is built (`Build`, or `Skip` with the reason), entered (`Enter`:
does it check first?), checked and fixed (`CheckPasses`, `CheckNames`, `Patch`,
`Recheck`, `Work`) and staged (`Stage`); a command is its effect, what it writes and
what its output names. `Analysis` is what `hk --plan` says, `Gate` what `--safe` looks
at. `treeVars` are the files with what is changed, untracked and hashed. A job's files are
those its step matches that are tracked and not gone (`JobFiles`). `Building` walks the groups
as `run` does, each step's entry after those before it, as a recursive function. `SceneOK`
says what a scene is: that options, settings, repository and steps have their types, and that
git tells of a file what it can.

`Batches` shares the jobs of a run over groups of files one at a time (`GiveJob`),
splits each group evenly (`SplitEvenly`), and cuts a batch whose command line
is too long by a binary search (`Probe`, `Cut`).

### SharedChecks, OrderedFix, TextFix

`SharedChecks` is `par.rs`: `mapper[p]` is step `p`'s call of `map`, `helper[p]` its threads,
the first of which is the caller; `Reserve` is one turn of the compare-and-swap loop over
`inUse`, `StartHelpers` cuts the chunks (a thread may fail to start: `TakeOver`), `DropSlots`
joins and gives back. `LookInMemo`, `LockMemo` and `InitMemo` are the three looks of
`get_or_try_init`, while the user changes and removes files. `readings` is a history of
what was computed.

`OrderedFix` is `fix_in_order` over `for_each_in_order`: `round` is the pass (identify, then fix,
or one by one), `ahead` the shared progress, `crew` the threads, `caller` the thread that
writes; a write is two steps, with the file `torn` in between. `Looped[k]` is what
the loop the code promises to be like has made after `k` entries.

`TextFix` has the three fixers as operators on texts of a letter, a blank, a carriage return
and a newline, and a hook that runs them in any order (`RunFixers`), up to three times.

### GitStatus, SetAside, PushRange

A `checkout` says of each path what HEAD, the index and the worktree have: nothing, a file
(two contents that are alike enough for a rename, one made executable), an empty file, a
link, an intent to add, a conflict. `EntriesOf` is what `git status --porcelain=v2` prints of
it; this external part was compared with git 2.39.2 on the trees of two paths.
`from_entries`, `from_entries_libgit2`, `read_status_libgit2` and `status_of_paths` are the
ways hk turns that into a `GitStatus`. `SetAside` goes on: `StashUnstaged` is
`stash_unstaged_inner` up to the tree that the steps see.

`PushRange` has commits with their ancestors and files; `local`, `tracked` and `remote` are the
branches here, under `refs/remotes` and at the remote. `FromRef` and `Compared` are
`PrePush::run` and `files_between_refs`; the rest is the user, git and others who push.

### StashJournal

Several processes, each walking (`pc`) through a hook run as `hook.rs` orders it:
recovery (`Look`, `Await`, `Reread` with `DecideGone` or `DecideUnknown`, `Leave`),
the status, the stash lock (`Queue`), stashing, the steps (`Fix`) and `pop_stash`.
The contents of a file are the set of edits it has over HEAD: the user's old and
new ones, a step's fix, and `blank` for a file with intent to add that
`checkout-index` empties. `tree`, `index` and `marked` are the working tree, the
index and its intent-to-add entries; `refs` the entries under `refs/hk/stash` with
their files in `saved`; `disk` the journal file and `own[p]` the journal `p`
remembers, which differ after a failed write; `lock` the stash lock.

Every write to the disk is an action of its own, so that `Crash` fits between
any two: storing the entry (`Store`), naming it in the journal (`Record`), each
file that is reset (`Reset`), removed (`Remove`) or restored (`Restore`), the check
before the entry goes (`Verify`), its deletion (`Drop`), the journal's (`Popped`).
`Fault` makes a write or a git command fail, and the code's answer follows:
`Rollback`, `RollDrop` and `RollForget` when the reset fails half way, `GiveUp` for
an error that leaves the journal for the next run. A crash stands for SIGKILL and for
the exit of `shutdown.rs` after its grace period or a second signal. `made` is
what the user ever wrote, which only the properties and the bound of `Edit` read; `reborn` are
the new files that a step made again after a process had removed them (see "Seen while
modelling").

Simplifications: the journal's own lock is left out, because whoever takes it
holds the stash lock already; the user leaves files alone while a process holds that lock
(the code's merge is for steps, not for edits made under it); a process id
is not reused, so the start token is not needed; `stash_reverted_paths` makes its
entry by the same sequence as `push_private_stash` and is not told apart.

### Merge, Restore

`Merge` is `merge.rs` as pure operators: lines with their newline, the longest common
subsequence with the walk's own tie rule, hunks, their overlap, and the one-pass merge
of two hunk lists. A text is a sequence of two letters and a newline.

`Restore` is `pop_unstaged_stash` with what it calls: `Plan` decides per path, `StepWrites`
is what the steps do (with what `StageOutput` then stages), `ResolveText` is
`resolve_restore_text` with its rules for tails and final newlines, `MergeStepChange` and
`MergeOutput` the cases in which a step's change was not staged, `RestoreFails` any
write that fails, `Verify` the look after which the entry is dropped or kept, `VerifyFails`
that look when it fails: the entry is kept and the files are "unchecked". Files are
text, binary, links, absent, or blocked by something in a directory's place; with and
without the executable bit and `core.fileMode`.

### StopHook, StepTree

`StopHook`: `procs` is the system's process table (parent, group, whether the check is
an ancestor); processes fork, change groups, end and are adopted by init at any time.
`kill_tree` is a listing (`List`), the plan it makes (`PlanKill`: whole groups if every
member descends from the check, single numbers otherwise, never hk's own group or its
ancestors), one `KillGroup` or `KillPid` per signal, and the second round (`NextPass`).
`cause` is why `run_check` returned, `answer` what the hook printed.

`StepTree`: processes are known by creation time, which grows; `born` gives each its
number and the number of its parent, and numbers are used again. hk takes a snapshot,
reads creation times one process at a time (`ReadTimes`), collects descendants whose
creation time fits (`Collect`), terminates them one by one (`Terminate`) and looks again
up to `Rescans` times.

### McpRuns

`runs` and `rec` are `McpState.runs`, oldest number first, and its records; `task[i]` is
where `execute` is with run `i`, `reader[i]` the task that reads hk's events from `pipe[i]`,
`token` the runs whose token is cancelled. `Start` trims the list of completed runs and refuses a root with an
active run; `Baseline` and `Captured` take the tree's state for the diff; `HkExited`,
`StopChild` and `GraceOver` are the arms of the select; `Drained` and `DrainTimeout` end
the reading; `Finish` writes the verdict. hk itself (`Says`, `HkEnds`, `Changes`) may leave
a process behind that keeps the pipe open and goes on changing files (`holder`).

### ConfigCache

`sources` is hk.pkl and the modules it may import, each with its imports, a glob, the
variables it reads and exports. `imports` and `configs` are the two cached files; each
process (`load[p]`) looks whether the analysis is stale (`CheckStale`), analyses
(`Analyze`), hashes the sources (`TakeDigest`), looks up (`LookUp`), evaluates (`Evaluate`)
and saves (`SaveConfig`, then the names of the variables read, `SaveNames`). Writes may
tear. `EditSources` is the user, at any time; `raced` notes an edit that falls between
two looks at the same files, for which hk promises nothing.

### Install

`entry` is git's configuration by scope and `script` the hooks directory; a command
looks (`LookAtGlobal`, `CheckTargets`), takes the repository's lock (`LockConfig`), removes
keys and scripts one by one (`ReadScript`, `RemoveScript`, `ListKeys`, `RemoveKey`) and writes new
ones (`WriteKey`, `LookAtHook`, `WriteScript`); each may fail (`InstallFails`), and another tool
may write a hook of its own at any time (`OtherHook`). A hook is looked at in one step and
replaced or removed in the next, whatever it is by then (`Takes`). `target` is the hook that a
process has looked at and not taken yet, and `unseen` notes that another wrote it since.

## 3. Runs

| Run | Instance | Question |
|---|---|---|
| `FileRwLocks` | 3 jobs, 2 files, `MaxAsks` 3; and 3 steps that stage 2 files, with a cancellation | are the table and its queue right, does it implement the promise and serve everyone; is what is reported as staged staged, untorn, and does every step come out? |
| `JobLocks` | 2 jobs over 2 slots with a cancellation; 3 jobs over 1 slot; lists of up to 4 entries over 2 threads; 2 steps that filter lists with 2 helpers | what is a patch computed from, who sees half of one, do locks and slots deadlock, does every job end; does a fixer end as a loop would, is each file read once, within the budget, with nobody asleep for ever? |
| `JobLocks_stray` | the first of these | (violated) is a patch never stale, files outside the job included? |
| `StepGroup` | steps of 2 and 1 jobs, one depending on the other; 1 slot, or 2 with files that vanish; Ctrl-C | does the result tell what happened, do dependents wait, does the group end? |
| `StepGroup_vanish` | vanishing files, no Ctrl-C | (violated) do dependents wait? |
| `StepGroup_ctrlc` | Ctrl-C, no vanishing files | (violated) does Ok mean nothing was aborted? |
| `StashJournal_safety` | 3 processes, a file of HEAD and a new one, crashes, faults, edits; every tree of 2 paths | is anything lost, untold or taken from a running process; is every unstaged change stashed, and is the status the same with libgit2? |
| `StashJournal_turns` | 2 processes, the same files, nothing goes wrong | (violated) do steps see only what is staged? |
| `HookRun` | six families of hook runs over 3 files; 1600 file lists to batch; restores of texts of up to 3 lines and of files of every kind; texts to fix | does the plan tell the run, does `--safe` hold, what is scanned and staged; is every file in one job that fits; is every edit back; do the fixers satisfy the checks? |
| `HookRun_blind` | hooks that stage | (violated) is a user's unstaged file staged only if a check named it? |
| `Restore_edits` | texts with blank last lines and without a final newline | (violated) is every edit back when no step changed anything? |
| `Around` | a Stop hook with 2 late processes; 4 processes of which 2 numbers are reused; 2 MCP runs; 2 processes that load a configuration of up to 3 files; 2 installers; patches of 2 and 3 files; 2 branches that are pushed | does what hk does around its steps end what it started and nothing else, tell the truth, use no stale answer, leave nothing half done, and is what a push adds checked? |

Bounds, and why they are enough to meet the interesting cases:

- `MaxAsks` bounds the requests in a run of the table. Three requests over two
  files hold a holder, a wide waiter behind it and one that may or may not
  pass: the shapes `CanStart` and `Wakes` tell apart. Write counts are bounded by it too.
- Two jobs suffice for staleness, which is a relation between two; the setups of
  `MCJobLocks` pair a diffing job with every other kind. A third job is there for the
  deadlocks. `MaxRetries` is the code's retry limit made small.
- Three steps in the staging queue are a leader, one whose files it takes
  and one that arrives during the add.
- A step with two jobs and a dependent with one meet every branch of `join_jobs`
  and of the group's loop; both `failFast` values and every set of steps with
  `allow_failure` are initial states.
- One file of HEAD and one that is not (untracked or marked with `git add -N`) meet
  both entries of a stash and every branch of the restore. `Mishaps` lists the
  scenarios of `StashJournal_safety`: three processes of which two are killed (a run, a
  recovery of it and a recovery of that); two that see each other with any two of a
  kill, a fault and an edit; two in different PID namespaces with a kill and a
  fault. `MaxFixes` is one, since what a fix can meet is a stashed change of its own file.
- `HookRun`'s options interact in families: `ToSelect` (every way to select files, with a
  file of every kind), `ToPlan` (every reason to skip, alone and together), `ToGuard`
  (every combination of commands by their effect), `ToStages` (two steps, files the user
  left unstaged), `ToFailOnFix`, `ToLeave`. Options of different families are read in
  different places of the code. Two groups of up to four files, up to five jobs and
  three lengths of command line meet every rounding of `share_jobs` and both ends of the
  binary search.
- Two hunks meet in texts of three lines in every way `merge.rs` tells apart:
  before, after, at, inside, over, and insertions at one line.
- The Stop hook's check may start two more processes: a child and a grandchild, or a pair
  that regroups. Two numbers for four processes make a number be used again between
  any two steps of the listing. `Rescans` is one where the code has `RESCANS = 8`: each further look is the same step. The MCP server's `CompletedLimit`, `PipeSize` and the number of runs are one
  more than what is needed to trim the list, fill the pipe and overlap; `setting` says
  how many troubles (cancellation, failing snapshot, output past the limit, process left
  behind) meet in one run.
- A configuration of hk.pkl and two modules has an import of an import, a glob match and a
  module that is not there; at most two edits and one torn write. Install: two commands
  side by side over every combination of what an earlier one left, one failure, one
  hook of another tool. Patches: every pair of operations on two files, two patches
  of one file, three files, two failures and two writes by others.
- Lists of `OrderedFix`: with a file named twice or three times, a path that is no file or
  not to be identified, files that cannot be read or written; `RESULTS_AHEAD` and
  `MIN_FILES_PER_THREAD` are two, so that four entries fill and drain the window. Two steps
  with two helpers, an edit and a thread that does not start meet every division of a list.
- Texts to fix have up to five characters of the four kinds. A rename, with what hides it,
  takes two paths; a mode, a link, an intent and a conflict one. Pushes: two branches, three
  commits, related histories or not, with libgit2 or without, `origin/HEAD` set or not.

Jobs, files and steps are symmetric where a cfg says `SYMMETRY`; no run with a
liveness property uses it. Deadlock is checked where a model goes on for ever or stutters in
a named `Finished` action that requires everything to be over. `HookRun`,
`HookRun_blind`, `Restore_edits` and `Around` turn it off: a hook run, a restore, a batch,
a stop, a load, an installation and a patch simply end.

**Fairness.** tokio polls every task that is ready, and the models assume that
commands and git return. `FileRwLocks`: weak fairness of each job's `Receive` and
`Release` only: waiting tasks are served because holders end and the wake-up loop finds
the queue, not because the model gives them a turn. `JobLocks` and `StepGroup`: that
some job, and each step's and job's task, goes on. `Staging`: each step's own actions.
`StopHook`: the hook's own steps and its timers, never the check's end. `McpRuns`: the
server's tasks, their timers and readers, never hk or what it left behind. Nothing is
assumed of a user's Ctrl-C, of requests still to be made, or of which of several ready
tasks goes first. The other models have no liveness property and assume none; of `OrderedFix`
and `SharedChecks`, whose threads sleep and wake each other, it is checked that somebody can
go on until all are through (`NoFixerHangs`, `NoFilterHangs`), and proved (`FixersGoOn`,
`FiltersGoOn`).

**Properties that need an argument.**

- `NoLostWakeup`: every queued request conflicts with a holder, the comment at
  `file_rw_locks.rs:60` made an invariant. It implies that nobody sleeps who could run.
- `WakesInOrder`: a request is left in the queue by a step only because of a
  holder that kept its locks or was ahead of it.
- `CountsTellOfWriters`: a write count moved exactly if a write lock was taken since it
  was noted; `PatchFresh` is what that is for.
- `PatchAlone`: while a patch is applied or rolled back no command runs, nothing is
  staged and no other patch is applied (`step_job.rs:240-241`).
- `PatchUndone`: a patch that fails leaves every file as it was or names it, and what others
  put where hk had created or deleted a file stays, but in the gap named under Findings.
- `NothingLeftUnstaged`: what a step changed is staged when it ends, or the step ended
  with the error of the `git add`.
- `NoFailureHidden`: a failure that is not allowed fails the group, whatever a
  cancellation, an allowed failure beside it or other steps reported first.
- `NoStartAfterFailure`: after a failure that counts, no dependent of that step begins.
- `NothingLost`: every edit the user made is in the tree, staged, or in an entry that
  is kept. What could break it is an entry dropped after a restore that left
  a file out: hence `Verify`.
- `LeftoversAreTold`: a process that recovered with the lock in hand moves on only if
  every edit missing from the tree is in an entry it told the user of, or whose process
  runs, or which was made by a process that kept no journal (`Journalled`): the code
  promises nothing of those but that they stay under `refs/hk/stash`.
- `LiveJournalUntouched`: nobody changes the journal of a running process, but for one
  in another PID namespace, where the docs let a stale-looking journal go.
- `CleanRuns`: a run that put everything back leaves no entry and no journal. With
  failing writes it may: an entry that cannot be dropped is worth a warning only.
- `PlanTellsTheRun`: what `--plan` says of a step is what the run does with it, though
  the plan evaluates conditions at another time and in another order.
- `NothingMissed`: leaving untracked files out of the status changes neither the files
  a run works on nor what it does.
- `SafeUnlessStaging`: a run that passed the `--safe` gate starts no command with unknown
  effects; a hook that stages is the exception named below.
- `BothAreKept` (`EditsKept`, `StepChangeKept`, `MergesBoth`): after a restore the user's edits and what
  steps made are both in the file; where their hunks overlap the edit wins; what could
  not be put back keeps the stash entry, and is named if the final look did not fail.
- `ListsInOrder`: a fixer with threads leaves what a loop over its list would
  (`LikeASequentialLoop`), holding no more results than it may; steps that filter get one
  result per file, in order, and all of them the same one (`ComputedOnce`), and the threads
  of all steps keep to the budget.
- `FixersAgree`: a check complains exactly if its fixer changes the text, not after it did,
  and after two runs in any order none complains.
- `StashTakesAll`: once hk has stashed, every path is as it is staged, what was there is in an
  entry, and the paths told as stashed are.
- `NewIsChecked`: of one pushed branch, every file that no commit of the remote has is
  checked, provided the base is a commit of the remote's.
- `RunsAreTold` (`OneHkPerRoot`, `VerdictIsHks`, `DiffTellsAll`): the server's list knows every hk that
  runs; a run is reported as what its hk said and how it left, and its diff has what it
  changed.
- `EndsJustItsOwn` (`TracedAreDead`, `TreeIsGone`): what descended from the check, or from hk's steps, when it
  was listed is gone afterwards; `OnlyDescendantsDie`, `EndsOnlyTheTree`: nothing else is.
- `ConfigIsCurrent`: a load during which nobody edits yields what the sources evaluate to.
- `InstallsKeepOrder` (`HooksAreWhole`, `FiresOnce`): with the lock free, the repository has all
  hooks of the last command that came through, none of another, and no event runs hk twice; and
  no hook that was another's at hk's last look is replaced unforced, or removed.

## 4. Findings

Six statements of the repository that the code does not keep; each has a run
whose counterexample shows it. Where there is a positive version, it holds in
the passing runs.

1. `JobLocks_stray`. `step/execution.rs:340-342` says that a patch goes stale only
   "under read locks". One computed under write locks may name files outside its
   job, and is applied to them without a lock while another job waits with a patch it has
   compared already. `PatchFresh` (files written under locks) holds.
2. `StepGroup_vanish`. `pkl/Config.pkl:781` promises "steps that must finish before this
   step can run"; `mark_skipped` marks the step done when one of its jobs has lost
   all its files. `DependsFinishUnlessSkipped` holds.
3. `StepGroup_ctrlc`. `step_group.rs:88-92` calls the token authoritative for Ctrl-C;
   `settle` reads it before and after the job's result is looked at, and a Ctrl-C between
   the reads ends the run as a success.
4. `StashJournal_turns`. `hook.rs:1491` says that all unstaged changes are stashed. The
   status that lists them is read before the wait for the stash lock and not again
   after it: a process that looked while another had the tree stashed stashes what it
   saw, and its steps see the edits that came back since. `NothingLost` holds all
   the same.
5. `HookRun_blind`. `step/execution.rs:252-256` says that only files a step changed are
   staged when some of its files have unstaged changes. A step whose check is its fixer
   and that has a `check_diff` or `check_list_files` too stages all its files when the
   check that ran first passed. `OnlyNamedIsStaged` holds for the others.
6. `Restore_edits`. `docs/hooks.md:57` says hk restores the saved work.
   `resolve_restore_text` takes the removal of a blank last line for the loss of a final
   newline and drops it with the entry. `EditsKept` holds for texts without blank ends.

**Seen while modelling, without a run of their own.** The properties leave each of these
out by a named condition, or the model takes the step at the code's word.

*Stash and restore.*
- `git.rs:2441` says the journal is written "before anything is stashed". If `ensure_journal`
  fails for the intent-to-add entry it is tried again in `push_stash`; when that succeeds,
  the run's own first entry is among the journal's `stashes_before`, and a recovery of it
  names it to no one (`Journalled`).
- A recovery may put an old stash back while the steps of a run that had nothing to stash,
  and so took no lock, fix files (`git.rs:2689`). `NothingLost` holds.
- A file staged without a final newline, edited and then given the newline by a fixer
  ends as "…newline, edited": the tail is taken for text after the last line.
- In a run that stages, every file that had staged changes counts as the output of a step,
  so a change a step made only in the tree is merged with the user's edits preferred,
  against the comment near `git.rs:3020`.
- Of a staged change of the mode alone, reverted in the worktree, nothing is stashed, and yet
  its path is named among the stashed ones if another file was (`OnlyModeReverted`).
- Without libgit2 a tree in which only a file in conflict was changed has no unstaged
  changes for `has_unstaged_changes`.
- When the final look itself fails (`git.rs:3422`) nothing is added to what was not restored. If
  another path is named already, hk says that it "restored the other stashed changes"
  (`git.rs:3444`), even of one whose write has failed; else the comment at `git.rs:3454` ("the
  stashed changes were restored, but not checked") covers such a path too. The entry is kept;
  `EditsKept` asks for the names only where the files were checked.
- The final look exempts staged deletions even when the file is untracked
  (`git rm --cached`): a failed restore of one is not named.

- A new file that hk removed from the tree and another hk's step made again is not put back
  over. If a write fails meanwhile, `restore_intent_to_add` may take the file for one that was
  never removed (`git.rs:2334`) and drop the entry with the user's contents. It takes two
  `git add -N` files, a fault and a step of another hk; `NothingLost` leaves such files
  out (`reborn`).

*Hook run.*
- The `--safe` gate takes `check_first` as the jobs were built; a hook that stages may set it
  later, so that a check the gate did not look at runs first.
- `docs/security.md:73` says that `--safe` does not examine `report`; it does.
- The plan calls a step without jobs included, counts files that no longer exist, and
  says "profile" where the run fails on a broken `job_condition`.
- A check-first command is what batches are sized for; the fixer it falls back to may be
  longer.
- `StepGroup::build_all` puts a plain step that follows a `Group` into that group's
  steps, against `docs/configuration.md:357` ("a scheduling boundary") and
  `docs/hooks.md:129`; of two steps with one name the later one replaces the earlier.

- A pre-push hook looks at the first of several refs only. For a new branch it may compare
  with the local main (if `origin/HEAD` is not set) or an unrelated history, and then misses
  files that are new to the remote (`docs/migrate-lefthook.md:55`); without libgit2
  `matching_remote_branch` searches the output of `ls-remote` for a name it never prints.

*Ending processes.*
- The MCP server's one-run check compares roots by path: two that contain each other may
  run hk at once. A cancellation after hk exited may still win the select; one that
  comes while the run is starting is overwritten by "running" and only shows at the end.
  `stop_child` kills hk's group, and steps lead groups of their own.
- `kill_tree`'s second round ends when it finds nothing new, without killing what survived
  the first; a process in a group of its own that is orphaned between the listing and
  the kill is never found (`traced`).
- On Windows a creation time is read after the snapshot and may belong to the number's next
  holder (`mistaken`); the orphan of a second holder that is dead is taken for a child,
  against the comment at `step/process_tree.rs:38-47`.

*Configuration, installation, patches.*
- A glob-imported file that is renamed and nothing else goes unnoticed: the key is the
  contents (`SameButNames`). An edit between the analysis and its digest, or between the
  hash and the evaluation, leaves a stale entry for later loads (`raced`).
- `hk install --global` and `uninstall --global` take no lock: two at once fail or mix. Scripts
  of an earlier `--legacy` and a later `install --global` fire hk twice.
- A hook that another tool writes after hk's look and before the rename (`install.rs:552`, 576)
  or the removal (`install.rs:750`, 758) is lost without `--force`, although the comment at
  `install.rs:550` says that hk looks "again right before writing" because "another process can
  change the hook". `InstallsKeepOrder` leaves out what is written in that gap (`unseen`).
- A rollback overwrites what another process wrote to a modified file after hk did; where
  there are no hard links `restore_aside` looks and then renames. A file that another process
  puts where hk was creating one is removed without a word if it gets there after the
  rollback's read (`diff.rs:350`) and before the removal (`diff.rs:367`), against the comment at
  `diff.rs:340-342`; so is one whose contents are the beginning of hk's. `OthersFilesStay` leaves out
  the first (`LookedAt`); others' contents in the model are never a part of hk's.
- `end_of_file_fixer.rs` says it and the mixed-line-ending fixer "agree on which ending a
  mixed file is normalized to"; on `a\r\nb\r\nc\n\n\n` the order in which they run
  decides between CRLF and LF. Where LF is the more frequent ending, `mixed_line_ending`
  turns `\r\r\n` into `\r\n`: its check complains of its own fix (`Stray`).

## 5. Proofs

Eight modules hold proofs; `Induction` is a tool of others. Each component has an inductive
invariant, shown to begin true and to be kept by every action; TLC checked each invariant on
the instance of its run first. The theorems follow from it. The constants are assumed to be
what the modules' named assumptions say: finitely many jobs, a limit of retries that is a
number, every job of some step, dependencies among steps, instances of the right types.
Nothing else bounds them.

**`FileRwLocksProofs`**, for any files, any finite set of jobs and any number of requests:
`TypeCorrect`, `MutualExclusion`, `WakeupsAreNotLost`, `LocksAreAccountedFor`,
`RemovedFilesAreFree` (invariants), `QueueOrder` and `CountsFrozen` (action properties),
`Refinement`: every step of the table is a step of `FileLocks` or a stutter; and, of the table
with its history (`HSpec`), `WritersAreCounted`.

`Exclusion` follows from the guard of a grant, `CanStart`, which looks only at counters: so
the counters have to be exact (`CountersMatchHolders`), which for a count of readers is a
fact about cardinalities of the sets of holders before and after. `NoLostWakeup` says of
each queued request that a holder blocks it; for a release that means that what `wake`
leaves behind conflicts with somebody it started or found, which needs the queue to be
exactly the waiters in distinct order (`QueueIsTheWaiters`). `LockedFilesAreKnown` keeps
`remove_files` away from counters in use. A count only moves when a write lock is released, so
what holds of a note at any time is `NotesTell`: a file was locked to write since it was
noted if and only if its count has moved or a writer has it now; for a job that reads the
file, `Exclusion` rules out the writer.

**`JobLocksProofs`**, for any files, finite set of jobs, slots, retries and setups:
`PatchesAreAlone`, `PatchesAreFresh`, `ReadsAreWhole` and `JobsTypeCorrect`.

- `AccessOf` ties `pc` to the guard of the working tree. `PatchAlone` is no more than that,
  but it is inductive only with the fair line in order: a job is in it once, and only
  while it waits (`LineInOrder`).
- `LocksOf` says on which files and in which mode a job holds locks at each place, so that
  `Locks!Compatible`, the promise of the file locks, excludes a writer beside a reader.
- `FreshOf` is the argument for comparing write counts. While a job has its read locks, nothing
  it read is stale. While it trades them for write locks, each stale file has either been
  counted more often than the job's own release explains (`Own`), or is in the hands of a
  writer who will be counted when it lets go: before the job gets its locks.

All actions of a job share one shape (`Shape`), proved per action; that a step of that shape
keeps the invariant is then proved once, for the job itself and for the others
(`LockFrame`, `CountFrame`, `HistoryFrame`).

Of the steps that filter (`FilterSpec`), for any steps, files, budget and thread counts:
`ChecksAreOrderly` and `FiltersGoOn`. `SlotsOK` counts slots as pairs of a step and a number,
and `MapOK` says whose they are at each place of a call: a call gets one chunk more than
slots at most, so no more threads run than are paid for. `ThreadsOK` says that each
thread has answered for what is before it in its chunk, which joined in order is the list.
`MemoOK` keeps the one value that was computed beside what each thread was told. `FiltersGoOn`
rests on `OwnersOK`: who holds a value's mutex is computing it, and waits for nothing.

Of the fixers (`FixSpec`), for any lists, threads and limits: `FixersAreOrderly` and
`FixersGoOn`. An entry that was claimed and not handled is in exactly one place, with
a working thread, in the channel or held (`Apart`, `Covered`, `Counted`), and what was read
of it is what is due (`PlayOK`): since a later entry for the same file is not read, no write
comes between the reading and the turn of an entry. `LoopAt` says that the disk is
what the loop leaves after as many entries; that is a fact about the recursive function
`Looped`, by the induction of `Induction`. `Counted` bounds what is held by what
was claimed ahead. `FixersGoOn` rests on `WakeOK`: a thread that sleeps has no room, or the
caller is about to wake it, and after a stop none sleeps that was not told.

**`StagingProofs`**, for any steps, files and racily clean entries, with or without a
cancellation: `AddsAreWhole`, `StagedOrTold` and `StagingTypeCorrect`.

A step may be staged by another's add, so neither property is about one step. `OneAdd`: of the
cells, only the last and the one of the add under way have no result. `LocksKeepOut` and
`QueuedIsQuiet`: whatever is queued or being added is locked by a step that shares that cell,
so no fixer begins; if that step is cancelled and drops its locks, fixers no longer
begin at all. `QueuedIsWhole`: what a waiting step changed is in the queue or in the add it
shares. The last is where a leader that is cancelled after taking the queue would break it.

**`StepGroupProofs`**, for any steps, jobs, dependencies, slots and Ctrl-C, provided that
no name is both a step's and a job's: `FinishedStepsAreComplete`, `NoFailureIsHidden`,
`DependsAreWaitedFor`, `FailuresStopDependents` (an action property), `CommandsAreLimited`
and `GroupTypeCorrect`.

- `ErrorsAreKept` and `ResultIsTrue` follow a failure upwards: a joined job's failure that
  counts makes the step keep one that counts, though a cancellation came first; the step's
  result is one; the group fails when it joins the step.
- `DoneIsOver`: what `done` promises to dependents, with the exception of finding 2.
- `DoneIsHarmless` is what makes `NoStartAfterFailure` inductive: under `fail_fast` a step that
  is done either can never fail any more, or the run is cancelled already. It has to be
  kept across the gap in which a step is done and its failure is not collected yet.
- `SlotsAreHeld`: steps that build and jobs that run hold slots, of which there are as many as
  the setting says, though a job takes one over from its step.

**`StashJournalProofs`**, for any processes, files, crashes, faults and edits: `NothingIsLost`,
`StashersAreAlone`, `CleanRunsLeaveNothing`, `StashTypeCorrect` (invariants),
`LiveJournalsStay` and `LeftoversAreFound` (action properties).

- `StashInvariance` is about the edits. `LockIsHeld` says at which places a process has the
  stash lock: that of all processes at most one is there is why a tree that is half reset can
  be reasoned about. `TreeInv` says what is in the tree and the index for each place of that
  process, with the files it has done and those it has left; `EntryInv` what each entry and
  the one being made have saved; `ProcInv` what the process remembers of both. `NothingLost`
  is a conjunct of it: at each place the edit is found in one of the three, and the step that
  takes it out of one is preceded by the one that put it in another.
- `JournalInvariance` is about the journal: whose it is on the disk, which of its entries
  exist, and how the disk and what its process remembers may differ after a failed write.
- `LeftInvariance` joins the two. `NothingLost` says an edit that is missing from the tree is
  in an entry; `AllFound` that it is in one that is accounted for (`Named`): its process runs,
  kept no journal, or is named by the journal in place. A process stops being accounted
  for by running when it ends, so `KeepsIt` says that it then has its journal in place, or
  nothing to tell of: whoever deleted the journal of a process it could not see found no
  entry of it. And a journal is discarded by a recovery, so `Recalls` says that one that
  went well has put back all the journal tells of, though dropping an entry may have failed.

**`HookRunProofs`**, for any steps, files and scenes of the right types (`SceneOK`, which holds of
all scenes of the run): `NothingIsMissed`, `PlanIsKept`, `SafeRunsAreSafe`, `NamedIsStaged` and
`HookTypeCorrect`. Of the parts of `HookInvariance`, `FilesInv` says what the files are that the
run works on, `OrderInv` that the steps of the groups before are through and those after
untouched, `SafeInv` what passed the `--safe` gate, `EarlyInv` why a hook ended early. `JobsInv`
follows each step: what it was built from (`BuiltOK`), where it is (`PlaceOK`), what its
checks named (`NamedOK`), and that what was told of it is what the plan tells (`ToldOK`).
The plan and the run agree because both build the same jobs from the same files: that every
step is in exactly one group is a fact about the recursive function `Building`, proved by
induction. The library's induction theorem takes an operator; `Induction` states
induction of a set of numbers instead, from its theorem on least elements.

**`AroundProofs`** has four components that share nothing.

- `NewFilesAreChecked` (`PushSpec`), for any commits, branches, files and pushes. `HistoryOK`: a
  commit's ancestors include theirs. A base that the remote has then brings nothing the
  remote has not, and of a missing base every file is looked at.
- `InstallsAreOrderly` (`InstallSpec`), for any processes, hooks and commands. `Progress` says of
  the holder of the lock what it has removed and what it still has to write, place by place;
  `SureOK` that who looked at the user's configuration and has seen no write there since is
  right about it; `Unseen` that a hook of another's that is about to be taken without `--force` was
  written since hk looked at it.
- `RunsAreReported` (`McpSpec`), for any runs, roots, pipe and list sizes. Of each run, `StagesOK`
  ties the task to its hk, `EventsOK` and `ReaderOK` account for each event hk said: it is in
  the pipe, in the record, or the record says that something was lost. `ApartOK` is about two
  runs of a root: each one's changes were there before the other's snapshot, or it began
  after the other's diff.
- `PatchesAreUndone` (`PatchSpec`), for any files and file patches, failures and writes of others.
  `PatchInv` is about one file at a time: it is still to do, written, moved aside or neither,
  in one list at most, and each list says what is in the file and beside it; a created file that the
  rollback has looked at and is about to remove is not one that others put there before.

Out of the prover's reach, and only model-checked: liveness under fairness
(`WaitersServed`, `EveryStepEnds`, `EveryJobEnds`, `GroupEnds`, `StopsEnd`); `ENABLED`, which
`NoFixerHangs` and `NoFilterHangs` add to the guards that `FixersGoOn` and `FiltersGoOn` prove to
hold; and facts by induction over data: that the loop of `wake` computes `Wakes`, what the
merge of `merge.rs` does with any two lists of hunks (`BothAreKept`), how files are shared
over jobs (`EveryFileRuns`), what the fixers make of a text (`FixersAgree`), which processes
descend from a check (`EndsJustItsOwn`), what a status makes of a tree (`StashTakesAll`).
`ConfigIsCurrent` compares evaluations of whole import graphs and stays with its instances.
No module uses a RECURSIVE operator.

## 6. Not modelled

- The contents of commands and their output; a command is its outcome and the files it
  writes. Contents of files appear only in `Merge` and `Restore`.
- Jobs with `stomp`, which lock nothing by request of the configuration.
- `exclusive` steps are groups of one; steps that a condition skips are in `HookRun`,
  not in `StepGroup`.
- Of the stash: the state of a merge in progress, entries that earlier versions pushed on git's own stash, patch backups,
  `HK_STASH_UNTRACKED=false`, reused process ids, and a recovery whose reads fail, which warns and
  keeps the journal. Of the restore: a link or a deletion
  that a step makes between the plan and the write, a failing `git diff --cached`.
- Of the hook run: parse errors of `HK_STASH`, fixers that delete files, statistics.
- The ladder of signals to child processes on Unix; the protocol of the MCP server.
- The merge of configurations, the layers of settings and their validation; globs and
  types of files (a set of matches); quoting (a length per file).
- The other commands and utilities, migration, templates, output: sequential code
  without shared state.
- Timing: grace periods and poll intervals are choices of when something happens.

## 7. Plan

1. Done: the lock table with its proofs, jobs and patches, lists of files, staging, groups,
   stash and journal, status and pushes, restore and merge, hook runs and batching, and the
   parts around the runs.
2. Done: proofs for the file locks with their history, the jobs, staging, the group, the stash
   and its journal, hook runs, pushes, installation, the server's runs and patches, the
   fixers and filters. Next: `ConfigIsCurrent` for an import graph of any size.
3. Next modules: the durability of the journal's file (its lock, the rename), the merge of
   configurations and the building of groups.
