------------------------------- MODULE HookRun -------------------------------
(***************************************************************************)
(* One run of a hook, from its options to the files it stages (hook.rs,    *)
(* step_group.rs, step/execution.rs, step/job_builder.rs): which files it  *)
(* works on, what --safe looks at before anything starts, which steps are  *)
(* skipped and why, when a step checks before it fixes, which commands it  *)
(* runs, and what goes into the index.  `hk --plan` answers from the same  *)
(* definitions without running (Analysis).                                 *)
(*                                                                         *)
(* A scene holds what a run finds: options, hook, settings, repository and *)
(* steps.  A step has one job here, with all its files (Batches splits     *)
(* them; locks, slots and cancellation are JobLocks' and StepGroup's).     *)
(***************************************************************************)
EXTENDS Integers, Sequences, SequencesExt, FiniteSets

CONSTANT Files

VARIABLES scene,
          phase,       \* how far the run is
          scanned,     \* whether the status looked for untracked files
          picked,      \* the files selected at the start
          files,       \* HookContext's files: those, and what was staged
          unstaged,    \* initial_unstaged: not set aside when steps start
          untracked,   \* initial_untracked
          exists, dirty, fresh,     \* the worktree: there, changed, untracked
          hashes,      \* the hashed files, and whether they are still the same
          group,       \* the index of the running group
          contention,  \* files_in_contention
          job,         \* what each step of the group is at
          skipped,     \* why a step was skipped, or ""
          ran,         \* the commands that ran: <<step, field>>
          staged,      \* <<step, file>>: put into the index by the step
          result       \* ok or failed

hookVars == <<scene, phase, scanned, picked, files, unstaged, untracked, exists,
              dirty, fresh, hashes, group, contention, job, skipped, ran, staged, result>>
treeVars == <<exists, dirty, fresh, hashes>>
goneBy   == <<scene, scanned, picked, untracked>>

opts  == scene.opts
hook  == scene.hook
env   == scene.env
repo  == scene.repo
Steps == DOMAIN scene.steps
Step(s) == scene.steps[s]
Has(s, field) == Step(s)[field] # "absent"

-----------------------------------------------------------------------------
(* The scenes a run may find.  A step is in one item of the hook; a file is *)
(* tracked or not, and in the worktree if git tells of unstaged changes    *)
(* (git.rs 4014, 4139); no step has the name `ran` keeps for the hook.     *)
Effects    == {"absent", "read", "write", "unknown"}
Conditions == {"none", "true", "false", "error"}
OptsType ==
  [check : BOOLEAN, fix : BOOLEAN, stage : STRING, files : BOOLEAN, glob : BOOLEAN,
   unstaged : BOOLEAN, fromRef : BOOLEAN, deleteRef : BOOLEAN, all : BOOLEAN,
   staged : BOOLEAN, fromHook : BOOLEAN, stash : STRING, step : SUBSET STRING,
   skip : SUBSET STRING, safe : BOOLEAN]
HookType == [preCommit : BOOLEAN, fix : BOOLEAN, stage : STRING, stash : STRING,
             failOnFix : BOOLEAN, report : Effects, readsUntracked : BOOLEAN]
EnvType  == [check : BOOLEAN, fix : BOOLEAN, stage : STRING, stash : STRING, untracked : BOOLEAN,
             checkFirst : BOOLEAN, skipHook : BOOLEAN, failFast : BOOLEAN]
RepoType == [tracked : SUBSET Files, staged : SUBSET Files, unstaged : SUBSET Files,
             untracked : SUBSET Files, named : SUBSET Files, changed : SUBSET Files,
             excluded : SUBSET Files, gone : SUBSET Files]
StepType ==
  [check : Effects, list : Effects, diff : Effects, fix : Effects, same : BOOLEAN,
   checkFirst : BOOLEAN, afterDiff : BOOLEAN, applyDiff : BOOLEAN, focus : BOOLEAN,
   stage : {"default", "jobs", "globs"}, stages : SUBSET Files, cond : Conditions,
   jobCond : Conditions, profile : BOOLEAN, envSet : BOOLEAN, filters : BOOLEAN,
   matches : SUBSET Files, workspace : BOOLEAN, owned : SUBSET Files, batch : BOOLEAN,
   exclusive : BOOLEAN]

SceneOK ==
  /\ opts \in OptsType /\ hook \in HookType /\ env \in EnvType /\ repo \in RepoType
  /\ scene.steps \in [Steps -> StepType] /\ "hook" \notin Steps
  /\ scene.items \in Seq([group : BOOLEAN, steps : SUBSET Steps])
  /\ \A i \in DOMAIN scene.items : scene.items[i].group \/ Cardinality(scene.items[i].steps) = 1
  /\ \A s \in Steps : \E i \in DOMAIN scene.items : s \in scene.items[i].steps
  /\ \A i, j \in DOMAIN scene.items :
       i # j => scene.items[i].steps \cap scene.items[j].steps = {}
  /\ repo.tracked \cap repo.untracked = {}
  /\ repo.unstaged \subseteq (repo.tracked \cup repo.untracked) \ repo.gone

-----------------------------------------------------------------------------
(* What the options, the settings and the hook ask for.                    *)

RunType == IF opts.check THEN "check"
           ELSE IF opts.fix THEN "fix"
           ELSE IF env.fix /\ ~ env.check /\ hook.fix THEN "fix" ELSE "check"
Fixing == RunType = "fix"

(* The first of wishes that is set, or default.                            *)
Said(wishes, default) ==
  LET set == SelectSeq(wishes, LAMBDA w : w # "unset")
  IN IF set = <<>> THEN default ELSE Head(set)

ShouldStage ==
  /\ Said(<<opts.stage, env.stage, hook.stage>>, IF hook.preCommit THEN "yes" ELSE "no") = "yes"
  /\ ~ (hook.failOnFix /\ Fixing)

StashMethod ==
  IF opts.unstaged THEN "none"
  ELSE IF opts.staged THEN IF opts.fromHook THEN Said(<<hook.stash>>, "none") ELSE "none"
  ELSE Said(<<opts.stash, env.stash, hook.stash>>, "none")
Stashes == StashMethod # "none"

Chosen(s) == opts.step = {} \/ s \in opts.step

(* build_all: a step joins the group before it, an exclusive one does not, *)
(* nor does the next (fresh).                                              *)
ChosenOf(item) == {s \in item.steps : Chosen(s)}
Joined(gs, some) == [gs EXCEPT ![Len(gs)] = @ \cup some]
Grouped(b, item) ==
  LET some  == ChosenOf(item)
      alone == \E s \in some : Step(s).exclusive
  IN IF some = {} THEN [b EXCEPT !.fresh = @ \/ item.group]
     ELSE IF item.group THEN [groups |-> Append(b.groups, some), fresh |-> FALSE]
     ELSE [groups |-> IF b.fresh \/ alone THEN Append(b.groups, some)
                      ELSE Joined(b.groups, some),
           fresh  |-> alone]
Building[k \in 0 .. Len(scene.items)] ==
  IF k = 0 THEN [groups |-> <<>>, fresh |-> TRUE] ELSE Grouped(Building[k - 1], scene.items[k])
StepGroups == Building[Len(scene.items)].groups

-----------------------------------------------------------------------------
(* The files.                                                              *)

(* Mutant: a glob is taken to list tracked files only.                     *)
SelectionReadsUntrackedMutant ==
  IF opts.files \/ opts.glob THEN FALSE
  ELSE IF opts.unstaged THEN TRUE
  ELSE IF opts.fromRef THEN FALSE
  ELSE opts.all \/ ~ (opts.staged \/ hook.preCommit)

SelectionReadsUntracked ==
  IF opts.files THEN FALSE
  ELSE IF opts.glob \/ opts.unstaged THEN TRUE
  ELSE IF opts.fromRef THEN FALSE
  ELSE opts.all \/ ~ (opts.staged \/ hook.preCommit)

NeedsUntrackedScan ==
  /\ env.untracked
  /\ Stashes \/ ShouldStage \/ SelectionReadsUntracked \/ hook.readsUntracked

UntrackedSeen(scan) == IF scan THEN repo.untracked ELSE {}

(* Hook::file_list, from a status that lists these untracked files.        *)
FileList(others) ==
  LET listed == repo.tracked \cup IF Stashes THEN {} ELSE others
  IN (IF opts.files THEN repo.named
      ELSE IF opts.glob THEN listed \cap repo.named
      ELSE IF opts.unstaged THEN repo.unstaged \cup others
      ELSE IF opts.fromRef THEN IF opts.deleteRef THEN {} ELSE repo.changed
      ELSE IF opts.all THEN listed
      ELSE IF opts.staged \/ Stashes \/ hook.preCommit THEN repo.staged
      ELSE repo.staged \cup repo.unstaged \cup others)
     \ repo.excluded

HasUnstaged(others) == repo.unstaged # {} \/ (env.untracked /\ others # {})

-----------------------------------------------------------------------------
(* The commands of a step.                                                 *)

CheckCmd(s) == IF Has(s, "check") THEN "check"
               ELSE IF Has(s, "diff") THEN "diff"
               ELSE IF Has(s, "list") THEN "list" ELSE "none"
RunCmd(s)   == IF Fixing /\ Has(s, "fix") THEN "fix" ELSE CheckCmd(s)
FirstCmd(s) == IF Has(s, "diff") THEN "diff"
               ELSE IF Has(s, "list") THEN "list" ELSE CheckCmd(s)

CheckIsFix(s)  == Step(s).same /\ Has(s, "check") /\ Has(s, "fix")
CheckFirst(s)  == Step(s).checkFirst \/ CheckIsFix(s)
AppliesDiff(s) == Has(s, "diff") /\ (Step(s).applyDiff \/ ~ Has(s, "fix"))
Narrows(s)     == Has(s, "list") \/ Has(s, "diff")

(* Mutant: the command a failed check falls back to is forgotten.          *)
CommandsForMutant(s, first) ==
  (IF first THEN {FirstCmd(s)} ELSE {RunCmd(s)}) \ {"none"}

(* commands_for_jobs: what a job can run, a fallback and a recheck too.    *)
CommandsFor(s, first) ==
  ({RunCmd(s)} \cup (IF first THEN {FirstCmd(s)} ELSE {})
               \cup (IF first /\ Fixing /\ Step(s).afterDiff /\ Has(s, "check")
                     THEN {"check"} ELSE {})) \ {"none"}

Vouched(effect) == effect \in {"absent", "read", "write"}

-----------------------------------------------------------------------------
(* The jobs of a step.                                                     *)

Matched(s, fs) == fs \cap Step(s).matches
JobFiles(s, fs) == IF Step(s).workspace THEN Matched(s, fs) \cap Step(s).owned
                   ELSE Matched(s, fs)

(* The reason build_step_jobs has before it looks for jobs.                *)
SkipReason(s, fs) ==
  IF s \in opts.skip THEN "disabled"
  ELSE IF RunCmd(s) = "none" THEN "no command"
  ELSE IF ~ Step(s).envSet THEN "environment"
  ELSE IF Step(s).filters /\ Matched(s, fs) = {} THEN "no files"
  ELSE ""

(* No files make no batch, and no workspace no job.                        *)
HasJob(s, fs) == Step(s).workspace \/ Step(s).batch => JobFiles(s, fs) # {}

ProfileSkips(s) == Step(s).jobCond = "none" /\ ~ Step(s).profile
JobSkip(s, fs)  == IF SkipReason(s, fs) # "" THEN SkipReason(s, fs)
                   ELSE IF ProfileSkips(s) THEN "profile" ELSE ""

FilesInContention(g, fs) ==
  IF Fixing /\ \E s \in g : CheckFirst(s)
  THEN {f \in fs : LET on == {s \in g : f \in Matched(s, fs)}
                   IN Cardinality(on) > 1 /\ \E s \in on : Has(s, "fix")}
  ELSE {}

(* Whether the job builder has the job check first.                        *)
BuiltFirst(s, fs, contended) ==
  \/ Step(s).stage = "jobs" /\ Narrows(s)
  \/ AppliesDiff(s) /\ Fixing
  \/ Step(s).focus /\ ~ Fixing /\ FirstCmd(s) \in {"diff", "list"}
  \/ /\ env.checkFirst /\ Fixing /\ CheckFirst(s)
     /\ Has(s, "fix") \/ Has(s, "diff")
     /\ FirstCmd(s) # "none"
     /\ CheckIsFix(s) \/ JobFiles(s, fs) \cap contended # {}

(* Mutant: only files that another step also fixes are checked first.      *)
ChecksFirstMutant(s, fs, contended) == BuiltFirst(s, fs, contended)

(* run_all_jobs: a hook that stages checks first where it narrows what is  *)
(* staged, or may save the fixer.                                          *)
ChecksFirst(s, fs, contended) ==
  \/ BuiltFirst(s, fs, contended)
  \/ /\ ShouldStage /\ Fixing
     /\ \/ Step(s).stage = "default" /\ Narrows(s) /\ JobFiles(s, fs) \cap unstaged # {}
        \/ ~ AppliesDiff(s) /\ FirstCmd(s) = "diff"

-----------------------------------------------------------------------------
(* Before anything runs: analyze_step for --plan, and the --safe gate.     *)

(* Mutant: the condition of a job is looked at before its files are.       *)
AnalysisMutant(s, fs) ==
  IF Step(s).cond = "false" \/ Step(s).jobCond = "false" THEN "condition"
  ELSE IF SkipReason(s, fs) # "" THEN SkipReason(s, fs)
  ELSE IF ~ Step(s).profile THEN "profile"
  ELSE "included"

Analysis(s, fs) ==
  IF Step(s).cond = "false" THEN "condition"
  ELSE IF SkipReason(s, fs) # "" THEN SkipReason(s, fs)
  ELSE IF HasJob(s, fs) /\ ProfileSkips(s) THEN "profile"
  ELSE IF Step(s).jobCond = "false" THEN "condition"
  ELSE IF Step(s).jobCond # "none" /\ ~ Step(s).profile THEN "profile"
  ELSE "included"

Gate ==
  /\ Vouched(hook.report)
  /\ \A i \in DOMAIN StepGroups : \A s \in StepGroups[i] :
       HasJob(s, files) /\ JobSkip(s, files) = "" =>
         \A c \in CommandsFor(s, BuiltFirst(s, files, FilesInContention(StepGroups[i], files))) :
           Vouched(Step(s)[c])

(* early_exit_steps: with no files, every step is known to have no job.    *)
NothingToDo ==
  /\ files = {}
  /\ \A i \in DOMAIN StepGroups : \A s \in StepGroups[i] :
       /\ Step(s).cond = "none" /\ Step(s).jobCond = "none"
       /\ HasJob(s, files) => JobSkip(s, files) # ""
NoopReason(s) == IF SkipReason(s, {}) = "" /\ ~ HasJob(s, {}) THEN "no files" ELSE JobSkip(s, {})

-----------------------------------------------------------------------------
(* named: what the check named; heard: whether it named anything (yes,     *)
(* nothing), did not start (silent), or was not asked; touched: what goes  *)
(* to staging.                                                             *)
NoJob == [at |-> "waiting", files |-> {}, first |-> FALSE, named |-> {},
          heard |-> "unasked", touched |-> {}]

HookBegin ==
  /\ phase = "start" /\ scanned = FALSE /\ picked = {} /\ files = {}
  /\ unstaged = {} /\ untracked = {}
  /\ exists = (repo.tracked \cup repo.untracked) \ repo.gone
  /\ dirty = repo.unstaged /\ fresh = repo.untracked /\ hashes = <<>>
  /\ group = 0 /\ contention = {} /\ job = <<>>
  /\ skipped = [s \in Steps |-> ""] /\ ran = {} /\ staged = {} /\ result = "ok"
HookInit(s) == scene = s /\ HookBegin

(* A step that is asked for and unknown is an error; no steps, no run.     *)
Setup ==
  /\ phase = "start"
  /\ LET leave == env.skipHook \/ ~ opts.step \subseteq Steps \/ StepGroups = <<>>
         bad   == ~ env.skipHook /\ ~ opts.step \subseteq Steps
     IN /\ phase' = IF leave THEN "ended" ELSE "reading"
        /\ result' = IF bad THEN "failed" ELSE result
  /\ UNCHANGED <<goneBy, treeVars, files, unstaged, group, contention, job, skipped, ran, staged>>

ReadStatus ==
  LET others == UntrackedSeen(NeedsUntrackedScan)
  IN /\ phase = "reading" /\ phase' = "selected"
     /\ scanned' = NeedsUntrackedScan
     /\ picked' = FileList(others) /\ files' = FileList(others)
     /\ untracked' = others /\ unstaged' = repo.unstaged
     /\ UNCHANGED <<scene, treeVars, group, contention, job, skipped, ran, staged, result>>

EarlyExit ==
  /\ phase = "selected" /\ NothingToDo
  /\ phase' = "ended"
  /\ skipped' = [s \in Steps |-> IF Chosen(s) THEN NoopReason(s) ELSE ""]
  /\ UNCHANGED <<goneBy, treeVars, files, unstaged, group, contention, job, ran, staged, result>>

Refuse ==
  /\ phase = "selected" /\ ~ NothingToDo /\ opts.safe /\ ~ Gate
  /\ phase' = "ended" /\ result' = "failed"
  /\ UNCHANGED <<goneBy, treeVars, files, unstaged, group, contention, job, skipped, ran, staged>>

(* Waiting for the stash lock can be cut short; a stash may be skipped, as *)
(* before the first commit.                                                *)
StashAndGo ==
  /\ phase = "selected" /\ ~ NothingToDo /\ (opts.safe => Gate)
  /\ \E outcome \in IF Stashes /\ HasUnstaged(untracked)
                    THEN {"stashed", "skipped", "cancelled"} ELSE {"skipped"} :
       /\ phase' = IF outcome = "cancelled" THEN "ended" ELSE "running"
       /\ result' = IF outcome = "cancelled" THEN "failed" ELSE result
       /\ IF outcome = "stashed"
          THEN LET away == IF env.untracked THEN untracked ELSE {}
               IN /\ unstaged' = unstaged \ (dirty \cup away) /\ dirty' = {}
                  /\ exists' = exists \ away /\ fresh' = fresh \ away
          ELSE UNCHANGED <<unstaged, exists, dirty, fresh>>
       /\ hashes' = [f \in IF hook.failOnFix /\ Fixing THEN files \cap exists' ELSE {} |-> TRUE]
  /\ UNCHANGED <<goneBy, files, group, contention, job, skipped, ran, staged>>

-----------------------------------------------------------------------------
(* The groups, one after the other, and the steps of one.                  *)

GroupDone == \A s \in DOMAIN job : job[s].at = "done"
Stopped   == result = "failed" /\ env.failFast

StartGroup ==
  /\ phase = "running" /\ GroupDone
  /\ group + 1 \in DOMAIN StepGroups /\ ~ Stopped
  /\ group' = group + 1
  /\ contention' = FilesInContention(StepGroups[group'], files)
  /\ job' = [s \in StepGroups[group'] |-> NoJob]
  /\ UNCHANGED <<goneBy, treeVars, phase, files, unstaged, skipped, ran, staged, result>>

At(s, where) == phase = "running" /\ s \in DOMAIN job /\ job[s].at = where
Skip(s, why) == skipped' = [skipped EXCEPT ![s] = why] /\ job' = [job EXCEPT ![s].at = "done"]
Fail(s)      == result' = "failed" /\ job' = [job EXCEPT ![s].at = "done"]
aside        == <<goneBy, phase, unstaged, group, contention>>

(* The condition of the step, and its job.                                 *)
Build(s) ==
  /\ At(s, "waiting") /\ ~ Stopped
  /\ LET fs  == files
         why == IF Step(s).cond = "false" THEN "condition"
                ELSE IF SkipReason(s, fs) # "" THEN SkipReason(s, fs)
                ELSE IF ~ HasJob(s, fs) THEN "no files"
                ELSE JobSkip(s, fs)
     IN \/ Step(s).cond = "error" /\ Fail(s) /\ UNCHANGED skipped
        \/ Step(s).cond # "error" /\ why # "" /\ Skip(s, why) /\ UNCHANGED result
        \/ /\ Step(s).cond # "error" /\ why = ""
           /\ job' = [job EXCEPT ![s] =
                        [NoJob EXCEPT !.at = "ready", !.files = JobFiles(s, fs),
                                      !.first = ChecksFirst(s, fs, contention)]]
           /\ UNCHANGED <<skipped, result>>
  /\ UNCHANGED <<aside, treeVars, files, ran, staged>>

(* Step::run, before its command: the job's condition, the profile, and    *)
(* the files that are still there.                                         *)
Enter(s) ==
  /\ At(s, "ready") /\ ~ Stopped
  /\ LET there == job[s].files \cap exists
         why == IF Step(s).jobCond = "false" THEN "condition"
                ELSE IF ~ Step(s).profile THEN "profile"
                ELSE IF there = {} /\ Step(s).filters THEN "no files" ELSE ""
     IN \/ Step(s).jobCond = "error" /\ Fail(s) /\ UNCHANGED skipped
        \/ Step(s).jobCond # "error" /\ why # "" /\ Skip(s, why) /\ UNCHANGED result
        \/ /\ Step(s).jobCond # "error" /\ why = ""
           /\ job' = [job EXCEPT ![s].at = IF job[s].first THEN "checking" ELSE "working",
                                 ![s].files = there]
           /\ UNCHANGED <<skipped, result>>
  /\ UNCHANGED <<aside, treeVars, files, ran, staged>>

(* What a command does to the worktree, when it writes these files.        *)
Written(w) ==
  /\ exists' = exists \cup w
  /\ fresh' = fresh \cup (w \ (exists \cup repo.tracked))
  /\ dirty' = dirty \cup (w \ fresh')
  /\ hashes' = [f \in DOMAIN hashes |-> hashes[f] /\ f \notin w]

Ran(s, c) == ran' = ran \cup {<<s, c>>}
New       == Files \ exists      \* what a fixer may create

(* A check that is the fixer writes what it fixes.                         *)
CheckWrites(s) == IF CheckIsFix(s) /\ FirstCmd(s) = "check" THEN job[s].files \cup New ELSE {}

(* The check of a job that checks first passes: nothing to fix or stage,   *)
(* unless in a fix run of a step whose check is its fixer, whichever of its *)
(* checks ran.                                                             *)
CheckPasses(s, wrote) ==
  /\ At(s, "checking") /\ Ran(s, FirstCmd(s))
  /\ wrote \subseteq CheckWrites(s) /\ Written(wrote)
  /\ job' = [job EXCEPT ![s].at = IF CheckIsFix(s) /\ Fixing THEN "staging" ELSE "done",
                        ![s].touched = IF CheckIsFix(s) THEN job[s].files ELSE {}]
  /\ UNCHANGED <<aside, files, skipped, staged, result>>

(* It fails, and names the files to fix and, as a patch does, new ones.    *)
(* Nothing named by a patch leaves the job its files; by a list, is an     *)
(* error.                                                                  *)
CheckNames(s, names, made) ==
  /\ At(s, "checking") /\ FirstCmd(s) \in {"diff", "list"} /\ Ran(s, FirstCmd(s))
  /\ names \subseteq job[s].files
  /\ made \subseteq IF FirstCmd(s) = "diff" THEN New ELSE {}
  /\ IF names = {} /\ FirstCmd(s) = "list"
     THEN Fail(s)
     ELSE /\ UNCHANGED result
          /\ job' = [job EXCEPT ![s].at = IF Fixing /\ FirstCmd(s) = "diff" /\ AppliesDiff(s)
                                          THEN "patching" ELSE "working",
                                ![s].files = IF names = {} THEN @ ELSE names,
                                ![s].named = names,
                                ![s].heard = IF names = {} THEN "nothing" ELSE "yes",
                                ![s].touched = IF names \cup made = {} THEN job[s].files
                                               ELSE names \cup made]
  /\ UNCHANGED <<aside, treeVars, files, skipped, staged>>

(* A plain check fails; or any check does not start.                       *)
CheckFails(s, wrote) ==
  /\ At(s, "checking")
  /\ \/ /\ FirstCmd(s) = "check" /\ Ran(s, "check")
        /\ wrote \subseteq CheckWrites(s) /\ Written(wrote)
     \/ wrote = {} /\ UNCHANGED <<ran, treeVars>>
  /\ job' = [job EXCEPT ![s].at = "working", ![s].heard = "silent"]
  /\ UNCHANGED <<aside, files, skipped, staged, result>>

(* The patch is applied, and maybe checked; or it is not, and the fixer    *)
(* runs; or it leaves files damaged.                                       *)
Patch(s) ==
  /\ At(s, "patching")
  /\ \/ /\ Written(job[s].touched)
        /\ job' = [job EXCEPT ![s].at = IF Step(s).afterDiff THEN "rechecking" ELSE "staging"]
        /\ UNCHANGED result
     \/ job' = [job EXCEPT ![s].at = "working"] /\ UNCHANGED <<treeVars, result>>
     \/ Fail(s) /\ Written(job[s].touched)
  /\ UNCHANGED <<aside, files, skipped, ran, staged>>

Recheck(s) ==
  /\ At(s, "rechecking") /\ Ran(s, CheckCmd(s))
  /\ \/ job' = [job EXCEPT ![s].at = "staging"] /\ UNCHANGED result
     \/ Fail(s)
  /\ UNCHANGED <<aside, treeVars, files, skipped, staged>>

(* The command of the run: a fixer changes files of its job, or makes new  *)
(* ones.  A check that was narrowed to the failing files never passes.     *)
Work(s, wrote) ==
  LET c == RunCmd(s)
  IN /\ At(s, "working") /\ Ran(s, c)
     /\ wrote \subseteq IF c = "fix" THEN job[s].files \cup New ELSE {}
     /\ Written(wrote)
     /\ \/ /\ ~ (Step(s).focus /\ ~ Fixing /\ job[s].heard \in {"yes", "nothing"})
           /\ job' = [job EXCEPT ![s].at = IF Fixing THEN "staging" ELSE "done",
                                 ![s].touched = job[s].files]
           /\ UNCHANGED result
        \/ Fail(s)
     /\ UNCHANGED <<aside, files, skipped, staged>>

(* What stage_files finds to add, of what git says is unstaged or new.     *)
ToStage(s) ==
  LET new == IF env.untracked THEN fresh ELSE {}
  IN IF ~ ShouldStage \/ job[s].touched = {} THEN {}
     ELSE IF Step(s).stage = "globs" THEN Step(s).stages \cap (dirty \cup new)
     ELSE IF Step(s).stage = "jobs" \/ Has(s, "fix") \/ Has(s, "diff")
          THEN job[s].touched \cap (dirty \cup (new \ untracked)) ELSE {}

Stage(s) ==
  LET add == ToStage(s)
  IN /\ At(s, "staging")
     /\ staged' = staged \cup ({s} \X add)
     /\ files' = files \cup add
     /\ dirty' = dirty \ add /\ fresh' = fresh \ add
     /\ job' = [job EXCEPT ![s].at = "done"]
     /\ UNCHANGED <<aside, exists, hashes, skipped, ran, result>>

(* A failure stops what has not started yet, with --fail-fast.             *)
Abort(s) ==
  /\ Stopped
  /\ At(s, "waiting") \/ At(s, "ready")
  /\ job' = [job EXCEPT ![s].at = "done"]
  /\ UNCHANGED <<aside, treeVars, files, skipped, ran, staged, result>>

(* fail_on_fix, the stash put back (which may fail), and the report.       *)
Finish ==
  /\ phase = "running" /\ GroupDone
  /\ group = Len(StepGroups) \/ Stopped
  /\ phase' = "ended"
  /\ \/ result' = IF \E f \in DOMAIN hashes : ~ hashes[f] THEN "failed" ELSE result
     \/ Stashes /\ result' = "failed"
  /\ ran' = ran \cup IF hook.report = "absent" THEN {} ELSE {<<"hook", "report">>}
  /\ UNCHANGED <<goneBy, treeVars, files, unstaged, group, contention, job, skipped, staged>>

StepActs(s) ==
  \/ Build(s) \/ Enter(s) \/ Patch(s) \/ Recheck(s) \/ Stage(s) \/ Abort(s)
  \/ \E names \in SUBSET job[s].files, made \in SUBSET New : CheckNames(s, names, made)
  \/ \E wrote \in SUBSET (job[s].files \cup New) :
       CheckPasses(s, wrote) \/ CheckFails(s, wrote) \/ Work(s, wrote)

HookNext == \/ Setup \/ ReadStatus \/ EarlyExit \/ Refuse \/ StashAndGo
            \/ StartGroup \/ Finish
            \/ \E s \in DOMAIN job : StepActs(s)

HookSpec == SceneOK /\ HookBegin /\ [][HookNext]_hookVars

-----------------------------------------------------------------------------
(* A run that did not look for untracked files selects the files it would  *)
(* select had it looked, stashes when it would stash, and stages and       *)
(* evaluates conditions as it would (hook.rs:738-743).                     *)
NothingMissed ==
  phase = "selected" =>
    LET others == UntrackedSeen(env.untracked)
    IN /\ picked = FileList(others)
       /\ Stashes => (HasUnstaged(untracked) <=> HasUnstaged(others))
       /\ ShouldStage \/ hook.readsUntracked => untracked = others

(* --plan and the run agree on which steps are skipped, and why, as long   *)
(* as the run works on the files the plan saw: a step the plan skips is    *)
(* skipped for the reason given and runs nothing; one it includes, and     *)
(* that has a job whose files git tracks and the worktree has, is not      *)
(* skipped; and a hook that ends early gives the plan's reasons            *)
(* (hook.rs:881-884, 2402-2407).                                           *)
NeverHasJob(s) == SkipReason(s, picked) = "" /\ ~ HasJob(s, picked)
PlanTellsTheRun ==
  /\ \A s \in DOMAIN job :
       job[s].at = "done" /\ files = picked /\ ~ Stopped /\ ~ NeverHasJob(s) =>
         LET told == Analysis(s, picked)
         IN IF Step(s).cond = "error" \/ (told # "condition" /\ Step(s).jobCond = "error")
            THEN skipped[s] \in {"", told}
            ELSE IF told # "included"
            THEN skipped[s] = told /\ \A c \in ran : c[1] # s
            ELSE HasJob(s, picked) /\ JobFiles(s, picked) \subseteq repo.tracked \ repo.gone =>
                   skipped[s] = ""
  /\ phase = "ended" /\ files = {} /\ group = 0 /\ result = "ok" =>
       \A s \in Steps : skipped[s] # "" => skipped[s] = Analysis(s, {}) \/ NeverHasJob(s)

(* With --safe, a command of unknown or destructive effect never runs,     *)
(* unless the hook stages what its steps fix (hook.rs:2303-2350).          *)
SafeUnlessStaging ==
  opts.safe /\ ~ ShouldStage =>
    \A c \in ran : Vouched(IF c[1] = "hook" THEN hook.report ELSE Step(c[1])[c[2]])

(* A step that can tell which files it would change, and stages by         *)
(* default, stages no file the user had left unstaged but those its check  *)
(* told it of (execution.rs:252-256).                                      *)
UsersOwn(s, f) == f \in unstaged /\ Step(s).stage = "default" /\ Narrows(s)
OnlyToldIsStaged ==
  \A c \in staged :
    c[1] \in DOMAIN job /\ UsersOwn(c[1], c[2]) => c[2] \in job[c[1]].named

(* The same, of a step whose check could be run, and named a file, unless  *)
(* its check is its fixer.                                                 *)
OnlyNamedIsStaged ==
  \A c \in staged :
    c[1] \in DOMAIN job /\ UsersOwn(c[1], c[2]) =>
      \/ c[2] \in job[c[1]].named
      \/ job[c[1]].heard \in {"nothing", "silent"} \/ CheckIsFix(c[1])
=============================================================================
