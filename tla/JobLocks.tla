------------------------------ MODULE JobLocks -------------------------------
(***************************************************************************)
(* How the jobs of a hook run share what there is to share: the file locks *)
(* (as FileLocks promises them), the job slots, the access to the working  *)
(* tree that applying a patch takes alone (diff_lock) and git's mutex.     *)
(* A job runs one command or checks first: its check prints a patch under  *)
(* read locks, the job trades them for write locks, compares write counts  *)
(* to find out whether the patch is stale, and applies it, diffs again or  *)
(* runs its fixer.  A job that changed files then stages them.             *)
(* Left out: stomp jobs, which lock nothing, and what a command prints.    *)
(***************************************************************************)
EXTENDS Integers, Sequences, FiniteSets

CONSTANTS Files,       (* the files of the run *)
          Jobs,        (* its jobs *)
          MaxRetries,  (* how often a job diffs again before it runs its fixer *)
          Setups       (* the runs to consider *)

(* "diff" declares its check_diff read-only, "wdiff" does not, and "none"  *)
(* is not a job of the run.  The first job of a step comes with the step's *)
(* slot, the others without one.                                           *)
Kinds    == {"none", "check", "fix", "diff", "wdiff"}
Rechecks == {"none", "read", "write"}
Setting  == [kind : Kinds, input : SUBSET Files, recheck : Rechecks, first : BOOLEAN]
(* A run: its jobs, how many run at a time, and whether it is cancelled.   *)
Run      == [jobs : [Jobs -> Setting], slots : Nat \ {0}, cancels : BOOLEAN]

ASSUME JobsOK == /\ IsFiniteSet(Jobs)
                 /\ MaxRetries \in Nat
                 /\ Setups \subseteq Run

VARIABLES
  setup,      (* the run: its jobs' kinds, files and rechecks, its slots *)
  pc,         (* job -> where it is *)
  job,        (* job -> what it remembers *)
  slots,      (* the jobs that hold a slot *)
  guard,      (* job -> its access to the working tree: none, read or write *)
  line,       (* the jobs waiting for that access, first come first served *)
  git,        (* the jobs that hold git's mutex: one or none *)
  phase,      (* job -> out of, waiting for or holding file locks *)
  want,       (* job -> the file locks it waits for or holds *)
  since,      (* job -> write locks released on each file since it noted counts *)
  cancelled,  (* whether the run was cancelled *)
  stale,      (* job -> its files others wrote under locks since its check began *)
  strayed     (* job -> its files a patch wrote without locks on them since then *)

vars == <<setup, pc, job, slots, guard, line, git, phase, want, since, cancelled,
          stale, strayed>>
lockVars  == <<phase, want, since>>
otherVars == <<slots, guard, line, git>>
history   == <<stale, strayed>>

Locks == INSTANCE FileLocks

PCs == {"start", "ready", "try", "files", "guard", "run", "compare", "patch", "apply",
        "racy", "racy_again", "stage_files", "stage_guard", "stage_git", "status", "queued", "add",
        "done"}

(* A patch: the job's files it changes, the files it creates and the files *)
(* outside the job it changes.                                             *)
Patches == [files : SUBSET Files, created : SUBSET Files, other : SUBSET Files]
NoPatch == [files |-> {}, created |-> {}, other |-> {}]

Of(j)    == setup.jobs[j]
Input(j) == Of(j).input
Patch(j) == job[j].patch
(* The files left to a fixer once a check has run.                         *)
Target(j) == IF Patch(j).files = {} THEN Input(j) ELSE Patch(j).files
(* Every file the job's patch writes, and the files a job has to stage.    *)
Patched(j) == Patch(j).files \cup Patch(j).created \cup Patch(j).other
Changed(j) == IF Patch(j).created = {} THEN Target(j)
              ELSE Patch(j).files \cup Patch(j).created

NoRequest == [mode |-> "read", files |-> {}]
NoCounts  == [f \in Files |-> 0]

FirstRound(kind) == CASE kind = "check" -> "check"
                      [] kind = "fix"   -> "fix"
                      [] OTHER          -> "diff"

(* A job as its step makes it.                                             *)
Fresh(j) == [round       |-> FirstRound(Of(j).kind),  (* what it runs next *)
             then        |-> "run",                      (* and does with locks *)
             needs_write |-> Of(j).kind = "wdiff",
             under_read  |-> FALSE,
             retries     |-> 0,
             patch       |-> NoPatch,
             stage       |-> {}]                         (* files to lock to stage *)

(* A job that runs nothing any more, with files it has yet to stage.       *)
Over(S) == [round |-> "over", then |-> "run", needs_write |-> FALSE, under_read |-> FALSE,
            retries |-> 0, patch |-> NoPatch, stage |-> S]

Init ==
  /\ setup \in Setups
  /\ pc    = [j \in Jobs |-> IF Of(j).kind = "none" THEN "done" ELSE "start"]
  /\ job   = [j \in Jobs |-> Fresh(j)]
  /\ slots = {} /\ line = <<>> /\ git = {}
  /\ guard = [j \in Jobs |-> "none"]
  /\ phase = [j \in Jobs |-> "out"]
  /\ want  = [j \in Jobs |-> NoRequest]
  /\ since = [j \in Jobs |-> NoCounts]
  /\ cancelled = FALSE
  /\ stale   = [j \in Jobs |-> {}]
  /\ strayed = [j \in Jobs |-> {}]

-----------------------------------------------------------------------------
Goto(j, l) == pc' = [pc EXCEPT ![j] = l]

(* Job j gives its file locks back, or leaves the queue for them.  Jobs    *)
(* that noted the write counts, j itself included, can tell (job' is set). *)
Unlock(j) ==
  LET W == IF phase[j] = "holding" /\ want[j].mode = "write" THEN want[j].files ELSE {}
  IN /\ IF phase[j] = "out"
        THEN UNCHANGED <<phase, want>>
        ELSE want' = [want EXCEPT ![j] = NoRequest] /\ Locks!Leave(j) /\ Locks!Settled
     /\ since' = [i \in Jobs |->
          IF job'[i].then # "compare" THEN NoCounts
          ELSE [f \in Files |-> IF f \in W THEN since[i][f] + 1 ELSE since[i][f]]]

(* Job j leaves the line, if it stands in it.                              *)
LeaveLine(j) ==
  \/ \E n \in 1..Len(line) : /\ line[n] = j
                             /\ line' = SubSeq(line, 1, n - 1) \o SubSeq(line, n + 1, Len(line))
  \/ (\A n \in 1..Len(line) : line[n] # j) /\ UNCHANGED line

(* Job j drops everything it holds or waits for.                           *)
DropAll(j) ==
  /\ Unlock(j)
  /\ slots' = slots \ {j}
  /\ guard' = [guard EXCEPT ![j] = "none"]
  /\ LeaveLine(j)
  /\ git'   = git \ {j}

End(j) == /\ job' = [job EXCEPT ![j] = Over({})]
          /\ DropAll(j)
          /\ Goto(j, "done")

(* Whether job i, after this step, has a check running or a patch of one.  *)
Checked(i) == job'[i].round = "diff" /\ \/ pc'[i] \in {"run", "patch", "apply"}
                                        \/ job'[i].then = "compare"

(* Job j wrote the files in W; on some of them it may hold no locks.       *)
NoteWrites(j, W) ==
  LET hit(old, F) == [i \in Jobs |-> CASE ~Checked(i)          -> {}
                                       [] Checked(i) /\ i = j -> old[i]
                                       [] Checked(i) /\ i # j -> old[i] \cup (F \cap Input(i))]
  IN /\ stale'   = hit(stale, W \cap want[j].files)
     /\ strayed' = hit(strayed, W \ want[j].files)

(* A command with write locks may have written all of its files.           *)
CommandWrote(j) == NoteWrites(j, IF want[j].mode = "write" THEN want[j].files ELSE {})

-----------------------------------------------------------------------------
Start(j) ==
  /\ pc[j] = "start"
  /\ Of(j).first => Cardinality(slots) < setup.slots
  /\ slots' = IF Of(j).first THEN slots \cup {j} ELSE slots
  /\ Goto(j, "ready")
  /\ UNCHANGED <<setup, job, guard, line, git, lockVars, cancelled, history>>

(* Step::run: every command starts with fresh locks, and with a slot that  *)
(* did not come with the locks before; a cancelled run starts no command.  *)
Ready(j) ==
  /\ pc[j] = "ready"
  /\ ~cancelled
  /\ job' = [job EXCEPT ![j].then = "run"]
  /\ IF phase[j] = "out" THEN UNCHANGED <<otherVars, lockVars>> ELSE DropAll(j)
  /\ Goto(j, "try")
  /\ UNCHANGED <<setup, cancelled, history>>

CancelledReady(j) ==
  /\ pc[j] = "ready"
  /\ cancelled
  /\ End(j)
  /\ UNCHANGED <<setup, cancelled, history>>

(* takes_write_locks, for the command of this round.                       *)
Mode(j) == CASE job[j].round = "check"   -> "read"
             [] job[j].round = "recheck" -> Of(j).recheck
             [] job[j].round = "diff"    -> IF job[j].needs_write THEN "write" ELSE "read"
             [] OTHER                    -> "write"

Wanted(j) ==
  CASE job[j].then = "compare" -> [mode |-> "write", files |-> Input(j) \cup Patch(j).created]
    [] job[j].then = "again"   -> [mode |-> "write", files |-> Input(j)]
    [] OTHER -> [mode  |-> Mode(j),
                 files |-> IF job[j].round = "fix" THEN Target(j) ELSE Input(j)]

(* take_locks: the locks at once, or the slot is given up to wait for them. *)
TryFiles(j) ==
  /\ pc[j] = "try"
  /\ Locks!AskFor(j, Wanted(j)) /\ Locks!Settled
  /\ slots' = IF phase'[j] = "waiting" THEN slots \ {j} ELSE slots
  /\ Goto(j, "files")
  /\ UNCHANGED <<setup, job, guard, line, git, since, cancelled, history>>

(* Locks in hand, a job without a slot takes one, then stands in line.     *)
TakeSlot(j) ==
  /\ pc[j] = "files" /\ phase[j] = "holding"
  /\ j \in slots \/ Cardinality(slots) < setup.slots
  /\ slots' = slots \cup {j}
  /\ line'  = Append(line, j)
  /\ Goto(j, "guard")
  /\ UNCHANGED <<setup, job, guard, git, lockVars, cancelled, history>>

(* tokio's RwLock: the first in line gets in when it may.                  *)
MayEnter(j) == IF pc[j] = "patch" THEN \A i \in Jobs : guard[i] = "none"
                                  ELSE \A i \in Jobs : guard[i] # "write"

Landing(j) == CASE pc[j] = "patch"       -> "apply"
                [] pc[j] = "stage_guard" -> "stage_git"
                [] pc[j] = "guard"       -> IF job[j].then = "again" THEN "ready" ELSE job[j].then

(* Mutant of Enter: a patch shares the tree like any command.              *)
EnterMutant(j) ==
  /\ line # <<>> /\ Head(line) = j
  /\ \A i \in Jobs : guard[i] # "write"
  /\ line'  = Tail(line)
  /\ guard' = [guard EXCEPT ![j] = "read"]
  /\ Goto(j, Landing(j))
  /\ IF Landing(j) = "run" /\ job[j].round = "diff"
     THEN stale' = [stale EXCEPT ![j] = {}] /\ strayed' = [strayed EXCEPT ![j] = {}]
     ELSE UNCHANGED history
  /\ UNCHANGED <<setup, job, slots, git, lockVars, cancelled>>

Enter(j) ==
  /\ line # <<>> /\ Head(line) = j
  /\ MayEnter(j)
  /\ line'  = Tail(line)
  /\ guard' = [guard EXCEPT ![j] = IF pc[j] = "patch" THEN "write" ELSE "read"]
  /\ Goto(j, Landing(j))
  /\ IF Landing(j) = "run" /\ job[j].round = "diff"
     THEN stale' = [stale EXCEPT ![j] = {}] /\ strayed' = [strayed EXCEPT ![j] = {}]
     ELSE UNCHANGED history
  /\ UNCHANGED <<setup, job, slots, git, lockVars, cancelled>>

-----------------------------------------------------------------------------
(* The job ends without files to stage, or goes on to stage them.          *)
Succeed(j) ==
  IF job[j].round \in {"fix", "recheck"} \/ pc[j] = "apply"
  THEN /\ job' = [job EXCEPT ![j] = Over(Changed(j))]
       /\ DropAll(j)
       /\ Goto(j, "racy")
  ELSE End(j)

(* The fixer gets the files the check left it, and nothing else.           *)
RunFixer(j) ==
  /\ job' = [job EXCEPT ![j] = [Over({}) EXCEPT !.round = "fix",
                                                !.patch = [NoPatch EXCEPT !.files = Patch(j).files]]]
  /\ guard' = [guard EXCEPT ![j] = IF @ = "write" THEN "none" ELSE @]
  /\ Goto(j, "ready")
  /\ UNCHANGED <<setup, slots, line, git, lockVars, cancelled>>

(* None of the job's files exists any more: nothing is run.                *)
NothingLeft(j) ==
  /\ pc[j] = "run"
  /\ IF job[j].round = "recheck" THEN Succeed(j) ELSE End(j)
  /\ NoteWrites(j, {})
  /\ UNCHANGED <<setup, cancelled>>

CommandPasses(j) ==
  /\ pc[j] = "run"
  /\ Succeed(j)
  /\ CommandWrote(j)
  /\ UNCHANGED <<setup, cancelled>>

CommandFails(j) ==
  /\ pc[j] = "run" /\ job[j].round # "diff"
  /\ End(j)
  /\ CommandWrote(j)
  /\ UNCHANGED <<setup, cancelled>>

(* A failed check that came first leaves the job to the fixer.             *)
CheckFails(j) ==
  /\ pc[j] = "run" /\ job[j].round = "diff"
  /\ RunFixer(j)
  /\ CommandWrote(j)

(* relock_for_write: the locks go, the slot stays.                         *)
Relock(j) ==
  /\ Unlock(j)
  /\ guard' = [guard EXCEPT ![j] = "none"]
  /\ Goto(j, "try")
  /\ UNCHANGED <<setup, slots, line, git, cancelled>>

(* Mutant of StandInLine: the command's access is kept while in line.      *)
StandInLineMutant(j) ==
  /\ line' = Append(line, j)
  /\ Goto(j, "patch")
  /\ UNCHANGED <<setup, slots, guard, git, lockVars, cancelled>>

(* lock_diff: leave the command's access and stand in line to be alone.    *)
StandInLine(j) ==
  /\ guard' = [guard EXCEPT ![j] = "none"]
  /\ line'  = Append(line, j)
  /\ Goto(j, "patch")
  /\ UNCHANGED <<setup, slots, git, lockVars, cancelled>>

IsPatchOf(p, j) == /\ p.files \subseteq Input(j)
                   /\ p.created \cap Input(j) = {}
                   /\ p.other \cap (Input(j) \cup p.created) = {}

(* check_diff printed patch p.  One made under read locks, or that creates *)
(* files, needs locks the job does not have: the job notes write counts.   *)
CheckPrints(j, p) ==
  /\ pc[j] = "run" /\ job[j].round = "diff"
  /\ IsPatchOf(p, j)
  /\ IF ~job[j].needs_write \/ p.created # {}
     THEN /\ job' = [job EXCEPT ![j].patch = p, ![j].then = "compare", ![j].needs_write = TRUE,
                                ![j].under_read = ~job[j].needs_write]
          /\ Relock(j)
     ELSE /\ job' = [job EXCEPT ![j].patch = p]
          /\ StandInLine(j)
  /\ CommandWrote(j)

(* Mutant of WrittenMeanwhile: an own release is allowed for always.       *)
WrittenMeanwhileMutant(j) ==
  \E f \in Input(j) \cup Patch(j).created : since[j][f] > 1

(* Whether another writer had the patch's files since the job noted their  *)
(* counts: its own release of write locks counts once.                     *)
WrittenMeanwhile(j) ==
  \E f \in Input(j) \cup Patch(j).created :
    since[j][f] # IF ~job[j].under_read /\ f \in Input(j) THEN 1 ELSE 0

MustDiffAgain(j) == \/ job[j].under_read /\ Patch(j).other # {}
                    \/ WrittenMeanwhile(j)

(* A created file that turns out to exist is a reason to diff again too.   *)
MayDiffAgain(j) == MustDiffAgain(j) \/ Patch(j).created # {}

DiffAgain(j) ==
  /\ pc[j] = "compare"
  /\ MayDiffAgain(j) /\ job[j].retries < MaxRetries
  /\ job' = [job EXCEPT ![j].then = "again", ![j].retries = @ + 1, ![j].patch = NoPatch,
                        ![j].under_read = FALSE]
  /\ Relock(j)
  /\ NoteWrites(j, {})

GiveUpDiffing(j) ==
  /\ pc[j] = "compare"
  /\ MayDiffAgain(j) /\ job[j].retries = MaxRetries
  /\ RunFixer(j)
  /\ NoteWrites(j, {})

LockDiff(j) ==
  /\ pc[j] = "compare"
  /\ ~MustDiffAgain(j)
  /\ StandInLine(j)
  /\ UNCHANGED <<job, history>>

Applied(j) ==
  /\ pc[j] = "apply"
  /\ IF Of(j).recheck = "none" THEN Succeed(j)
     ELSE /\ job' = [job EXCEPT ![j].round = "recheck"]
          /\ guard' = [guard EXCEPT ![j] = "none"]
          /\ Goto(j, "ready")
          /\ UNCHANGED <<slots, line, git, lockVars>>
  /\ NoteWrites(j, Patched(j))
  /\ UNCHANGED <<setup, cancelled>>

(* The patch does not apply and changed nothing: the fixer runs.           *)
Rejected(j) ==
  /\ pc[j] = "apply"
  /\ RunFixer(j)
  /\ NoteWrites(j, {})

(* Files could not be put back after the patch failed: the job stops.      *)
Damaged(j) ==
  /\ pc[j] = "apply"
  /\ End(j)
  /\ NoteWrites(j, Patched(j))
  /\ UNCHANGED <<setup, cancelled>>

-----------------------------------------------------------------------------
(* stage_files: under git's mutex, list the files git will read besides    *)
(* those to stage, then ask for read locks on them all.                    *)
AskToStage(j) ==
  /\ \E R \in SUBSET Files :
       /\ \/ pc[j] = "racy" /\ git = {}
          \/ pc[j] = "racy_again" /\ R = {}
       /\ Locks!AskFor(j, [mode |-> "read", files |-> job[j].stage \cup R])
  /\ Locks!Settled
  /\ Goto(j, "stage_files")
  /\ UNCHANGED <<setup, job, otherVars, since, cancelled, history>>

(* Mutant of StageInLine: staging does not wait for patches.               *)
StageInLineMutant(j) ==
  /\ pc[j] = "stage_files" /\ phase[j] = "holding"
  /\ Goto(j, "stage_git")
  /\ UNCHANGED <<setup, job, otherVars, lockVars, cancelled, history>>

StageInLine(j) ==
  /\ pc[j] = "stage_files" /\ phase[j] = "holding"
  /\ line' = Append(line, j)
  /\ Goto(j, "stage_guard")
  /\ UNCHANGED <<setup, job, slots, guard, git, lockVars, cancelled, history>>

TakeGit(j) ==
  /\ pc[j] \in {"stage_git", "queued"} /\ git = {}
  /\ git' = {j}
  /\ Goto(j, IF pc[j] = "queued" THEN "add" ELSE "status")
  /\ UNCHANGED <<setup, job, slots, guard, line, lockVars, cancelled, history>>

(* More files turn out to be read by git: all guards go before new locks.  *)
LockMore(j) ==
  /\ pc[j] = "status"
  /\ \E R \in SUBSET (Files \ want[j].files) \ {{}} :
       job' = [job EXCEPT ![j].stage = want[j].files \cup R]
  /\ DropAll(j)
  /\ Goto(j, "racy_again")
  /\ UNCHANGED <<setup, cancelled, history>>

(* The status is read and the files queued; git's mutex goes round once.   *)
QueueFiles(j) ==
  /\ pc[j] = "status"
  /\ git' = {}
  /\ Goto(j, "queued")
  /\ UNCHANGED <<setup, job, slots, guard, line, lockVars, cancelled, history>>

(* The add ends, or another job's add had these files, or none was left.   *)
Staged(j) ==
  /\ \/ pc[j] \in {"status", "add"}
     \/ pc[j] = "queued" /\ git = {}
  /\ End(j)
  /\ UNCHANGED <<setup, cancelled, history>>

-----------------------------------------------------------------------------
(* Ctrl-C or a failed step cancels the run; after a grace period, its jobs *)
(* are aborted wherever they wait.                                         *)
Cancel ==
  /\ setup.cancels /\ ~cancelled
  /\ cancelled' = TRUE
  /\ UNCHANGED <<setup, pc, job, otherVars, lockVars, history>>

Abort(j) ==
  /\ cancelled
  /\ pc[j] \notin {"apply", "status", "add", "done"}
  /\ End(j)
  /\ IF pc[j] = "run" THEN CommandWrote(j) ELSE NoteWrites(j, {})
  /\ UNCHANGED <<setup, cancelled>>

Finished == (\A j \in Jobs : pc[j] = "done") /\ UNCHANGED vars

(* What the runtime, the commands and git make job j do next.              *)
Advance(j) ==
  \/ Start(j) \/ Ready(j) \/ CancelledReady(j) \/ TryFiles(j) \/ TakeSlot(j) \/ Enter(j)
  \/ NothingLeft(j) \/ CommandPasses(j) \/ CommandFails(j) \/ CheckFails(j)
  \/ \E p \in Patches : CheckPrints(j, p)
  \/ DiffAgain(j) \/ GiveUpDiffing(j) \/ LockDiff(j)
  \/ Applied(j) \/ Rejected(j) \/ Damaged(j)
  \/ AskToStage(j) \/ StageInLine(j) \/ TakeGit(j)
  \/ LockMore(j) \/ QueueFiles(j) \/ Staged(j)

Next == \/ \E j \in Jobs : Advance(j) \/ Abort(j)
        \/ Cancel
        \/ Finished

Spec     == Init /\ [][Next]_vars
(* Some job that can go on does.                                           *)
FairSpec == Spec /\ WF_vars(\E j \in Jobs : Advance(j))

-----------------------------------------------------------------------------
JobStates == [round       : {"check", "fix", "diff", "recheck", "over"},
              then        : {"run", "compare", "again"},
              needs_write : BOOLEAN,
              under_read  : BOOLEAN,
              retries     : 0..MaxRetries,
              patch       : Patches,
              stage       : SUBSET Files]

(* Every variable stays in its range: the only invariant about types.      *)
TypeOK ==
  /\ setup \in Setups
  /\ pc    \in [Jobs -> PCs]
  /\ job   \in [Jobs -> JobStates]
  /\ slots \in SUBSET Jobs /\ Cardinality(slots) <= setup.slots
  /\ guard \in [Jobs -> {"none", "read", "write"}]
  /\ line  \in Seq(Jobs)
  /\ git   \in SUBSET Jobs
  /\ phase \in [Jobs -> Locks!Phases]
  /\ want  \in [Jobs -> Locks!Requests]
  /\ since \in [Jobs -> [Files -> Nat]]
  /\ cancelled \in BOOLEAN
  /\ stale   \in [Jobs -> SUBSET Files]
  /\ strayed \in [Jobs -> SUBSET Files]

(* While a patch is applied or rolled back no command runs, no job stages  *)
(* and no other patch is applied (step_job.rs:240-241).                    *)
InTheTree == {"run", "compare", "apply", "stage_git", "status", "queued", "add"}
PatchAlone ==
  \A i, j \in Jobs : pc[i] = "apply" /\ pc[j] \in InTheTree => i = j

(* A patch is only applied to what its check read: no job that locks what  *)
(* it writes has written one of the job's files since (execution.rs:340).  *)
PatchFresh == \A j \in Jobs : pc[j] = "apply" => stale[j] = {}

(* "A patch computed under read locks goes stale if another step writes    *)
(* its files before this one can lock them for writing; check_diff then    *)
(* runs again" (execution.rs:340-342), whichever step writes and however.  *)
PatchNeverStale == \A j \in Jobs : pc[j] = "apply" => stale[j] \cup strayed[j] = {}

(* What job j may be writing now, and what it or its git may be reading.   *)
Writing(j) == CASE pc[j] = "apply" -> Patched(j)
                [] pc[j] = "run" /\ want[j].mode = "write" -> want[j].files
                [] OTHER -> {}
Reading(j) == IF pc[j] \in {"run", "status", "add"} THEN want[j].files ELSE {}

(* Nothing reads or writes a file while another job writes it, git's own   *)
(* reads of files it was not told to add included (execution.rs:822-839).  *)
NoTornReads ==
  \A i, j \in Jobs : i # j => Writing(i) \cap (Reading(j) \cup Writing(j)) = {}

(* Every job of a run ends, however the jobs' files overlap.               *)
EveryJobEnds == <>(\A j \in Jobs : pc[j] = "done")
=============================================================================
