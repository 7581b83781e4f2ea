------------------------------- MODULE Staging -------------------------------
(***************************************************************************)
(* How the steps of a hook run stage what they fixed (Step::stage_files)   *)
(* through one shared `git add` (StageQueue).  A step locks the files it   *)
(* will stage and those git re-hashes when it writes the index (the racily *)
(* clean ones), checks under git's mutex that there are no more of these,  *)
(* queues its files and lets the mutex go round once; whoever gets it back *)
(* first adds the files of everyone.  Sections under git's mutex that no   *)
(* one can see half done are one step; the add itself takes its time while *)
(* other steps go on fixing files.                                         *)
(***************************************************************************)
EXTENDS Integers, Sequences, FiniteSets

CONSTANTS Fixers,   (* the steps of a group *)
          Fixable,   (* the files of the run *)
          Fixes,   (* the runs to consider: step -> the files its fixer changes *)
          Cancels  (* whether the run may be cancelled *)

ASSUME StagingOK == /\ IsFiniteSet(Fixers)
                    /\ Fixes \subseteq [Fixers -> (SUBSET Fixable) \ {{}}]
                    /\ Cancels \in BOOLEAN

VARIABLES
  mine,       (* step -> the files its fixer changes *)
  at,         (* step -> where it is *)
  need,       (* step -> the files it will ask read locks on *)
  held,       (* step -> the files it holds read locks on *)
  cell,       (* step -> the result cell it shares *)
  paths,      (* the queue: files no add has taken yet *)
  results,    (* the result of every batch; the last is the one that queues *)
  batch,      (* the files of the add that runs *)
  reads,      (* the files that add reads: the batch and the racy entries *)
  racy,       (* the racily clean entries of the index *)
  dirty,      (* the files that differ from the index *)
  cancelled   (* whether the run was cancelled *)

stageVars == <<mine, at, need, held, cell, paths, results, batch, reads, racy, dirty, cancelled>>
queueVars == <<paths, results>>
gitVars   == <<batch, reads, racy>>

Stages == {"fix", "fixing", "list", "lock", "git", "queued", "adding", "done", "failed", "aborted"}

Outcomes == {"none", "ok", "error"}

Fixing(f)  == \E s \in Fixers : at[s] = "fixing" /\ f \in mine[s]
MutexFree  == \A s \in Fixers : at[s] # "adding"
Goto(s, l) == at' = [at EXCEPT ![s] = l]
Unlock(s)  == held' = [held EXCEPT ![s] = {}]

StageBegin(stage) ==
  /\ at   = [s \in Fixers |-> stage]
  /\ need = [s \in Fixers |-> {}]
  /\ held = [s \in Fixers |-> {}]
  /\ cell = [s \in Fixers |-> 1]
  /\ paths = {} /\ results = <<"none">>
  /\ batch = {} /\ reads = {}
  /\ dirty = {}
  /\ cancelled = FALSE

StageInit == mine \in Fixes /\ racy \in SUBSET Fixable /\ StageBegin("fix")

(* No step has anything to stage, for a module that has more to check.     *)
NoFixes   == [s \in Fixers |-> {}]
StageIdle == mine = NoFixes /\ racy = {} /\ StageBegin("done")

-----------------------------------------------------------------------------
(* The step's fixer gets its write locks and runs.                         *)
BeginFix(s) ==
  /\ at[s] = "fix" /\ ~cancelled
  /\ \A f \in mine[s] : ~Fixing(f) /\ \A t \in Fixers : f \notin held[t]
  /\ Goto(s, "fixing")
  /\ UNCHANGED <<mine, need, held, cell, queueVars, gitVars, dirty, cancelled>>

(* It changed some of its files or none.                                   *)
EndFix(s) ==
  /\ at[s] = "fixing"
  /\ \E F \in SUBSET mine[s] : dirty' = dirty \cup F
  /\ Goto(s, "list")
  /\ UNCHANGED <<mine, need, held, cell, queueVars, gitVars, cancelled>>

(* Under the mutex: the racily clean entries are to be locked too.         *)
ListRacy(s) ==
  /\ at[s] = "list" /\ MutexFree
  /\ need' = [need EXCEPT ![s] = mine[s] \cup racy]
  /\ Goto(s, "lock")
  /\ UNCHANGED <<mine, held, cell, queueVars, gitVars, dirty, cancelled>>

(* Mutant of LockFiles: only the step's own files wait for fixers.         *)
LockFilesMutant(s) ==
  /\ at[s] = "lock"
  /\ \A f \in mine[s] : ~Fixing(f)
  /\ held' = [held EXCEPT ![s] = need[s]]
  /\ Goto(s, "git")
  /\ UNCHANGED <<mine, need, cell, queueVars, gitVars, dirty, cancelled>>

(* Read locks on all of them, once no fixer has one.                       *)
LockFiles(s) ==
  /\ at[s] = "lock"
  /\ \A f \in need[s] : ~Fixing(f)
  /\ held' = [held EXCEPT ![s] = need[s]]
  /\ Goto(s, "git")
  /\ UNCHANGED <<mine, need, cell, queueVars, gitVars, dirty, cancelled>>

(* Mutant of LockMore: the same locks are asked for again.                 *)
LockMoreMutant(s) ==
  /\ at[s] = "git" /\ MutexFree
  /\ ~(racy \subseteq held[s])
  /\ Unlock(s)
  /\ Goto(s, "lock")
  /\ UNCHANGED <<mine, need, cell, queueVars, gitVars, dirty, cancelled>>

(* Under the mutex: entries became racy meanwhile, so all locks go first.  *)
LockMore(s) ==
  /\ at[s] = "git" /\ MutexFree
  /\ ~(racy \subseteq held[s])
  /\ need' = [need EXCEPT ![s] = need[s] \cup racy]
  /\ Unlock(s)
  /\ Goto(s, "lock")
  /\ UNCHANGED <<mine, cell, queueVars, gitVars, dirty, cancelled>>

(* Under the mutex: the files the status lists join the queue.             *)
Queue(s) ==
  /\ at[s] = "git" /\ MutexFree
  /\ racy \subseteq held[s]
  /\ mine[s] \cap dirty # {}
  /\ paths' = paths \cup (mine[s] \cap dirty)
  /\ cell'  = [cell EXCEPT ![s] = Len(results)]
  /\ Goto(s, "queued")
  /\ UNCHANGED <<mine, need, held, results, gitVars, dirty, cancelled>>

NothingToStage(s) ==
  /\ at[s] = "git" /\ MutexFree
  /\ racy \subseteq held[s]
  /\ mine[s] \cap dirty = {}
  /\ Unlock(s)
  /\ Goto(s, "done")
  /\ UNCHANGED <<mine, need, cell, queueVars, gitVars, dirty, cancelled>>

(* The first to get the mutex back takes the queue and starts the add.     *)
TakeQueue(s) ==
  /\ at[s] = "queued" /\ MutexFree
  /\ results[cell[s]] = "none"
  /\ batch' = paths /\ reads' = paths \cup racy
  /\ paths' = {} /\ results' = Append(results, "none")
  /\ Goto(s, "adding")
  /\ UNCHANGED <<mine, need, held, cell, racy, dirty, cancelled>>

(* The add succeeds, and the index it wrote has racy entries of its own,   *)
(* or it fails.  Its result goes to the cell of the queue it took.         *)
EndAdd(s, outcome) ==
  /\ at[s] = "adding"
  /\ results' = [results EXCEPT ![Len(results) - 1] = outcome]
  /\ dirty' = IF outcome = "ok" THEN dirty \ batch ELSE dirty
  /\ racy' \in IF outcome = "ok" THEN SUBSET Fixable ELSE {racy}
  /\ batch' = {} /\ reads' = {}
  /\ Unlock(s)
  /\ Goto(s, IF outcome = "ok" THEN "done" ELSE "failed")
  /\ UNCHANGED <<mine, need, cell, paths, cancelled>>

(* Mutant of Share: the result of the batch does not matter.               *)
ShareMutant(s) ==
  /\ at[s] = "queued" /\ MutexFree
  /\ results[cell[s]] # "none"
  /\ Unlock(s)
  /\ Goto(s, "done")
  /\ UNCHANGED <<mine, need, cell, queueVars, gitVars, dirty, cancelled>>

(* Another step added this step's files: its result is this step's too.    *)
Share(s) ==
  /\ at[s] = "queued" /\ MutexFree
  /\ results[cell[s]] # "none"
  /\ Unlock(s)
  /\ Goto(s, IF results[cell[s]] = "ok" THEN "done" ELSE "failed")
  /\ UNCHANGED <<mine, need, cell, queueVars, gitVars, dirty, cancelled>>

-----------------------------------------------------------------------------
Cancel ==
  /\ Cancels /\ ~cancelled
  /\ cancelled' = TRUE
  /\ UNCHANGED <<mine, at, need, held, cell, queueVars, gitVars, dirty>>

(* A cancelled run's steps are dropped wherever they wait; a running fixer *)
(* is killed with its changes made or half made.                           *)
Abort(s) ==
  /\ cancelled
  /\ at[s] \in {"fix", "fixing", "list", "lock", "git", "queued"}
  /\ dirty' \in IF at[s] = "fixing" THEN {dirty \cup F : F \in SUBSET mine[s]} ELSE {dirty}
  /\ Unlock(s)
  /\ Goto(s, "aborted")
  /\ UNCHANGED <<mine, need, cell, queueVars, gitVars, cancelled>>

Ended == {"done", "failed", "aborted"}

StageFinished == (\A s \in Fixers : at[s] \in Ended) /\ UNCHANGED stageVars

Advance(s) ==
  \/ BeginFix(s) \/ EndFix(s) \/ ListRacy(s) \/ LockFiles(s) \/ LockMore(s)
  \/ Queue(s) \/ NothingToStage(s) \/ TakeQueue(s)
  \/ \E outcome \in {"ok", "error"} : EndAdd(s, outcome)
  \/ Share(s)

StageNext == \/ \E s \in Fixers : Advance(s) \/ Abort(s)
        \/ Cancel
        \/ StageFinished

StageSpec == StageInit /\ [][StageNext]_stageVars

(* Steps go on, and the grace period of a cancelled run runs out.          *)
StageFairness == \A s \in Fixers : WF_stageVars(Advance(s) \/ Abort(s))

-----------------------------------------------------------------------------
(* Git never reads a file that a fixer is writing, cancelled run or not.   *)
NoTornAdd == \A f \in reads : ~Fixing(f)

(* What a step changed and did not see staged is still on the way, or was  *)
(* reported: files only differ from the index for a step that has not      *)
(* ended, or that ended with the error of the add.                         *)
NothingLeftUnstaged ==
  \A f \in dirty : \E s \in Fixers : f \in mine[s] /\ at[s] # "done"

(* Every step ends.                                                        *)
EveryStepEnds == <>(\A s \in Fixers : at[s] \in Ended)
=============================================================================
