------------------------------ MODULE StepGroup ------------------------------
(***************************************************************************)
(* One execution group of a hook: its steps run concurrently, each waits   *)
(* for the steps it depends on, spawns its jobs, joins them, settles how it *)
(* ends, stages, and wakes its dependents (Step::run_all_jobs in           *)
(* step/execution.rs); StepGroup::run joins the steps and decides how the  *)
(* group ends.  A failure under fail_fast, or a user's Ctrl-C, cancels the *)
(* run's token while all of that is going on.                              *)
(*                                                                         *)
(* The file locks a job takes are module JobLocks; here a job needs a job  *)
(* slot only.  Commands end as they like.                                  *)
(***************************************************************************)
EXTENDS Naturals, FiniteSets

CONSTANTS Steps,     \* the steps of the group
          Jobs,      \* their jobs
          StepOf,    \* the step of a job
          Deps,      \* the steps a step waits for, in this group
          Scenes     \* what a run may be like: `slots` is the `jobs` setting,
                     \* how many commands run at once; `cancels`, whether the
                     \* user may press Ctrl-C; `vanishing`, whether a job may
                     \* find all its files deleted

ASSUME GroupOK == /\ IsFiniteSet(Steps) /\ IsFiniteSet(Jobs)
                  /\ StepOf \in [Jobs -> Steps]
                  /\ Deps \in [Steps -> SUBSET Steps]
                  /\ Scenes \subseteq [slots : Nat \ {0}, cancels : BOOLEAN,
                                      vanishing : BOOLEAN]
                  /\ "group" \notin Steps \cup Jobs /\ Steps \cap Jobs = {}

VARIABLES scene,     \* what this run is like
          opts,      \* fail_fast, and the steps that set allow_failure
          pc,        \* where each step's task is, and the group's own loop
          slot,      \* the steps and jobs holding a job slot
          job,       \* how far each job is
          joined,    \* the jobs and steps whose end was collected
          first,     \* join_jobs' first_error per step
          told,      \* join_jobs' `cancelled`: this step aborted its siblings
          user,      \* settle's view of whether the user cancelled
          result,    \* what each step's task, and the group, returns
          status,    \* StepStatus
          reported,  \* HookContext::failed_steps
          done,      \* StepDepends
          failed,    \* HookContext::failed, the cancellation token
          aborted    \* HookContext::fail_fast_aborted

fixed == <<scene, opts>>

vars == <<fixed, pc, slot, job, joined, first, told, user, result, status,
          reported, done, failed, aborted>>

Group  == "group"
Tasks  == Steps \cup {Group}
JobsOf(s) == {j \in Jobs : StepOf[j] = s}

(* A command exits non-zero, hk itself fails, or the run was cancelled.    *)
Errors   == {"command", "hk", "cancelled"}
Ends     == {"none"} \cup Errors
Quiet    == {"passed", "idle", "vanished", "skipped", "dropped"}
Over     == Quiet \cup Errors
JobPCs   == {"none", "ready", "queued", "running"} \cup Over
StepPCs  == {"depends", "slot", "building", "joining", "aborting", "flagging", "marking",
             "cancelling", "settling", "staging", "leaving", "wrapping",
             "ended", "gone"}
Statuses == {"Pending", "Started", "Aborted", "Finished", "Errored"}
Free     == scene.slots - Cardinality(slot)

(* Only a command's failure can be allowed.                                *)
Allowed(s, err) == err = "command" /\ s \in opts.allowed
Real(s, err)    == err \in {"command", "hk"} /\ ~Allowed(s, err)
UserCancelled   == failed /\ ~aborted

(***************************************************************************)
(* StepContext::status_*: a step that ended keeps its end.                 *)
(***************************************************************************)
Live(s) == status[s] \in {"Pending", "Started"}

With(s, new) == [status EXCEPT ![s] = IF Live(s) THEN new ELSE @]

Errored(s) == /\ status' = With(s, "Errored")
              /\ reported' = IF Live(s) THEN reported \cup {s} ELSE reported

Init ==
  /\ scene \in Scenes
  /\ opts \in [failFast : BOOLEAN, allowed : SUBSET Steps]
  /\ pc = [t \in Tasks |-> IF t = Group THEN "joining" ELSE "depends"]
  /\ slot \in {S \in SUBSET Steps :
                Cardinality(S) = IF scene.slots < Cardinality(Steps)
                                 THEN scene.slots ELSE Cardinality(Steps)}
  /\ job = [j \in Jobs |-> "none"]
  /\ joined = {}
  /\ first = [s \in Steps |-> "none"]
  /\ told = {}
  /\ user = {}
  /\ result = [t \in Tasks |-> "none"]
  /\ status = [s \in Steps |-> "Pending"]
  /\ reported = {}
  /\ done = {}
  /\ failed = FALSE
  /\ aborted = FALSE

Goto(t, at)     == pc' = [pc EXCEPT ![t] = at]
Return(s, res)  == /\ Goto(s, "leaving")
                   /\ result' = [result EXCEPT ![s] = res]

(***************************************************************************)
(* wait_for_depends: a step gives its slot up before it waits, and takes   *)
(* one again when every dependency is done.  A cancelled run ends the wait. *)
(***************************************************************************)
(* Mutant: a waiting step keeps its slot.                                  *)
GiveSlotUpMutant(s) ==
  /\ pc[s] = "depends"
  /\ s \in slot
  /\ UNCHANGED vars

GiveSlotUp(s) ==
  /\ pc[s] = "depends"
  /\ s \in slot
  /\ ~ (Deps[s] \subseteq done)
  /\ slot' = slot \ {s}
  /\ UNCHANGED <<fixed, pc, job, joined, first, told, user, result, status,
                 reported, done, failed, aborted>>

Woken(s) ==
  /\ pc[s] = "depends"
  /\ Deps[s] \subseteq done
  /\ Deps[s] = {} \/ ~failed
  /\ Goto(s, IF s \in slot THEN "building" ELSE "slot")
  /\ UNCHANGED <<fixed, slot, job, joined, first, told, user, result, status,
                 reported, done, failed, aborted>>

GiveUp(s) ==
  /\ pc[s] = "depends"
  /\ Deps[s] # {} /\ failed
  /\ status' = With(s, "Aborted")
  /\ Return(s, "cancelled")
  /\ slot' = slot \ {s}
  /\ UNCHANGED <<fixed, job, joined, first, told, user, reported, done, failed,
                 aborted>>

TakeSlot(s) ==
  /\ pc[s] = "slot"
  /\ Free > 0
  /\ slot' = slot \cup {s}
  /\ Goto(s, "building")
  /\ UNCHANGED <<fixed, job, joined, first, told, user, result, status,
                 reported, done, failed, aborted>>

(***************************************************************************)
(* The step builds its jobs; the first one inherits the step's slot.  With *)
(* a false condition, or no job, it is skipped and done.  Jobs planned with *)
(* a skip reason do nothing but mark the step done.                        *)
(***************************************************************************)
Build(s) ==
  /\ pc[s] = "building"
  /\ JobsOf(s) # {}
  /\ Goto(s, "joining")
  /\ \E j \in JobsOf(s) : slot' = (slot \ {s}) \cup {j}
  /\ job' = [j \in Jobs |-> IF StepOf[j] = s THEN "ready" ELSE job[j]]
  /\ UNCHANGED <<fixed, joined, first, told, user, result, status, reported,
                 done, failed, aborted>>

BuildSkipped(s) ==
  /\ pc[s] = "building"
  /\ Goto(s, "joining")
  /\ slot' = slot \ {s}
  /\ job' = [j \in Jobs |-> IF StepOf[j] = s THEN "skipped" ELSE job[j]]
  /\ done' = done \cup {s}
  /\ UNCHANGED <<fixed, joined, first, told, user, result, status, reported,
                 failed, aborted>>

SkipStep(s) ==
  /\ pc[s] = "building"
  /\ done' = done \cup {s}
  /\ Return(s, "ok")
  /\ slot' = slot \ {s}
  /\ UNCHANGED <<fixed, job, joined, first, told, user, status, reported,
                 failed, aborted>>

BuildBreaks(s) ==
  /\ pc[s] = "building"
  /\ Return(s, "hk")
  /\ slot' = slot \ {s}
  /\ UNCHANGED <<fixed, job, joined, first, told, user, status, reported, done,
                 failed, aborted>>

(***************************************************************************)
(* Step::run for a job.  A cancelled run skips the command; otherwise the  *)
(* job waits for a slot, marks the step started, and its command ends in   *)
(* one of the ways below.                                                  *)
(***************************************************************************)
JobGoes(j, to) == job' = [job EXCEPT ![j] = to]

JobEnds(j, to) == /\ job[j] = "running"
                  /\ JobGoes(j, to)
                  /\ slot' = slot \ {j}
                  /\ UNCHANGED <<fixed, pc, joined, first, told, user, result,
                                 failed, aborted>>

Idle(j) ==
  /\ job[j] = "ready" /\ failed
  /\ JobGoes(j, "idle")
  /\ slot' = slot \ {j}
  /\ UNCHANGED <<fixed, pc, joined, first, told, user, result, status, reported,
                 done, failed, aborted>>

Enqueue(j) ==
  /\ job[j] = "ready" /\ ~failed
  /\ JobGoes(j, "queued")
  /\ UNCHANGED <<fixed, pc, slot, joined, first, told, user, result, status,
                 reported, done, failed, aborted>>

Start(j) ==
  /\ job[j] = "queued"
  /\ j \in slot \/ Free > 0
  /\ slot' = slot \cup {j}
  /\ JobGoes(j, "running")
  /\ status' = [status EXCEPT ![StepOf[j]] = IF @ = "Pending" THEN "Started"
                                             ELSE @]
  /\ UNCHANGED <<fixed, pc, joined, first, told, user, result, reported, done,
                 failed, aborted>>

(* All the job's files were deleted while it waited: mark_skipped.         *)
Vanish(j) ==
  /\ scene.vanishing
  /\ JobEnds(j, "vanished")
  /\ done' = done \cup {StepOf[j]}
  /\ UNCHANGED <<status, reported>>

(* Mutant: the first job to pass marks its step done.                      *)
PassMutant(j) == /\ JobEnds(j, "passed")
                 /\ done' = done \cup {StepOf[j]}
                 /\ UNCHANGED <<status, reported>>

Pass(j) == JobEnds(j, "passed") /\ UNCHANGED <<status, reported, done>>

(* A command that fails is reported whatever the step's status is          *)
(* (save_output_summary); the job's status_error then ends the step.       *)
Fail(j) ==
  /\ JobEnds(j, "command")
  /\ status' = With(StepOf[j], "Errored")
  /\ reported' = reported \cup {StepOf[j]}
  /\ UNCHANGED done

(* An error of hk itself; from the check that comes first, only join_jobs  *)
(* records it.                                                             *)
Break(j) ==
  /\ JobEnds(j, "hk")
  /\ \/ Errored(StepOf[j])
     \/ UNCHANGED <<status, reported>>
  /\ UNCHANGED done

Stop(j) == /\ failed
           /\ JobEnds(j, "cancelled")
           /\ UNCHANGED <<status, reported, done>>

(***************************************************************************)
(* join_jobs.  A cancelled run gives the jobs a grace period, then aborts  *)
(* them.  The first error is kept, unless it was allowed or a mere         *)
(* cancellation and the new one is neither.                                *)
(***************************************************************************)
Grace(s) ==
  /\ pc[s] = "joining" /\ failed
  /\ \E j \in JobsOf(s) : job[j] \notin Over
  /\ job' = [j \in Jobs |-> IF StepOf[j] = s /\ job[j] \notin Over
                            THEN "dropped" ELSE job[j]]
  /\ slot' = slot \ JobsOf(s)
  /\ UNCHANGED <<fixed, pc, joined, first, told, user, result, status, reported,
                 done, failed, aborted>>

(* Mutant: the first error is kept, whatever it is.                        *)
KeptMutant(s, err) == IF first[s] = "none" THEN err ELSE first[s]

Kept(s, err) ==
  LET old == first[s] IN
  IF \/ old = "none"
     \/ Allowed(s, old) /\ ~Allowed(s, err)
     \/ old = "cancelled" /\ failed /\ Real(s, err)
  THEN err ELSE old

(* on_failure: a real error ends the step; under fail_fast an error that   *)
(* is not allowed aborts the run, unless the user cancelled it.            *)
EndsStep(s, err) == s \notin told /\ err # "cancelled"

MustAbort(s, err) ==
  s \notin told /\ opts.failFast /\ ~Allowed(s, err) /\ ~UserCancelled

JoinJob(s, j) ==
  /\ pc[s] = "joining"
  /\ j \in JobsOf(s) \ joined
  /\ job[j] \in Over
  /\ joined' = joined \cup {j}
  /\ IF job[j] \in Errors
     THEN /\ first' = [first EXCEPT ![s] = Kept(s, job[j])]
          /\ IF EndsStep(s, job[j])
             THEN Errored(s) ELSE UNCHANGED <<status, reported>>
          /\ IF MustAbort(s, job[j]) THEN Goto(s, "aborting")
             ELSE UNCHANGED pc
     ELSE UNCHANGED <<first, status, reported, pc>>
  /\ UNCHANGED <<fixed, slot, job, told, user, result, done, failed, aborted>>

(***************************************************************************)
(* abort_running_steps, called by a step's join loop or the group's: say   *)
(* that a failure cancels the run unless it is cancelled already, mark the *)
(* registered steps, cancel.  The group then returns the failure.          *)
(***************************************************************************)
(* The token is read and the flag set in two steps: Ctrl-C may come between. *)
SeeToken(t) ==
  /\ pc[t] = "aborting"
  /\ Goto(t, IF failed THEN "marking" ELSE "flagging")
  /\ UNCHANGED <<fixed, slot, job, joined, first, told, user, result, status,
                 reported, done, failed, aborted>>

MarkAbort(t) ==
  /\ pc[t] = "flagging"
  /\ aborted' = TRUE
  /\ Goto(t, "marking")
  /\ UNCHANGED <<fixed, slot, job, joined, first, told, user, result, status,
                 reported, done, failed>>

Registered == {s \in Steps : pc[s] # "ended"}

AbortStatuses(t) ==
  /\ pc[t] = "marking"
  /\ status' = [s \in Steps |-> IF s \in Registered /\ Live(s) THEN "Aborted"
                                ELSE status[s]]
  /\ Goto(t, "cancelling")
  /\ UNCHANGED <<fixed, slot, job, joined, first, told, user, result, reported,
                 done, failed, aborted>>

CancelRun(t) ==
  /\ pc[t] = "cancelling"
  /\ failed' = TRUE
  /\ told' = told \cup ({t} \ {Group})
  /\ Goto(t, IF t = Group THEN "ended" ELSE "joining")
  /\ UNCHANGED <<fixed, slot, job, joined, first, user, result, status,
                 reported, done, aborted>>

(***************************************************************************)
(* settle_joined_jobs reads the token twice: once for whether the user     *)
(* cancelled, and again when all jobs were Ok.                             *)
(***************************************************************************)
BeginSettle(s) ==
  /\ pc[s] = "joining"
  /\ JobsOf(s) \subseteq joined
  /\ user' = IF UserCancelled THEN user \cup {s} ELSE user
  /\ Goto(s, "settling")
  /\ UNCHANGED <<fixed, slot, job, joined, first, told, result, status,
                 reported, done, failed, aborted>>

(* Mutant: jobs that are all Ok settle the step, cancelled or not.         *)
SettledMutant(s) == IF first[s] = "none" THEN "go on" ELSE first[s]

Settled(s) ==
  LET err == first[s] IN
  CASE err # "none" /\ ~(s \in user /\ Allowed(s, err)) -> err
    [] s \in user /\ (err = "none" \/ Allowed(s, err))  -> "cancelled"
    [] s \notin user /\ err = "none" -> IF failed THEN "ok" ELSE "go on"

(* After a fail-fast abort the step ends quietly, aborted.                 *)
Settle(s) ==
  /\ pc[s] = "settling"
  /\ IF Settled(s) = "go on"
     THEN Goto(s, "staging") /\ UNCHANGED <<result, status>>
     ELSE /\ Return(s, Settled(s))
          /\ status' = IF Settled(s) \in {"cancelled", "ok"}
                       THEN With(s, "Aborted") ELSE status
  /\ UNCHANGED <<fixed, slot, job, joined, first, told, user, reported, done,
                 failed, aborted>>

(* Staging done, or nothing to stage.  A step whose jobs were all skipped  *)
(* when they were planned neither finishes nor is marked done again.       *)
Complete(s) ==
  /\ pc[s] = "staging"
  /\ IF \E j \in JobsOf(s) : job[j] # "skipped"
     THEN /\ status' = [status EXCEPT ![s] = IF @ = "Started" THEN "Finished"
                                             ELSE @]
          /\ done' = done \cup {s}
     ELSE UNCHANGED <<status, done>>
  /\ Return(s, "ok")
  /\ UNCHANGED <<fixed, slot, job, joined, first, told, user, reported, failed,
                 aborted>>

StagingBreaks(s) ==
  /\ pc[s] = "staging"
  /\ \E j \in JobsOf(s) : job[j] = "passed"
  /\ Return(s, "hk")
  /\ UNCHANGED <<fixed, slot, job, joined, first, told, user, status, reported,
                 done, failed, aborted>>

(***************************************************************************)
(* WakeDependentsOnCancel, and then the wrapper StepGroup::run spawned: it *)
(* records how the step ended and wakes the dependents of a failed step    *)
(* where dependents may still run.                                         *)
(***************************************************************************)
Wake(s) ==
  /\ pc[s] = "leaving"
  /\ done' = IF failed THEN done \cup {s} ELSE done
  /\ Goto(s, "wrapping")
  /\ UNCHANGED <<fixed, slot, job, joined, first, told, user, result, status,
                 reported, failed, aborted>>

(* Mutant: a failed step wakes its dependents under fail_fast too.         *)
ReleasesMutant(s) == result[s] # "ok"

Releases(s) == result[s] # "ok" /\ (~opts.failFast \/ Allowed(s, result[s]))

Wrap(s) ==
  /\ pc[s] = "wrapping"
  /\ Goto(s, "ended")
  /\ CASE result[s] = "ok"        -> UNCHANGED <<status, reported>>
       [] result[s] = "cancelled" -> /\ status' = With(s, "Aborted")
                                     /\ UNCHANGED reported
       [] OTHER                   -> Errored(s)
  /\ done' = IF Releases(s) THEN done \cup {s} ELSE done
  /\ UNCHANGED <<fixed, slot, job, joined, first, told, user, result, failed,
                 aborted>>

(***************************************************************************)
(* The group's loop.  Cancellations are ignored after a fail-fast abort    *)
(* and kept for last after Ctrl-C; a failure ends the group at once under  *)
(* fail_fast, which drops the other tasks, and is remembered otherwise.    *)
(***************************************************************************)
JoinStep(s) ==
  /\ pc[Group] = "joining"
  /\ pc[s] = "ended" /\ s \notin joined
  /\ joined' = joined \cup {s}
  /\ LET err == IF Allowed(s, result[s]) THEN "ok" ELSE result[s]
         old == result[Group]
         res(r) == result' = [result EXCEPT ![Group] = r]
     IN CASE err = "ok" -> UNCHANGED <<result, pc>>
          [] err = "cancelled" /\ aborted -> UNCHANGED <<result, pc>>
          [] err = "cancelled" /\ ~aborted ->
               res(IF old = "none" THEN err ELSE old) /\ UNCHANGED pc
          [] OTHER -> /\ res("failed")
                      /\ IF opts.failFast THEN Goto(Group, "aborting")
                         ELSE UNCHANGED pc
  /\ UNCHANGED <<fixed, slot, job, first, told, user, status, reported, done,
                 failed, aborted>>

EndGroup ==
  /\ pc[Group] = "joining"
  /\ Steps \subseteq joined
  /\ result' = [result EXCEPT ![Group] = IF @ = "none" THEN "ok" ELSE @]
  /\ Goto(Group, "ended")
  /\ UNCHANGED <<fixed, slot, job, joined, first, told, user, status, reported,
                 done, failed, aborted>>

(* A dropped task stops at its next await, and its jobs with it.           *)
Drop(s) ==
  /\ pc[Group] = "ended"
  /\ pc[s] \notin {"ended", "gone"}
  /\ Goto(s, "gone")
  /\ job' = [j \in Jobs |-> IF StepOf[j] = s /\ job[j] \notin Over
                            THEN "dropped" ELSE job[j]]
  /\ slot' = slot \ ({s} \cup JobsOf(s))
  /\ done' = IF failed THEN done \cup {s} ELSE done
  /\ UNCHANGED <<fixed, joined, first, told, user, result, status, reported,
                 failed, aborted>>

CtrlC == /\ scene.cancels
         /\ ~failed
         /\ pc[Group] # "ended"
         /\ failed' = TRUE
         /\ UNCHANGED <<fixed, pc, slot, job, joined, first, told, user, result,
                        status, reported, done, aborted>>

Finished == /\ \A t \in Tasks : pc[t] \in {"ended", "gone"}
            /\ UNCHANGED vars

StepActs(s) == \/ GiveSlotUp(s) \/ Woken(s) \/ GiveUp(s) \/ TakeSlot(s)
               \/ Build(s) \/ BuildSkipped(s) \/ SkipStep(s) \/ BuildBreaks(s)
               \/ Grace(s) \/ (\E j \in Jobs : JoinJob(s, j))
               \/ BeginSettle(s) \/ Settle(s) \/ Complete(s)
               \/ StagingBreaks(s) \/ Wake(s) \/ Wrap(s) \/ Drop(s)

JobActs(j) == \/ Idle(j) \/ Enqueue(j) \/ Start(j) \/ Vanish(j)
              \/ Pass(j) \/ Fail(j) \/ Break(j) \/ Stop(j)

Abort(t) == SeeToken(t) \/ MarkAbort(t) \/ AbortStatuses(t) \/ CancelRun(t)

Next == \/ \E s \in Steps : StepActs(s) \/ JoinStep(s)
        \/ \E j \in Jobs : JobActs(j)
        \/ \E t \in Tasks : Abort(t)
        \/ EndGroup \/ CtrlC \/ Finished

Spec == Init /\ [][Next]_vars

(* Tokio runs every task that can go on, commands end, and a task that was *)
(* dropped is collected.  Nobody has to press Ctrl-C.                      *)
FairSpec == /\ Spec
            /\ \A s \in Steps : WF_vars(StepActs(s)) /\ WF_vars(JoinStep(s))
            /\ \A j \in Jobs : WF_vars(JobActs(j))
            /\ \A t \in Tasks : WF_vars(Abort(t))
            /\ WF_vars(EndGroup)

RealFailure(s) == \/ \E j \in JobsOf(s) : Real(s, job[j])
                  \/ Real(s, result[s])

HasBegun(s) == \E j \in JobsOf(s) : job[j] \in {"running", "passed", "command",
                                               "hk", "vanished"}

(* What pkl/Config.pkl says of `depends`: "A list of steps that must       *)
(* finish before this step can run."  When a job of a step has begun, every *)
(* job of the steps it depends on is over, if any was planned.             *)
DependsMustFinish ==
  \A s \in Steps : HasBegun(s) =>
    \A d \in Deps[s] : /\ pc[d] \notin {"depends", "slot", "building"}
                       /\ \A j \in JobsOf(d) : job[j] \in Over \cup {"none"}

(* mark_skipped, called for a job of d, has woken those that wait for d.   *)
Skipped(d) == \E j \in JobsOf(d) : job[j] = "vanished"

(* What the code keeps of it: a job of a step begins only when every job   *)
(* of the steps it depends on is over, unless one of them was skipped.     *)
DependsFinishUnlessSkipped ==
  \A s \in Steps : HasBegun(s) =>
    \A d \in Deps[s] :
      \/ /\ pc[d] \notin {"depends", "slot", "building"}
         /\ \A j \in JobsOf(d) : job[j] \in Over \cup {"none"}
      \/ Skipped(d)

(* Under fail_fast nothing that depends on a step begins after that step   *)
(* failed for good (WakeDependentsOnCancel: "A failure that is not a       *)
(* cancellation is left alone: dependents must not start after it"), unless *)
(* a job of that step was skipped and woke them before.                    *)
NoStartAfterFailure ==
  [][\A s \in Steps, j \in Jobs :
       /\ StepOf[j] = s /\ job'[j] = "running" /\ job[j] # "running"
       /\ opts.failFast
       => \A d \in Deps[s] : ~RealFailure(d) \/ Skipped(d)]_vars

(* A step is finished, and reported as passed, only when each of its jobs  *)
(* ran to its end or had nothing to do: not when a job was skipped or      *)
(* dropped because the run was being cancelled (settle_joined_jobs).       *)
FinishedIsComplete ==
  \A s \in Steps : status[s] = "Finished" =>
    \A j \in JobsOf(s) : job[j] \in {"passed", "vanished"}

(* A failure that is not allowed is never hidden, by a cancellation that   *)
(* was reported first, by an allowed failure of a sibling job, or by other *)
(* steps: the group then fails (join_jobs, settle, StepGroup::run).        *)
NoFailureHidden ==
  result[Group] # "none" /\ pc[Group] = "ended" =>
    \/ result[Group] = "failed"
    \/ \A s \in Steps : ~RealFailure(s)

(* A group that ends well left no step aborted: settle_joined_jobs says    *)
(* "The cancellation token is authoritative for a user's Ctrl-C, whatever  *)
(* the jobs reported".                                                     *)
OkMeansNothingAborted ==
  pc[Group] = "ended" /\ result[Group] = "ok" =>
    \A s \in Steps : status[s] # "Aborted"

(* Every group ends, with all its tasks: a step that waits for others      *)
(* holds no slot they need, and is woken however they end.                 *)
GroupEnds == <>(\A t \in Tasks : pc[t] \in {"ended", "gone"})
=============================================================================
