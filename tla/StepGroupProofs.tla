---------------------------- MODULE StepGroupProofs ----------------------------
(* Proofs about the steps of a group, for any steps, jobs, dependencies and *)
(* slots: what it is for a step to have ended, and what its end is worth to *)
(* the steps that wait for it and to the group.                            *)
EXTENDS StepGroup, FiniteSetTheorems, TLAPS

Results == {"none", "ok", "failed"} \cup Errors

TypeOK ==
  /\ scene \in Scenes
  /\ opts \in [failFast : BOOLEAN, allowed : SUBSET Steps]
  /\ pc \in [Tasks -> StepPCs]
  /\ slot \in SUBSET (Steps \cup Jobs)
  /\ job \in [Jobs -> JobPCs]
  /\ joined \in SUBSET (Steps \cup Jobs)
  /\ first \in [Steps -> Ends]
  /\ told \in SUBSET Steps /\ user \in SUBSET Steps
  /\ result \in [Tasks -> Results]
  /\ status \in [Steps -> Statuses]
  /\ reported \in SUBSET Steps /\ done \in SUBSET Steps
  /\ failed \in BOOLEAN /\ aborted \in BOOLEAN

-----------------------------------------------------------------------------
(* Where a step is: it has not built its jobs; it has left them behind.    *)
Early == {"depends", "slot", "building"}
Late  == {"leaving", "wrapping", "ended"}

AllAre(s, S)  == \A j \in JobsOf(s) : job[j] \in S
Collected(s)  == JobsOf(s) \subseteq joined
NothingLeft(s) == AllAre(s, Over \cup {"none"})

(* The jobs of a step come to be when it builds them, all of them skipped  *)
(* or none, and are over once the step has collected or dropped them.  A   *)
(* job stops without its command's end only in a cancelled run.            *)
JobsAreIt(s) ==
  /\ pc[s] \in Early => AllAre(s, {"none"})
  /\ \A j \in JobsOf(s) \cap joined : job[j] \in Over
  /\ pc[s] \in {"settling", "staging"} => Collected(s)
  /\ pc[s] \in Late => Collected(s) \/ AllAre(s, {"none"})
  /\ pc[s] = "gone" => AllAre(s, Over)
  /\ \A i, j \in JobsOf(s) : job[i] = "skipped" => job[j] = "skipped"
  /\ \A j \in JobsOf(s) : /\ job[j] \in {"idle", "cancelled"} => failed
                          /\ job[j] = "dropped" => failed \/ pc[s] = "gone"

(* What a step keeps of its jobs' errors: one if there is any, a real one  *)
(* if there is any; and a step that stages or finishes has met none.       *)
ErrorsAreKept(s) ==
  /\ \A j \in JobsOf(s) \cap joined : /\ job[j] \in Errors => first[s] # "none"
                                      /\ Real(s, job[j]) => Real(s, first[s])
  /\ first[s] # "none" => \E j \in JobsOf(s) : job[j] = first[s]
  /\ pc[s] = "staging" => AllAre(s, {"passed", "vanished", "skipped"})
  /\ status[s] = "Finished" => AllAre(s, {"passed", "vanished"})

(* A step has a result once it left its jobs behind, a real error's if it  *)
(* kept one; the group fails when it collects such a step.                 *)
ResultIsTrue(s) ==
  /\ pc[s] \notin Late \cup {"gone"} => result[s] = "none"
  /\ pc[s] \in Late /\ Real(s, first[s]) => Real(s, result[s])
  /\ s \in joined => /\ pc[s] = "ended"
                     /\ Real(s, result[s]) => result[Group] = "failed"

(* Dependents may go on when a step is done: nothing of it is left to run, *)
(* or a job of it was skipped.                                             *)
DoneIsOver(s) == s \in done => Skipped(s) \/ (pc[s] \notin Early /\ NothingLeft(s))

(* A step that is done and can no longer fail for good.                    *)
Harmless(s) ==
  /\ s \in done
  /\ \/ Skipped(s)
     \/ /\ ~RealFailure(s)
        /\ \/ pc[s] \in Late \cup {"gone"} /\ NothingLeft(s)
           \/ pc[s] \notin Early /\ AllAre(s, {"skipped"})

(* Under fail_fast a step is not done after it failed, until the run is    *)
(* cancelled; and then no step that still waits goes on.                   *)
DoneIsHarmless(s) == s \in done /\ opts.failFast => failed \/ Harmless(s)

WentOn(s) == \/ pc[s] \in {"slot", "building"}
             \/ \E j \in JobsOf(s) : job[j] \notin {"none", "dropped"}

WentOnInTime(s) ==
  WentOn(s) => \A d \in Deps[s] : d \in done /\ (opts.failFast => Harmless(d))

(* The group aborts because it failed, and ends when it does or when all   *)
(* its steps have ended.                                                   *)
GroupIsIt ==
  /\ pc[Group] \in {"joining", "aborting", "flagging", "marking", "cancelling", "ended"}
  /\ pc[Group] \in {"aborting", "flagging", "marking", "cancelling"}
       => result[Group] = "failed"
  /\ pc[Group] = "ended" => result[Group] = "failed" \/ Steps \subseteq joined

StepInv(s) == /\ JobsAreIt(s) /\ ErrorsAreKept(s) /\ ResultIsTrue(s)
              /\ DoneIsOver(s) /\ DoneIsHarmless(s)

(* A step that builds and a command that runs hold a slot; there are no    *)
(* more slots than the `jobs` setting says.                                *)
SlotsAreHeld ==
  /\ \A s \in Steps : pc[s] = "building" => s \in slot
  /\ \A j \in Jobs : job[j] = "running" => j \in slot
  /\ Cardinality(slot) <= scene.slots

Inv == /\ TypeOK
       /\ GroupIsIt
       /\ \A s \in Steps : StepInv(s) /\ WentOnInTime(s)
       /\ SlotsAreHeld

-----------------------------------------------------------------------------
(* A step that nothing of a transition is about, and one that keeps its    *)
(* part of the invariant by what the transition does to it.                *)
Same(s) ==
  /\ pc'[s] = pc[s] /\ first'[s] = first[s] /\ result'[s] = result[s]
  /\ \A j \in JobsOf(s) : job'[j] = job[j] /\ (j \in joined' <=> j \in joined)
  /\ s \in joined' <=> s \in joined
  /\ s \in done' <=> s \in done
  /\ status'[s] = "Finished" => status[s] = "Finished"

Moved(s) ==
  /\ StepInv(s)'
  /\ Harmless(s) => Harmless(s)'
  /\ WentOn(s)' => \/ WentOn(s)
                   \/ \A d \in Deps[s] : d \in done /\ (opts.failFast => Harmless(d))

(* What every transition keeps: the run's setting, a cancellation, what is *)
(* done, and the failure of the group.                                     *)
RunGoesOn ==
  /\ UNCHANGED fixed
  /\ failed => failed'
  /\ done \subseteq done'
  /\ result[Group] = "failed" => result'[Group] = "failed"

-----------------------------------------------------------------------------
(* A step that a transition is not about keeps its part of the invariant,  *)
(* and stays harmless if it was.                                           *)
LEMMA SameKeepsStep ==
  ASSUME NEW s \in Steps, StepInv(s), Same(s), RunGoesOn
  PROVE  StepInv(s)' /\ (Harmless(s) => Harmless(s)') /\ (WentOn(s)' <=> WentOn(s))
<1>1. opts' = opts
  BY DEF RunGoesOn, fixed
<1>2. \A e : Real(s, e)' <=> Real(s, e)
  BY <1>1 DEF Real, Allowed
<1>3. \A S : AllAre(s, S)' <=> AllAre(s, S)
  BY DEF Same, AllAre
<1>4. Collected(s)' <=> Collected(s)
  BY DEF Same, Collected
<1>5. (Skipped(s)' <=> Skipped(s)) /\ (NothingLeft(s)' <=> NothingLeft(s))
  BY DEF Same, Skipped, NothingLeft, AllAre
<1>6. RealFailure(s)' <=> RealFailure(s)
  BY <1>2 DEF Same, RealFailure
<1>7. JobsAreIt(s)'
  BY <1>3, <1>4 DEF StepInv, JobsAreIt, Same, RunGoesOn
<1>8. ErrorsAreKept(s)'
  BY <1>2, <1>3 DEF StepInv, ErrorsAreKept, Same
<1>9. ResultIsTrue(s)'
  BY <1>2 DEF StepInv, ResultIsTrue, Same, RunGoesOn
<1>10. Harmless(s)' <=> Harmless(s)
  BY <1>3, <1>5, <1>6 DEF Harmless, Same
<1>11. DoneIsOver(s)' /\ DoneIsHarmless(s)'
  BY <1>1, <1>5, <1>10 DEF StepInv, DoneIsOver, DoneIsHarmless, Same, RunGoesOn
<1>12. WentOn(s)' <=> WentOn(s)
  BY DEF WentOn, Same
<1>13. QED
  BY <1>7, <1>8, <1>9, <1>10, <1>11, <1>12 DEF StepInv

(* A transition that leaves each step alone, or keeps that step's part of  *)
(* the invariant, keeps all of them.                                       *)
LEMMA StepsKeepInv ==
  ASSUME Inv, RunGoesOn, \A s \in Steps : Same(s) \/ Moved(s)
  PROVE  \A s \in Steps : StepInv(s)' /\ WentOnInTime(s)'
<1>1. \A s \in Steps : StepInv(s)' /\ (Harmless(s) => Harmless(s)')
  BY SameKeepsStep DEF Inv, Moved
<1>2. ASSUME NEW s \in Steps PROVE WentOnInTime(s)'
  <2>1. WentOn(s)' => \A d \in Deps[s] : d \in done /\ (opts.failFast => Harmless(d))
    BY SameKeepsStep DEF Inv, Moved, WentOnInTime
  <2>2. opts' = opts /\ done \subseteq done' /\ Deps[s] \subseteq Steps
    BY GroupOK DEF RunGoesOn, fixed
  <2>3. QED
    BY <1>1, <2>1, <2>2 DEF WentOnInTime
<1>3. QED
  BY <1>1, <1>2

(* A step moves on without its jobs: among the stages before it builds     *)
(* them, or among those in which it joins them.                            *)
Middle == {"joining", "aborting", "flagging", "marking", "cancelling"}

LEMMA MovesOn ==
  ASSUME Inv, NEW s \in Steps, RunGoesOn,
         \/ pc[s] \in Early /\ pc'[s] \in Early
         \/ pc[s] \in Middle /\ pc'[s] \in Middle,
         UNCHANGED <<job, joined, first, result, done>>,
         status'[s] = "Finished" => status[s] = "Finished",
         WentOn(s)' => \/ WentOn(s)
                       \/ \A d \in Deps[s] : d \in done /\ (opts.failFast => Harmless(d))
  PROVE  Moved(s)
<1>1. opts' = opts
  BY DEF RunGoesOn, fixed
<1>2. StepInv(s)
  BY DEF Inv
<1>3. /\ pc[s] \notin Late \cup {"settling", "staging", "gone"}
      /\ pc'[s] \notin Late \cup {"settling", "staging", "gone"}
      /\ pc'[s] \in Early <=> pc[s] \in Early
  BY DEF Early, Middle, Late
<1>4. JobsAreIt(s)'
  BY <1>2, <1>3 DEF StepInv, JobsAreIt, RunGoesOn, AllAre, Late
<1>5. ErrorsAreKept(s)'
  BY <1>1, <1>2, <1>3 DEF StepInv, ErrorsAreKept, AllAre, Real, Allowed
<1>6. ResultIsTrue(s)'
  BY <1>2, <1>3 DEF StepInv, ResultIsTrue, Late
<1>7. Harmless(s) => Harmless(s)'
  BY <1>1, <1>3 DEF Harmless, Skipped, RealFailure, Real, Allowed, AllAre
<1>8. DoneIsOver(s)'
  BY <1>2, <1>3 DEF StepInv, DoneIsOver, Skipped, NothingLeft, AllAre
<1>9. DoneIsHarmless(s)'
  BY <1>1, <1>2, <1>7 DEF StepInv, DoneIsHarmless, RunGoesOn
<1>10. QED
  BY <1>4, <1>5, <1>6, <1>7, <1>8, <1>9 DEF Moved, StepInv

(* A job that is not over goes on or ends.                                 *)
LEMMA JobMoves ==
  ASSUME Inv, NEW j \in Jobs, NEW s \in Steps, s = StepOf[j], NEW to \in JobPCs,
         job[j] \in {"ready", "queued", "running"}, job' = [job EXCEPT ![j] = to],
         to \notin {"none", "skipped", "dropped"},
         to \in {"idle", "cancelled"} => failed,
         RunGoesOn, UNCHANGED <<pc, joined, first, result, failed>>,
         done' = IF to = "vanished" THEN done \cup {s} ELSE done,
         status'[s] = "Finished" => status[s] = "Finished",
         \A d \in Steps \ {s} : status'[d] = "Finished" => status[d] = "Finished"
  PROVE  Moved(s) /\ \A d \in Steps \ {s} : Same(d)
<1>1. job \in [Jobs -> JobPCs] /\ first \in [Steps -> Ends] /\ StepInv(s) /\ opts' = opts
  BY DEF Inv, TypeOK, RunGoesOn, fixed
<1>2. job'[j] = to /\ \A i \in Jobs \ {j} : job'[i] = job[i]
  BY <1>1
<1>3. j \in JobsOf(s) /\ job[j] \notin Over \cup {"none"} /\ \A d : JobsOf(d) \subseteq Jobs
  BY DEF JobsOf, Over, Quiet, Errors
<1>4. /\ pc[s] \notin Early \cup Late \cup {"settling", "staging", "gone"}
      /\ j \notin joined
  BY <1>1, <1>3 DEF StepInv, JobsAreIt, AllAre, Collected, Over, Quiet
<1>5. JobsAreIt(s)'
  BY <1>1, <1>2, <1>3, <1>4 DEF StepInv, JobsAreIt, AllAre
<1>6. ErrorsAreKept(s)'
  <2>1. \A i \in JobsOf(s) \cap joined : job'[i] = job[i]
    BY <1>2, <1>3, <1>4
  <2>2. first[s] # "none" => \E i \in JobsOf(s) : job'[i] = first[s]
    <3>1. first[s] # "none" => first[s] \in Over
      BY <1>1 DEF Ends, Over
    <3>2. QED
      BY <1>1, <1>2, <1>3, <3>1 DEF StepInv, ErrorsAreKept
  <2>3. status'[s] # "Finished"
    BY <1>1, <1>3 DEF StepInv, ErrorsAreKept, AllAre
  <2>4. QED
    BY <1>1, <1>4, <2>1, <2>2, <2>3 DEF StepInv, ErrorsAreKept, Real, Allowed
<1>7. ResultIsTrue(s)'
  BY <1>1, <1>4 DEF StepInv, ResultIsTrue, Real, Allowed
<1>8. Skipped(s) => Skipped(s)'
  BY <1>2, <1>3 DEF Skipped
<1>9. to = "vanished" => Skipped(s)'
  BY <1>2, <1>3 DEF Skipped
<1>10. s \in done => Skipped(s)
  BY <1>1, <1>3 DEF StepInv, DoneIsOver, NothingLeft, AllAre
<1>11. Harmless(s) => Harmless(s)'
  BY <1>8, <1>10 DEF Harmless
<1>12. DoneIsOver(s)' /\ DoneIsHarmless(s)'
  BY <1>1, <1>8, <1>9, <1>10 DEF StepInv, DoneIsOver, DoneIsHarmless, Harmless
<1>13. WentOn(s)
  BY <1>3 DEF WentOn, Over, Quiet
<1>14. Moved(s)
  BY <1>5, <1>6, <1>7, <1>11, <1>12, <1>13 DEF Moved, StepInv
<1>15. ASSUME NEW d \in Steps \ {s} PROVE Same(d)
  BY <1>2, <1>3, <1>15 DEF Same, JobsOf
<1>16. QED
  BY <1>14, <1>15

(* A step leaves its jobs behind, with a result.                           *)
LEMMA Leaves ==
  ASSUME Inv, NEW s \in Steps, RunGoesOn, NEW r \in Errors \cup {"ok"},
         pc[s] \in Early \cup {"settling", "staging"}, pc'[s] = "leaving", result'[s] = r,
         UNCHANGED <<job, joined, first, failed>>,
         Real(s, first[s]) => r = first[s],
         Real(s, r) => \/ pc[s] \in Early \/ Real(s, first[s])
                       \/ \E j \in JobsOf(s) : job[j] = "passed",
         status'[s] = "Finished" => status[s] = "Finished" \/ AllAre(s, {"passed", "vanished"}),
         s \in done' => s \in done \/ (r = "ok" /\ pc[s] # "settling")
  PROVE  Moved(s)
<1>1. StepInv(s) /\ opts' = opts
  BY DEF Inv, RunGoesOn, fixed
<1>2. pc'[s] \in Late /\ pc[s] \notin Late \cup {"gone"} /\ s \notin joined
  BY <1>1 DEF Late, Early, StepInv, ResultIsTrue
<1>3. (pc[s] \in Early => AllAre(s, {"none"})) /\ (pc[s] \notin Early => Collected(s))
  BY <1>1 DEF StepInv, JobsAreIt
<1>4. NothingLeft(s)
  BY <1>1, <1>3 DEF NothingLeft, AllAre, Collected, StepInv, JobsAreIt
<1>5. JobsAreIt(s)'
  BY <1>1, <1>2, <1>3 DEF StepInv, JobsAreIt, AllAre, Collected, Early, Late
<1>6. ErrorsAreKept(s)'
  BY <1>1, <1>2 DEF StepInv, ErrorsAreKept, AllAre, Real, Allowed
<1>7. ResultIsTrue(s)'
  BY <1>1, <1>2 DEF ResultIsTrue, Real, Allowed
<1>8. (Skipped(s)' <=> Skipped(s)) /\ (NothingLeft(s)' <=> NothingLeft(s))
  BY DEF Skipped, NothingLeft, AllAre
<1>9. DoneIsOver(s)'
  BY <1>2, <1>4, <1>8 DEF DoneIsOver, Early, Late
<1>10. ASSUME \A j \in JobsOf(s) : ~Real(s, job[j]), ~Real(s, r), s \in done'
       PROVE  Harmless(s)'
  BY <1>1, <1>2, <1>4, <1>8, <1>10 DEF Harmless, RealFailure, Real, Allowed
<1>11. Harmless(s) => Harmless(s)'
  <2>1. CASE Skipped(s)
    BY <1>8, <2>1 DEF Harmless, RunGoesOn
  <2>2. CASE Harmless(s) /\ ~Skipped(s)
    <3>1. pc[s] \notin Early /\ AllAre(s, {"skipped"}) /\ s \in done'
      BY <1>2, <2>2 DEF Harmless, RunGoesOn
    <3>2. ~Real(s, first[s])
      BY <1>1, <3>1 DEF StepInv, ErrorsAreKept, AllAre, Real
    <3>3. ~Real(s, r)
      BY <3>1, <3>2 DEF AllAre
    <3>4. \A j \in JobsOf(s) : ~Real(s, job[j])
      BY <3>1 DEF AllAre, Real
    <3>5. QED
      BY <1>10, <3>1, <3>3, <3>4
  <2>3. QED
    BY <2>1, <2>2
<1>12. DoneIsHarmless(s)'
  <2>1. ASSUME r = "ok", pc[s] # "settling", s \in done' PROVE Harmless(s)'
    <3>1. AllAre(s, {"none"}) \/ AllAre(s, {"passed", "vanished", "skipped"})
      BY <1>1, <1>3, <2>1 DEF StepInv, ErrorsAreKept
    <3>2. QED
      BY <1>10, <2>1, <3>1 DEF AllAre, Real
  <2>2. QED
    BY <1>1, <1>11, <2>1 DEF StepInv, DoneIsHarmless
<1>13. WentOn(s)' => WentOn(s)
  BY <1>2 DEF WentOn, Late
<1>14. QED
  BY <1>5, <1>6, <1>7, <1>9, <1>11, <1>12, <1>13 DEF Moved, StepInv

(* A step that has left its jobs is done, if it is, with no failure of its *)
(* own to hide: or the run is cancelled, or dependents may run anyway.     *)
LEMMA LateMoves ==
  ASSUME Inv, NEW s \in Steps, RunGoesOn,
         pc[s] \in {"leaving", "wrapping"}, pc'[s] \in {"wrapping", "ended"},
         UNCHANGED <<job, joined, first, result, failed>>,
         status'[s] = "Finished" => status[s] = "Finished",
         s \in done' => s \in done \/ failed \/ ~opts.failFast \/ ~Real(s, result[s])
  PROVE  Moved(s)
<1>1. StepInv(s) /\ opts' = opts
  BY DEF Inv, RunGoesOn, fixed
<1>2. /\ pc[s] \in Late /\ pc'[s] \in Late /\ s \notin joined
      /\ Collected(s) \/ AllAre(s, {"none"})
  BY <1>1 DEF Late, StepInv, ResultIsTrue, JobsAreIt
<1>3. NothingLeft(s)
  BY <1>1, <1>2 DEF NothingLeft, AllAre, Collected, StepInv, JobsAreIt
<1>4. ~Real(s, result[s]) => ~RealFailure(s)
  <2>1. ASSUME NEW j \in JobsOf(s), Real(s, job[j]) PROVE Real(s, result[s])
    <3>1. j \in joined
      BY <1>2, <2>1 DEF AllAre, Collected, Real
    <3>2. Real(s, first[s])
      BY <1>1, <2>1, <3>1 DEF StepInv, ErrorsAreKept
    <3>3. QED
      BY <1>1, <1>2, <3>2 DEF StepInv, ResultIsTrue
  <2>2. QED
    BY <2>1 DEF RealFailure
<1>5. JobsAreIt(s)'
  BY <1>1, <1>2 DEF StepInv, JobsAreIt, AllAre, Collected, Early, Late
<1>6. ErrorsAreKept(s)'
  BY <1>1, <1>2 DEF StepInv, ErrorsAreKept, AllAre, Real, Allowed, Late
<1>7. ResultIsTrue(s)'
  BY <1>1, <1>2 DEF StepInv, ResultIsTrue, Real, Allowed
<1>8. /\ (Skipped(s)' <=> Skipped(s)) /\ (NothingLeft(s)' <=> NothingLeft(s))
      /\ RealFailure(s)' <=> RealFailure(s)
      /\ AllAre(s, {"skipped"})' <=> AllAre(s, {"skipped"})
  BY <1>1 DEF Skipped, NothingLeft, AllAre, RealFailure, Real, Allowed
<1>9. DoneIsOver(s)'
  BY <1>2, <1>3, <1>8 DEF DoneIsOver, Early, Late
<1>10. Harmless(s) => Harmless(s)'
  BY <1>2, <1>3, <1>8 DEF Harmless, RunGoesOn
<1>11. DoneIsHarmless(s)'
  <2>1. s \in done' /\ ~Real(s, result[s]) => Harmless(s)'
    BY <1>2, <1>3, <1>4, <1>8 DEF Harmless
  <2>2. QED
    BY <1>1, <1>10, <2>1 DEF StepInv, DoneIsHarmless
<1>12. WentOn(s)' => WentOn(s)
  BY <1>2 DEF WentOn, Late
<1>13. QED
  BY <1>5, <1>6, <1>7, <1>9, <1>10, <1>11, <1>12 DEF Moved, StepInv

(* A step builds its jobs, to run them or all of them skipped.             *)
LEMMA Builds ==
  ASSUME Inv, NEW s \in Steps, Build(s) \/ BuildSkipped(s)
  PROVE  RunGoesOn /\ Moved(s) /\ \A d \in Steps \ {s} : Same(d)
<1>1. /\ StepInv(s) /\ pc \in [Tasks -> StepPCs] /\ job \in [Jobs -> JobPCs]
      /\ first \in [Steps -> Ends] /\ \A d : JobsOf(d) \subseteq Jobs
  BY DEF Inv, TypeOK, JobsOf
<1>2. PICK to \in {"ready", "skipped"} :
        /\ job' = [j \in Jobs |-> IF StepOf[j] = s THEN to ELSE job[j]]
        /\ to = "ready" => JobsOf(s) # {} /\ done' = done
        /\ to = "skipped" => done' = done \cup {s}
  BY DEF Build, BuildSkipped
<1>3. /\ pc[s] = "building" /\ pc'[s] = "joining"
      /\ \A t \in Tasks \ {s} : pc'[t] = pc[t]
  BY <1>1 DEF Build, BuildSkipped, Goto, Tasks
<1>4. UNCHANGED <<fixed, joined, first, result, status, failed, opts>>
  BY DEF Build, BuildSkipped, fixed
<1>5. RunGoesOn
  BY <1>2, <1>4 DEF RunGoesOn
<1>6. AllAre(s, {"none"}) /\ AllAre(s, {to})' /\ JobsOf(s) \cap joined = {}
  BY <1>1, <1>2, <1>3 DEF StepInv, JobsAreIt, AllAre, JobsOf, Early, Over, Quiet, Errors
<1>7. first[s] = "none"
  BY <1>1, <1>6 DEF StepInv, ErrorsAreKept, AllAre
<1>8. JobsAreIt(s)'
  BY <1>2, <1>3, <1>4, <1>6 DEF JobsAreIt, AllAre, Early, Late
<1>9. ErrorsAreKept(s)'
  <2>1. status[s] = "Finished" => JobsOf(s) = {}
    BY <1>1, <1>6 DEF StepInv, ErrorsAreKept, AllAre
  <2>2. QED
    BY <1>3, <1>4, <1>6, <1>7, <2>1 DEF ErrorsAreKept, AllAre
<1>10. result[s] = "none" /\ ResultIsTrue(s)'
  BY <1>1, <1>3, <1>4 DEF StepInv, ResultIsTrue, Late
<1>11. to = "skipped" => Harmless(s)'
  BY <1>2, <1>3, <1>4, <1>6, <1>10 DEF Harmless, AllAre, RealFailure, Real, Early
<1>12. s \notin done
  BY <1>1, <1>3, <1>6 DEF StepInv, DoneIsOver, Skipped, AllAre, Early
<1>13. DoneIsOver(s)' /\ DoneIsHarmless(s)'
  BY <1>2, <1>3, <1>6, <1>11, <1>12 DEF DoneIsOver, DoneIsHarmless, NothingLeft, AllAre, Over,
     Quiet, Early
<1>14. Moved(s)
  BY <1>3, <1>8, <1>9, <1>10, <1>12, <1>13 DEF Moved, StepInv, Harmless, WentOn
<1>15. ASSUME NEW d \in Steps \ {s} PROVE Same(d)
  BY <1>1, <1>2, <1>3, <1>4, <1>15 DEF Same, JobsOf, Tasks
<1>16. QED
  BY <1>5, <1>14, <1>15

(* The jobs of a step that are not over are dropped: after a grace period  *)
(* in a cancelled run, or with the step when the group ended without it.   *)
LEMMA Drops ==
  ASSUME Inv, NEW s \in Steps, Grace(s) \/ Drop(s)
  PROVE  RunGoesOn /\ Moved(s) /\ \A d \in Steps \ {s} : Same(d)
<1>1. /\ StepInv(s) /\ pc \in [Tasks -> StepPCs] /\ job \in [Jobs -> JobPCs]
      /\ first \in [Steps -> Ends] /\ \A d : JobsOf(d) \subseteq Jobs
  BY DEF Inv, TypeOK, JobsOf
<1>2. job' = [j \in Jobs |-> IF StepOf[j] = s /\ job[j] \notin Over THEN "dropped" ELSE job[j]]
  BY DEF Grace, Drop
<1>3. /\ \A t \in Tasks \ {s} : pc'[t] = pc[t]
      /\ \/ pc[s] = "joining" /\ pc'[s] = "joining" /\ failed
         \/ pc[s] \notin {"ended", "gone"} /\ pc'[s] = "gone"
  BY <1>1 DEF Grace, Drop, Goto, Tasks
<1>4. /\ UNCHANGED <<fixed, joined, first, result, status, failed, opts>>
      /\ done' = done \/ (done' = done \cup {s} /\ failed)
  BY DEF Grace, Drop, fixed
<1>5. RunGoesOn
  BY <1>4 DEF RunGoesOn
<1>6. \A j \in JobsOf(s) : /\ job[j] \in Over => job'[j] = job[j]
                           /\ job[j] \notin Over => job'[j] = "dropped"
                           /\ job'[j] \in Over
  BY <1>2 DEF JobsOf, Over, Quiet
<1>7. \A e \in Over \ {"dropped"} : \A j \in JobsOf(s) : job'[j] = e <=> job[j] = e
  BY <1>6
<1>8. JobsAreIt(s)'
  <2>1. \A i, j \in JobsOf(s) : job'[i] = "skipped" => job'[j] = "skipped"
    BY <1>1, <1>6, <1>7 DEF StepInv, JobsAreIt, Over, Quiet
  <2>2. \A j \in JobsOf(s) : /\ job'[j] \in {"idle", "cancelled"} => failed'
                             /\ job'[j] = "dropped" => failed' \/ pc'[s] = "gone"
    BY <1>1, <1>3, <1>4, <1>6 DEF StepInv, JobsAreIt
  <2>3. pc'[s] \notin Early \cup Late \cup {"settling", "staging"}
    BY <1>3 DEF Early, Late
  <2>4. QED
    BY <1>4, <1>6, <2>1, <2>2, <2>3 DEF JobsAreIt, AllAre
<1>9. ErrorsAreKept(s)'
  <2>1. \A j \in JobsOf(s) \cap joined : job'[j] = job[j]
    BY <1>1, <1>6 DEF StepInv, JobsAreIt
  <2>2. first[s] # "none" => first[s] \in Over \ {"dropped"}
    BY <1>1 DEF Ends, Over, Errors
  <2>3. status[s] = "Finished" => AllAre(s, {"passed", "vanished"})'
    BY <1>1, <1>6 DEF StepInv, ErrorsAreKept, AllAre, Over, Quiet
  <2>4. QED
    BY <1>1, <1>3, <1>4, <1>6, <2>1, <2>2, <2>3 DEF StepInv, ErrorsAreKept, Real, Allowed
<1>10. ResultIsTrue(s)'
  BY <1>1, <1>3, <1>4 DEF StepInv, ResultIsTrue, Late, Real, Allowed
<1>11. Skipped(s) => Skipped(s)'
  BY <1>6 DEF Skipped, Over, Quiet
<1>12. RealFailure(s)' <=> RealFailure(s)
  <2>1. \A j \in JobsOf(s) : Real(s, job'[j]) <=> Real(s, job[j])
    BY <1>7 DEF Real, Over, Errors
  <2>2. QED
    BY <1>4, <2>1 DEF RealFailure, Real, Allowed
<1>13. pc'[s] \notin Early /\ NothingLeft(s)' /\ (AllAre(s, {"skipped"}) => AllAre(s, {"skipped"})')
  BY <1>3, <1>6 DEF NothingLeft, AllAre, Early, Over, Quiet
<1>14. Harmless(s) => Harmless(s)'
  BY <1>3, <1>4, <1>11, <1>12, <1>13 DEF Harmless, Late
<1>15. DoneIsOver(s)' /\ DoneIsHarmless(s)'
  BY <1>1, <1>4, <1>13, <1>14 DEF StepInv, DoneIsOver, DoneIsHarmless
<1>16. WentOn(s)' => WentOn(s)
  <2>1. \A j \in JobsOf(s) : job'[j] \notin {"none", "dropped"} => job[j] \notin {"none", "dropped"}
    BY <1>6
  <2>2. QED
    BY <1>3, <2>1 DEF WentOn
<1>17. Moved(s)
  BY <1>8, <1>9, <1>10, <1>14, <1>15, <1>16 DEF Moved, StepInv
<1>18. ASSUME NEW d \in Steps \ {s} PROVE Same(d)
  BY <1>1, <1>2, <1>3, <1>4, <1>18 DEF Same, JobsOf, Tasks
<1>19. QED
  BY <1>5, <1>17, <1>18

(* Of the errors a step meets it keeps one, and a real one if there is any. *)
LEMMA KeepsErrors ==
  ASSUME NEW s \in Steps, NEW e \in Errors, first[s] \in Ends, first[s] = "cancelled" => failed
  PROVE  /\ Kept(s, e) \in {first[s], e} /\ Kept(s, e) # "none"
         /\ Real(s, first[s]) => Real(s, Kept(s, e))
         /\ Real(s, e) => Real(s, Kept(s, e))
<1>1. e \in {"command", "hk", "cancelled"} /\ first[s] \in {"none", "command", "hk", "cancelled"}
  BY DEF Ends, Errors
<1>2. QED
  BY <1>1 DEF Kept, Real, Allowed

(* A step collects the end of a job.                                       *)
LEMMA JoinsJob ==
  ASSUME Inv, NEW s \in Steps, NEW j \in Jobs, JoinJob(s, j)
  PROVE  RunGoesOn /\ Moved(s) /\ \A d \in Steps \ {s} : Same(d)
<1>1. /\ StepInv(s) /\ pc \in [Tasks -> StepPCs] /\ first \in [Steps -> Ends]
      /\ status \in [Steps -> Statuses]
  BY DEF Inv, TypeOK
<1>2. /\ pc[s] = "joining" /\ pc'[s] \in Middle
      /\ \A t \in Tasks \ {s} : pc'[t] = pc[t]
  BY <1>1 DEF JoinJob, Goto, Tasks, Middle
<1>3. /\ UNCHANGED <<fixed, job, result, done, failed, opts>>
      /\ joined' = joined \cup {j} /\ j \in JobsOf(s) /\ job[j] \in Over
  BY DEF JoinJob, fixed
<1>4. \A d \in Steps : status'[d] = "Finished" => status[d] = "Finished"
  BY <1>1 DEF JoinJob, Errored, With
<1>5. \A d \in Steps \ {s} : first'[d] = first[d]
  BY <1>1 DEF JoinJob
<1>6. RunGoesOn
  BY <1>3 DEF RunGoesOn
<1>7. JobsAreIt(s)'
  BY <1>1, <1>2, <1>3 DEF StepInv, JobsAreIt, AllAre, Middle, Early, Late
<1>8. ErrorsAreKept(s)'
  <2>1. /\ job[j] \notin Errors => first'[s] = first[s]
        /\ job[j] \in Errors => first'[s] = Kept(s, job[j])
    BY <1>1 DEF JoinJob
  <2>2. first[s] = "cancelled" => failed
    BY <1>1 DEF StepInv, ErrorsAreKept, JobsAreIt
  <2>3. /\ job[j] \in Errors => first'[s] # "none"
        /\ Real(s, job[j]) => Real(s, first'[s])
        /\ first[s] # "none" => first'[s] # "none"
        /\ Real(s, first[s]) => Real(s, first'[s])
        /\ first'[s] \in {first[s], job[j]}
    BY <1>1, <2>1, <2>2, KeepsErrors DEF Real, Errors
  <2>4. \A i \in JobsOf(s) \cap joined' : /\ job[i] \in Errors => first'[s] # "none"
                                          /\ Real(s, job[i]) => Real(s, first'[s])
    BY <1>1, <1>3, <2>3 DEF StepInv, ErrorsAreKept
  <2>5. first'[s] # "none" => \E i \in JobsOf(s) : job[i] = first'[s]
    BY <1>1, <1>3, <2>3 DEF StepInv, ErrorsAreKept
  <2>6. pc'[s] # "staging" /\ (status'[s] = "Finished" => AllAre(s, {"passed", "vanished"}))
    BY <1>1, <1>2, <1>4 DEF StepInv, ErrorsAreKept, Middle
  <2>7. QED
    BY <1>3, <2>4, <2>5, <2>6 DEF ErrorsAreKept, AllAre, Real, Allowed
<1>9. s \notin joined' /\ ResultIsTrue(s)'
  BY <1>1, <1>2, <1>3, GroupOK DEF StepInv, ResultIsTrue, Middle, Late, JobsOf
<1>10. /\ Harmless(s)' <=> Harmless(s)
       /\ DoneIsOver(s)'
       /\ WentOn(s)' <=> WentOn(s)
  BY <1>1, <1>2, <1>3 DEF StepInv, DoneIsOver, Harmless, WentOn, Skipped, RealFailure, Real,
     Allowed,
     AllAre, NothingLeft, Middle, Early, Late
<1>11. DoneIsHarmless(s)'
  BY <1>1, <1>3, <1>10 DEF StepInv, DoneIsHarmless
<1>12. Moved(s)
  BY <1>7, <1>8, <1>9, <1>10, <1>11 DEF Moved, StepInv
<1>13. ASSUME NEW d \in Steps \ {s} PROVE Same(d)
  BY <1>2, <1>3, <1>4, <1>5, <1>13, GroupOK DEF Same, JobsOf, Tasks
<1>14. QED
  BY <1>6, <1>12, <1>13

(* A step has all its jobs, and goes on to stage when none failed and      *)
(* nothing is cancelled: then each of them passed, vanished or was skipped. *)
LEMMA Settles ==
  ASSUME Inv, NEW s \in Steps, BeginSettle(s) \/ (Settle(s) /\ Settled(s) = "go on")
  PROVE  RunGoesOn /\ Moved(s) /\ \A d \in Steps \ {s} : Same(d)
<1>1. StepInv(s) /\ pc \in [Tasks -> StepPCs] /\ first \in [Steps -> Ends]
  BY DEF Inv, TypeOK
<1>2. /\ \/ pc[s] = "joining" /\ pc'[s] = "settling"
         \/ pc[s] = "settling" /\ pc'[s] = "staging"
      /\ \A t \in Tasks \ {s} : pc'[t] = pc[t]
  BY <1>1 DEF BeginSettle, Settle, Goto, Tasks
<1>3. UNCHANGED <<fixed, job, joined, first, result, status, done, failed, opts>>
  BY DEF BeginSettle, Settle, fixed
<1>4. RunGoesOn
  BY <1>3 DEF RunGoesOn
<1>5. JobsAreIt(s)'
  <2>1. Collected(s)
    BY <1>1, <1>2 DEF BeginSettle, Settle, Collected, StepInv, JobsAreIt
  <2>2. QED
    BY <1>1, <1>2, <1>3, <2>1 DEF StepInv, JobsAreIt, AllAre, Collected, Early, Late
<1>6. ErrorsAreKept(s)'
  <2>1. ASSUME pc'[s] = "staging", NEW j \in JobsOf(s)
        PROVE  job[j] \in {"passed", "vanished", "skipped"}
    <3>1. Settled(s) = "go on" /\ pc[s] = "settling"
      BY <1>2, <2>1 DEF BeginSettle
    <3>2. first[s] = "none" /\ ~failed
      BY <1>1, <3>1 DEF Settled, Ends, Errors
    <3>3. j \in joined
      BY <1>1, <3>1 DEF StepInv, JobsAreIt, Collected
    <3>4. job[j] \in Over /\ job[j] \notin Errors
      BY <1>1, <3>2, <3>3 DEF StepInv, JobsAreIt, ErrorsAreKept
    <3>5. job[j] \notin {"idle", "dropped"}
      BY <1>1, <3>1, <3>2 DEF StepInv, JobsAreIt
    <3>6. QED
      BY <3>4, <3>5 DEF Over, Quiet
  <2>2. QED
    BY <1>1, <1>2, <1>3, <2>1 DEF StepInv, ErrorsAreKept, AllAre, Real, Allowed
<1>7. ResultIsTrue(s)'
  BY <1>1, <1>2, <1>3 DEF StepInv, ResultIsTrue, Late
<1>8. /\ Harmless(s)' <=> Harmless(s)
      /\ DoneIsOver(s)'
      /\ WentOn(s)' <=> WentOn(s)
  BY <1>1, <1>2, <1>3 DEF StepInv, DoneIsOver, Harmless, WentOn, Skipped, RealFailure, Real,
     Allowed,
     AllAre, NothingLeft, Early, Late
<1>9. DoneIsHarmless(s)'
  BY <1>1, <1>3, <1>8 DEF StepInv, DoneIsHarmless
<1>10. Moved(s)
  BY <1>5, <1>6, <1>7, <1>8, <1>9 DEF Moved, StepInv
<1>11. ASSUME NEW d \in Steps \ {s} PROVE Same(d)
  BY <1>2, <1>3, <1>11 DEF Same, Tasks
<1>12. QED
  BY <1>4, <1>10, <1>11

(* A step ends, one way or another, and says how.                          *)
LEMMA LeavesAreSteps ==
  ASSUME Inv, NEW s \in Steps,
         \/ GiveUp(s) \/ SkipStep(s) \/ BuildBreaks(s) \/ Complete(s) \/ StagingBreaks(s)
         \/ Settle(s) /\ Settled(s) # "go on"
  PROVE  RunGoesOn /\ Moved(s) /\ \A d \in Steps \ {s} : Same(d)
<1>1. /\ StepInv(s) /\ pc \in [Tasks -> StepPCs] /\ first \in [Steps -> Ends]
      /\ result \in [Tasks -> Results] /\ status \in [Steps -> Statuses]
  BY DEF Inv, TypeOK
<1>2. PICK r \in Errors \cup {"ok"} : Return(s, r) /\ result'[s] = r
  <2>1. Settle(s) /\ Settled(s) # "go on" => Settled(s) \in Errors \cup {"ok"}
    BY <1>1 DEF Settled, Ends, Errors
  <2>2. \E r \in Errors \cup {"ok"} : Return(s, r)
    BY <2>1 DEF GiveUp, SkipStep, BuildBreaks, Complete, StagingBreaks, Settle, Errors
  <2>3. QED
    BY <1>1, <2>2 DEF Return, Tasks
<1>3. /\ pc[s] \in Early \cup {"settling", "staging"} /\ pc'[s] = "leaving"
      /\ \A t \in Tasks \ {s} : pc'[t] = pc[t] /\ result'[t] = result[t]
  BY <1>1, <1>2 DEF GiveUp, SkipStep, BuildBreaks, Complete, StagingBreaks, Settle, Return, Goto,
     Early, Tasks
<1>4. UNCHANGED <<fixed, job, joined, first, failed, opts>>
  BY DEF GiveUp, SkipStep, BuildBreaks, Complete, StagingBreaks, Settle, fixed
<1>5. /\ done' \in {done, done \cup {s}}
      /\ s \in done' => s \in done \/ (r = "ok" /\ pc[s] # "settling")
  BY <1>1, <1>2 DEF GiveUp, SkipStep, BuildBreaks, Complete, StagingBreaks, Settle, Return, Tasks
<1>6. RunGoesOn
  BY <1>3, <1>4, <1>5, GroupOK DEF RunGoesOn, Tasks, Group
<1>7. /\ \A d \in Steps \ {s} : status'[d] = "Finished" => status[d] = "Finished"
      /\ status'[s] = "Finished" => status[s] = "Finished" \/ AllAre(s, {"passed", "vanished"})
  <2>1. CASE Complete(s) /\ \E j \in JobsOf(s) : job[j] # "skipped"
    <3>1. AllAre(s, {"passed", "vanished", "skipped"})
      BY <1>1, <2>1 DEF Complete, StepInv, ErrorsAreKept
    <3>2. AllAre(s, {"passed", "vanished"})
      BY <1>1, <2>1, <3>1 DEF AllAre, StepInv, JobsAreIt
    <3>3. QED
      BY <1>1, <2>1, <3>2 DEF Complete
  <2>2. CASE ~(Complete(s) /\ \E j \in JobsOf(s) : job[j] # "skipped")
    BY <1>1, <2>2 DEF GiveUp, SkipStep, BuildBreaks, Complete, StagingBreaks, Settle, With
  <2>3. QED
    BY <2>1, <2>2
<1>8. Real(s, first[s]) => r = first[s]
  <2>1. CASE pc[s] = "settling"
    <3>1. r = Settled(s)
      BY <1>1, <1>2, <2>1 DEF GiveUp, SkipStep, BuildBreaks, Complete, StagingBreaks, Settle,
         Return,
         Tasks
    <3>2. QED
      BY <3>1 DEF Settled, Real
  <2>2. CASE pc[s] # "settling"
    <3>1. AllAre(s, {"none"}) \/ AllAre(s, {"passed", "vanished", "skipped"})
      BY <1>1, <1>3, <2>2 DEF StepInv, JobsAreIt, ErrorsAreKept
    <3>2. ~Real(s, first[s])
      BY <1>1, <3>1 DEF AllAre, StepInv, ErrorsAreKept, Real
    <3>3. QED
      BY <3>2
  <2>3. QED
    BY <2>1, <2>2
<1>9. Real(s, r) => \/ pc[s] \in Early \/ Real(s, first[s])
                    \/ \E j \in JobsOf(s) : job[j] = "passed"
  <2>1. CASE Settle(s)
    <3>1. r = Settled(s)
      BY <1>1, <1>2, <2>1 DEF Settle, Return, Goto, Tasks
    <3>2. QED
      BY <1>1, <3>1 DEF Settled, Real, Ends, Errors
  <2>2. CASE ~Settle(s)
    BY <1>1, <1>2, <2>2 DEF GiveUp, SkipStep, BuildBreaks, Complete, StagingBreaks, Return, Early,
       Real, Tasks
  <2>3. QED
    BY <2>1, <2>2
<1>10. Moved(s)
  BY <1>2, <1>3, <1>4, <1>5, <1>6, <1>7, <1>8, <1>9, Leaves
<1>11. ASSUME NEW d \in Steps \ {s} PROVE Same(d)
  BY <1>3, <1>4, <1>5, <1>7, <1>11 DEF Same, Tasks
<1>12. QED
  BY <1>6, <1>10, <1>11

(* A step goes on towards its jobs, or between its joins.                  *)
LEMMA GoesOn ==
  ASSUME Inv, NEW s \in Steps,
         \/ GiveSlotUp(s) \/ Woken(s) \/ TakeSlot(s)
  PROVE  RunGoesOn /\ Moved(s) /\ \A d \in Steps \ {s} : Same(d)
<1>1. StepInv(s) /\ pc \in [Tasks -> StepPCs]
  BY DEF Inv, TypeOK
<1>2. /\ pc[s] \in Early /\ pc'[s] \in Early
      /\ \A t \in Tasks \ {s} : pc'[t] = pc[t]
  BY <1>1 DEF GiveSlotUp, Woken, TakeSlot, Goto, Early, Tasks
<1>3. UNCHANGED <<fixed, job, joined, first, result, status, done, failed, opts>>
  BY DEF GiveSlotUp, Woken, TakeSlot, fixed
<1>4. RunGoesOn
  BY <1>3 DEF RunGoesOn
<1>5. WentOn(s)' => WentOn(s) \/ Woken(s)
  BY <1>1, <1>3 DEF WentOn, GiveSlotUp, TakeSlot, Tasks
<1>6. ASSUME Woken(s), NEW d \in Deps[s] PROVE d \in done /\ (opts.failFast => Harmless(d))
  <2>1. d \in done /\ ~failed /\ d \in Steps
    BY <1>6, GroupOK DEF Woken
  <2>2. QED
    BY <2>1 DEF Inv, StepInv, DoneIsHarmless
<1>7. Moved(s)
  BY <1>2, <1>3, <1>4, <1>5, <1>6, MovesOn
<1>8. ASSUME NEW d \in Steps \ {s} PROVE Same(d)
  BY <1>2, <1>3, <1>8 DEF Same, Tasks
<1>9. QED
  BY <1>4, <1>7, <1>8

(* A step that was woken ends: it wakes its dependents if the run is       *)
(* cancelled, or if they may run though it failed.                         *)
LEMMA WakesAndWraps ==
  ASSUME Inv, NEW s \in Steps, Wake(s) \/ Wrap(s)
  PROVE  RunGoesOn /\ Moved(s) /\ \A d \in Steps \ {s} : Same(d)
<1>1. StepInv(s) /\ pc \in [Tasks -> StepPCs] /\ status \in [Steps -> Statuses]
  BY DEF Inv, TypeOK
<1>2. /\ pc[s] \in {"leaving", "wrapping"} /\ pc'[s] \in {"wrapping", "ended"}
      /\ \A t \in Tasks \ {s} : pc'[t] = pc[t]
  BY <1>1 DEF Wake, Wrap, Goto, Tasks
<1>3. UNCHANGED <<fixed, job, joined, first, result, failed, opts>>
  BY DEF Wake, Wrap, fixed
<1>4. \A d \in Steps : status'[d] = "Finished" => status[d] = "Finished"
  BY <1>1 DEF Wake, Wrap, Errored, With
<1>5. /\ done' \in {done, done \cup {s}}
      /\ s \in done' => s \in done \/ failed \/ ~opts.failFast \/ ~Real(s, result[s])
  BY DEF Wake, Wrap, Releases, Real
<1>6. RunGoesOn
  BY <1>3, <1>5 DEF RunGoesOn
<1>7. Moved(s)
  BY <1>2, <1>3, <1>4, <1>5, <1>6, LateMoves
<1>8. ASSUME NEW d \in Steps \ {s} PROVE Same(d)
  BY <1>2, <1>3, <1>4, <1>5, <1>8 DEF Same, Tasks
<1>9. QED
  BY <1>6, <1>7, <1>8

(* A step or the group cancels the run, one step at a time.                *)
LEMMA Aborts ==
  ASSUME Inv, NEW t \in Tasks, Abort(t)
  PROVE  /\ RunGoesOn /\ (t \in Steps => Moved(t)) /\ \A d \in Steps \ {t} : Same(d)
         /\ pc[t] \in Middle \ {"joining"} /\ \A u \in Tasks \ {t} : pc'[u] = pc[u]
         /\ pc'[t] \in IF t = Group THEN (Middle \ {"joining"}) \cup {"ended"} ELSE Middle
         /\ UNCHANGED <<joined, result>>
<1>1. pc \in [Tasks -> StepPCs] /\ status \in [Steps -> Statuses] /\ Group \notin Steps
  BY GroupOK DEF Inv, TypeOK, Group
<1>2. /\ pc[t] \in Middle \ {"joining"}
      /\ \A u \in Tasks \ {t} : pc'[u] = pc[u]
      /\ pc'[t] \in IF t = Group THEN (Middle \ {"joining"}) \cup {"ended"} ELSE Middle
  BY <1>1 DEF Abort, SeeToken, MarkAbort, AbortStatuses, CancelRun, Goto, Middle
<1>3. UNCHANGED <<fixed, job, joined, first, result, done, opts>> /\ (failed => failed')
  BY DEF Abort, SeeToken, MarkAbort, AbortStatuses, CancelRun, fixed
<1>4. \A d \in Steps : status'[d] = "Finished" => status[d] = "Finished"
  BY <1>1 DEF Abort, SeeToken, MarkAbort, AbortStatuses, CancelRun
<1>5. RunGoesOn
  BY <1>3 DEF RunGoesOn
<1>6. ASSUME t \in Steps PROVE Moved(t)
  <2>1. pc'[t] \in Middle
    BY <1>1, <1>2, <1>6
  <2>2. WentOn(t)' => WentOn(t)
    BY <1>3, <2>1 DEF WentOn, Middle
  <2>3. QED
    BY <1>2, <1>3, <1>4, <1>5, <1>6, <2>1, <2>2, MovesOn
<1>7. ASSUME NEW d \in Steps \ {t} PROVE Same(d)
  BY <1>2, <1>3, <1>4, <1>7 DEF Same, Tasks
<1>8. QED
  BY <1>2, <1>3, <1>5, <1>6, <1>7

(* The group collects a step, and fails with it.                           *)
LEMMA JoinsStep ==
  ASSUME Inv, NEW s \in Steps, JoinStep(s)
  PROVE  RunGoesOn /\ Moved(s) /\ (\A d \in Steps \ {s} : Same(d)) /\ GroupIsIt'
<1>1. /\ StepInv(s) /\ pc \in [Tasks -> StepPCs] /\ result \in [Tasks -> Results]
      /\ GroupIsIt /\ Group \notin Steps /\ Group \in Tasks /\ s \notin Jobs
  BY GroupOK DEF Inv, TypeOK, Group, Tasks
<1>2. /\ pc[s] = "ended" /\ pc[Group] = "joining" /\ pc'[Group] \in {"joining", "aborting"}
      /\ \A t \in Steps : pc'[t] = pc[t] /\ result'[t] = result[t]
      /\ joined' = joined \cup {s}
  BY <1>1 DEF JoinStep, Goto, Tasks
<1>3. UNCHANGED <<fixed, job, first, status, done, failed, opts>>
  BY DEF JoinStep, fixed
<1>4. /\ Real(s, result[s]) => result'[Group] = "failed"
      /\ result[Group] = "failed" => result'[Group] = "failed"
      /\ pc'[Group] = "aborting" => result'[Group] = "failed"
  <2> DEFINE err == IF Allowed(s, result[s]) THEN "ok" ELSE result[s]
  <2>1. CASE err = "ok"
    <3>1. UNCHANGED <<result, pc>> /\ ~Real(s, result[s])
      BY <2>1 DEF JoinStep, Real
    <3>2. QED
      BY <1>2, <3>1
  <2>2. CASE err = "cancelled"
    <3>1. UNCHANGED pc /\ ~Real(s, result[s])
      BY <2>2 DEF JoinStep, Real
    <3>2. result[Group] = "failed" => result'[Group] = "failed"
      BY <1>1, <2>2 DEF JoinStep
    <3>3. QED
      BY <1>2, <3>1, <3>2
  <2>3. CASE err \notin {"ok", "cancelled"}
    <3>1. result'[Group] = "failed"
      BY <1>1, <2>3 DEF JoinStep
    <3>2. QED
      BY <3>1
  <2>4. QED
    BY <2>1, <2>2, <2>3
<1>5. RunGoesOn
  BY <1>3, <1>4 DEF RunGoesOn
<1>6. JobsAreIt(s)' /\ ErrorsAreKept(s)'
  BY <1>1, <1>2, <1>3 DEF StepInv, JobsAreIt, ErrorsAreKept, AllAre, Collected, Real, Allowed,
     JobsOf
<1>7. ResultIsTrue(s)'
  BY <1>1, <1>2, <1>3, <1>4 DEF StepInv, ResultIsTrue, Real, Allowed
<1>8. /\ Harmless(s)' <=> Harmless(s)
      /\ DoneIsOver(s)' /\ DoneIsHarmless(s)'
      /\ WentOn(s)' <=> WentOn(s)
  BY <1>1, <1>2, <1>3 DEF StepInv, DoneIsOver, DoneIsHarmless, Harmless, WentOn, Skipped,
     RealFailure,
     Real, Allowed, AllAre, NothingLeft
<1>9. Moved(s)
  BY <1>6, <1>7, <1>8 DEF Moved, StepInv
<1>10. ASSUME NEW d \in Steps \ {s} PROVE Same(d)
  BY <1>1, <1>2, <1>3, <1>10 DEF Same, JobsOf
<1>11. GroupIsIt'
  BY <1>1, <1>2, <1>4 DEF GroupIsIt
<1>12. QED
  BY <1>5, <1>9, <1>10, <1>11

-----------------------------------------------------------------------------
(* Every transition keeps what the invariant says of the steps.            *)
LEMMA StepsMove ==
  ASSUME Inv, [Next]_vars
  PROVE  GroupIsIt' /\ \A s \in Steps : StepInv(s)' /\ WentOnInTime(s)'
<1>1. GroupIsIt /\ Group \notin Steps /\ Group \in Tasks /\ Steps \subseteq Tasks
  BY GroupOK DEF Inv, Group, Tasks
<1>2. ASSUME NEW s \in Steps, StepActs(s)
      PROVE  RunGoesOn /\ Moved(s) /\ \A d \in Steps \ {s} : Same(d)
  <2>1. CASE Settle(s)
    BY <2>1, Settles, LeavesAreSteps
  <2>2. CASE GiveSlotUp(s) \/ Woken(s) \/ TakeSlot(s)
    BY <2>2, GoesOn
  <2>3. CASE GiveUp(s) \/ SkipStep(s) \/ BuildBreaks(s) \/ Complete(s) \/ StagingBreaks(s)
    BY <2>3, LeavesAreSteps
  <2>4. CASE Build(s) \/ BuildSkipped(s)
    BY <2>4, Builds
  <2>5. CASE Grace(s) \/ Drop(s)
    BY <2>5, Drops
  <2>6. CASE \E j \in Jobs : JoinJob(s, j)
    BY <2>6, JoinsJob
  <2>7. CASE BeginSettle(s) \/ Wake(s) \/ Wrap(s)
    BY <2>7, Settles, WakesAndWraps
  <2>8. QED
    BY <1>2, <2>1, <2>2, <2>3, <2>4, <2>5, <2>6, <2>7 DEF StepActs
<1>3. ASSUME NEW s \in Steps, StepActs(s) PROVE GroupIsIt'
  <2>1. pc'[Group] = pc[Group] /\ result'[Group] = result[Group] /\ joined \subseteq joined'
    BY <1>1, <1>3 DEF StepActs, GiveSlotUp, Woken, GiveUp, TakeSlot, Build, BuildSkipped, SkipStep,
       BuildBreaks, Grace, JoinJob, BeginSettle, Settle, Complete, StagingBreaks, Wake, Wrap, Drop,
       Goto, Return, Inv, TypeOK
  <2>2. QED
    BY <1>1, <2>1 DEF GroupIsIt
<1>4. ASSUME NEW j \in Jobs, JobActs(j)
      PROVE  RunGoesOn /\ GroupIsIt' /\ \A s \in Steps : Same(s) \/ Moved(s)
  <2>1. StepOf[j] \in Steps /\ status \in [Steps -> Statuses]
    BY GroupOK DEF Inv, TypeOK
  <2>2. /\ UNCHANGED <<fixed, pc, joined, first, result, failed, opts>>
        /\ job[j] \in {"ready", "queued", "running"}
        /\ \A d \in Steps : status'[d] = "Finished" => status[d] = "Finished"
    BY <1>4, <2>1 DEF JobActs, Idle, Enqueue, Start, Vanish, Pass, Fail, Break, Stop, JobEnds,
       fixed,
       Errored, With
  <2>3. PICK to \in JobPCs : /\ job' = [job EXCEPT ![j] = to]
                             /\ to \notin {"none", "skipped", "dropped"}
                             /\ to \in {"idle", "cancelled"} => failed
                             /\ done' = IF to = "vanished" THEN done \cup {StepOf[j]} ELSE done
    <3>1. CASE Idle(j) \/ Enqueue(j) \/ Start(j)
      BY <3>1 DEF Idle, Enqueue, Start, JobGoes, JobPCs, Over, Quiet
    <3>2. CASE Vanish(j) \/ Pass(j) \/ Fail(j)
      BY <3>2 DEF Vanish, Pass, Fail, JobEnds, JobGoes, JobPCs, Over, Quiet, Errors
    <3>3. CASE Break(j) \/ Stop(j)
      BY <3>3 DEF Break, Stop, JobEnds, JobGoes, JobPCs, Over, Errors
    <3>4. QED
      BY <1>4, <3>1, <3>2, <3>3 DEF JobActs
  <2>4. RunGoesOn
    BY <2>2, <2>3 DEF RunGoesOn
  <2>5. Moved(StepOf[j]) /\ \A d \in Steps \ {StepOf[j]} : Same(d)
    BY <2>1, <2>2, <2>3, <2>4, JobMoves
  <2>6. QED
    BY <1>1, <2>2, <2>4, <2>5 DEF GroupIsIt
<1>5. ASSUME NEW t \in Tasks, Abort(t)
      PROVE  RunGoesOn /\ GroupIsIt' /\ \A s \in Steps : Same(s) \/ Moved(s)
  <2>1. GroupIsIt'
    BY <1>1, <1>5, Aborts DEF GroupIsIt, Middle
  <2>2. QED
    BY <1>5, <2>1, Aborts
<1>6. CASE EndGroup \/ CtrlC \/ UNCHANGED vars
  <2>1. /\ \A s \in Steps : pc'[s] = pc[s] /\ result'[s] = result[s]
        /\ UNCHANGED <<fixed, job, joined, first, status, done, opts>>
        /\ failed => failed'
        /\ result[Group] = "failed" => result'[Group] = "failed"
    BY <1>1, <1>6 DEF EndGroup, CtrlC, Goto, vars, fixed, Inv, TypeOK
  <2>2. RunGoesOn /\ \A s \in Steps : Same(s)
    BY <2>1 DEF RunGoesOn, Same
  <2>3. GroupIsIt'
    BY <1>1, <1>6 DEF EndGroup, CtrlC, Goto, vars, Inv, TypeOK, GroupIsIt
  <2>4. QED
    BY <2>2, <2>3, StepsKeepInv
<1>7. QED
  BY <1>2, <1>3, <1>4, <1>5, <1>6, JoinsStep, StepsKeepInv DEF Next, Finished

(* The slots are some of a finite set of steps and jobs.                   *)
LEMMA SlotsAreFinite ==
  ASSUME TypeOK
  PROVE  /\ IsFiniteSet(slot) /\ Cardinality(slot) \in Nat /\ scene.slots \in Nat
         /\ \A x : /\ Cardinality(slot \cup {x}) = IF x \in slot THEN Cardinality(slot)
                                                   ELSE Cardinality(slot) + 1
                   /\ Cardinality(slot \ {x}) = IF x \in slot THEN Cardinality(slot) - 1
                                                ELSE Cardinality(slot)
<1>1. IsFiniteSet(Steps \cup Jobs)
  BY GroupOK, FS_Union
<1>2. IsFiniteSet(slot)
  BY <1>1, FS_Subset DEF TypeOK
<1>3. Cardinality(slot) \in Nat
  BY <1>2, FS_CardinalityType
<1>4. scene.slots \in Nat
  BY GroupOK DEF TypeOK
<1>5. QED
  BY <1>2, <1>3, <1>4, FS_AddElement, FS_RemoveElement

(* Giving slots back leaves the others with theirs.                        *)
LEMMA FewerSlots ==
  ASSUME TypeOK, Cardinality(slot) <= scene.slots, slot' \subseteq slot, UNCHANGED scene
  PROVE  Cardinality(slot') <= scene'.slots
<1>1. Cardinality(slot') <= Cardinality(slot) /\ Cardinality(slot') \in Nat
  BY SlotsAreFinite, FS_Subset, FS_CardinalityType
<1>2. QED
  BY <1>1, SlotsAreFinite

(* Taking a free slot leaves no more in use than there are.                *)
LEMMA OneMoreSlot ==
  ASSUME TypeOK, Cardinality(slot) <= scene.slots, UNCHANGED scene,
         NEW x, x \in slot \/ Cardinality(slot) < scene.slots, slot' = slot \cup {x}
  PROVE  Cardinality(slot') <= scene'.slots
<1>1. /\ Cardinality(slot) \in Nat /\ scene.slots \in Nat
      /\ Cardinality(slot \cup {x})
           = IF x \in slot THEN Cardinality(slot) ELSE Cardinality(slot) + 1
  BY SlotsAreFinite
<1>2. CASE x \in slot
  BY <1>1, <1>2
<1>3. CASE x \notin slot
  <2>1. Cardinality(slot \cup {x}) = Cardinality(slot) + 1 /\ Cardinality(slot) < scene.slots
    BY <1>1, <1>3
  <2>2. QED
    BY <1>1, <2>1
<1>4. QED
  BY <1>2, <1>3

(* A slot is taken when one is free, or passes from a step to its job.     *)
LEMMA SlotsStayHeld ==
  ASSUME Inv, [Next]_vars
  PROVE  SlotsAreHeld'
<1>1. /\ TypeOK /\ SlotsAreHeld
      /\ Group \notin Steps /\ Steps \subseteq Tasks /\ Steps \cap Jobs = {}
      /\ pc \in [Tasks -> StepPCs] /\ job \in [Jobs -> JobPCs]
  BY GroupOK DEF Inv, TypeOK, Tasks, Group
<1>2. UNCHANGED scene
  BY DEF Next, vars, fixed, StepActs, JobActs, Abort, GiveSlotUp, Woken, GiveUp, TakeSlot,
     Build, BuildSkipped, SkipStep, BuildBreaks, Grace, JoinJob, BeginSettle, Settle, Complete,
     StagingBreaks, Wake, Wrap, Drop, Idle, Enqueue, Start, Vanish, Pass, Fail, Break, Stop,
     JobEnds, SeeToken, MarkAbort, AbortStatuses, CancelRun, JoinStep, EndGroup, CtrlC, Finished
<1>3. ASSUME slot' \subseteq slot,
             \A s \in Steps : pc'[s] = "building" => s \in slot',
             \A j \in Jobs : job'[j] = "running" => j \in slot'
      PROVE  SlotsAreHeld'
  BY <1>1, <1>2, <1>3, FewerSlots DEF SlotsAreHeld
<1>4. ASSUME NEW s \in Steps, GiveSlotUp(s) \/ Woken(s) PROVE SlotsAreHeld'
  <2>1. slot' \subseteq slot /\ UNCHANGED job /\ slot \ {s} \subseteq slot'
    BY <1>4 DEF GiveSlotUp, Woken
  <2>2. \A d \in Steps : pc'[d] = "building" => d \in slot'
    BY <1>1, <1>4 DEF GiveSlotUp, Woken, Goto, SlotsAreHeld
  <2>3. \A j \in Jobs : job'[j] = "running" => j \in slot'
    BY <1>1, <2>1 DEF SlotsAreHeld
  <2>4. QED
    BY <1>3, <2>1, <2>2, <2>3
<1>5. ASSUME NEW s \in Steps, TakeSlot(s) PROVE SlotsAreHeld'
  <2>1. /\ slot' = slot \cup {s} /\ Cardinality(slot) < scene.slots /\ UNCHANGED job
        /\ \A d \in Steps \ {s} : pc'[d] = pc[d]
    BY <1>1, <1>5, SlotsAreFinite DEF TakeSlot, Free, Goto
  <2>2. Cardinality(slot') <= scene'.slots
    BY <1>1, <1>2, <2>1, OneMoreSlot DEF SlotsAreHeld
  <2>3. QED
    BY <1>1, <2>1, <2>2 DEF SlotsAreHeld
<1>6. ASSUME NEW s \in Steps, Build(s) PROVE SlotsAreHeld'
  <2>1. PICK j \in JobsOf(s) : slot' = (slot \ {s}) \cup {j}
    BY <1>6 DEF Build
  <2>2. s \in slot /\ j \in Jobs
    BY <1>1, <1>6 DEF Build, SlotsAreHeld, JobsOf
  <2>3. Cardinality(slot') <= scene'.slots
    <3>1. IsFiniteSet(slot \ {s}) /\ Cardinality(slot \ {s}) = Cardinality(slot) - 1
      BY <1>1, <2>2, SlotsAreFinite, FS_RemoveElement
    <3>2. Cardinality(slot \ {s}) \in Nat
      BY <3>1, FS_CardinalityType
    <3>3. Cardinality((slot \ {s}) \cup {j})
            \in {Cardinality(slot \ {s}), Cardinality(slot \ {s}) + 1}
      BY <3>1, FS_AddElement
    <3>4. Cardinality(slot') \in {Cardinality(slot) - 1, Cardinality(slot)}
      BY <1>1, <2>1, <3>1, <3>2, <3>3, SlotsAreFinite
    <3>5. QED
      BY <1>1, <1>2, <3>4, SlotsAreFinite DEF SlotsAreHeld
  <2>4. \A d \in Steps : pc'[d] = "building" => d \in slot'
    BY <1>1, <1>6, <2>1 DEF Build, Goto, SlotsAreHeld
  <2>5. \A i \in Jobs : job'[i] = "running" => i \in slot'
    BY <1>1, <1>6, <2>1 DEF Build, SlotsAreHeld
  <2>6. QED
    BY <2>3, <2>4, <2>5 DEF SlotsAreHeld
<1>7. ASSUME NEW s \in Steps,
             \/ GiveUp(s) \/ BuildSkipped(s) \/ SkipStep(s) \/ BuildBreaks(s) \/ Grace(s) \/ Drop(s)
      PROVE  SlotsAreHeld'
  <2>1. /\ slot' \subseteq slot /\ \A x : x \in slot \ slot' => x \in {s} \cup JobsOf(s)
        /\ \A d \in Steps \ {s} : pc'[d] = pc[d]
        /\ s \in slot \ slot' => pc'[s] # "building"
        /\ \A j \in Jobs : /\ job'[j] = "running" => job[j] = "running" /\ j \in slot'
    <3>1. \A j \in Jobs : job'[j] = "running" => job[j] = "running"
      BY <1>7 DEF GiveUp, BuildSkipped, SkipStep, BuildBreaks, Grace, Drop
    <3>2. slot' \in {slot \ {s}, slot \ JobsOf(s), slot \ ({s} \cup JobsOf(s))}
      BY <1>7 DEF GiveUp, BuildSkipped, SkipStep, BuildBreaks, Grace, Drop
    <3>3. \A j \in Jobs \cap (slot \ slot') : job'[j] # "running"
      <4>1. CASE Grace(s) \/ Drop(s)
        BY <1>1, <3>2, <4>1 DEF Grace, Drop, JobsOf, Over, Quiet, Errors
      <4>2. CASE ~(Grace(s) \/ Drop(s))
        BY <1>1, <1>7, <4>2 DEF GiveUp, BuildSkipped, SkipStep, BuildBreaks
      <4>3. QED
        BY <4>1, <4>2
    <3>4. /\ \A d \in Steps \ {s} : pc'[d] = pc[d]
          /\ s \in slot \ slot' => pc'[s] # "building"
      BY <1>1, <1>7 DEF GiveUp, BuildSkipped, SkipStep, BuildBreaks, Grace, Drop, Goto, Return,
         JobsOf
    <3>5. \A j \in Jobs : job[j] = "running" => j \in slot
      BY <1>1 DEF SlotsAreHeld
    <3>6. QED
      BY <3>1, <3>2, <3>3, <3>4, <3>5
  <2>2. ASSUME NEW d \in Steps, pc'[d] = "building" PROVE d \in slot'
    <3>1. CASE d = s
      <4>1. FALSE
        BY <1>1, <1>7, <2>2, <3>1 DEF GiveUp, BuildSkipped, SkipStep, BuildBreaks, Grace, Drop,
           Goto,
           Return
      <4>2. QED
        BY <4>1
    <3>2. CASE d # s
      BY <1>1, <2>1, <2>2, <3>2 DEF SlotsAreHeld, JobsOf
    <3>3. QED
      BY <3>1, <3>2
  <2>3. QED
    BY <1>3, <2>1, <2>2
<1>8. ASSUME NEW s \in Steps,
             \/ \E j \in Jobs : JoinJob(s, j)
             \/ BeginSettle(s) \/ Settle(s) \/ Complete(s) \/ StagingBreaks(s)
             \/ Wake(s) \/ Wrap(s) \/ JoinStep(s)
      PROVE  SlotsAreHeld'
  <2>1. UNCHANGED <<slot, job>> /\ \A d \in Steps : pc'[d] = "building" => pc[d] = "building"
    BY <1>1, <1>8 DEF JoinJob, BeginSettle, Settle, Complete, StagingBreaks, Wake, Wrap,
       JoinStep, Goto,
       Return
  <2>2. QED
    BY <1>1, <1>3, <2>1 DEF SlotsAreHeld
<1>9. ASSUME NEW t \in Tasks, Abort(t) PROVE SlotsAreHeld'
  <2>1. UNCHANGED <<slot, job>> /\ \A d \in Steps : pc'[d] = "building" => pc[d] = "building"
    BY <1>1, <1>9 DEF Abort, SeeToken, MarkAbort, AbortStatuses, CancelRun, Goto
  <2>2. QED
    BY <1>1, <1>3, <2>1 DEF SlotsAreHeld
<1>10. ASSUME NEW j \in Jobs, JobActs(j) PROVE SlotsAreHeld'
  <2>1. UNCHANGED pc /\ \A i \in Jobs \ {j} : job'[i] = job[i]
    BY <1>1, <1>10 DEF JobActs, Idle, Enqueue, Start, Vanish, Pass, Fail, Break, Stop, JobEnds,
       JobGoes
  <2>2. CASE Start(j)
    <3>1. slot' = slot \cup {j} /\ (j \in slot \/ Cardinality(slot) < scene.slots)
      BY <1>1, <2>2, SlotsAreFinite DEF Start, Free
    <3>2. Cardinality(slot') <= scene'.slots
      BY <1>1, <1>2, <3>1, OneMoreSlot DEF SlotsAreHeld
    <3>3. QED
      BY <1>1, <2>1, <3>1, <3>2 DEF SlotsAreHeld
  <2>3. CASE ~Start(j)
    <3>1. slot' \in {slot, slot \ {j}} /\ job'[j] # "running"
      BY <1>1, <1>10, <2>3 DEF JobActs, Idle, Enqueue, Vanish, Pass, Fail, Break, Stop, JobEnds,
         JobGoes
    <3>2. QED
      BY <1>1, <1>3, <2>1, <3>1 DEF SlotsAreHeld
  <2>4. QED
    BY <2>2, <2>3
<1>11. CASE EndGroup \/ CtrlC \/ UNCHANGED vars
  <2>1. UNCHANGED <<slot, job>> /\ \A d \in Steps : pc'[d] = pc[d]
    BY <1>1, <1>11 DEF EndGroup, CtrlC, vars, Goto
  <2>2. QED
    BY <1>1, <1>3, <2>1 DEF SlotsAreHeld
<1>12. QED
  BY <1>4, <1>5, <1>6, <1>7, <1>8, <1>9, <1>10, <1>11 DEF Next, StepActs, Finished

(* Every variable stays in its range.                                      *)
LEMMA TypesStay ==
  ASSUME TypeOK, [Next]_vars
  PROVE  TypeOK'
<1> USE DEF TypeOK
<1>1. Group \in Tasks /\ Steps \subseteq Tasks /\ StepOf \in [Jobs -> Steps]
  BY GroupOK DEF Tasks
<1>2. /\ \A s \in Steps : /\ With(s, "Errored") \in [Steps -> Statuses]
                          /\ With(s, "Aborted") \in [Steps -> Statuses]
      /\ \A s \in Steps : Errored(s) => /\ status' \in [Steps -> Statuses]
                                        /\ reported' \in SUBSET Steps
  BY DEF With, Errored, Statuses
<1>3. ASSUME NEW t \in Tasks, NEW l \in StepPCs, Goto(t, l) PROVE pc' \in [Tasks -> StepPCs]
  BY <1>3 DEF Goto
<1>4. ASSUME NEW s \in Steps, NEW r \in Results, Return(s, r)
      PROVE  pc' \in [Tasks -> StepPCs] /\ result' \in [Tasks -> Results]
  BY <1>1, <1>4 DEF Return, Goto, StepPCs
<1>5. ASSUME NEW s \in Steps,
             GiveSlotUp(s) \/ Woken(s) \/ TakeSlot(s) \/ BeginSettle(s)
      PROVE  TypeOK'
  BY <1>1, <1>5 DEF GiveSlotUp, Woken, TakeSlot, BeginSettle, Goto, StepPCs, fixed
<1>6. ASSUME NEW s \in Steps,
             GiveUp(s) \/ SkipStep(s) \/ BuildBreaks(s) \/ StagingBreaks(s)
      PROVE  TypeOK'
  <2>1. \A r \in {"ok", "hk", "cancelled"} : r \in Results
    BY DEF Results, Errors
  <2>2. pc' \in [Tasks -> StepPCs] /\ result' \in [Tasks -> Results]
    BY <1>4, <1>6, <2>1 DEF GiveUp, SkipStep, BuildBreaks, StagingBreaks
  <2>3. QED
    BY <1>1, <1>2, <1>6, <2>2 DEF GiveUp, SkipStep, BuildBreaks, StagingBreaks, fixed
<1>7. ASSUME NEW s \in Steps, Build(s) \/ BuildSkipped(s) PROVE TypeOK'
  <2>1. pc' \in [Tasks -> StepPCs] /\ job' \in [Jobs -> JobPCs]
    BY <1>1, <1>7 DEF Build, BuildSkipped, Goto, StepPCs, JobPCs, Over, Quiet
  <2>2. slot' \in SUBSET (Steps \cup Jobs)
    BY <1>7 DEF Build, BuildSkipped, JobsOf
  <2>3. QED
    BY <1>1, <1>7, <2>1, <2>2 DEF Build, BuildSkipped, fixed
<1>8. ASSUME NEW s \in Steps, Grace(s) \/ Drop(s) PROVE TypeOK'
  <2>1. pc' \in [Tasks -> StepPCs] /\ job' \in [Jobs -> JobPCs]
    BY <1>1, <1>8 DEF Grace, Drop, Goto, StepPCs, JobPCs, Over, Quiet
  <2>2. QED
    BY <1>1, <1>8, <2>1 DEF Grace, Drop, fixed
<1>9. ASSUME NEW s \in Steps, NEW j \in Jobs, JoinJob(s, j) PROVE TypeOK'
  <2>1. pc' \in [Tasks -> StepPCs]
    BY <1>1, <1>9 DEF JoinJob, Goto, StepPCs
  <2>2. first' \in [Steps -> Ends]
    BY <1>9 DEF JoinJob, Kept, Ends
  <2>3. status' \in [Steps -> Statuses] /\ reported' \in SUBSET Steps
    BY <1>2, <1>9 DEF JoinJob
  <2>4. QED
    BY <1>9, <2>1, <2>2, <2>3 DEF JoinJob, fixed
<1>10. ASSUME NEW s \in Steps, Settle(s) PROVE TypeOK'
  <2>1. Settled(s) # "go on" => Settled(s) \in Results
    BY DEF Settled, Results, Ends, Errors
  <2>2. /\ pc' \in [Tasks -> StepPCs] /\ result' \in [Tasks -> Results]
        /\ status' \in [Steps -> Statuses]
    BY <1>1, <1>2, <1>4, <1>10, <2>1 DEF Settle, Goto, StepPCs
  <2>3. QED
    BY <1>10, <2>2 DEF Settle, fixed
<1>11. ASSUME NEW s \in Steps, Complete(s) PROVE TypeOK'
  <2>1. pc' \in [Tasks -> StepPCs] /\ result' \in [Tasks -> Results]
    BY <1>4, <1>11 DEF Complete, Results
  <2>2. status' \in [Steps -> Statuses] /\ done' \in SUBSET Steps
    BY <1>11 DEF Complete, Statuses
  <2>3. QED
    BY <1>11, <2>1, <2>2 DEF Complete, fixed
<1>12. ASSUME NEW s \in Steps, Wake(s) \/ Wrap(s) PROVE TypeOK'
  <2>1. pc' \in [Tasks -> StepPCs]
    BY <1>1, <1>12 DEF Wake, Wrap, Goto, StepPCs
  <2>2. status' \in [Steps -> Statuses] /\ reported' \in SUBSET Steps
    BY <1>2, <1>12 DEF Wake, Wrap
  <2>3. QED
    BY <1>12, <2>1, <2>2 DEF Wake, Wrap, fixed
<1>13. ASSUME NEW t \in Tasks, Abort(t) PROVE TypeOK'
  <2>1. pc' \in [Tasks -> StepPCs]
    BY <1>13 DEF Abort, SeeToken, MarkAbort, AbortStatuses, CancelRun, Goto, StepPCs
  <2>2. status' \in [Steps -> Statuses]
    BY <1>13 DEF Abort, SeeToken, MarkAbort, AbortStatuses, CancelRun, Statuses
  <2>3. told' \in SUBSET Steps
    BY <1>13 DEF Abort, SeeToken, MarkAbort, AbortStatuses, CancelRun, Tasks
  <2>4. QED
    BY <1>13, <2>1, <2>2, <2>3 DEF Abort, SeeToken, MarkAbort, AbortStatuses, CancelRun, fixed
<1>14. ASSUME NEW j \in Jobs, JobActs(j) PROVE TypeOK'
  <2>1. job' \in [Jobs -> JobPCs] /\ slot' \in SUBSET (Steps \cup Jobs)
    BY <1>14 DEF JobActs, Idle, Enqueue, Start, Vanish, Pass, Fail, Break, Stop, JobEnds, JobGoes,
       JobPCs, Over, Quiet, Errors
  <2>2. status' \in [Steps -> Statuses] /\ reported' \in SUBSET Steps /\ done' \in SUBSET Steps
    BY <1>1, <1>2, <1>14 DEF JobActs, Idle, Enqueue, Start, Vanish, Pass, Fail, Break, Stop,
       Statuses
  <2>3. UNCHANGED <<fixed, pc, joined, first, told, user, result, failed, aborted>>
    BY <1>14 DEF JobActs, Idle, Enqueue, Start, Vanish, Pass, Fail, Break, Stop, JobEnds
  <2>4. QED
    BY <2>1, <2>2, <2>3 DEF fixed
<1>15. ASSUME NEW s \in Steps, JoinStep(s) PROVE TypeOK'
  <2>1. pc' \in [Tasks -> StepPCs]
    BY <1>1, <1>15 DEF JoinStep, Goto, StepPCs
  <2>2. result' \in [Tasks -> Results]
    BY <1>1, <1>15 DEF JoinStep, Results, Errors
  <2>3. QED
    BY <1>15, <2>1, <2>2 DEF JoinStep, fixed
<1>16. CASE EndGroup \/ CtrlC \/ UNCHANGED vars
  BY <1>1, <1>16 DEF EndGroup, CtrlC, vars, fixed, Goto, StepPCs, Results
<1>17. QED
  BY <1>5, <1>6, <1>7, <1>8, <1>9, <1>10, <1>11, <1>12, <1>13, <1>14, <1>15, <1>16
     DEF Next, StepActs, Finished

(* A group begins with its steps waiting, and no more slots in use than    *)
(* there are.                                                              *)
LEMMA GroupBegins == Init => Inv
<1> SUFFICES ASSUME Init PROVE Inv
  OBVIOUS
<1>1. Group \in Tasks /\ Steps \subseteq Tasks /\ Group \notin Steps
  BY GroupOK DEF Tasks, Group
<1>2. TypeOK
  <2>1. pc \in [Tasks -> StepPCs] /\ job \in [Jobs -> JobPCs] /\ status \in [Steps -> Statuses]
    BY DEF Init, StepPCs, JobPCs, Statuses
  <2>2. first \in [Steps -> Ends] /\ result \in [Tasks -> Results]
    BY DEF Init, Ends, Results
  <2>3. QED
    BY <2>1, <2>2 DEF Init, TypeOK
<1>3. GroupIsIt
  BY <1>1 DEF Init, GroupIsIt
<1>4. ASSUME NEW s \in Steps PROVE StepInv(s) /\ WentOnInTime(s)
  <2>1. /\ pc[s] = "depends" /\ first[s] = "none" /\ result[s] = "none" /\ status[s] = "Pending"
        /\ joined = {} /\ done = {} /\ \A j \in JobsOf(s) : job[j] = "none"
    BY <1>1 DEF Init, JobsOf
  <2>2. JobsAreIt(s) /\ ErrorsAreKept(s) /\ ResultIsTrue(s)
    BY <2>1 DEF JobsAreIt, ErrorsAreKept, ResultIsTrue, AllAre, Early, Late, Real
  <2>3. DoneIsOver(s) /\ DoneIsHarmless(s) /\ WentOnInTime(s)
    BY <2>1 DEF DoneIsOver, DoneIsHarmless, WentOnInTime, WentOn
  <2>4. QED
    BY <2>2, <2>3 DEF StepInv
<1>5. SlotsAreHeld
  <2>1. Cardinality(slot) <= scene.slots
    <3>1. Cardinality(Steps) \in Nat /\ scene.slots \in Nat
      BY <1>2, GroupOK, FS_CardinalityType DEF TypeOK
    <3>2. QED
      BY <3>1 DEF Init
  <2>2. QED
    BY <1>1, <2>1 DEF Init, SlotsAreHeld
<1>6. QED
  BY <1>2, <1>3, <1>4, <1>5 DEF Inv

-----------------------------------------------------------------------------
(* For any steps, jobs and dependencies, whatever fails, vanishes or is    *)
(* cancelled: the steps' tasks, their jobs and the group keep the          *)
(* invariant.                                                              *)
THEOREM GroupInvariance == Spec => []Inv
<1>1. Inv /\ [Next]_vars => Inv'
  BY StepsMove, SlotsStayHeld, TypesStay DEF Inv
<1>2. QED
  BY <1>1, GroupBegins, PTL DEF Spec

(* Every variable of a group stays in its range.                           *)
THEOREM GroupTypeCorrect == Spec => []TypeOK
<1>1. Inv => TypeOK
  BY DEF Inv
<1>2. QED
  BY <1>1, GroupInvariance, PTL

(* Never do more commands run at once than the `jobs` setting says, while  *)
(* steps and jobs hand slots to each other.                                *)
THEOREM CommandsAreLimited ==
  Spec => [](Cardinality({j \in Jobs : job[j] = "running"}) <= scene.slots)
<1>1. Inv => Cardinality({j \in Jobs : job[j] = "running"}) <= scene.slots
  <2> SUFFICES ASSUME Inv PROVE Cardinality({j \in Jobs : job[j] = "running"}) <= scene.slots
    OBVIOUS
  <2> DEFINE R == {j \in Jobs : job[j] = "running"}
  <2>1. R \subseteq slot
    BY DEF Inv, SlotsAreHeld
  <2>2. IsFiniteSet(slot) /\ Cardinality(slot) \in Nat /\ scene.slots \in Nat
    BY SlotsAreFinite DEF Inv
  <2> HIDE DEF R
  <2>3. Cardinality(R) <= Cardinality(slot) /\ Cardinality(R) \in Nat
    BY <2>1, <2>2, FS_Subset, FS_CardinalityType
  <2>4. Cardinality(R) <= scene.slots
    BY <2>2, <2>3 DEF Inv, SlotsAreHeld
  <2>5. QED
    BY <2>4 DEF R
<1>2. QED
  BY <1>1, GroupInvariance, PTL

(* A step is reported as finished only when each of its jobs ran to its    *)
(* end or had nothing to do, whatever was cancelled meanwhile.             *)
THEOREM FinishedStepsAreComplete == Spec => []FinishedIsComplete
<1>1. Inv => FinishedIsComplete
  BY DEF Inv, StepInv, ErrorsAreKept, AllAre, FinishedIsComplete
<1>2. QED
  BY <1>1, GroupInvariance, PTL

(* A group that ended without failing hides no failure of a job or a step  *)
(* that was not allowed.                                                   *)
THEOREM NoFailureIsHidden == Spec => []NoFailureHidden
<1>1. Inv => NoFailureHidden
  <2> SUFFICES ASSUME Inv, pc[Group] = "ended", result[Group] # "failed", NEW s \in Steps
               PROVE  ~RealFailure(s)
    BY DEF NoFailureHidden
  <2>1. StepInv(s) /\ s \in joined
    BY DEF Inv, GroupIsIt
  <2>2. pc[s] = "ended" /\ ~Real(s, result[s]) /\ ~Real(s, first[s])
    BY <2>1 DEF StepInv, ResultIsTrue, Late
  <2>3. ASSUME NEW j \in JobsOf(s) PROVE ~Real(s, job[j])
    <3>1. j \in joined \/ job[j] = "none"
      BY <2>1, <2>2 DEF StepInv, JobsAreIt, Collected, AllAre, Late
    <3>2. QED
      BY <2>1, <2>2, <3>1 DEF StepInv, ErrorsAreKept, Real
  <2>4. QED
    BY <2>2, <2>3 DEF RealFailure
<1>2. QED
  BY <1>1, GroupInvariance, PTL

(* A job of a step begins only when the steps it depends on have nothing   *)
(* left to run, unless a job of one of them was skipped.                   *)
THEOREM DependsAreWaitedFor == Spec => []DependsFinishUnlessSkipped
<1>1. Inv => DependsFinishUnlessSkipped
  <2> SUFFICES ASSUME Inv, NEW s \in Steps, HasBegun(s), NEW d \in Deps[s]
               PROVE  \/ /\ pc[d] \notin {"depends", "slot", "building"}
                         /\ \A j \in JobsOf(d) : job[j] \in Over \cup {"none"}
                      \/ Skipped(d)
    BY DEF DependsFinishUnlessSkipped
  <2>1. d \in Steps /\ WentOn(s)
    BY GroupOK DEF HasBegun, WentOn
  <2>2. d \in done
    BY <2>1 DEF Inv, WentOnInTime
  <2>3. DoneIsOver(d)
    BY <2>1 DEF Inv, StepInv
  <2>4. QED
    BY <2>2, <2>3 DEF DoneIsOver, NothingLeft, AllAre, Early
<1>2. QED
  BY <1>1, GroupInvariance, PTL

(* Under fail_fast no job begins after a step its step depends on failed   *)
(* for good: neither cancellation nor the end of the failed step's task    *)
(* wakes its dependents into running.                                      *)
THEOREM FailuresStopDependents == Spec => NoStartAfterFailure
<1>1. ASSUME Inv, [Next]_vars
      PROVE  \A s \in Steps, j \in Jobs :
               /\ StepOf[j] = s /\ job'[j] = "running" /\ job[j] # "running"
               /\ opts.failFast
               => \A d \in Deps[s] : ~RealFailure(d) \/ Skipped(d)
  <2> SUFFICES ASSUME NEW j \in Jobs, job'[j] = "running", job[j] # "running", opts.failFast,
                      NEW d \in Deps[StepOf[j]]
               PROVE  ~RealFailure(d) \/ Skipped(d)
    OBVIOUS
  <2>1. job[j] = "queued"
    <3>1. job \in [Jobs -> JobPCs]
      BY <1>1 DEF Inv, TypeOK
    <3>2. ASSUME NEW s \in Steps, StepActs(s) PROVE FALSE
      <4>1. CASE Build(s) \/ BuildSkipped(s) \/ Drop(s)
        BY <3>1, <4>1 DEF Build, BuildSkipped, Drop, JobsOf
      <4>2. CASE GiveSlotUp(s) \/ Woken(s) \/ GiveUp(s) \/ TakeSlot(s) \/ SkipStep(s)
                 \/ BuildBreaks(s) \/ Grace(s) \/ (\E i \in Jobs : JoinJob(s, i))
        BY <4>2 DEF GiveSlotUp, Woken, GiveUp, TakeSlot, SkipStep, BuildBreaks, Grace, JoinJob
      <4>3. CASE BeginSettle(s) \/ Settle(s) \/ Complete(s) \/ StagingBreaks(s) \/ Wake(s) \/ Wrap(s)
        BY <4>3 DEF BeginSettle, Settle, Complete, StagingBreaks, Wake, Wrap
      <4>4. QED
        BY <3>2, <4>1, <4>2, <4>3 DEF StepActs
    <3>3. ASSUME NEW i \in Jobs, JobActs(i) PROVE job[j] = "queued"
      BY <3>1, <3>3 DEF JobActs, Idle, Enqueue, Start, Vanish, Pass, Fail, Break, Stop, JobEnds,
         JobGoes
    <3>4. ASSUME NEW t \in Tasks, Abort(t) PROVE FALSE
      BY <3>4 DEF Abort, SeeToken, MarkAbort, AbortStatuses, CancelRun
    <3>5. CASE (\E s \in Steps : JoinStep(s)) \/ EndGroup \/ CtrlC \/ Finished \/ UNCHANGED vars
      BY <3>5 DEF JoinStep, EndGroup, CtrlC, Finished, vars
    <3>6. QED
      BY <1>1, <3>2, <3>3, <3>4, <3>5 DEF Next
  <2>2. StepOf[j] \in Steps /\ WentOn(StepOf[j])
    BY <2>1, GroupOK DEF WentOn, JobsOf
  <2>3. Harmless(d)
    BY <1>1, <2>2 DEF Inv, WentOnInTime
  <2>4. QED
    BY <2>3 DEF Harmless
<1>2. QED
  BY <1>1, GroupInvariance, PTL DEF Spec, NoStartAfterFailure
=============================================================================
