----------------------------- MODULE StagingProofs -----------------------------
(* Proofs that staging never adds a file that is being written and leaves   *)
(* nothing unstaged without a word, for any steps, files and cancellation.  *)
EXTENDS Staging, TLAPS

(* Every variable stays in its range.                                      *)
StageTypeOK ==
  /\ mine \in [Fixers -> SUBSET Fixable]
  /\ at   \in [Fixers -> Stages]
  /\ need \in [Fixers -> SUBSET Fixable]
  /\ held \in [Fixers -> SUBSET Fixable]
  /\ cell \in [Fixers -> Nat]
  /\ paths \in SUBSET Fixable
  /\ results \in Seq(Outcomes) /\ Len(results) > 0
  /\ batch \in SUBSET Fixable /\ reads \in SUBSET Fixable
  /\ racy \in SUBSET Fixable /\ dirty \in SUBSET Fixable
  /\ cancelled \in BOOLEAN

Adding(s)  == at[s] = "adding"
(* A step whose files no add has taken, and one whose files the add under   *)
(* way has: it shares that add's cell.                                     *)
Waits(s)   == at[s] = "queued" /\ cell[s] = Len(results)
IsAdded(s) == at[s] \in {"queued", "adding"} /\ cell[s] = Len(results) - 1 /\ ~MutexFree

(* git's mutex lets one step add; the queue it took is the last but one     *)
(* batch, the only one without a result but for the one that queues.       *)
OneAdd ==
  /\ \A s, t \in Fixers : Adding(s) /\ Adding(t) => s = t
  /\ results[Len(results)] = "none"
  /\ \A s \in Fixers : Adding(s) => /\ Len(results) > 1 /\ cell[s] = Len(results) - 1
                                    /\ results[Len(results) - 1] = "none"
  /\ \A i \in 1 .. Len(results) - 1 : results[i] = "none" => i = Len(results) - 1 /\ ~MutexFree
  /\ \A s \in Fixers : at[s] = "queued" => cell[s] \in 1 .. Len(results)
  /\ MutexFree => reads = {} /\ batch = {}
  /\ ~MutexFree => paths = {} /\ \A s \in Fixers : ~Waits(s)

(* Read locks keep fixers out, and cover what a step may have to stage;    *)
(* the racy entries too, unless an add has changed them since.             *)
LocksKeepOut ==
  /\ \A s \in Fixers : \A f \in held[s] : ~Fixing(f)
  /\ \A s \in Fixers : at[s] \in {"lock", "git"} => mine[s] \subseteq need[s]
  /\ \A s \in Fixers : at[s] = "git" => mine[s] \subseteq held[s]
  /\ \A s \in Fixers : at[s] \in {"queued", "adding"} => mine[s] \subseteq held[s]
  /\ \A s \in Fixers : Waits(s) => racy \subseteq held[s]

(* What is queued, and what an add reads, is locked by a step that stages   *)
(* it; or that step was cancelled, and then no fixer starts any more.      *)
QueuedIsQuiet ==
  /\ \A f \in paths \cup reads : ~Fixing(f)
  /\ ~cancelled => /\ \A f \in paths : \E s \in Fixers : Waits(s) /\ f \in held[s]
                   /\ \A f \in reads : \E s \in Fixers : IsAdded(s) /\ f \in held[s]

(* A step that waits has all of its changed files in the queue or the add, *)
(* and none is left of one whose add went well.                            *)
QueuedIsWhole ==
  \A s \in Fixers :
    /\ Waits(s) => mine[s] \cap dirty \subseteq paths
    /\ IsAdded(s) => mine[s] \cap dirty \subseteq batch
    /\ at[s] = "queued" /\ results[cell[s]] = "ok" => mine[s] \cap dirty = {}

StageInv == /\ StageTypeOK
            /\ OneAdd
            /\ LocksKeepOut
            /\ QueuedIsQuiet
            /\ QueuedIsWhole
            /\ NothingLeftUnstaged

-----------------------------------------------------------------------------
(* Every step of the steps, of git and of a cancelled run keeps it.        *)
LEMMA StageStep == StageInv /\ [StageNext]_stageVars => StageInv'
<1> SUFFICES ASSUME StageInv, [StageNext]_stageVars PROVE StageInv'
  OBVIOUS
<1> USE DEF StageInv, StageTypeOK
<1>1. ASSUME NEW s \in Fixers, BeginFix(s) PROVE StageInv'
  <2>1. StageTypeOK'
    BY <1>1 DEF BeginFix, Goto, queueVars, gitVars, Stages
  <2>2. OneAdd'
    BY <1>1 DEF BeginFix, Goto, queueVars, gitVars, OneAdd, Adding, Waits, MutexFree
  <2>3. LocksKeepOut'
    BY <1>1 DEF BeginFix, Goto, queueVars, gitVars, LocksKeepOut, Waits, Fixing
  <2>4. QueuedIsQuiet'
    <3>1. mine[s] \cap (paths \cup reads) = {}
      BY <1>1 DEF BeginFix, QueuedIsQuiet
    <3>2. \A f : Fixing(f)' => Fixing(f) \/ f \in mine[s]
      BY <1>1 DEF BeginFix, Goto, Fixing
    <3>3. \A t \in Fixers : (Waits(t) => Waits(t)') /\ (IsAdded(t) => IsAdded(t)')
      BY <1>1 DEF BeginFix, Goto, queueVars, Waits, IsAdded, MutexFree
    <3>4. UNCHANGED <<paths, reads, held, cancelled>>
      BY <1>1 DEF BeginFix, queueVars, gitVars
    <3>5. QED
      BY <3>1, <3>2, <3>3, <3>4 DEF QueuedIsQuiet
  <2>5. QueuedIsWhole'
    <3>1. \A t \in Fixers : (Waits(t)' => Waits(t)) /\ (IsAdded(t)' => IsAdded(t))
      BY <1>1 DEF BeginFix, Goto, queueVars, Waits, IsAdded, MutexFree
    <3>2. \A t \in Fixers : at'[t] = "queued" => at[t] = "queued"
      BY <1>1 DEF BeginFix, Goto
    <3>3. UNCHANGED <<mine, cell, paths, results, batch, dirty>>
      BY <1>1 DEF BeginFix, queueVars, gitVars
    <3>4. QED
      BY <3>1, <3>2, <3>3 DEF QueuedIsWhole
  <2>6. NothingLeftUnstaged'
    BY <1>1 DEF BeginFix, Goto, NothingLeftUnstaged
  <2>7. QED
    BY <2>1, <2>2, <2>3, <2>4, <2>5, <2>6
<1>2. ASSUME NEW s \in Fixers, EndFix(s) PROVE StageInv'
  <2>1. StageTypeOK'
    BY <1>2 DEF EndFix, Goto, queueVars, gitVars, Stages
  <2>2. OneAdd'
    BY <1>2 DEF EndFix, Goto, queueVars, gitVars, OneAdd, Adding, Waits, MutexFree
  <2>3. LocksKeepOut'
    BY <1>2 DEF EndFix, Goto, queueVars, gitVars, LocksKeepOut, Waits, Fixing
  <2>4. QueuedIsQuiet'
    <3>1. \A f : Fixing(f)' => Fixing(f)
      BY <1>2 DEF EndFix, Goto, Fixing
    <3>2. \A t \in Fixers : (Waits(t) => Waits(t)') /\ (IsAdded(t) => IsAdded(t)')
      BY <1>2 DEF EndFix, Goto, queueVars, Waits, IsAdded, MutexFree
    <3>3. UNCHANGED <<paths, reads, held, cancelled>>
      BY <1>2 DEF EndFix, queueVars, gitVars
    <3>4. QED
      BY <3>1, <3>2, <3>3 DEF QueuedIsQuiet
  <2>5. QueuedIsWhole'
    <3>1. \A t \in Fixers : at[t] \in {"queued", "adding"} => mine[t] \cap mine[s] = {}
      BY <1>2 DEF EndFix, LocksKeepOut, Fixing
    <3>2. \A t \in Fixers : (Waits(t)' => Waits(t)) /\ (IsAdded(t)' => IsAdded(t))
      BY <1>2 DEF EndFix, Goto, queueVars, Waits, IsAdded, MutexFree
    <3>3. \A t \in Fixers : at'[t] = "queued" => at[t] = "queued"
      BY <1>2 DEF EndFix, Goto
    <3>4. UNCHANGED <<mine, cell, paths, results, batch>> /\ dirty' \subseteq dirty \cup mine[s]
      BY <1>2 DEF EndFix, queueVars, gitVars
    <3>5. QED
      BY <3>1, <3>2, <3>3, <3>4 DEF QueuedIsWhole, Waits, IsAdded
  <2>6. NothingLeftUnstaged'
    BY <1>2 DEF EndFix, Goto, NothingLeftUnstaged
  <2>7. QED
    BY <2>1, <2>2, <2>3, <2>4, <2>5, <2>6
<1>3. ASSUME NEW s \in Fixers, ListRacy(s) PROVE StageInv'
  <2>1. StageTypeOK'
    BY <1>3 DEF ListRacy, Goto, queueVars, gitVars, Stages
  <2>2. OneAdd'
    BY <1>3 DEF ListRacy, Goto, queueVars, gitVars, OneAdd, Adding, MutexFree
  <2>3. LocksKeepOut'
    BY <1>3 DEF ListRacy, Goto, queueVars, gitVars, LocksKeepOut, Waits, Fixing
  <2>4. QueuedIsQuiet'
    BY <1>3 DEF ListRacy, Goto, queueVars, gitVars, QueuedIsQuiet, Waits, IsAdded, Fixing
  <2>5. QueuedIsWhole'
    BY <1>3 DEF ListRacy, Goto, queueVars, QueuedIsWhole, Waits, IsAdded, MutexFree
  <2>6. NothingLeftUnstaged'
    BY <1>3 DEF ListRacy, Goto, NothingLeftUnstaged
  <2>7. QED
    BY <2>1, <2>2, <2>3, <2>4, <2>5, <2>6
<1>4. ASSUME NEW s \in Fixers, LockFiles(s) PROVE StageInv'
  <2>1. StageTypeOK'
    BY <1>4 DEF LockFiles, Goto, queueVars, gitVars, Stages
  <2>2. OneAdd'
    BY <1>4 DEF LockFiles, Goto, queueVars, gitVars, OneAdd, Adding, Waits, MutexFree
  <2>3. LocksKeepOut'
    BY <1>4 DEF LockFiles, Goto, queueVars, gitVars, LocksKeepOut, Waits, Fixing
  <2>4. QueuedIsQuiet'
    BY <1>4 DEF LockFiles, Goto, queueVars, gitVars, QueuedIsQuiet, Waits, IsAdded, Fixing,
       MutexFree
  <2>5. QueuedIsWhole'
    BY <1>4 DEF LockFiles, Goto, queueVars, gitVars, QueuedIsWhole, Waits, IsAdded, MutexFree
  <2>6. NothingLeftUnstaged'
    BY <1>4 DEF LockFiles, Goto, NothingLeftUnstaged
  <2>7. QED
    BY <2>1, <2>2, <2>3, <2>4, <2>5, <2>6
<1>5. ASSUME NEW s \in Fixers, LockMore(s) PROVE StageInv'
  <2>1. StageTypeOK'
    BY <1>5 DEF LockMore, Goto, Unlock, queueVars, gitVars, Stages
  <2>2. OneAdd'
    BY <1>5 DEF LockMore, Goto, queueVars, gitVars, OneAdd, Adding, MutexFree
  <2>3. LocksKeepOut'
    BY <1>5 DEF LockMore, Goto, Unlock, queueVars, gitVars, LocksKeepOut, Waits, Fixing
  <2>4. QueuedIsQuiet'
    BY <1>5 DEF LockMore, Goto, Unlock, queueVars, gitVars, QueuedIsQuiet, Waits, IsAdded, Fixing
  <2>5. QueuedIsWhole'
    BY <1>5 DEF LockMore, Goto, queueVars, QueuedIsWhole, Waits, IsAdded, MutexFree
  <2>6. NothingLeftUnstaged'
    BY <1>5 DEF LockMore, Goto, NothingLeftUnstaged
  <2>7. QED
    BY <2>1, <2>2, <2>3, <2>4, <2>5, <2>6
<1>6. ASSUME NEW s \in Fixers, Queue(s) PROVE StageInv'
  <2>1. StageTypeOK'
    BY <1>6 DEF Queue, Goto, gitVars, Stages
  <2>2. OneAdd'
    BY <1>6 DEF Queue, Goto, gitVars, OneAdd, Adding, MutexFree
  <2>3. LocksKeepOut'
    BY <1>6 DEF Queue, Goto, gitVars, LocksKeepOut, Waits, Fixing
  <2>4. QueuedIsQuiet'
    BY <1>6 DEF Queue, Goto, gitVars, QueuedIsQuiet, LocksKeepOut, Waits, IsAdded, Fixing
  <2>5. QueuedIsWhole'
    BY <1>6 DEF Queue, Goto, QueuedIsWhole, OneAdd, Waits, IsAdded, MutexFree
  <2>6. NothingLeftUnstaged'
    BY <1>6 DEF Queue, Goto, NothingLeftUnstaged
  <2>7. QED
    BY <2>1, <2>2, <2>3, <2>4, <2>5, <2>6
<1>7. ASSUME NEW s \in Fixers, NothingToStage(s) PROVE StageInv'
  <2>1. StageTypeOK'
    BY <1>7 DEF NothingToStage, Goto, Unlock, queueVars, gitVars, Stages
  <2>2. OneAdd'
    BY <1>7 DEF NothingToStage, Goto, queueVars, gitVars, OneAdd, Adding, MutexFree
  <2>3. LocksKeepOut'
    BY <1>7 DEF NothingToStage, Goto, Unlock, queueVars, gitVars, LocksKeepOut, Waits, Fixing
  <2>4. QueuedIsQuiet'
    BY <1>7 DEF NothingToStage, Goto, Unlock, queueVars, gitVars, QueuedIsQuiet, Waits, IsAdded,
       Fixing
  <2>5. QueuedIsWhole'
    BY <1>7 DEF NothingToStage, Goto, queueVars, QueuedIsWhole, Waits, IsAdded, MutexFree
  <2>6. NothingLeftUnstaged'
    BY <1>7 DEF NothingToStage, Goto, NothingLeftUnstaged
  <2>7. QED
    BY <2>1, <2>2, <2>3, <2>4, <2>5, <2>6
<1>8. ASSUME NEW s \in Fixers, TakeQueue(s) PROVE StageInv'
  <2>1. StageTypeOK'
    BY <1>8 DEF TakeQueue, Goto, Stages, Outcomes
  <2>2. OneAdd'
    BY <1>8 DEF TakeQueue, Goto, OneAdd, Adding, Waits, MutexFree
  <2>3. LocksKeepOut'
    BY <1>8, <2>2 DEF TakeQueue, Goto, LocksKeepOut, OneAdd, Fixing
  <2>4. QueuedIsQuiet'
    BY <1>8 DEF TakeQueue, Goto, QueuedIsQuiet, LocksKeepOut, OneAdd, Waits, IsAdded, Fixing,
       MutexFree
  <2>5. QueuedIsWhole'
    BY <1>8 DEF TakeQueue, Goto, QueuedIsWhole, OneAdd, Waits, IsAdded, MutexFree
  <2>6. NothingLeftUnstaged'
    BY <1>8 DEF TakeQueue, Goto, NothingLeftUnstaged
  <2>7. QED
    BY <2>1, <2>2, <2>3, <2>4, <2>5, <2>6
<1>9. ASSUME NEW s \in Fixers, NEW outcome \in {"ok", "error"}, EndAdd(s, outcome) PROVE StageInv'
  <2>1. StageTypeOK'
    BY <1>9 DEF EndAdd, Goto, Unlock, Stages, Outcomes, OneAdd, Adding
  <2>2. OneAdd'
    BY <1>9 DEF EndAdd, Goto, OneAdd, Adding, MutexFree
  <2>3. LocksKeepOut'
    BY <1>9 DEF EndAdd, Goto, Unlock, LocksKeepOut, OneAdd, Waits, Fixing, MutexFree
  <2>4. QueuedIsQuiet'
    BY <1>9 DEF EndAdd, QueuedIsQuiet, OneAdd, MutexFree
  <2>5. QueuedIsWhole'
    <3>1. ~MutexFree /\ MutexFree'
      BY <1>9 DEF EndAdd, Goto, OneAdd, Adding, MutexFree
    <3>2. Len(results') = Len(results)
      BY <1>9 DEF EndAdd
    <3>3. ASSUME NEW t \in Fixers PROVE ~Waits(t)'
      BY <1>9, <3>1, <3>2 DEF EndAdd, Goto, Waits, OneAdd
    <3>4. ASSUME NEW t \in Fixers, at'[t] = "queued", results'[cell'[t]] = "ok"
          PROVE  mine'[t] \cap dirty' = {}
      <4>1. at[t] = "queued" /\ cell[t] \in 1 .. Len(results) - 1
        BY <1>9, <3>4 DEF EndAdd, Goto, OneAdd
      <4>2. CASE cell[t] = Len(results) - 1
        <5>1. outcome = "ok" /\ dirty' = dirty \ batch
          BY <1>9, <3>4, <4>1, <4>2 DEF EndAdd
        <5>2. mine[t] \cap dirty \subseteq batch
          BY <3>1, <4>1, <4>2 DEF QueuedIsWhole, IsAdded
        <5>3. QED
          BY <1>9, <5>1, <5>2 DEF EndAdd
      <4>3. CASE cell[t] # Len(results) - 1
        <5>1. results[cell[t]] = "ok"
          BY <1>9, <3>4, <4>3 DEF EndAdd
        <5>2. dirty' \subseteq dirty
          BY <1>9 DEF EndAdd
        <5>3. QED
          BY <1>9, <4>1, <5>1 DEF EndAdd, QueuedIsWhole
      <4>4. QED
        BY <4>2, <4>3
    <3>5. QED
      BY <3>1, <3>3, <3>4 DEF QueuedIsWhole, IsAdded
  <2>6. NothingLeftUnstaged'
    BY <1>9 DEF EndAdd, Goto, Unlock, NothingLeftUnstaged, QueuedIsWhole, OneAdd, Adding, IsAdded
  <2>7. QED
    BY <2>1, <2>2, <2>3, <2>4, <2>5, <2>6
<1>10. ASSUME NEW s \in Fixers, Share(s) PROVE StageInv'
  <2>1. StageTypeOK'
    BY <1>10 DEF Share, Goto, Unlock, queueVars, gitVars, Stages
  <2>2. OneAdd'
    BY <1>10 DEF Share, Goto, queueVars, gitVars, OneAdd, Adding, MutexFree
  <2>3. LocksKeepOut'
    BY <1>10 DEF Share, Goto, Unlock, queueVars, gitVars, LocksKeepOut, Waits, Fixing
  <2>4. QueuedIsQuiet'
    BY <1>10 DEF Share, Goto, Unlock, queueVars, gitVars, QueuedIsQuiet, OneAdd, Waits, Fixing
  <2>5. QueuedIsWhole'
    BY <1>10 DEF Share, Goto, queueVars, QueuedIsWhole, Waits, IsAdded, MutexFree
  <2>6. NothingLeftUnstaged'
    BY <1>10 DEF Share, Goto, NothingLeftUnstaged, QueuedIsWhole
  <2>7. QED
    BY <2>1, <2>2, <2>3, <2>4, <2>5, <2>6
<1>11. ASSUME NEW s \in Fixers, Abort(s) PROVE StageInv'
  <2>1. StageTypeOK'
    BY <1>11 DEF Abort, Goto, Unlock, queueVars, gitVars, Stages
  <2>2. OneAdd'
    BY <1>11 DEF Abort, Goto, queueVars, gitVars, OneAdd, Adding, Waits, MutexFree
  <2>3. LocksKeepOut'
    BY <1>11 DEF Abort, Goto, Unlock, queueVars, gitVars, LocksKeepOut, Waits, Fixing
  <2>4. QueuedIsQuiet'
    BY <1>11 DEF Abort, Goto, queueVars, gitVars, QueuedIsQuiet, Fixing
  <2>5. QueuedIsWhole'
    BY <1>11, <2>1 DEF Abort, Goto, Unlock, queueVars, gitVars, QueuedIsWhole, LocksKeepOut, Waits,
       IsAdded, Fixing, MutexFree
  <2>6. NothingLeftUnstaged'
    BY <1>11 DEF Abort, Goto, NothingLeftUnstaged
  <2>7. QED
    BY <2>1, <2>2, <2>3, <2>4, <2>5, <2>6
<1>12. ASSUME Cancel PROVE StageInv'
  <2>1. StageTypeOK'
    BY <1>12 DEF Cancel, queueVars, gitVars
  <2>2. OneAdd'
    BY <1>12 DEF Cancel, queueVars, gitVars, OneAdd, Adding, Waits, MutexFree
  <2>3. LocksKeepOut'
    BY <1>12 DEF Cancel, queueVars, gitVars, LocksKeepOut, Waits, Fixing
  <2>4. QueuedIsQuiet'
    BY <1>12 DEF Cancel, queueVars, gitVars, QueuedIsQuiet, Fixing
  <2>5. QueuedIsWhole'
    BY <1>12 DEF Cancel, queueVars, gitVars, QueuedIsWhole, Waits, IsAdded, MutexFree
  <2>6. NothingLeftUnstaged'
    BY <1>12 DEF Cancel, NothingLeftUnstaged
  <2>7. QED
    BY <2>1, <2>2, <2>3, <2>4, <2>5, <2>6
<1>13. CASE UNCHANGED stageVars
  BY <1>13 DEF stageVars, OneAdd, LocksKeepOut, QueuedIsQuiet, QueuedIsWhole, NothingLeftUnstaged,
     Adding, Waits, IsAdded, Fixing, MutexFree
<1>14. QED
  BY <1>1, <1>2, <1>3, <1>4, <1>5, <1>6, <1>7, <1>8, <1>9, <1>10, <1>11, <1>12, <1>13 DEF StageNext,
     Advance, StageFinished

(* It holds as a run begins: nothing is queued, locked or changed.         *)
LEMMA StageBegins == StageInit => StageInv
<1> SUFFICES ASSUME StageInit PROVE StageInv
  OBVIOUS
<1> USE DEF StageInit, StageBegin
<1>1. StageTypeOK
  <2>1. mine \in [Fixers -> SUBSET Fixable] /\ racy \in SUBSET Fixable
    BY StagingOK
  <2>2. results \in Seq(Outcomes) /\ Len(results) > 0
    BY DEF Outcomes
  <2>3. at \in [Fixers -> Stages] /\ cell \in [Fixers -> Nat]
    BY DEF Stages
  <2>4. QED
    BY <2>1, <2>2, <2>3 DEF StageTypeOK
<1>2. OneAdd
  BY DEF OneAdd, Adding, MutexFree
<1>3. LocksKeepOut /\ QueuedIsQuiet
  BY DEF LocksKeepOut, QueuedIsQuiet, Waits
<1>4. QueuedIsWhole /\ NothingLeftUnstaged
  BY DEF QueuedIsWhole, NothingLeftUnstaged
<1>5. QED
  BY <1>1, <1>2, <1>3, <1>4 DEF StageInv

-----------------------------------------------------------------------------
(* The shared add, its locks and its queue keep their promises throughout  *)
(* every run.                                                              *)
THEOREM StagingInvariance == StageSpec => []StageInv
<1>1. StageInit => StageInv
  BY StageBegins
<1>2. StageInv /\ [StageNext]_stageVars => StageInv'
  BY StageStep
<1>3. QED
  BY <1>1, <1>2, PTL DEF StageSpec

(* Every variable stays in its range: a step's stage, its locks, the cell  *)
(* it shares and the results of the batches.                               *)
THEOREM StagingTypeCorrect == StageSpec => []StageTypeOK
<1>1. StageInv => StageTypeOK
  BY DEF StageInv
<1>2. QED
  BY <1>1, StagingInvariance, PTL

(* Whatever the steps, their files and the racily clean entries, and even  *)
(* when the run is cancelled, git never reads a file a fixer is writing.   *)
THEOREM AddsAreWhole == StageSpec => []NoTornAdd
<1>1. StageInv => NoTornAdd
  BY DEF StageInv, QueuedIsQuiet, NoTornAdd
<1>2. QED
  BY <1>1, StagingInvariance, PTL

(* A file a fixer changed is in the index, or some step that changed it    *)
(* has not ended or ended with an error or by cancellation: sharing the    *)
(* result of another step's add loses no file.                             *)
THEOREM StagedOrTold == StageSpec => []NothingLeftUnstaged
<1>1. StageInv => NothingLeftUnstaged
  BY DEF StageInv
<1>2. QED
  BY <1>1, StagingInvariance, PTL
=============================================================================
