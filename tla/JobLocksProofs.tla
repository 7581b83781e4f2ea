---------------------------- MODULE JobLocksProofs ----------------------------
(* Proofs about the jobs of a run and what they share, for any jobs, files, *)
(* slots and retries: a patch is applied alone and fresh, and no job reads  *)
(* or writes what another writes.  Then about those that go over lists of   *)
(* files with threads: the steps that filter theirs, for any steps, helpers *)
(* and chunks, and the fixers, for any lists, threads and bounds.           *)
EXTENDS JobLocks, SharedChecks, OrderedFix, Induction, FiniteSetTheorems, SequenceTheorems, TLAPS

(* The jobs in line for the tree are there once, and wait.                 *)
InLine == {"guard", "patch", "stage_guard"}
LineInOrder ==
  /\ \A m, n \in 1..Len(line) : line[m] = line[n] => m = n
  /\ \A n \in 1..Len(line) : pc[line[n]] \in InLine

(* A job in the tree has access to it; one that applies a patch has it     *)
(* alone.                                                                  *)
AccessOf(j) ==
  /\ pc[j] \in InTheTree \ {"apply"} => guard[j] = "read"
  /\ pc[j] = "apply" => guard[j] = "write"
  /\ guard[j] = "write" => pc[j] = "apply" /\ \A i \in Jobs \ {j} : guard[i] = "none"

(* Where a job holds file locks, on what, and what it will do with them.   *)
LocksOf(j) ==
  /\ pc[j] \in {"start", "try"} => phase[j] = "out"
  /\ pc[j] \in InLine \cup InTheTree => phase[j] = "holding"
  /\ pc[j] \in {"files", "guard", "run", "compare"} => want[j] = Wanted(j)
  /\ pc[j] \in {"start", "run"} => job[j].then = "run"
  /\ pc[j] = "ready" /\ phase[j] = "out" => job[j].then = "run"
  /\ pc[j] = "compare" => job[j].then = "compare"
  /\ pc[j] \in {"patch", "apply"} => /\ job[j].round = "diff" /\ want[j].mode = "write"
                                     /\ Input(j) \subseteq want[j].files
  /\ pc[j] \in {"try", "files", "guard", "compare"} /\ job[j].then = "compare"
       => job[j].round = "diff"
  /\ job[j].round = "recheck" => Of(j).recheck # "none"

(* A job that trades its read locks for write locks, or its write locks    *)
(* for more; how often it released one itself; and who can write a file.   *)
Trades(j)       == job[j].then = "compare" /\ pc[j] \in {"try", "files", "guard", "compare"}
Own(j)          == IF job[j].under_read THEN 0 ELSE 1
MayWrite(i, f)  == phase[i] = "holding" /\ want[i].mode = "write" /\ f \in want[i].files

(* What a check read is as it was while the job holds its locks.  While it *)
(* trades them, the write counts will tell of any file that was written.   *)
FreshOf(j) ==
  /\ stale[j] \subseteq Input(j)
  /\ pc[j] \in {"run", "patch", "apply"} /\ job[j].round = "diff" => stale[j] = {}
  /\ pc[j] \in {"start", "try", "files", "guard", "run"} /\ job[j].then # "compare"
       => since[j] = NoCounts
  /\ pc[j] = "ready" /\ phase[j] = "out" => since[j] = NoCounts
  /\ Trades(j) => /\ \A f \in Input(j) : since[j][f] >= Own(j)
                  /\ \A f \in stale[j] : \/ since[j][f] > Own(j)
                                         \/ \E i \in Jobs \ {j} : MayWrite(i, f)

Inv == /\ TypeOK
       /\ Locks!Compatible
       /\ LineInOrder
       /\ \A j \in Jobs : AccessOf(j) /\ LocksOf(j) /\ FreshOf(j)

-----------------------------------------------------------------------------
(* What a step of job j leaves alone: the stage and the memory of others.  *)
Moves(j) ==
  /\ UNCHANGED setup
  /\ \E l \in PCs : Goto(j, l)
  /\ \E r \in JobStates : job' = [job EXCEPT ![j] = r]
  /\ cancelled' \in BOOLEAN

(* Their requests and their locks, but for waiters that get theirs.        *)
LockFrame(j) ==
  /\ phase' \in [Jobs -> Locks!Phases] /\ want' \in [Jobs -> Locks!Requests]
  /\ Locks!Compatible'
  /\ \A i \in Jobs \ {j} :
       /\ want'[i] = want[i]
       /\ phase'[i] = phase[i] \/ (phase[i] = "waiting" /\ phase'[i] = "holding")

(* Counts of others only grow, and do when j gives write locks back.       *)
CountFrame(j) ==
  /\ since' \in [Jobs -> [Files -> Nat]]
  /\ \A i \in Jobs \ {j} :
       IF job[i].then = "compare"
       THEN \A f \in Files : /\ since'[i][f] >= since[i][f]
                             /\ MayWrite(j, f) /\ ~MayWrite(j, f)' => since'[i][f] > since[i][f]
       ELSE since'[i] \in {since[i], NoCounts}

(* Only files j may write under locks join the stale files of others.      *)
HistoryFrame(j) ==
  /\ stale' \in [Jobs -> SUBSET Files] /\ strayed' \in [Jobs -> SUBSET Files]
  /\ \A i \in Jobs \ {j} : stale'[i] \subseteq stale[i] \cup {f \in Input(i) : MayWrite(j, f)}
  /\ stale'[j] \subseteq stale[j]

(* Job j's own slot and git's mutex.                                       *)
SlotFrame(j) ==
  /\ \/ slots' \in {slots, slots \ {j}}
     \/ slots' = slots \cup {j} /\ (j \in slots \/ Cardinality(slots) < setup.slots)
  /\ git' \in {git, git \ {j}, {j}, {}}

(* Job j joins the line, leaves it, or is not in it.                       *)
LineStep(j) ==
  \/ UNCHANGED line /\ pc[j] \notin InLine
  \/ line' = Append(line, j) /\ pc[j] \notin InLine /\ pc'[j] \in InLine
  \/ line # <<>> /\ Head(line) = j /\ line' = Tail(line)
  \/ LeaveLine(j)

(* Job j's access to the tree, if any, is one it may have.                 *)
AccessStep(j) ==
  \E g \in {"none", "read", "write"} :
    /\ guard' = [guard EXCEPT ![j] = g]
    /\ pc'[j] \in InTheTree \ {"apply"} => g = "read"
    /\ pc'[j] = "apply" <=> g = "write"
    /\ g = "read" => \A i \in Jobs \ {j} : guard[i] # "write"
    /\ g = "write" => \A i \in Jobs \ {j} : guard[i] = "none"

(* A step of job j.                                                        *)
Shape(j) ==
  /\ Moves(j) /\ SlotFrame(j)
  /\ LineStep(j) /\ AccessStep(j)
  /\ LockFrame(j) /\ CountFrame(j) /\ HistoryFrame(j)
  /\ LocksOf(j)' /\ FreshOf(j)'

-----------------------------------------------------------------------------
(* A sequence without its k-th member.                                     *)
Without(s, k)  == SubSeq(s, 1, k - 1) \o SubSeq(s, k + 1, Len(s))
Skips(t, s, k) == /\ Len(t) = Len(s) - 1
                  /\ \A n \in 1..Len(t) : t[n] = s[IF n < k THEN n ELSE n + 1]

(* What is left of it.                                                     *)
LEMMA WithoutOne ==
  ASSUME NEW S, NEW s \in Seq(S), NEW k \in 1..Len(s), NEW t, t = Without(s, k)
  PROVE  t \in Seq(S) /\ Skips(t, s, k)
<1> DEFINE u == SubSeq(s, 1, k - 1)
           v == SubSeq(s, k + 1, Len(s))
<1>1. /\ u \in Seq(S) /\ Len(u) = k - 1
      /\ \A n \in 1..(k - 1) : u[n] = s[n]
  BY SubSeqProperties
<1>2. /\ v \in Seq(S) /\ Len(v) = Len(s) - k
      /\ \A n \in 1..(Len(s) - k) : v[n] = s[k + n]
  BY SubSeqProperties
<1> HIDE DEF u, v
<1>3. t = u \o v
  BY DEF u, v, Without
<1>4. k \in Nat /\ Len(s) \in Nat /\ 1 <= k /\ k <= Len(s)
  OBVIOUS
<1>5. /\ u \o v \in Seq(S) /\ Len(u \o v) = Len(u) + Len(v)
      /\ \A n \in 1..Len(u) + Len(v) : (u \o v)[n] = IF n <= Len(u) THEN u[n] ELSE v[n - Len(u)]
  BY ONLY <1>1, <1>2, ConcatProperties
<1>6. t \in Seq(S) /\ Len(t) = Len(s) - 1
  BY ONLY <1>1, <1>2, <1>3, <1>4, <1>5
<1>7. ASSUME NEW n \in 1..Len(t) PROVE t[n] = s[IF n < k THEN n ELSE n + 1]
  <2>1. t[n] = IF n <= Len(u) THEN u[n] ELSE v[n - Len(u)]
    BY ONLY <1>1, <1>2, <1>3, <1>4, <1>5, <1>6, n \in 1..Len(t)
  <2>2. CASE n < k
    BY ONLY <1>1, <1>4, <1>6, <2>1, <2>2, n \in 1..Len(t)
  <2>3. CASE n >= k
    <3>1. n - (k - 1) \in 1..(Len(s) - k)
      BY ONLY <1>4, <1>6, <2>3, n \in 1..Len(t)
    <3>2. t[n] = v[n - (k - 1)]
      BY ONLY <1>1, <1>4, <1>6, <2>1, <2>3, n \in 1..Len(t)
    <3>3. k + (n - (k - 1)) = n + 1 /\ ~(n < k)
      BY ONLY <1>4, <1>6, <2>3, n \in 1..Len(t)
    <3>4. v[n - (k - 1)] = s[n + 1]
      BY ONLY <1>2, <3>1, <3>3
    <3>5. QED
      BY ONLY <3>2, <3>3, <3>4
  <2>4. n < k \/ n >= k
    BY ONLY <1>4, <1>6, n \in 1..Len(t)
  <2>5. QED
    BY ONLY <2>2, <2>3, <2>4
<1>8. QED
  BY ONLY <1>6, <1>7 DEF Skips

(* The line stays in order.                                                *)
LEMMA LineStepKeepsLine ==
  ASSUME Inv, NEW j \in Jobs, Moves(j), LineStep(j)
  PROVE  line' \in Seq(Jobs) /\ LineInOrder'
<1>1. line \in Seq(Jobs) /\ pc \in [Jobs -> PCs] /\ LineInOrder
  BY DEF Inv, TypeOK
<1>2. \A i \in Jobs \ {j} : pc'[i] = pc[i]
  BY <1>1 DEF Moves, Goto
<1>3. CASE UNCHANGED line /\ pc[j] \notin InLine
  BY <1>1, <1>2, <1>3 DEF LineInOrder
<1>4. CASE line' = Append(line, j) /\ pc[j] \notin InLine /\ pc'[j] \in InLine
  BY <1>1, <1>2, <1>4 DEF LineInOrder
<1>5. CASE line # <<>> /\ Head(line) = j /\ line' = Tail(line)
  <2>1. Len(line') = Len(line) - 1 /\ \A n \in 1..Len(line') : line'[n] = line[n + 1]
    BY <1>1, <1>5
  <2>2. line[1] = j
    BY <1>1, <1>5
  <2>3. \A n \in 1..Len(line') : line'[n] # j
    BY <1>1, <1>5, <2>1, <2>2 DEF LineInOrder
  <2>4. QED
    BY <1>1, <1>2, <1>5, <2>1, <2>3 DEF LineInOrder
<1>6. CASE LeaveLine(j)
  <2>1. CASE (\A n \in 1..Len(line) : line[n] # j) /\ UNCHANGED line
    BY <1>1, <1>2, <2>1 DEF LineInOrder
  <2>2. ASSUME NEW k \in 1..Len(line), line[k] = j,
               line' = SubSeq(line, 1, k - 1) \o SubSeq(line, k + 1, Len(line))
        PROVE  line' \in Seq(Jobs) /\ LineInOrder'
    <3>1. /\ line' \in Seq(Jobs) /\ Len(line') = Len(line) - 1
          /\ \A n \in 1..Len(line') : line'[n] = line[IF n < k THEN n ELSE n + 1]
      <4>1. line \in Seq(Jobs)
        BY <1>1
      <4>2. line' = Without(line, k)
        BY <2>2 DEF Without
      <4>3. line' \in Seq(Jobs) /\ Skips(line', line, k)
        BY ONLY <4>1, <4>2, k \in 1..Len(line), WithoutOne
      <4>4. QED
        BY ONLY <4>3 DEF Skips
    <3>2. line[k] = j /\ k \in 1..Len(line) /\ Len(line) \in Nat
      BY <1>1, <2>2
    <3> DEFINE At(n) == IF n < k THEN n ELSE n + 1
    <3>3. \A n \in 1..Len(line') : At(n) \in 1..Len(line) /\ At(n) # k
      BY ONLY <3>1, <3>2
    <3>4. \A n \in 1..Len(line') : line'[n] = line[At(n)]
      BY ONLY <3>1
    <3>5. \A m, n \in Int : At(m) = At(n) => m = n
      BY ONLY <3>2
    <3> HIDE DEF At
    <3>6. \A n \in 1..Len(line') : line'[n] # j /\ line'[n] \in Jobs
      BY ONLY <1>1, <3>2, <3>3, <3>4 DEF LineInOrder
    <3>7. \A m, n \in 1..Len(line') : line'[m] = line'[n] => m = n
      BY ONLY <1>1, <3>3, <3>4, <3>5 DEF LineInOrder
    <3>8. \A n \in 1..Len(line') : pc'[line'[n]] \in InLine
      BY ONLY <1>1, <1>2, <3>3, <3>4, <3>6 DEF LineInOrder
    <3>9. QED
      BY ONLY <3>1, <3>7, <3>8 DEF LineInOrder
  <2>3. QED
    BY <1>6, <2>1, <2>2 DEF LeaveLine
<1>7. QED
  BY <1>3, <1>4, <1>5, <1>6 DEF LineStep

(* No job holds write locks on the input of another that holds locks on it. *)
LEMMA LockedInputIsSafe ==
  ASSUME Inv, NEW i \in Jobs, NEW j \in Jobs, i # j,
         \/ pc[i] \in {"patch", "apply", "compare"}
         \/ pc[i] = "run" /\ job[i].round = "diff"
  PROVE  \A f \in Input(i) : ~MayWrite(j, f)
<1>1. phase[i] = "holding"
  BY DEF Inv, LocksOf, InLine, InTheTree
<1>2. Input(i) \subseteq want[i].files
  <2>1. CASE pc[i] \in {"patch", "apply"}
    BY <2>1 DEF Inv, LocksOf
  <2>2. CASE pc[i] \in {"run", "compare"}
    <3>1. want[i] = Wanted(i) /\ job[i].round = "diff"
      BY <2>2 DEF Inv, LocksOf
    <3>2. QED
      BY <3>1 DEF Wanted
  <2>3. QED
    BY <2>1, <2>2
<1>3. QED
  BY <1>1, <1>2 DEF Inv, TypeOK, MayWrite, Locks!Compatible, Locks!Holding, Locks!Conflict

(* A step of job j moves no other job.                                     *)
LEMMA OthersStay ==
  ASSUME TypeOK, NEW j \in Jobs, Moves(j), NEW i \in Jobs, i # j
  PROVE  pc'[i] = pc[i] /\ job'[i] = job[i]
<1>1. PICK l \in PCs : pc' = [pc EXCEPT ![j] = l]
  BY DEF Moves, Goto
<1>2. PICK r \in JobStates : job' = [job EXCEPT ![j] = r]
  BY DEF Moves
<1>3. QED
  BY <1>1, <1>2 DEF TypeOK

(* What others do leaves what job i knows of its files true.               *)
LEMMA OthersKeepFresh ==
  ASSUME Inv, NEW j \in Jobs, Moves(j), LockFrame(j), CountFrame(j), HistoryFrame(j),
         NEW i \in Jobs, i # j
  PROVE  FreshOf(i)'
<1>1. pc'[i] = pc[i] /\ job'[i] = job[i] /\ Input(i)' = Input(i)
  <2>1. UNCHANGED setup
    BY DEF Moves
  <2>2. QED
    BY <2>1, OthersStay DEF Inv, Input, Of
<1>2. FreshOf(i) /\ LocksOf(i)
  BY DEF Inv
<1>3. stale'[i] \subseteq stale[i] \cup {f \in Input(i) : MayWrite(j, f)}
  BY DEF HistoryFrame
<1>4. stale'[i] \subseteq Input(i)'
  BY <1>1, <1>2, <1>3 DEF FreshOf
<1>5. ASSUME pc'[i] \in {"run", "patch", "apply"}, job'[i].round = "diff"
      PROVE  stale'[i] = {}
  <2>1. \A f \in Input(i) : ~MayWrite(j, f)
    BY <1>1, <1>5, LockedInputIsSafe
  <2>2. QED
    BY <1>1, <1>2, <1>3, <1>5, <2>1 DEF FreshOf
<1>6. job'[i].then # "compare" => since'[i] \in {since[i], NoCounts}
  BY <1>1 DEF CountFrame
<1>7. phase'[i] = "out" => phase[i] = "out"
  BY DEF LockFrame
<1>8. pc'[i] = "ready" /\ phase'[i] = "out" => since'[i] = NoCounts
  BY <1>1, <1>2, <1>6, <1>7 DEF FreshOf, LocksOf
<1>9. ASSUME Trades(i)'
      PROVE  /\ \A f \in Input(i)' : since'[i][f] >= Own(i)'
             /\ \A f \in stale'[i] : \/ since'[i][f] > Own(i)'
                                     \/ \E k \in Jobs \ {i} : MayWrite(k, f)'
  <2>1. Trades(i) /\ Own(i)' = Own(i) /\ job[i].then = "compare"
    BY <1>1, <1>9 DEF Trades, Own
  <2>2. Input(i) \subseteq Files /\ Own(i) \in Nat /\ since \in [Jobs -> [Files -> Nat]]
    BY JobsOK DEF Inv, TypeOK, Input, Of, Own, Run, Setting
  <2>3. \A f \in Input(i) : since'[i][f] >= since[i][f] /\ since'[i][f] \in Nat
    BY <2>1, <2>2 DEF CountFrame
  <2>4. \A f \in Input(i) : since[i][f] >= Own(i)
    BY <1>2, <2>1 DEF FreshOf
  <2>5. ASSUME NEW f \in Input(i), NEW k \in Jobs \ {i}, MayWrite(k, f)
        PROVE  since'[i][f] > Own(i) \/ MayWrite(k, f)'
    <3>1. CASE k = j
      BY <2>1, <2>2, <2>3, <2>4, <2>5, <3>1 DEF CountFrame
    <3>2. CASE k # j
      BY <2>5, <3>2 DEF LockFrame, MayWrite
    <3>3. QED
      BY <3>1, <3>2
  <2>6. ASSUME NEW f \in stale'[i]
        PROVE  since'[i][f] > Own(i) \/ \E k \in Jobs \ {i} : MayWrite(k, f)'
    <3>1. f \in Input(i)
      BY <1>1, <1>4, <2>6
    <3>2. CASE f \in stale[i] /\ since[i][f] > Own(i)
      BY <2>2, <2>3, <3>1, <3>2
    <3>3. CASE \E k \in Jobs \ {i} : MayWrite(k, f)
      BY <2>5, <3>1, <3>3
    <3>4. QED
      BY <1>2, <1>3, <2>1, <2>6, <3>2, <3>3 DEF FreshOf
  <2>7. QED
    BY <1>1, <2>1, <2>2, <2>3, <2>4, <2>6
<1>10. QED
  BY <1>1, <1>2, <1>4, <1>5, <1>6, <1>8, <1>9 DEF FreshOf

(* A step of this shape keeps every part of the invariant.                 *)
LEMMA ShapeKeepsInv ==
  ASSUME Inv, NEW j \in Jobs, Shape(j)
  PROVE  Inv'
<1> USE DEF Shape
<1>1. \A i \in Jobs \ {j} : pc'[i] = pc[i] /\ job'[i] = job[i]
  BY OthersStay DEF Inv
<1>2. TypeOK'
  <2>1. /\ IsFiniteSet(slots) /\ slots \in SUBSET Jobs /\ Cardinality(slots) <= setup.slots
        /\ Cardinality(slots) \in Nat /\ setup.slots \in Nat /\ setup' = setup
    BY JobsOK, FS_Subset, FS_CardinalityType DEF Inv, TypeOK, Run, Moves
  <2>2. slots' \in SUBSET Jobs /\ Cardinality(slots') <= setup'.slots
    <3>1. CASE slots' = slots
      BY <2>1, <3>1
    <3>2. CASE slots' = slots \ {j}
      <4>1. Cardinality(slots \ {j})
              = IF j \in slots THEN Cardinality(slots) - 1 ELSE Cardinality(slots)
        BY <2>1, FS_RemoveElement
      <4>2. QED
        BY <2>1, <3>2, <4>1
    <3>3. CASE slots' = slots \cup {j} /\ (j \in slots \/ Cardinality(slots) < setup.slots)
      <4>1. Cardinality(slots \cup {j})
              = IF j \in slots THEN Cardinality(slots) ELSE Cardinality(slots) + 1
        BY <2>1, FS_AddElement
      <4>2. QED
        BY <2>1, <3>3, <4>1
    <3>4. QED
      BY <3>1, <3>2, <3>3 DEF SlotFrame
  <2>3. setup' \in Setups /\ pc' \in [Jobs -> PCs] /\ job' \in [Jobs -> JobStates]
    BY DEF Inv, TypeOK, Moves, Goto
  <2>4. guard' \in [Jobs -> {"none", "read", "write"}] /\ git' \in SUBSET Jobs
    BY DEF Inv, TypeOK, AccessStep, SlotFrame
  <2>5. line' \in Seq(Jobs)
    BY LineStepKeepsLine
  <2>6. QED
    BY <2>2, <2>3, <2>4, <2>5 DEF TypeOK, Moves, LockFrame, CountFrame, HistoryFrame
<1>3. LineInOrder'
  BY LineStepKeepsLine
<1>4. ASSUME NEW i \in Jobs PROVE AccessOf(i)'
  BY <1>1 DEF Inv, TypeOK, AccessOf, AccessStep
<1>5. ASSUME NEW i \in Jobs PROVE LocksOf(i)'
  <2>1. CASE i = j
    BY <2>1
  <2>2. CASE i # j
    <3>1. pc'[i] = pc[i] /\ job'[i] = job[i] /\ want'[i] = want[i] /\ setup' = setup
      BY <1>1, <2>2 DEF LockFrame, Moves
    <3>2. Wanted(i)' = Wanted(i) /\ Input(i)' = Input(i) /\ Of(i)' = Of(i)
      BY <3>1 DEF Wanted, Mode, Target, Patch, Input, Of
    <3>3. phase'[i] = phase[i] \/ (phase[i] = "waiting" /\ phase'[i] = "holding")
      BY <2>2 DEF LockFrame
    <3>4. LocksOf(i)
      BY DEF Inv
    <3>5. QED
      BY <3>1, <3>2, <3>3, <3>4 DEF LocksOf
  <2>3. QED
    BY <2>1, <2>2
<1>6. ASSUME NEW i \in Jobs PROVE FreshOf(i)'
  BY OthersKeepFresh
<1>7. QED
  BY <1>2, <1>3, <1>4, <1>5, <1>6 DEF Inv, LockFrame

-----------------------------------------------------------------------------
(* What the model's helpers do to the locks, the counts and the history.   *)
LEMMA KeepLocks ==
  ASSUME Inv, NEW j \in Jobs, UNCHANGED lockVars
  PROVE  LockFrame(j) /\ CountFrame(j)
<1> USE DEF lockVars
<1>1. LockFrame(j)
  <2>1. Locks!Compatible'
    BY DEF Inv, Locks!Compatible, Locks!Holding, Locks!Conflict
  <2>2. QED
    BY <2>1 DEF Inv, TypeOK, LockFrame
<1>2. CountFrame(j)
  <2>1. since \in [Jobs -> [Files -> Nat]]
    BY DEF Inv, TypeOK
  <2>2. \A i \in Jobs, f \in Files : since[i][f] >= since[i][f]
    BY <2>1
  <2>3. \A f : MayWrite(j, f)' <=> MayWrite(j, f)
    BY DEF MayWrite
  <2>4. QED
    BY <2>1, <2>2, <2>3 DEF CountFrame
<1>3. QED
  BY <1>1, <1>2

(* A job asks for locks.                                                   *)
LEMMA AskLocks ==
  ASSUME Inv, NEW j \in Jobs, NEW r \in Locks!Requests,
         Locks!AskFor(j, r), Locks!Settled, UNCHANGED since
  PROVE  /\ LockFrame(j) /\ CountFrame(j)
         /\ want'[j] = r /\ phase'[j] \in {"waiting", "holding"}
<1>1. phase[j] = "out" /\ want' = [want EXCEPT ![j] = r]
  BY DEF Locks!AskFor
<1>2. PICK p \in {"waiting", "holding"} : phase' = [phase EXCEPT ![j] = p]
  BY DEF Locks!AskFor
<1>3. LockFrame(j)
  <2>1. phase \in [Jobs -> Locks!Phases] /\ want \in [Jobs -> Locks!Requests]
    BY DEF Inv, TypeOK
  <2>2. phase' \in [Jobs -> Locks!Phases] /\ want' \in [Jobs -> Locks!Requests]
    BY <1>1, <1>2, <2>1 DEF Locks!Phases
  <2>3. \A i \in Jobs \ {j} : want'[i] = want[i] /\ phase'[i] = phase[i]
    BY <1>1, <1>2, <2>1
  <2>4. QED
    BY <2>2, <2>3 DEF LockFrame, Locks!Settled
<1>4. CountFrame(j)
  <2>1. since \in [Jobs -> [Files -> Nat]]
    BY DEF Inv, TypeOK
  <2>2. \A i \in Jobs, f \in Files : since'[i][f] >= since[i][f]
    BY <2>1
  <2>3. \A f : ~MayWrite(j, f)
    BY <1>1 DEF MayWrite
  <2>4. QED
    BY <2>1, <2>2, <2>3 DEF CountFrame
<1>5. QED
  BY <1>1, <1>2, <1>3, <1>4 DEF Inv, TypeOK

(* A job gives its locks back, or its place in the queue for them.         *)
LEMMA UnlockLocks ==
  ASSUME Inv, NEW j \in Jobs, Moves(j), Unlock(j)
  PROVE  /\ LockFrame(j) /\ CountFrame(j)
         /\ phase'[j] = "out"
         /\ job'[j].then # "compare" => since'[j] = NoCounts
<1>1. phase \in [Jobs -> Locks!Phases] /\ want \in [Jobs -> Locks!Requests]
  BY DEF Inv, TypeOK
<1>2. LockFrame(j) /\ phase'[j] = "out"
  <2>1. CASE phase[j] = "out"
    <3>1. UNCHANGED <<phase, want>>
      BY <2>1 DEF Unlock
    <3>2. Locks!Compatible'
      BY <3>1 DEF Inv, Locks!Compatible, Locks!Holding, Locks!Conflict
    <3>3. QED
      BY <1>1, <2>1, <3>1, <3>2 DEF LockFrame
  <2>2. CASE phase[j] # "out"
    <3>1. want' = [want EXCEPT ![j] = NoRequest] /\ Locks!Leave(j) /\ Locks!Settled
      BY <2>2 DEF Unlock
    <3>2. PICK W \in SUBSET (Locks!Waiting \ {j}) :
            phase' = [i \in Jobs |-> IF i = j THEN "out"
                                     ELSE IF i \in W THEN "holding" ELSE phase[i]]
      BY <3>1 DEF Locks!Leave
    <3>3. \A i \in W : phase[i] = "waiting" /\ i # j
      BY DEF Locks!Waiting
    <3>4. NoRequest \in Locks!Requests
      BY DEF NoRequest, Locks!Requests, Locks!Modes
    <3>5. phase' \in [Jobs -> Locks!Phases] /\ want' \in [Jobs -> Locks!Requests]
      <4>1. \A i \in Jobs :
              (IF i = j THEN "out" ELSE IF i \in W THEN "holding" ELSE phase[i]) \in Locks!Phases
        BY <1>1 DEF Locks!Phases
      <4>2. phase' \in [Jobs -> Locks!Phases]
        BY ONLY <3>2, <4>1
      <4>3. want' \in [Jobs -> Locks!Requests]
        BY <1>1, <3>1, <3>4
      <4>4. QED
        BY <4>2, <4>3
    <3>6. \A i \in Jobs \ {j} : want'[i] = want[i]
      BY <1>1, <3>1
    <3>7. QED
      BY <3>1, <3>2, <3>3, <3>5, <3>6 DEF LockFrame, Locks!Settled
  <2>3. QED
    BY <2>1, <2>2
<1> DEFINE W == IF phase[j] = "holding" /\ want[j].mode = "write" THEN want[j].files ELSE {}
<1>3. since' = [i \in Jobs |->
                  IF job'[i].then # "compare" THEN NoCounts
                  ELSE [f \in Files |-> IF f \in W THEN since[i][f] + 1 ELSE since[i][f]]]
  BY DEF Unlock
<1>4. \A f : MayWrite(j, f) => f \in W
  BY DEF MayWrite
<1> HIDE DEF W
<1>5. since \in [Jobs -> [Files -> Nat]] /\ NoCounts \in [Files -> Nat]
  BY DEF Inv, TypeOK, NoCounts
<1>6. since' \in [Jobs -> [Files -> Nat]]
  BY <1>3, <1>5
<1>7. ASSUME NEW i \in Jobs \ {j}, job[i].then # "compare"
      PROVE  since'[i] = NoCounts
  BY <1>3, <1>7, OthersStay DEF Inv
<1>8. ASSUME NEW i \in Jobs \ {j}, job[i].then = "compare", NEW f \in Files
      PROVE  since'[i][f] >= since[i][f] /\ (MayWrite(j, f) => since'[i][f] > since[i][f])
  <2>1. job'[i].then = "compare"
    BY <1>8, OthersStay DEF Inv
  <2>2. since'[i][f] = IF f \in W THEN since[i][f] + 1 ELSE since[i][f]
    BY <1>3, <2>1
  <2>3. since[i][f] \in Nat
    BY <1>5
  <2>4. QED
    BY <1>4, <2>2, <2>3
<1>9. CountFrame(j)
  BY <1>6, <1>7, <1>8 DEF CountFrame
<1>10. QED
  BY <1>2, <1>3, <1>9

(* A job notes what it wrote: if it wrote files it locked, it might.       *)
LEMMA NoteHistory ==
  ASSUME Inv, NEW j \in Jobs, Moves(j), NEW W \in SUBSET Files, NoteWrites(j, W),
         W \cap want[j].files # {} => phase[j] = "holding" /\ want[j].mode = "write"
  PROVE  HistoryFrame(j)
<1>1. stale \in [Jobs -> SUBSET Files] /\ strayed \in [Jobs -> SUBSET Files]
  BY DEF Inv, TypeOK
<1>2. \A i \in Jobs : Input(i) \subseteq Files
  BY JobsOK DEF Inv, TypeOK, Input, Of, Run, Setting
<1>3. stale' = [i \in Jobs |->
                  CASE ~Checked(i)          -> {}
                    [] Checked(i) /\ i = j -> stale[i]
                    [] Checked(i) /\ i # j -> stale[i] \cup ((W \cap want[j].files) \cap Input(i))]
  BY DEF NoteWrites
<1>4. strayed' = [i \in Jobs |->
                    CASE ~Checked(i)          -> {}
                      [] Checked(i) /\ i = j -> strayed[i]
                      [] Checked(i) /\ i # j -> strayed[i] \cup ((W \ want[j].files) \cap Input(i))]
  BY DEF NoteWrites
<1>5. strayed' \in [Jobs -> SUBSET Files]
  BY <1>1, <1>2, <1>4
<1>6. stale' \in [Jobs -> SUBSET Files] /\ stale'[j] \subseteq stale[j]
  BY <1>1, <1>2, <1>3
<1>7. \A f \in W \cap want[j].files : MayWrite(j, f)
  BY DEF MayWrite
<1>8. \A i \in Jobs \ {j} : stale'[i] \subseteq stale[i] \cup {f \in Input(i) : MayWrite(j, f)}
  BY <1>1, <1>3, <1>7
<1>9. QED
  BY <1>5, <1>6, <1>8 DEF HistoryFrame

(* A command has locks on what it writes.                                  *)
LEMMA CommandHistory ==
  ASSUME Inv, NEW j \in Jobs, Moves(j), pc[j] = "run", CommandWrote(j)
  PROVE  HistoryFrame(j)
<1> DEFINE W == IF want[j].mode = "write" THEN want[j].files ELSE {}
<1>1. phase[j] = "holding"
  BY DEF Inv, LocksOf, InTheTree
<1>2. W \in SUBSET Files
  BY DEF Inv, TypeOK, Locks!Requests
<1>3. NoteWrites(j, W)
  BY DEF CommandWrote
<1>4. W # {} => want[j].mode = "write"
  OBVIOUS
<1> HIDE DEF W
<1>5. QED
  BY <1>1, <1>2, <1>3, <1>4, NoteHistory

(* A job that wrote nothing.                                               *)
LEMMA NoHistory ==
  ASSUME Inv, NEW j \in Jobs, Moves(j), UNCHANGED history \/ NoteWrites(j, {})
  PROVE  HistoryFrame(j)
<1>1. CASE UNCHANGED history
  BY <1>1 DEF history, Inv, TypeOK, HistoryFrame
<1>2. CASE NoteWrites(j, {})
  BY <1>2, NoteHistory
<1>3. QED
  BY <1>1, <1>2

-----------------------------------------------------------------------------
(* Only one job at a time has the tree to itself.                          *)
LEMMA OthersShare ==
  ASSUME Inv, NEW j \in Jobs, guard[j] # "none"
  PROVE  \A i \in Jobs \ {j} : guard[i] # "write"
  BY DEF Inv, AccessOf

(* What job records are made of.                                           *)
LEMMA RecordsAreTyped ==
  ASSUME Inv, NEW j \in Jobs
  PROVE  /\ job[j] \in JobStates /\ Of(j) \in Setting /\ Input(j) \subseteq Files
         /\ Wanted(j) \in Locks!Requests
         /\ \A S \in SUBSET Files : Over(S) \in JobStates
         /\ Changed(j) \subseteq Files /\ Patched(j) \subseteq Files
<1>1. job[j] \in JobStates /\ Of(j) \in Setting
  BY JobsOK DEF Inv, TypeOK, Of, Run
<1>2. Input(j) \subseteq Files
  BY <1>1 DEF Input, Setting
<1>3. Patch(j) \in Patches
  BY <1>1 DEF Patch, JobStates
<1>4. Target(j) \subseteq Files /\ Changed(j) \subseteq Files /\ Patched(j) \subseteq Files
  BY <1>2, <1>3 DEF Target, Changed, Patched, Patches
<1>5. Wanted(j) \in Locks!Requests
  <2>1. Mode(j) \in {"read", "write"}
    <3>1. job[j].round = "recheck" => Of(j).recheck \in {"read", "write"}
      BY <1>1 DEF Inv, LocksOf, Setting, Rechecks
    <3>2. QED
      BY <3>1 DEF Mode
  <2>2. Patch(j).created \subseteq Files
    BY <1>3 DEF Patches
  <2>3. QED
    BY <1>2, <1>4, <2>1, <2>2 DEF Wanted, Locks!Requests, Locks!Modes
<1>6. NoPatch \in Patches /\ 0 \in 0..MaxRetries
  BY JobsOK DEF NoPatch, Patches
<1>7. \A S \in SUBSET Files : Over(S) \in JobStates
  BY <1>6 DEF Over, JobStates
<1>8. QED
  BY <1>1, <1>2, <1>4, <1>5, <1>7

(* A job that drops what it holds and asks again, ends or goes on to stage. *)
Quits(j) ==
  /\ UNCHANGED <<setup, cancelled>>
  /\ DropAll(j)
  /\ \E l \in {"try", "racy", "racy_again", "done"} : Goto(j, l)
  /\ \E r \in JobStates : /\ job' = [job EXCEPT ![j] = r]
                          /\ pc'[j] = "try" => r.then = "run"
                          /\ r.round = "recheck" => job[j].round = "recheck"
  /\ Moves(j) => HistoryFrame(j)

(* Giving everything up is a step a job may take at any time.              *)
LEMMA QuitsHasShape ==
  ASSUME Inv, NEW j \in Jobs, Quits(j)
  PROVE  Shape(j)
<1>0. pc \in [Jobs -> PCs] /\ job \in [Jobs -> JobStates] /\ LocksOf(j) /\ FreshOf(j)
  BY DEF Inv, TypeOK
<1>1. PICK l \in {"try", "racy", "racy_again", "done"} : Goto(j, l)
  BY DEF Quits
<1>2. PICK r \in JobStates : /\ job' = [job EXCEPT ![j] = r]
                             /\ pc'[j] = "try" => r.then = "run"
                             /\ r.round = "recheck" => job[j].round = "recheck"
  BY DEF Quits
<1>3. pc'[j] = l /\ job'[j] = r
  BY <1>0, <1>1, <1>2 DEF Goto
<1>4. Moves(j)
  BY <1>1, <1>2 DEF Quits, Moves, Goto, PCs, Inv, TypeOK
<1>5. HistoryFrame(j)
  BY <1>4 DEF Quits
<1>6. Unlock(j)
  BY DEF Quits, DropAll
<1>7. /\ LockFrame(j) /\ CountFrame(j) /\ phase'[j] = "out"
      /\ job'[j].then # "compare" => since'[j] = NoCounts
  BY <1>4, <1>6, UnlockLocks
<1>8. SlotFrame(j) /\ LineStep(j)
  BY DEF Quits, DropAll, SlotFrame, LineStep
<1>9. AccessStep(j)
  BY <1>1, <1>3 DEF Quits, DropAll, AccessStep, InTheTree
<1>10. LocksOf(j)'
  <2>1. job'[j].round = "recheck" => Of(j)'.recheck # "none"
    <3>1. Of(j)' = Of(j)
      BY DEF Quits, Of
    <3>2. QED
      BY <1>0, <1>2, <1>3, <3>1 DEF LocksOf
  <2>2. QED
    BY <1>1, <1>2, <1>3, <1>7, <2>1 DEF LocksOf, InLine, InTheTree
<1>11. FreshOf(j)'
  <2>1. stale'[j] \subseteq Input(j)'
    <3>1. Input(j)' = Input(j)
      BY DEF Quits, Input, Of
    <3>2. QED
      BY <1>0, <1>5, <3>1 DEF FreshOf, HistoryFrame
  <2>2. pc'[j] = "try" => job'[j].then = "run" /\ since'[j] = NoCounts
    BY <1>2, <1>3, <1>7
  <2>3. QED
    BY <1>1, <1>3, <2>1, <2>2 DEF FreshOf, Trades
<1>12. QED
  BY <1>4, <1>5, <1>7, <1>8, <1>9, <1>10, <1>11 DEF Shape

(* A job that will run its fixer keeps its locks.                          *)
LEMMA RunFixerHasShape ==
  ASSUME Inv, NEW j \in Jobs, RunFixer(j), pc[j] \in {"run", "compare", "apply"},
         Moves(j) => HistoryFrame(j)
  PROVE  Shape(j)
<1> DEFINE r == [Over({}) EXCEPT !.round = "fix",
                                 !.patch = [NoPatch EXCEPT !.files = Patch(j).files]]
<1>1. r \in JobStates
  <2>1. Over({}) \in JobStates
    BY RecordsAreTyped
  <2>2. [NoPatch EXCEPT !.files = Patch(j).files] \in Patches
    BY RecordsAreTyped DEF NoPatch, Patches, JobStates, Patch
  <2>3. QED
    BY <2>1, <2>2 DEF JobStates
<1>2. job' = [job EXCEPT ![j] = r]
  BY DEF RunFixer
<1> HIDE DEF r
<1>3. pc'[j] = "ready"
  BY DEF RunFixer, Goto, Inv, TypeOK
<1>4. Moves(j)
  BY <1>1, <1>2 DEF RunFixer, Moves, Goto, PCs, Inv, TypeOK
<1>5. HistoryFrame(j)
  BY <1>4
<1>6. UNCHANGED lockVars
  BY DEF RunFixer
<1>7. LockFrame(j) /\ CountFrame(j)
  BY <1>6, KeepLocks
<1>8. SlotFrame(j) /\ LineStep(j)
  BY DEF RunFixer, SlotFrame, LineStep, InLine
<1>9. AccessStep(j)
  <2>1. guard' = [guard EXCEPT ![j] = IF guard[j] = "write" THEN "none" ELSE guard[j]]
    BY DEF RunFixer
  <2>2. QED
    BY <1>3, <2>1, OthersShare DEF AccessStep, InTheTree, Inv, TypeOK
<1>10. phase'[j] = "holding"
  BY <1>6 DEF lockVars, Inv, LocksOf, InTheTree
<1>11. LocksOf(j)'
  <2>1. job'[j].round = "fix"
    BY <1>2 DEF r, Over, Inv, TypeOK
  <2>2. QED
    BY <1>3, <1>10, <2>1 DEF LocksOf, InLine, InTheTree
<1>12. FreshOf(j)'
  <2>1. stale'[j] \subseteq Input(j)'
    BY <1>4, <1>5 DEF Inv, FreshOf, HistoryFrame, Moves, Input, Of
  <2>2. QED
    BY <1>3, <1>10, <2>1 DEF FreshOf, Trades
<1>13. QED
  BY <1>4, <1>5, <1>7, <1>8, <1>9, <1>11, <1>12 DEF Shape

(* A job that ends, well or not, drops all it holds.                       *)
LEMMA EndQuits ==
  ASSUME Inv, NEW j \in Jobs, End(j), UNCHANGED <<setup, cancelled>>,
         Moves(j) => HistoryFrame(j)
  PROVE  Quits(j)
<1>1. Over({}) \in JobStates /\ Over({}).round = "over"
  BY RecordsAreTyped DEF Over
<1>2. pc'[j] = "done"
  BY DEF End, Goto, Inv, TypeOK
<1>3. QED
  BY <1>1, <1>2 DEF End, Quits

(* So does one whose command succeeded, on its way to stage or to its end. *)
LEMMA SucceedQuits ==
  ASSUME Inv, NEW j \in Jobs, Succeed(j), UNCHANGED <<setup, cancelled>>,
         Moves(j) => HistoryFrame(j)
  PROVE  Quits(j)
<1>1. CASE End(j)
  BY <1>1, EndQuits
<1>2. CASE job' = [job EXCEPT ![j] = Over(Changed(j))] /\ DropAll(j) /\ Goto(j, "racy")
  <2>1. Over(Changed(j)) \in JobStates /\ Over(Changed(j)).round = "over"
    BY RecordsAreTyped DEF Over
  <2>2. pc'[j] = "racy"
    BY <1>2 DEF Goto, Inv, TypeOK
  <2>3. QED
    BY <1>2, <2>1, <2>2 DEF Quits
<1>3. QED
  BY <1>1, <1>2 DEF Succeed

-----------------------------------------------------------------------------
(* Every step a job may take has the shape of one.                         *)

(* The types of a job's state, and what the invariant says of the job.     *)
LEMMA TypesOf ==
  ASSUME Inv, NEW j \in Jobs
  PROVE  /\ pc \in [Jobs -> PCs] /\ job \in [Jobs -> JobStates]
         /\ guard \in [Jobs -> {"none", "read", "write"}]
         /\ cancelled \in BOOLEAN /\ LocksOf(j) /\ FreshOf(j) /\ AccessOf(j)
  BY DEF Inv, TypeOK

(* A job that begins goes on to ask for its locks.                         *)
LEMMA StartHasShape ==
  ASSUME Inv, NEW j \in Jobs, Start(j)
  PROVE  Shape(j)
<1>1. pc'[j] = "ready" /\ pc[j] = "start" /\ job' = [job EXCEPT ![j] = job[j]] /\ job'[j] = job[j]
  BY TypesOf DEF Start, Goto
<1>2. Moves(j)
  BY <1>1, TypesOf DEF Start, Moves, Goto, PCs
<1>3. HistoryFrame(j)
  BY <1>2, NoHistory DEF Start
<1>4. LockFrame(j) /\ CountFrame(j)
  BY KeepLocks DEF Start
<1>5. SlotFrame(j) /\ LineStep(j)
  BY DEF Start, SlotFrame, LineStep, InLine
<1>6. AccessStep(j)
  BY <1>1, TypesOf, OthersShare DEF Start, AccessStep, AccessOf, InTheTree
<1>7. phase'[j] = "out" /\ since'[j] = since[j]
  BY TypesOf DEF Start, LocksOf, lockVars
<1>8. Of(j)' = Of(j) /\ Input(j)' = Input(j)
  BY DEF Start, Of, Input
<1>9. LocksOf(j)'
  BY <1>1, <1>7, <1>8, TypesOf DEF Start, LocksOf, InLine, InTheTree
<1>10. FreshOf(j)'
  BY <1>1, <1>3, <1>7, <1>8, TypesOf DEF FreshOf, LocksOf, HistoryFrame, Trades
<1>11. QED
  BY <1>2, <1>3, <1>4, <1>5, <1>6, <1>9, <1>10 DEF Shape

(* A job about to run asks for locks again, giving back any it kept from   *)
(* an earlier round.                                                       *)
LEMMA ReadyHasShape ==
  ASSUME Inv, NEW j \in Jobs, Ready(j)
  PROVE  Shape(j)
<1>1. PICK r \in JobStates : r = [job[j] EXCEPT !.then = "run"]
  BY TypesOf DEF JobStates
<1>2. job' = [job EXCEPT ![j] = r] /\ r.then = "run" /\ r.round = job[j].round
  BY <1>1, TypesOf DEF Ready, JobStates
<1>3. pc'[j] = "try" /\ pc[j] = "ready" /\ job'[j] = r
  BY <1>2, TypesOf DEF Ready, Goto
<1>4. Moves(j)
  BY <1>2, TypesOf DEF Ready, Moves, Goto, PCs
<1>5. HistoryFrame(j)
  BY <1>4, NoHistory DEF Ready
<1>6. CASE phase[j] # "out"
  <2>1. Quits(j)
    BY <1>2, <1>5, <1>6 DEF Ready, Quits
  <2>2. QED
    BY <2>1, QuitsHasShape
<1>7. CASE phase[j] = "out"
  <2>1. UNCHANGED <<otherVars, lockVars>>
    BY <1>7 DEF Ready
  <2>2. LockFrame(j) /\ CountFrame(j)
    BY <2>1, KeepLocks
  <2>3. SlotFrame(j) /\ LineStep(j)
    BY <1>3, <2>1 DEF otherVars, SlotFrame, LineStep, InLine
  <2>4. AccessStep(j)
    BY <1>3, <2>1, TypesOf, OthersShare DEF otherVars, AccessStep, AccessOf, InTheTree
  <2>5. phase'[j] = "out" /\ since'[j] = since[j]
    BY <1>7, <2>1 DEF lockVars
  <2>6. Of(j)' = Of(j) /\ Input(j)' = Input(j)
    BY DEF Ready, Of, Input
  <2>7. LocksOf(j)'
    BY <1>2, <1>3, <2>5, <2>6, TypesOf DEF LocksOf, InLine, InTheTree
  <2>8. FreshOf(j)'
    BY <1>2, <1>3, <1>5, <1>7, <2>5, <2>6, TypesOf DEF FreshOf, HistoryFrame, Trades
  <2>9. QED
    BY <1>4, <1>5, <2>2, <2>3, <2>4, <2>7, <2>8 DEF Shape
<1>8. QED
  BY <1>6, <1>7

(* A job asks for its file locks; its write counts, if it keeps any, go    *)
(* on.                                                                     *)
LEMMA TryFilesHasShape ==
  ASSUME Inv, NEW j \in Jobs, TryFiles(j)
  PROVE  Shape(j)
<1>1. pc'[j] = "files" /\ pc[j] = "try" /\ job' = [job EXCEPT ![j] = job[j]] /\ job'[j] = job[j]
  BY TypesOf DEF TryFiles, Goto
<1>2. Moves(j)
  BY <1>1, TypesOf DEF TryFiles, Moves, Goto, PCs
<1>3. HistoryFrame(j)
  BY <1>2, NoHistory DEF TryFiles
<1>4. /\ LockFrame(j) /\ CountFrame(j)
      /\ want'[j] = Wanted(j) /\ phase'[j] \in {"waiting", "holding"}
  BY AskLocks, RecordsAreTyped DEF TryFiles
<1>5. SlotFrame(j) /\ LineStep(j)
  BY DEF TryFiles, SlotFrame, LineStep, InLine
<1>6. AccessStep(j)
  BY <1>1, TypesOf, OthersShare DEF TryFiles, AccessStep, AccessOf, InTheTree
<1>7. /\ Of(j)' = Of(j) /\ Input(j)' = Input(j) /\ Wanted(j)' = Wanted(j)
      /\ since'[j] = since[j] /\ Own(j)' = Own(j)
  BY DEF TryFiles, Of, Input, Wanted, Mode, Target, Patch, Own
<1>8. LocksOf(j)'
  BY <1>1, <1>4, <1>7, TypesOf DEF LocksOf, InLine, InTheTree
<1>9. FreshOf(j)'
  <2>1. \A i \in Jobs \ {j}, f \in Files : MayWrite(i, f) => MayWrite(i, f)'
    BY <1>4 DEF LockFrame, MayWrite
  <2>2. QED
    BY <1>1, <1>3, <1>7, <2>1, TypesOf, RecordsAreTyped DEF FreshOf, HistoryFrame, Trades
<1>10. QED
  BY <1>2, <1>3, <1>4, <1>5, <1>6, <1>8, <1>9 DEF Shape

(* A job that has its locks, and a slot, joins the line for the tree.      *)
LEMMA TakeSlotHasShape ==
  ASSUME Inv, NEW j \in Jobs, TakeSlot(j)
  PROVE  Shape(j)
<1>1. pc'[j] = "guard" /\ pc[j] = "files" /\ job' = [job EXCEPT ![j] = job[j]] /\ job'[j] = job[j]
  BY TypesOf DEF TakeSlot, Goto
<1>2. Moves(j)
  BY <1>1, TypesOf DEF TakeSlot, Moves, Goto, PCs
<1>3. HistoryFrame(j)
  BY <1>2, NoHistory DEF TakeSlot
<1>4. LockFrame(j) /\ CountFrame(j)
  BY KeepLocks DEF TakeSlot
<1>5. SlotFrame(j) /\ LineStep(j)
  BY <1>1 DEF TakeSlot, SlotFrame, LineStep, InLine
<1>6. AccessStep(j)
  BY <1>1, TypesOf, OthersShare DEF TakeSlot, AccessStep, AccessOf, InTheTree
<1>7. /\ Of(j)' = Of(j) /\ Input(j)' = Input(j) /\ Wanted(j)' = Wanted(j) /\ Own(j)' = Own(j)
      /\ UNCHANGED <<phase, want, since>>
  BY DEF TakeSlot, Of, Input, Wanted, Mode, Target, Patch, Own, lockVars
<1>8. LocksOf(j)'
  BY <1>1, <1>7, TypesOf DEF TakeSlot, LocksOf, InLine, InTheTree
<1>9. FreshOf(j)'
  BY <1>1, <1>3, <1>7, TypesOf DEF FreshOf, HistoryFrame, Trades, MayWrite
<1>10. QED
  BY <1>2, <1>3, <1>4, <1>5, <1>6, <1>8, <1>9 DEF Shape

(* The head of the line enters the tree: alone to apply a patch, with the  *)
(* other readers for anything else. What it read is fresh when it goes on  *)
(* to run or to apply.                                                     *)
LEMMA EnterHasShape ==
  ASSUME Inv, NEW j \in Jobs, Enter(j)
  PROVE  Shape(j)
<1>1. pc[j] \in InLine
  <2>1. 1 \in 1..Len(line) /\ line[1] = j
    BY DEF Enter, Inv, TypeOK
  <2>2. QED
    BY <2>1 DEF Inv, LineInOrder
<1>2. /\ pc'[j] = Landing(j) /\ job' = [job EXCEPT ![j] = job[j]] /\ job'[j] = job[j]
      /\ \/ pc[j] = "patch" /\ Landing(j) = "apply"
         \/ pc[j] = "stage_guard" /\ Landing(j) = "stage_git"
         \/ pc[j] = "guard" /\ Landing(j) = "ready"
         \/ pc[j] = "guard" /\ Landing(j) = job[j].then /\ Landing(j) \in {"run", "compare"}
  <2>1. job[j].then \in {"run", "compare", "again"}
    BY TypesOf DEF JobStates
  <2>2. pc[j] \in {"guard", "patch", "stage_guard"}
    BY <1>1 DEF InLine
  <2>3. pc'[j] = Landing(j) /\ job' = [job EXCEPT ![j] = job[j]] /\ job'[j] = job[j]
    BY TypesOf DEF Enter, Goto
  <2>4. CASE pc[j] = "guard"
    BY <2>1, <2>3, <2>4 DEF Landing
  <2>5. CASE pc[j] = "patch"
    BY <2>3, <2>5 DEF Landing
  <2>6. CASE pc[j] = "stage_guard"
    BY <2>3, <2>6 DEF Landing
  <2>7. QED
    BY <2>2, <2>4, <2>5, <2>6
<1>3. Moves(j)
  BY <1>2, TypesOf DEF Enter, Moves, Goto, PCs
<1>4. HistoryFrame(j)
  BY <1>3, NoHistory DEF Enter, HistoryFrame, Inv, TypeOK
<1>5. LockFrame(j) /\ CountFrame(j)
  BY KeepLocks DEF Enter
<1>6. SlotFrame(j) /\ LineStep(j)
  BY DEF Enter, SlotFrame, LineStep
<1>7. AccessStep(j)
  <2>1. pc[j] = "patch" <=> pc'[j] = "apply"
    BY <1>2
  <2>2. guard' = [guard EXCEPT ![j] = IF pc[j] = "patch" THEN "write" ELSE "read"]
    BY DEF Enter
  <2>3. IF pc[j] = "patch" THEN \A i \in Jobs : guard[i] = "none"
                           ELSE \A i \in Jobs : guard[i] # "write"
    BY DEF Enter, MayEnter
  <2>4. QED
    BY <2>1, <2>2, <2>3 DEF AccessStep, InTheTree
<1>8. /\ Of(j)' = Of(j) /\ Input(j)' = Input(j) /\ Wanted(j)' = Wanted(j) /\ Own(j)' = Own(j)
      /\ UNCHANGED <<phase, want, since>>
  BY DEF Enter, Of, Input, Wanted, Mode, Target, Patch, Own, lockVars
<1>9. phase[j] = "holding"
  BY <1>1, TypesOf DEF LocksOf
<1>10. LocksOf(j)'
  <2>1. CASE pc[j] = "patch" /\ pc'[j] = "apply"
    BY <1>2, <1>8, <1>9, <2>1, TypesOf DEF LocksOf, InLine, InTheTree
  <2>2. CASE pc[j] = "stage_guard" /\ pc'[j] = "stage_git"
    BY <1>2, <1>8, <1>9, <2>2, TypesOf DEF LocksOf, InLine, InTheTree
  <2>3. CASE pc[j] = "guard" /\ pc'[j] = "ready"
    BY <1>2, <1>8, <1>9, <2>3, TypesOf DEF LocksOf, InLine, InTheTree
  <2>4. CASE pc[j] = "guard" /\ pc'[j] = job[j].then /\ pc'[j] \in {"run", "compare"}
    BY <1>2, <1>8, <1>9, <2>4, TypesOf DEF LocksOf, InLine, InTheTree
  <2>5. QED
    BY <1>2, <2>1, <2>2, <2>3, <2>4
<1>11. FreshOf(j)'
  <2>1. stale'[j] \subseteq stale[j]
    BY <1>4 DEF HistoryFrame
  <2>2. pc'[j] = "run" /\ job[j].round = "diff" => stale'[j] = {}
    BY <1>2 DEF Enter, Inv, TypeOK
  <2>3. pc'[j] = "apply" => pc[j] = "patch"
    BY <1>2
  <2>4. pc'[j] \in {"run", "compare"} => pc[j] = "guard" /\ job[j].then = pc'[j]
    BY <1>2
  <2>5. QED
    BY <1>2, <1>8, <1>9, <2>1, <2>2, <2>3, <2>4, TypesOf DEF FreshOf, LocksOf, Trades, MayWrite
<1>12. QED
  BY <1>3, <1>4, <1>5, <1>6, <1>7, <1>10, <1>11 DEF Shape

(* A job that has the locks to stage joins the line for the tree.          *)
LEMMA StageInLineHasShape ==
  ASSUME Inv, NEW j \in Jobs, StageInLine(j)
  PROVE  Shape(j)
<1>1. /\ pc'[j] = "stage_guard" /\ pc[j] = "stage_files"
      /\ job' = [job EXCEPT ![j] = job[j]] /\ job'[j] = job[j]
  BY TypesOf DEF StageInLine, Goto
<1>2. Moves(j)
  BY <1>1, TypesOf DEF StageInLine, Moves, Goto, PCs
<1>3. HistoryFrame(j)
  BY <1>2, NoHistory DEF StageInLine
<1>4. LockFrame(j) /\ CountFrame(j)
  BY KeepLocks DEF StageInLine
<1>5. SlotFrame(j) /\ LineStep(j)
  BY <1>1 DEF StageInLine, SlotFrame, LineStep, InLine
<1>6. AccessStep(j)
  BY <1>1, TypesOf, OthersShare DEF StageInLine, AccessStep, AccessOf, InTheTree
<1>7. Of(j)' = Of(j) /\ Input(j)' = Input(j) /\ UNCHANGED <<phase, want, since>>
  BY DEF StageInLine, Of, Input, lockVars
<1>8. LocksOf(j)'
  BY <1>1, <1>7, TypesOf DEF StageInLine, LocksOf, InLine, InTheTree
<1>9. FreshOf(j)'
  BY <1>1, <1>3, <1>7, TypesOf DEF FreshOf, HistoryFrame, Trades
<1>10. QED
  BY <1>2, <1>3, <1>4, <1>5, <1>6, <1>8, <1>9 DEF Shape

(* A job that is to stage asks for read locks on what it stages.           *)
LEMMA AskToStageHasShape ==
  ASSUME Inv, NEW j \in Jobs, AskToStage(j)
  PROVE  Shape(j)
<1>1. /\ pc'[j] = "stage_files" /\ pc[j] \in {"racy", "racy_again"}
      /\ job' = [job EXCEPT ![j] = job[j]] /\ job'[j] = job[j]
  BY TypesOf DEF AskToStage, Goto
<1>2. Moves(j)
  BY <1>1, TypesOf DEF AskToStage, Moves, Goto, PCs
<1>3. HistoryFrame(j)
  BY <1>2, NoHistory DEF AskToStage
<1>4. LockFrame(j) /\ CountFrame(j)
  <2>1. PICK R \in SUBSET Files : Locks!AskFor(j, [mode |-> "read", files |-> job[j].stage \cup R])
    BY DEF AskToStage
  <2>2. [mode |-> "read", files |-> job[j].stage \cup R] \in Locks!Requests
    BY TypesOf DEF JobStates, Locks!Requests, Locks!Modes
  <2>3. QED
    BY <2>1, <2>2, AskLocks DEF AskToStage
<1>5. SlotFrame(j) /\ LineStep(j)
  BY <1>1 DEF AskToStage, otherVars, SlotFrame, LineStep, InLine
<1>6. AccessStep(j)
  BY <1>1, TypesOf, OthersShare DEF AskToStage, otherVars, AccessStep, AccessOf, InTheTree
<1>7. Of(j)' = Of(j) /\ Input(j)' = Input(j)
  BY DEF AskToStage, Of, Input
<1>8. LocksOf(j)'
  BY <1>1, <1>7, TypesOf DEF LocksOf, InLine, InTheTree
<1>9. FreshOf(j)'
  BY <1>1, <1>3, <1>7, TypesOf DEF FreshOf, HistoryFrame, Trades
<1>10. QED
  BY <1>2, <1>3, <1>4, <1>5, <1>6, <1>8, <1>9 DEF Shape

(* A job that takes or gives back git's mutex keeps its place in the tree. *)
LEMMA GitHasShape ==
  ASSUME Inv, NEW j \in Jobs, TakeGit(j) \/ QueueFiles(j)
  PROVE  Shape(j)
<1> DEFINE Staging == {"stage_git", "status", "queued", "add"}
<1>1. /\ pc'[j] \in Staging /\ pc[j] \in Staging
      /\ job' = [job EXCEPT ![j] = job[j]] /\ job'[j] = job[j]
  BY TypesOf DEF TakeGit, QueueFiles, Goto
<1>2. UNCHANGED <<setup, guard, line, lockVars, cancelled, history>>
  BY DEF TakeGit, QueueFiles
<1>3. Moves(j)
  BY <1>1, <1>2, TypesOf DEF TakeGit, QueueFiles, Moves, Goto, PCs
<1>4. HistoryFrame(j)
  BY <1>2, <1>3, NoHistory
<1>5. LockFrame(j) /\ CountFrame(j)
  BY <1>2, KeepLocks
<1>6. SlotFrame(j) /\ LineStep(j)
  BY <1>1, <1>2 DEF TakeGit, QueueFiles, SlotFrame, LineStep, InLine
<1>7. AccessStep(j)
  BY <1>1, <1>2, TypesOf, OthersShare DEF AccessStep, AccessOf, InTheTree
<1>8. Of(j)' = Of(j) /\ Input(j)' = Input(j) /\ UNCHANGED <<phase, want, since>>
  BY <1>2 DEF Of, Input, lockVars
<1>9. LocksOf(j)'
  BY <1>1, <1>8, TypesOf DEF LocksOf, InLine, InTheTree
<1>10. FreshOf(j)'
  BY <1>1, <1>4, <1>8, TypesOf DEF FreshOf, HistoryFrame, Trades
<1>11. QED
  BY <1>3, <1>4, <1>5, <1>6, <1>7, <1>9, <1>10 DEF Shape

(* A job whose locks go while it keeps its slot: its patch needs others.   *)
LEMMA RelockFacts ==
  ASSUME Inv, NEW j \in Jobs, Relock(j), pc[j] \in {"run", "compare"},
         NEW r \in JobStates, job' = [job EXCEPT ![j] = r], r.round = "diff",
         Moves(j) => HistoryFrame(j),
         pc'[j] = "try" /\ r.then = "compare"
           => \A f \in Input(j) : /\ since'[j][f] >= (IF r.under_read THEN 0 ELSE 1)
                                  /\ f \notin stale'[j]
  PROVE  Shape(j)
<1>1. pc'[j] = "try" /\ job'[j] = r
  BY TypesOf DEF Relock, Goto
<1>2. Moves(j)
  BY TypesOf DEF Relock, Moves, Goto, PCs
<1>3. HistoryFrame(j)
  BY <1>2
<1>4. /\ LockFrame(j) /\ CountFrame(j) /\ phase'[j] = "out"
      /\ r.then # "compare" => since'[j] = NoCounts
  BY <1>1, <1>2, UnlockLocks DEF Relock
<1>5. SlotFrame(j) /\ LineStep(j)
  BY DEF Relock, SlotFrame, LineStep, InLine
<1>6. AccessStep(j)
  BY <1>1 DEF Relock, AccessStep, InTheTree
<1>7. Of(j)' = Of(j) /\ Input(j)' = Input(j)
  BY DEF Relock, Of, Input
<1>8. LocksOf(j)'
  BY <1>1, <1>4 DEF LocksOf, InLine, InTheTree
<1>9. FreshOf(j)'
  <2>1. stale'[j] \subseteq Input(j)
    BY <1>3, TypesOf DEF HistoryFrame, FreshOf
  <2>2. r.then = "compare" => /\ \A f \in Input(j) : since'[j][f] >= Own(j)'
                              /\ stale'[j] = {}
    BY <1>1, <2>1 DEF Own
  <2>3. QED
    BY <1>1, <1>4, <1>7, <2>1, <2>2 DEF FreshOf, Trades
<1>10. QED
  BY <1>2, <1>3, <1>4, <1>5, <1>6, <1>8, <1>9 DEF Shape

(* A job with write locks and a fresh patch stands in line to apply it.    *)
LEMMA StandInLineHasShape ==
  ASSUME Inv, NEW j \in Jobs, StandInLine(j), pc[j] \in {"run", "compare"},
         NEW r \in JobStates, job' = [job EXCEPT ![j] = r], r.round = "diff",
         want[j].mode = "write", Input(j) \subseteq want[j].files,
         Moves(j) => HistoryFrame(j), stale[j] = {}
  PROVE  Shape(j)
<1>1. pc'[j] = "patch" /\ job'[j] = r
  BY TypesOf DEF StandInLine, Goto
<1>2. Moves(j)
  BY TypesOf DEF StandInLine, Moves, Goto, PCs
<1>3. HistoryFrame(j)
  BY <1>2
<1>4. LockFrame(j) /\ CountFrame(j)
  BY KeepLocks DEF StandInLine
<1>5. SlotFrame(j) /\ LineStep(j)
  BY <1>1 DEF StandInLine, SlotFrame, LineStep, InLine
<1>6. AccessStep(j)
  BY <1>1 DEF StandInLine, AccessStep, InTheTree
<1>7. /\ Of(j)' = Of(j) /\ Input(j)' = Input(j) /\ UNCHANGED <<phase, want, since>>
      /\ phase[j] = "holding"
  BY TypesOf DEF StandInLine, Of, Input, lockVars, LocksOf, InTheTree
<1>8. LocksOf(j)'
  BY <1>1, <1>7 DEF LocksOf, InLine, InTheTree
<1>9. FreshOf(j)'
  BY <1>1, <1>3, <1>7 DEF HistoryFrame, FreshOf, Trades
<1>10. QED
  BY <1>2, <1>3, <1>4, <1>5, <1>6, <1>8, <1>9 DEF Shape

(* A check printed a patch: a job with write locks on all the patch needs  *)
(* stands in line to apply it; any other trades its locks, and its count   *)
(* of writes begins at its own.                                            *)
LEMMA CheckPrintsHasShape ==
  ASSUME Inv, NEW j \in Jobs, NEW p \in Patches, CheckPrints(j, p)
  PROVE  Shape(j)
<1>1. /\ pc[j] = "run" /\ job[j].round = "diff" /\ job[j].then = "run"
      /\ phase[j] = "holding" /\ stale[j] = {} /\ since[j] = NoCounts
      /\ want[j] = Wanted(j)
  BY TypesOf DEF CheckPrints, LocksOf, FreshOf, InTheTree
<1>2. want[j] = [mode |-> IF job[j].needs_write THEN "write" ELSE "read", files |-> Input(j)]
  BY <1>1 DEF Wanted, Mode
<1>3. Moves(j) => HistoryFrame(j)
  BY <1>1, CommandHistory DEF CheckPrints
<1>4. CASE ~job[j].needs_write \/ p.created # {}
  <2> DEFINE r == [job[j] EXCEPT !.patch = p, !.then = "compare", !.needs_write = TRUE,
                                 !.under_read = ~job[j].needs_write]
  <2>1. r \in JobStates /\ r.round = "diff" /\ (r.under_read <=> ~job[j].needs_write)
    BY <1>1, TypesOf DEF JobStates
  <2>2. job' = [job EXCEPT ![j] = r] /\ Relock(j)
    BY <1>4, TypesOf DEF CheckPrints
  <2> HIDE DEF r
  <2>3. stale'[j] = {}
    <3>1. Moves(j)
      BY <2>1, <2>2, TypesOf DEF Relock, Moves, Goto, PCs
    <3>2. QED
      BY <1>1, <1>3, <3>1 DEF HistoryFrame
  <2>4. ASSUME NEW f \in Input(j), r.then = "compare"
        PROVE  since'[j][f] >= (IF r.under_read THEN 0 ELSE 1)
    <3>1. job'[j].then = "compare" /\ f \in Files
      BY <2>2, <2>4, TypesOf, RecordsAreTyped
    <3>2. since'[j][f] = IF job[j].needs_write THEN since[j][f] + 1 ELSE since[j][f]
      <4>1. since'[j] = [g \in Files |->
                           IF g \in IF phase[j] = "holding" /\ want[j].mode = "write"
                                    THEN want[j].files ELSE {}
                           THEN since[j][g] + 1 ELSE since[j][g]]
        BY <2>2, <3>1 DEF Relock, Unlock
      <4>2. want[j].mode = IF job[j].needs_write THEN "write" ELSE "read"
        BY <1>2
      <4>3. want[j].files = Input(j)
        BY <1>2
      <4>4. QED
        BY <1>1, <2>4, <3>1, <4>1, <4>2, <4>3
    <3>3. since[j][f] = 0
      BY <1>1, <3>1 DEF NoCounts
    <3>4. CASE job[j].needs_write
      <4>1. ~r.under_read /\ since'[j][f] = 1
        BY <2>1, <3>2, <3>3, <3>4
      <4>2. QED
        BY <4>1
    <3>5. CASE ~job[j].needs_write
      <4>1. r.under_read /\ since'[j][f] = 0
        BY <2>1, <3>2, <3>3, <3>5
      <4>2. QED
        BY <4>1
    <3>6. QED
      BY <3>4, <3>5
  <2>5. QED
    BY <1>1, <1>3, <2>1, <2>2, <2>3, <2>4, RelockFacts
<1>5. CASE job[j].needs_write /\ p.created = {}
  <2> DEFINE r == [job[j] EXCEPT !.patch = p]
  <2>1. r \in JobStates /\ r.round = "diff"
    BY <1>1, TypesOf DEF JobStates
  <2>2. job' = [job EXCEPT ![j] = r] /\ StandInLine(j)
    BY <1>5, TypesOf DEF CheckPrints
  <2>3. want[j].mode = "write" /\ Input(j) \subseteq want[j].files
    BY <1>2, <1>5
  <2> HIDE DEF r
  <2>4. QED
    BY <1>1, <1>3, <2>1, <2>2, <2>3, StandInLineHasShape
<1>6. QED
  BY <1>4, <1>5, TypesOf DEF JobStates

(* A file was written while the locks were traded: the check runs again.   *)
LEMMA DiffAgainHasShape ==
  ASSUME Inv, NEW j \in Jobs, DiffAgain(j)
  PROVE  Shape(j)
<1> DEFINE r == [job[j] EXCEPT !.then = "again", !.retries = job[j].retries + 1, !.patch = NoPatch,
                               !.under_read = FALSE]
<1>1. pc[j] = "compare" /\ job[j].round = "diff"
  BY TypesOf DEF DiffAgain, LocksOf
<1>2. r \in JobStates /\ r.round = "diff" /\ r.then = "again"
  <2>1. NoPatch \in Patches
    BY DEF NoPatch, Patches
  <2>2. job[j].retries + 1 \in 0..MaxRetries
    BY TypesOf, JobsOK DEF DiffAgain, JobStates
  <2>3. QED
    BY <1>1, <2>1, <2>2, TypesOf DEF JobStates
<1>3. job' = [job EXCEPT ![j] = r] /\ Relock(j)
  BY TypesOf DEF DiffAgain
<1>4. Moves(j) => HistoryFrame(j)
  BY NoHistory DEF DiffAgain
<1> HIDE DEF r
<1>5. QED
  BY <1>1, <1>2, <1>3, <1>4, RelockFacts

(* The write counts told: no file of a patch in hand was written since.    *)
LEMMA LockDiffHasShape ==
  ASSUME Inv, NEW j \in Jobs, LockDiff(j)
  PROVE  Shape(j)
<1>1. /\ pc[j] = "compare" /\ job[j].round = "diff" /\ job[j].then = "compare"
      /\ want[j] = Wanted(j)
  BY TypesOf DEF LockDiff, LocksOf
<1>2. want[j].mode = "write" /\ Input(j) \subseteq want[j].files
  BY <1>1 DEF Wanted
<1>3. stale[j] = {}
  <2>1. ASSUME NEW f \in stale[j] PROVE FALSE
    <3>1. f \in Input(j) /\ f \in Files
      BY <2>1, TypesOf, RecordsAreTyped DEF FreshOf
    <3>2. since[j][f] > Own(j)
      BY <1>1, <2>1, <3>1, LockedInputIsSafe, TypesOf DEF FreshOf, Trades
    <3>3. since[j][f] = IF ~job[j].under_read /\ f \in Input(j) THEN 1 ELSE 0
      BY <3>1 DEF LockDiff, MustDiffAgain, WrittenMeanwhile
    <3>4. QED
      BY <3>1, <3>2, <3>3 DEF Own
  <2>2. QED
    BY <2>1
<1>4. job' = [job EXCEPT ![j] = job[j]] /\ StandInLine(j) /\ job[j] \in JobStates
  BY TypesOf DEF LockDiff
<1>5. Moves(j) => HistoryFrame(j)
  BY NoHistory DEF LockDiff
<1>6. QED
  BY <1>1, <1>2, <1>3, <1>4, <1>5, StandInLineHasShape

(* The patch is in; the check is to run once more, with locks of its own.  *)
LEMMA RecheckHasShape ==
  ASSUME Inv, NEW j \in Jobs, Applied(j), Of(j).recheck # "none"
  PROVE  Shape(j)
<1> DEFINE r == [job[j] EXCEPT !.round = "recheck"]
<1>1. r \in JobStates /\ r.round = "recheck"
  BY TypesOf DEF JobStates
<1>2. job' = [job EXCEPT ![j] = r] /\ pc'[j] = "ready" /\ pc[j] = "apply"
  BY TypesOf DEF Applied, Goto
<1> HIDE DEF r
<1>3. job'[j].round = "recheck"
  BY <1>1, <1>2, TypesOf
<1>4. /\ UNCHANGED <<setup, slots, line, git, lockVars, cancelled>>
      /\ guard' = [guard EXCEPT ![j] = "none"]
  BY DEF Applied
<1>5. Moves(j)
  BY <1>1, <1>2, <1>4, TypesOf DEF Applied, Moves, Goto, PCs
<1>6. phase[j] = "holding" /\ want[j].mode = "write"
  BY <1>2, TypesOf DEF LocksOf, InTheTree
<1>7. HistoryFrame(j)
  BY <1>5, <1>6, NoteHistory, RecordsAreTyped DEF Applied
<1>8. LockFrame(j) /\ CountFrame(j)
  BY <1>4, KeepLocks
<1>9. SlotFrame(j) /\ LineStep(j)
  BY <1>2, <1>4 DEF SlotFrame, LineStep, InLine
<1>10. AccessStep(j)
  BY <1>2, <1>4 DEF AccessStep, InTheTree
<1>11. Of(j)' = Of(j) /\ Input(j)' = Input(j) /\ phase'[j] = "holding"
  BY <1>4, <1>6 DEF Of, Input, lockVars
<1>12. LocksOf(j)'
  BY <1>2, <1>3, <1>11 DEF LocksOf, InLine, InTheTree
<1>13. FreshOf(j)'
  BY <1>2, <1>7, <1>11, TypesOf DEF FreshOf, HistoryFrame, Trades
<1>14. QED
  BY <1>5, <1>7, <1>8, <1>9, <1>10, <1>12, <1>13 DEF Shape

(* What a job that quits wrote before, if it did.                          *)
LEMMA QuittersHaveShape ==
  ASSUME Inv, NEW j \in Jobs,
         \/ CancelledReady(j) \/ NothingLeft(j) \/ CommandPasses(j) \/ CommandFails(j)
         \/ Applied(j) /\ Of(j).recheck = "none"
         \/ Damaged(j) \/ LockMore(j) \/ Staged(j) \/ Abort(j)
  PROVE  Shape(j)
<1>1. CASE CancelledReady(j) \/ Staged(j)
  <2>1. Moves(j) => HistoryFrame(j)
    BY <1>1, NoHistory DEF CancelledReady, Staged
  <2>2. QED
    BY <1>1, <2>1, EndQuits, QuitsHasShape DEF CancelledReady, Staged
<1>2. CASE NothingLeft(j)
  <2>1. Moves(j) => HistoryFrame(j)
    BY <1>2, NoHistory DEF NothingLeft
  <2>2. Quits(j)
    BY <1>2, <2>1, EndQuits, SucceedQuits DEF NothingLeft
  <2>3. QED
    BY <2>2, QuitsHasShape
<1>3. CASE CommandPasses(j) \/ CommandFails(j)
  <2>1. Moves(j) => HistoryFrame(j)
    BY <1>3, CommandHistory DEF CommandPasses, CommandFails
  <2>2. QED
    BY <1>3, <2>1, EndQuits, SucceedQuits, QuitsHasShape DEF CommandPasses, CommandFails
<1>4. CASE (Applied(j) /\ Of(j).recheck = "none") \/ Damaged(j)
  <2>1. phase[j] = "holding" /\ want[j].mode = "write"
    BY <1>4, TypesOf DEF Applied, Damaged, LocksOf, InTheTree
  <2>2. Moves(j) => HistoryFrame(j)
    BY <1>4, <2>1, NoteHistory, RecordsAreTyped DEF Applied, Damaged
  <2>3. QED
    BY <1>4, <2>2, EndQuits, SucceedQuits, QuitsHasShape DEF Applied, Damaged
<1>5. CASE LockMore(j)
  <2>1. PICK R \in SUBSET Files : job' = [job EXCEPT ![j].stage = want[j].files \cup R]
    BY <1>5 DEF LockMore
  <2> DEFINE r == [job[j] EXCEPT !.stage = want[j].files \cup R]
  <2>2. want[j].files \subseteq Files
    BY DEF Inv, TypeOK, Locks!Requests
  <2>3. r \in JobStates /\ r.round = job[j].round
    BY <2>2, TypesOf DEF JobStates
  <2>4. job' = [job EXCEPT ![j] = r]
    BY <2>1, TypesOf
  <2> HIDE DEF r
  <2>5. pc'[j] = "racy_again"
    BY <1>5, TypesOf DEF LockMore, Goto
  <2>6. Moves(j) => HistoryFrame(j)
    BY <1>5, NoHistory DEF LockMore
  <2>7. Quits(j)
    BY <1>5, <2>3, <2>4, <2>5, <2>6 DEF LockMore, Quits
  <2>8. QED
    BY <2>7, QuitsHasShape
<1>6. CASE Abort(j)
  <2>1. Moves(j) => HistoryFrame(j)
    BY <1>6, CommandHistory, NoHistory DEF Abort
  <2>2. QED
    BY <1>6, <2>1, EndQuits, QuitsHasShape DEF Abort
<1>7. QED
  BY <1>1, <1>2, <1>3, <1>4, <1>5, <1>6

(* A failed check, a patch that does not apply, and one retry too many.    *)
LEMMA FixersHaveShape ==
  ASSUME Inv, NEW j \in Jobs, CheckFails(j) \/ Rejected(j) \/ GiveUpDiffing(j)
  PROVE  Shape(j)
<1>1. Moves(j) => HistoryFrame(j)
  BY CommandHistory, NoHistory DEF CheckFails, Rejected, GiveUpDiffing
<1>2. QED
  BY <1>1, RunFixerHasShape DEF CheckFails, Rejected, GiveUpDiffing

-----------------------------------------------------------------------------
(* A run begins with nothing locked, nothing queued and nothing stale.     *)
LEMMA InitInv == Init => Inv
<1> SUFFICES ASSUME Init PROVE Inv
  OBVIOUS
<1>1. setup \in Setups /\ setup \in Run
  BY JobsOK DEF Init
<1>2. ASSUME NEW j \in Jobs
      PROVE  /\ Fresh(j) \in JobStates /\ Fresh(j).then = "run" /\ Fresh(j).round # "recheck"
             /\ pc[j] \in {"start", "done"}
  <2>1. NoPatch \in Patches /\ 0 \in 0..MaxRetries
    BY JobsOK DEF NoPatch, Patches
  <2>2. FirstRound(Of(j).kind) \in {"check", "fix", "diff"}
    BY DEF FirstRound
  <2>3. (Of(j).kind = "wdiff") \in BOOLEAN
    OBVIOUS
  <2>4. QED
    BY <2>1, <2>2, <2>3 DEF Init, Fresh, JobStates
<1>3. NoRequest \in Locks!Requests /\ NoCounts \in [Files -> Nat]
  BY DEF NoRequest, NoCounts, Locks!Requests, Locks!Modes
<1>4. Cardinality({}) = 0 /\ setup.slots \in Nat
  BY <1>1, FS_EmptySet DEF Run
<1>5. TypeOK
  <2>1. pc \in [Jobs -> PCs] /\ job \in [Jobs -> JobStates]
    BY <1>2 DEF Init, PCs
  <2>2. slots \in SUBSET Jobs /\ Cardinality(slots) <= setup.slots
    BY <1>4 DEF Init
  <2>3. phase \in [Jobs -> Locks!Phases] /\ want \in [Jobs -> Locks!Requests]
        /\ since \in [Jobs -> [Files -> Nat]]
    BY <1>3 DEF Init, Locks!Phases
  <2>4. line \in Seq(Jobs) /\ git \in SUBSET Jobs /\ cancelled \in BOOLEAN
    <3>1. line = <<>> /\ git = {} /\ cancelled = FALSE
      BY DEF Init
    <3>2. QED
      BY <3>1, EmptySeq
  <2>5. guard \in [Jobs -> {"none", "read", "write"}]
    BY DEF Init
  <2>6. stale \in [Jobs -> SUBSET Files] /\ strayed \in [Jobs -> SUBSET Files]
    BY DEF Init
  <2>7. QED
    BY <1>1, <2>1, <2>2, <2>3, <2>4, <2>5, <2>6 DEF TypeOK
<1>6. Locks!Compatible
  BY DEF Init, Locks!Compatible, Locks!Holding
<1>7. LineInOrder
  BY DEF Init, LineInOrder
<1>8. ASSUME NEW j \in Jobs PROVE AccessOf(j) /\ LocksOf(j) /\ FreshOf(j)
  <2>1. /\ job[j].then = "run" /\ job[j].round # "recheck" /\ pc[j] \in {"start", "done"}
        /\ phase[j] = "out" /\ guard[j] = "none" /\ since[j] = NoCounts /\ stale[j] = {}
    BY <1>2 DEF Init
  <2>2. QED
    BY <2>1 DEF AccessOf, LocksOf, FreshOf, Trades, InLine, InTheTree
<1>9. QED
  BY <1>5, <1>6, <1>7, <1>8 DEF Inv

(* Every step keeps the invariant.                                         *)
LEMMA NextInv == Inv /\ [Next]_vars => Inv'
<1> SUFFICES ASSUME Inv, [Next]_vars PROVE Inv'
  OBVIOUS
<1>1. ASSUME NEW j \in Jobs, Advance(j) PROVE Shape(j)
  <2>1. CASE Start(j) \/ Ready(j) \/ TryFiles(j) \/ TakeSlot(j) \/ Enter(j)
    BY <2>1, StartHasShape, ReadyHasShape, TryFilesHasShape, TakeSlotHasShape, EnterHasShape
  <2>2. CASE \E p \in Patches : CheckPrints(j, p)
    BY <2>2, CheckPrintsHasShape
  <2>3. CASE DiffAgain(j) \/ LockDiff(j)
    BY <2>3, DiffAgainHasShape, LockDiffHasShape
  <2>4. CASE CheckFails(j) \/ GiveUpDiffing(j) \/ Rejected(j)
    BY <2>4, FixersHaveShape
  <2>5. CASE Applied(j) /\ Of(j).recheck # "none"
    BY <2>5, RecheckHasShape
  <2>6. CASE AskToStage(j) \/ StageInLine(j) \/ TakeGit(j) \/ QueueFiles(j)
    BY <2>6, AskToStageHasShape, StageInLineHasShape, GitHasShape
  <2>7. CASE \/ CancelledReady(j) \/ NothingLeft(j) \/ CommandPasses(j) \/ CommandFails(j)
             \/ Applied(j) /\ Of(j).recheck = "none"
             \/ Damaged(j) \/ LockMore(j) \/ Staged(j)
    BY <2>7, QuittersHaveShape
  <2>8. QED
    BY <1>1, <2>1, <2>2, <2>3, <2>4, <2>5, <2>6, <2>7 DEF Advance
<1>2. ASSUME NEW j \in Jobs, Abort(j) PROVE Shape(j)
  BY <1>2, QuittersHaveShape
<1>3. CASE Cancel \/ UNCHANGED vars
  <2>1. UNCHANGED <<setup, pc, job, slots, guard, line, git, phase, want, since, stale, strayed>>
        /\ cancelled' \in BOOLEAN
    BY <1>3 DEF Cancel, vars, otherVars, lockVars, history, Inv, TypeOK
  <2>2. TypeOK' /\ LineInOrder'
    BY <2>1 DEF Inv, TypeOK, LineInOrder
  <2>3. Locks!Compatible'
    BY <2>1 DEF Inv, Locks!Compatible, Locks!Holding, Locks!Conflict
  <2>4. ASSUME NEW j \in Jobs PROVE AccessOf(j)' /\ LocksOf(j)' /\ FreshOf(j)'
    <3>1. Of(j)' = Of(j) /\ Input(j)' = Input(j) /\ Wanted(j)' = Wanted(j) /\ Own(j)' = Own(j)
      BY <2>1 DEF Of, Input, Wanted, Mode, Target, Patch, Own
    <3>2. QED
      BY <2>1, <3>1, TypesOf DEF AccessOf, LocksOf, FreshOf, Trades, MayWrite
  <2>5. QED
    BY <2>2, <2>3, <2>4 DEF Inv
<1>4. QED
  BY <1>1, <1>2, <1>3, ShapeKeepsInv DEF Next, Finished

-----------------------------------------------------------------------------
(* For any jobs, files, slots and retries, cancelled or not, the jobs keep *)
(* to their locks, their places in line and what they know of their files. *)
THEOREM JobsInvariance == Spec => []Inv
<1>1. QED
  BY InitInv, NextInv, PTL DEF Spec

(* Every variable of the jobs' specification stays in its range, and no    *)
(* more jobs hold a slot than there are.                                   *)
THEOREM JobsTypeCorrect == Spec => []TypeOK
<1>1. Inv => TypeOK
  BY DEF Inv
<1>2. QED
  BY <1>1, JobsInvariance, PTL

(* While one job applies a patch or rolls one back, no other runs a        *)
(* command, applies a patch or stages (diff_lock is held for writing).     *)
THEOREM PatchesAreAlone == Spec => []PatchAlone
<1>1. Inv => PatchAlone
  BY DEF Inv, AccessOf, PatchAlone, InTheTree
<1>2. QED
  BY <1>1, JobsInvariance, PTL

(* A patch is only applied to files that no job with locks on them wrote   *)
(* since the check that made it: comparing write counts is enough.         *)
THEOREM PatchesAreFresh == Spec => []PatchFresh
<1>1. Inv => PatchFresh
  BY DEF Inv, LocksOf, FreshOf, PatchFresh
<1>2. QED
  BY <1>1, JobsInvariance, PTL

(* No job, nor the git that stages for one, reads or writes a file while   *)
(* another job writes it.                                                  *)
THEOREM ReadsAreWhole == Spec => []NoTornReads
<1>1. Inv => NoTornReads
  <2> SUFFICES ASSUME Inv, NEW i \in Jobs, NEW j \in Jobs, i # j
               PROVE  Writing(i) \cap (Reading(j) \cup Writing(j)) = {}
    BY DEF NoTornReads
  <2>1. CASE pc[i] = "apply" \/ pc[j] = "apply"
    <3>1. PatchAlone
      BY DEF Inv, AccessOf, PatchAlone, InTheTree
    <3>2. QED
      BY <2>1, <3>1 DEF PatchAlone, Writing, Reading, InTheTree
  <2>2. CASE pc[i] = "run" /\ want[i].mode = "write" /\ pc[j] \in {"run", "status", "add"}
    <3>1. phase[i] = "holding" /\ phase[j] = "holding"
      BY <2>2, TypesOf DEF LocksOf, InTheTree
    <3>2. want[i].files \cap want[j].files = {}
      BY <2>2, <3>1 DEF Inv, Locks!Compatible, Locks!Holding, Locks!Conflict
    <3>3. QED
      BY <2>2, <3>2 DEF Writing, Reading
  <2>3. QED
    BY <2>1, <2>2 DEF Writing, Reading
<1>2. QED
  BY <1>1, JobsInvariance, PTL

(***************************************************************************)
(* How the steps of a group look at their files side by side.              *)
(***************************************************************************)
(* What is filtered, and the types of what filters it.                     *)
Filtered   == DOMAIN filtering.files
Threads    == Filterers \X (Nat \ {0})
MapperRecs == [at : {"begin", "reserve", "spawn", "join", "over"}, read : Nat, slots : Nat,
               results : Seq(Filtered \X Nat)]
HelperRecs == [at : {"unstarted", "look", "lock", "inside", "done"}, pos : Nat \ {0},
               out : Seq(Filtered \X Nat)]
FilterTypeOK ==
  /\ filtering \in [lists : [Filterers -> Seq(Filtered) \ {<<>>}], files : [Filtered -> Nat],
                    edits : Nat, fails : Nat]
  /\ seenAs \in [Filtered -> Nat] /\ inUse \in Nat
  /\ mapper \in [Filterers -> MapperRecs] /\ helper \in [Filterers -> Seq(HelperRecs)]
  /\ memo \in [Filtered -> [value : Nat, by : Threads \cup {Unowned}]]
  /\ readings \in [Filtered -> SUBSET (Threads \X Nat)]

(* What is answered of a file is what is kept of it.                       *)
IsTold(r, f) == r[1] = f /\ (r[2] # NoContents => memo[f].value = r[2])

(* A call of map, at each place.                                           *)
MapOK(p) ==
  /\ mapper[p].at # "join" => helper[p] = <<>>
  /\ mapper[p].at = "join" => Len(helper[p]) = Chunks(p)
  /\ mapper[p].at \in {"begin", "reserve", "over"} => mapper[p].slots = 0
  /\ mapper[p].at = "reserve" => WantedThreads(p) > 1
  /\ mapper[p].at # "over" => mapper[p].results = <<>>
  /\ mapper[p].at = "over" => /\ Len(mapper[p].results) = Len(Items(p))
                              /\ \A i \in 1 .. Len(Items(p)) : IsTold(mapper[p].results[i], Items(p)[i])

(* A thread has answered for what is before it in its chunk.               *)
ThreadOK(p, k) ==
  /\ Len(helper[p][k].out) = helper[p][k].pos - 1
  /\ helper[p][k].at = "done" => helper[p][k].pos = Len(Chunk(p, k)) + 1
  /\ helper[p][k].at # "done" => helper[p][k].pos <= Len(Chunk(p, k))
  /\ \A i \in 1 .. Len(helper[p][k].out) : IsTold(helper[p][k].out[i], Chunk(p, k)[i])
ThreadsOK(p) == \A k \in 1 .. Len(helper[p]) : ThreadOK(p, k)

(* What is kept of a file is the one value that was computed.              *)
MemoOK(f) ==
  /\ memo[f].value = NoContents => readings[f] = {}
  /\ memo[f].value # NoContents => \E t \in Threads : readings[f] = {<<t, memo[f].value>>}

(* The slots that are held.                                                *)
SlotsHeld == UNION {SlotsOf(p) : p \in Filterers}
SlotsOK   == IsFiniteSet(SlotsHeld) /\ inUse = Cardinality(SlotsHeld) /\ inUse <= MaxHelpers

(* The inductive invariant of the steps that filter.                       *)
FilterInv == /\ FilterTypeOK /\ SlotsOK
             /\ \A p \in Filterers : MapOK(p) /\ ThreadsOK(p)
             /\ \A f \in Filtered : MemoOK(f)

(* Of the quotient.                                                        *)
LEMMA DivFacts ==
  ASSUME NEW n \in Nat, NEW d \in Nat \ {0}
  PROVE  n \div d \in Nat /\ d * (n \div d) <= n /\ n < d * (n \div d) + d
OBVIOUS

(* Of products.                                                            *)
LEMMA MulMono ==
  ASSUME NEW a \in Nat, NEW b \in Nat, NEW c \in Nat, a <= b
  PROVE  a * c <= b * c /\ a * c \in Nat /\ c * a = a * c
OBVIOUS

(* Chunks of l items cover n items, and each of them has some.             *)
LEMMA ChunksCover ==
  ASSUME NEW n \in Nat \ {0}, NEW s \in Nat
  PROVE  LET l == (n + s) \div (s + 1)
             c == (n + l - 1) \div l
         IN l \in Nat \ {0} /\ c \in Nat \ {0} /\ (c - 1) * l < n /\ n <= c * l /\ c <= s + 1
<1> DEFINE l == (n + s) \div (s + 1)
           c == (n + l - 1) \div l
<1>1. l \in Nat /\ (s + 1) * l <= n + s /\ n + s < (s + 1) * l + (s + 1)
  <2>1. n + s \in Nat /\ s + 1 \in Nat \ {0}
    OBVIOUS
  <2> HIDE DEF c
  <2> QED BY ONLY <2>1, DivFacts DEF l
<1> HIDE DEF c, l
<1>2. l # 0
  <2>1. SUFFICES ASSUME l = 0 PROVE FALSE
    OBVIOUS
  <2>2. (s + 1) * l = 0
    BY <2>1
  <2> QED BY <1>1, <2>2
<1>3. n <= (s + 1) * l
  BY <1>1
<1>4. c \in Nat /\ l * c <= n + l - 1 /\ n + l - 1 < l * c + l
  <2>1. n + l - 1 \in Nat /\ l \in Nat \ {0}
    BY <1>1, <1>2
  <2> QED BY ONLY <2>1, DivFacts DEF c
<1>5. l * c = c * l /\ c * l \in Nat /\ (c - 1) * l = c * l - l
  BY <1>1, <1>4
<1>55. c = 0 => c * l = 0
  BY <1>1
<1>6. (c - 1) * l < n /\ n <= c * l
  BY <1>1, <1>2, <1>4, <1>5
<1>7. c # 0
  BY <1>1, <1>2, <1>5, <1>6, <1>55
<1>8. c <= s + 1
  <2>1. SUFFICES ASSUME s + 1 <= c - 1 PROVE FALSE
    BY <1>4
  <2>2. (s + 1) * l <= (c - 1) * l
    BY <1>1, <1>4, <1>7, <2>1, MulMono
  <2> QED BY <1>1, <1>3, <1>5, <1>6, <2>2
<1> QED BY <1>1, <1>2, <1>4, <1>6, <1>7, <1>8 DEF c, l

(* The values of FlattenSeq, one part after the other.                     *)
LEMMA Flattens ==
  ASSUME NEW T, NEW s \in Seq(Seq(T)), s # <<>>
  PROVE  \E g \in [1 .. Len(s) -> Seq(T)] :
           /\ FlattenSeq(s) = g[Len(s)] /\ g[1] = s[1]
           /\ \A k \in 2 .. Len(s) : g[k] = g[k - 1] \o s[k]
<1> DEFINE N == Len(s)
           next == [x \in (1 .. N) \X Seq(T) |-> IF x[1] = 1 THEN s[1] ELSE x[2] \o s[x[1]]]
           Whole(g) == g = [i \in 1 .. Len(s) |-> IF i = 1 THEN s[i] ELSE g[i - 1] \o s[i]]
           flat == CHOOSE g : Whole(g)
<1>1. N \in Nat /\ N >= 1 /\ <<>> \in Seq(T) /\ \A k \in 1 .. N : s[k] \in Seq(T)
  OBVIOUS
<1>2. next \in [(1 .. N) \X Seq(T) -> Seq(T)]
  <2>1. ASSUME NEW x \in (1 .. N) \X Seq(T)
        PROVE  (IF x[1] = 1 THEN s[1] ELSE x[2] \o s[x[1]]) \in Seq(T)
    BY <1>1
  <2> QED BY <2>1
<1> HIDE DEF N
<1>3. PICK f : IsPrefixes(f, N, Seq(T), <<>>, next)
  <2> HIDE DEF next
  <2> QED BY <1>1, <1>2, PrefixRecursion
<1>4. f \in [0 .. N -> Seq(T)] /\ f[0] = <<>> /\ \A k \in 1 .. N : f[k] = next[<<k, f[k - 1]>>]
  BY <1>3 DEF IsPrefixes
<1>5. \A k \in 1 .. N : f[k] = IF k = 1 THEN s[k] ELSE f[k - 1] \o s[k]
  <2>1. SUFFICES ASSUME NEW k \in 1 .. N PROVE f[k] = IF k = 1 THEN s[k] ELSE f[k - 1] \o s[k]
    OBVIOUS
  <2>2. k - 1 \in 0 .. N /\ f[k - 1] \in Seq(T)
    BY <1>1, <1>4
  <2>3. <<k, f[k - 1]>> \in (1 .. N) \X Seq(T)
    BY <2>2
  <2> QED BY <1>4, <2>3
<1> DEFINE h == [i \in 1 .. N |-> f[i]]
<1>6. Whole(h)
  <2>1. ASSUME NEW i \in 1 .. N PROVE h[i] = IF i = 1 THEN s[i] ELSE h[i - 1] \o s[i]
    <3>1. i = 1 \/ i - 1 \in 1 .. N
      BY <1>1
    <3> QED BY <1>5, <3>1
  <2>2. h = [i \in 1 .. N |-> IF i = 1 THEN s[i] ELSE h[i - 1] \o s[i]]
    BY <2>1
  <2> QED BY <2>2 DEF N
<1>7. Whole(flat)
  BY <1>6
<1>8. /\ flat = [i \in 1 .. N |-> flat[i]] /\ flat[1] = s[1]
      /\ \A k \in 2 .. N : flat[k] = flat[k - 1] \o s[k]
  <2> DEFINE e(g, i) == IF i = 1 THEN s[i] ELSE g[i - 1] \o s[i]
  <2>1. PICK g : g = flat
    OBVIOUS
  <2>2. g = [i \in 1 .. N |-> e(g, i)]
    BY <1>7, <2>1 DEF N
  <2> HIDE DEF e
  <2>3. g = [i \in 1 .. N |-> g[i]] /\ \A i \in 1 .. N : g[i] = e(g, i)
    BY <2>2
  <2>4. g[1] = s[1]
    <3>1. 1 \in 1 .. N
      BY <1>1
    <3>2. g[1] = e(g, 1)
      BY <2>3, <3>1
    <3> QED BY <3>2 DEF e
  <2>5. ASSUME NEW k \in 2 .. N PROVE g[k] = g[k - 1] \o s[k]
    <3>1. k \in 1 .. N /\ k # 1
      BY <1>1
    <3>2. g[k] = e(g, k)
      BY <2>3, <3>1
    <3> QED BY <3>1, <3>2 DEF e
  <2> HIDE DEF flat
  <2> QED BY <2>1, <2>3, <2>4, <2>5
<1>85. FlattenSeq(s) = flat[Len(s)]
  BY <1>1 DEF FlattenSeq, N
<1> HIDE DEF flat, next, Whole, h
<1> DEFINE D == {k \in Nat : k = 0 \/ k > N \/ flat[k] \in Seq(T)}
<1>9. Nat \subseteq D
  <2>1. 0 \in D
    OBVIOUS
  <2>2. ASSUME NEW k \in Nat, k \in D PROVE k + 1 \in D
    <3>1. SUFFICES ASSUME k + 1 <= N PROVE flat[k + 1] \in Seq(T)
      BY <1>1
    <3>2. k + 1 \in 1 .. N /\ (k + 1) - 1 = k
      BY <1>1, <3>1
    <3>3. CASE k = 0
      <4>1. flat[k + 1] = s[1]
        BY <1>8, <3>2, <3>3
      <4> QED BY <1>1, <4>1
    <3>4. CASE k # 0
      <4>1. flat[k + 1] = flat[k] \o s[k + 1]
        <5>1. k + 1 \in 2 .. N
          BY <3>2, <3>4
        <5> QED BY <1>8, <3>2, <5>1
      <4>2. flat[k] \in Seq(T) /\ s[k + 1] \in Seq(T)
        BY <1>1, <2>2, <3>1, <3>2, <3>4
      <4> QED BY <4>1, <4>2
    <3> QED BY <3>3, <3>4
  <2> HIDE DEF D
  <2> QED BY <2>1, <2>2, SetInduction
<1>10. \A k \in 1 .. N : flat[k] \in Seq(T)
  BY <1>1, <1>9
<1>11. flat \in [1 .. N -> Seq(T)]
  <2> HIDE DEF D
  <2> QED BY <1>8, <1>10
<1> HIDE DEF D
<1> QED BY <1>8, <1>11, <1>85 DEF N

(* Two parts that are each in a relation with a part of w make one.        *)
Follows(a, b, c)   == c = a \o b
Fits(a, w, m, R)   == \A i \in 1 .. Len(a) : <<a[i], w[m + i]>> \in R
(* The whole is in it too.                                                 *)
LEMMA JoinParts ==
  ASSUME NEW T, NEW R, NEW w, NEW a \in Seq(T), NEW b \in Seq(T), NEW c, Follows(a, b, c),
         Fits(a, w, 0, R), Fits(b, w, Len(a), R)
  PROVE  c \in Seq(T) /\ Len(c) = Len(a) + Len(b) /\ Fits(c, w, 0, R)
<1>1. c \in Seq(T) /\ Len(c) = Len(a) + Len(b) /\ Len(a) \in Nat /\ Len(b) \in Nat
  BY DEF Follows
<1>2. ASSUME NEW i \in 1 .. Len(c) PROVE <<c[i], w[0 + i]>> \in R
  <2>1. CASE i <= Len(a)
    <3>1. c[i] = a[i] /\ i \in 1 .. Len(a)
      BY <1>1, <2>1 DEF Follows
    <3> QED BY <3>1 DEF Fits
  <2>2. CASE i > Len(a)
    <3>1. i - Len(a) \in 1 .. Len(b) /\ Len(a) + (i - Len(a)) = i /\ 0 + i = i
      BY <1>1, <2>2
    <3>2. c[i] = b[i - Len(a)]
      BY <1>1, <2>2 DEF Follows
    <3>3. <<b[i - Len(a)], w[Len(a) + (i - Len(a))]>> \in R
      BY <3>1 DEF Fits
    <3> QED BY <3>1, <3>2, <3>3
  <2> QED BY <1>1, <2>1, <2>2
<1> QED BY <1>1, <1>2 DEF Fits

(* Up to where the first k chunks reach.                                   *)
Upto(k, l, n) == IF k * l < n THEN k * l ELSE n

(* Parts that are each in a relation with a chunk of w make one that is in *)
(* it with w.                                                              *)
LEMMA FlattenChunks ==
  ASSUME NEW T, NEW U, NEW R, NEW w \in Seq(U), NEW l \in Nat \ {0}, NEW s \in Seq(Seq(T)), s # <<>>,
         (Len(s) - 1) * l < Len(w), Len(w) <= Len(s) * l,
         \A k \in 1 .. Len(s) :
           /\ Len(s[k]) = Upto(k, l, Len(w)) - (k - 1) * l
           /\ Fits(s[k], w, (k - 1) * l, R)
  PROVE  /\ FlattenSeq(s) \in Seq(T) /\ Len(FlattenSeq(s)) = Len(w)
         /\ Fits(FlattenSeq(s), w, 0, R)
<1> DEFINE N == Len(s)
           n == Len(w)
<1>1. N \in Nat /\ N >= 1 /\ n \in Nat /\ \A k \in 1 .. N : s[k] \in Seq(T)
  OBVIOUS
<1>2. PICK g \in [1 .. N -> Seq(T)] :
        /\ FlattenSeq(s) = g[N] /\ g[1] = s[1]
        /\ \A k \in 2 .. N : g[k] = g[k - 1] \o s[k]
  BY Flattens
<1>3. \A k \in 1 .. N : /\ Len(s[k]) = Upto(k, l, n) - (k - 1) * l
                        /\ Fits(s[k], w, (k - 1) * l, R)
  OBVIOUS
<1>4. (N - 1) * l < n /\ n <= N * l
  OBVIOUS
<1> HIDE DEF N, n
<1>5. ASSUME NEW k \in 1 .. N - 1 PROVE Upto(k, l, n) = k * l /\ k * l \in Nat
  <2>1. k * l <= (N - 1) * l /\ k * l \in Nat /\ (N - 1) * l \in Nat
    BY <1>1, MulMono
  <2> DEFINE x == k * l
             y == (N - 1) * l
  <2>2. x \in Nat /\ y \in Nat /\ x <= y /\ y < n
    BY <1>4, <2>1
  <2>3. x < n
    <3> HIDE DEF x, y
    <3> QED BY <1>1, <2>2
  <2> QED BY <2>2, <2>3 DEF Upto
<1>6. Upto(N, l, n) = n
  <2>1. N * l \in Nat
    BY <1>1
  <2> QED BY <1>1, <1>4, <2>1 DEF Upto
<1> DEFINE Good(k) == /\ Len(g[k]) = Upto(k, l, n)
                      /\ Fits(g[k], w, 0, R)
           D == {k \in Nat : k = 0 \/ k > N \/ Good(k)}
<1>7. Good(1)
  <2>1. 1 \in 1 .. N /\ 1 - 1 = 0 /\ 0 * l = 0
    BY <1>1
  <2>2. Len(s[1]) = Upto(1, l, n) - 0 /\ Fits(s[1], w, 0, R)
    BY <1>3, <2>1
  <2>3. Upto(1, l, n) \in Nat
    BY <1>1 DEF Upto
  <2> QED BY <1>2, <2>2, <2>3
<1>8. ASSUME NEW k \in 1 .. N - 1, Good(k) PROVE Good(k + 1)
  <2>1. k + 1 \in 2 .. N /\ k \in 1 .. N /\ (k + 1) - 1 = k /\ k + 1 \in 1 .. N
    BY <1>1
  <2>2. g[k + 1] = g[k] \o s[k + 1] /\ g[k] \in Seq(T) /\ s[k + 1] \in Seq(T)
    BY <1>1, <1>2, <2>1
  <2>3. Len(g[k]) = k * l /\ k * l \in Nat
    BY <1>5, <1>8
  <2>4. Len(s[k + 1]) = Upto(k + 1, l, n) - k * l /\ Fits(s[k + 1], w, k * l, R)
    BY <1>3, <2>1
  <2>5. Upto(k + 1, l, n) \in Nat
    <3>1. (k + 1) * l \in Nat
      BY <2>1
    <3> QED BY <1>1, <3>1 DEF Upto
  <2> DEFINE m == k * l
  <2>6. m \in Nat /\ Len(g[k]) = m /\ Len(s[k + 1]) \in Nat
    BY <2>2, <2>3
  <2>7. Fits(g[k], w, 0, R)
    BY <1>8
  <2>8. Len(s[k + 1]) = Upto(k + 1, l, n) - m /\ Fits(s[k + 1], w, m, R)
    BY <2>4
  <2> HIDE DEF m, Good
  <2>9. Follows(g[k], s[k + 1], g[k + 1])
    BY <2>2 DEF Follows
  <2>10. g[k] \in Seq(T) /\ s[k + 1] \in Seq(T)
    BY <2>2
  <2>11. Fits(s[k + 1], w, Len(g[k]), R)
    BY <2>6, <2>8
  <2>12. Len(g[k + 1]) = Len(g[k]) + Len(s[k + 1]) /\ Fits(g[k + 1], w, 0, R)
    <3>1. PICK a \in Seq(T), b \in Seq(T) : a = g[k] /\ b = s[k + 1]
      BY <2>10
    <3>2. PICK c : c = g[k + 1]
      OBVIOUS
    <3>3. /\ a \in Seq(T) /\ b \in Seq(T)
          /\ Follows(a, b, c) /\ Fits(a, w, 0, R) /\ Fits(b, w, Len(a), R)
      BY <2>7, <2>9, <2>11, <3>1, <3>2
    <3> HIDE DEF D
    <3>4. Len(c) = Len(a) + Len(b) /\ Fits(c, w, 0, R)
      BY ONLY <3>3, JoinParts
    <3> QED BY <3>1, <3>2, <3>4
  <2>13. Len(g[k + 1]) = Upto(k + 1, l, n)
    BY <2>5, <2>6, <2>8, <2>12
  <2> QED BY <2>12, <2>13 DEF Good
<1> HIDE DEF Good
<1>9. Nat \subseteq D
  <2>1. 0 \in D
    OBVIOUS
  <2>2. ASSUME NEW k \in Nat, k \in D PROVE k + 1 \in D
    <3>1. CASE k = 0
      <4>1. k + 1 = 1
        BY <3>1
      <4> QED BY <1>7, <4>1
    <3>2. CASE k # 0 /\ k + 1 <= N
      <4>1. k \in 1 .. N - 1 /\ Good(k)
        BY <1>1, <2>2, <3>2
      <4> QED BY <1>8, <4>1
    <3>3. CASE k + 1 > N
      BY <3>3
    <3> QED BY <1>1, <3>1, <3>2, <3>3
  <2> HIDE DEF D
  <2> QED BY <2>1, <2>2, SetInduction
<1>10. Good(N)
  <2>1. N \in D
    <3> HIDE DEF D
    <3> QED BY <1>1, <1>9
  <2> QED BY <1>1, <2>1
<1>11. g[N] \in Seq(T)
  BY <1>1, <1>2
<1> QED BY <1>2, <1>6, <1>10, <1>11 DEF Good, n

(* The chunks of a step's files.                                           *)
LEMMA ChunkFacts ==
  ASSUME FilterTypeOK, NEW p \in Filterers
  PROVE  /\ Items(p) \in Seq(Filtered) /\ Items(p) # <<>> /\ Len(Items(p)) \in Nat \ {0}
         /\ ChunkLen(p) \in Nat \ {0} /\ Chunks(p) \in Nat \ {0} /\ Chunks(p) <= mapper[p].slots + 1
         /\ (Chunks(p) - 1) * ChunkLen(p) < Len(Items(p))
         /\ Len(Items(p)) <= Chunks(p) * ChunkLen(p)
<1>1. Items(p) \in Seq(Filtered) /\ Items(p) # <<>> /\ mapper[p].slots \in Nat
  BY DEF FilterTypeOK, Items, MapperRecs
<1>2. Len(Items(p)) \in Nat \ {0}
  BY <1>1
<1>3. /\ ChunkLen(p) = (Len(Items(p)) + mapper[p].slots) \div (mapper[p].slots + 1)
      /\ Chunks(p) = (Len(Items(p)) + ChunkLen(p) - 1) \div ChunkLen(p)
  BY DEF ChunkLen, Chunks
<1>4. PICK n \in Nat \ {0}, s \in Nat : n = Len(Items(p)) /\ s = mapper[p].slots
  BY <1>1, <1>2
<1>5. LET l == (n + s) \div (s + 1)
          c == (n + l - 1) \div l
      IN l \in Nat \ {0} /\ c \in Nat \ {0} /\ (c - 1) * l < n /\ n <= c * l /\ c <= s + 1
  BY ChunksCover
<1>6. ChunkLen(p) = (n + s) \div (s + 1) /\ Chunks(p) = (n + ChunkLen(p) - 1) \div ChunkLen(p)
  BY <1>3, <1>4
<1> QED BY <1>1, <1>2, <1>4, <1>5, <1>6

(* A chunk of a step's files.                                              *)
LEMMA ChunkOf ==
  ASSUME FilterTypeOK, NEW p \in Filterers, NEW k \in 1 .. Chunks(p)
  PROVE  /\ Chunk(p, k) \in Seq(Filtered)
         /\ Len(Chunk(p, k)) = Upto(k, ChunkLen(p), Len(Items(p))) - (k - 1) * ChunkLen(p)
         /\ Len(Chunk(p, k)) \in Nat \ {0}
         /\ \A i \in 1 .. Len(Chunk(p, k)) :
              Chunk(p, k)[i] \in Filtered /\ Chunk(p, k)[i] = Items(p)[(k - 1) * ChunkLen(p) + i]
<1>1. PICK w \in Seq(Filtered), l \in Nat \ {0}, c \in Nat \ {0} :
        /\ w = Items(p) /\ l = ChunkLen(p) /\ c = Chunks(p)
        /\ (c - 1) * l < Len(w)
  BY ChunkFacts
<1>2. PICK m : m = (k - 1) * l
  OBVIOUS
<1>3. PICK e : e = Upto(k, l, Len(w))
  OBVIOUS
<1>4. k \in Nat /\ k >= 1 /\ k <= c /\ Len(w) \in Nat
  BY <1>1
<1>5. m \in Nat /\ k * l = m + l /\ m < Len(w)
  <2>1. m \in Nat /\ m <= (c - 1) * l /\ (c - 1) * l \in Nat
    BY <1>2, <1>4, MulMono
  <2>2. m < Len(w)
    BY <1>1, <1>4, <2>1
  <2>3. k * l = (k - 1) * l + l
    BY <1>4
  <2> QED BY <1>2, <2>1, <2>2, <2>3
<1>6. e \in Nat /\ m + 1 <= e /\ e <= Len(w)
  BY <1>3, <1>4, <1>5 DEF Upto
<1>7. Chunk(p, k) = SubSeq(w, m + 1, e)
  BY <1>1, <1>2, <1>3 DEF Chunk, Lower, Upto
<1>8. /\ SubSeq(w, m + 1, e) \in Seq(Filtered) /\ Len(SubSeq(w, m + 1, e)) = e - m
      /\ \A i \in 1 .. e - m : SubSeq(w, m + 1, e)[i] = w[m + i] /\ w[m + i] \in Filtered
  <2>1. w \in Seq(Filtered)
    OBVIOUS
  <2> QED BY ONLY <1>4, <1>5, <1>6, <2>1
<1>9. /\ Chunk(p, k) \in Seq(Filtered) /\ Len(Chunk(p, k)) = e - m
      /\ \A i \in 1 .. Len(Chunk(p, k)) :
           Chunk(p, k)[i] \in Filtered /\ Chunk(p, k)[i] = w[m + i]
  BY <1>7, <1>8
<1>10. e = Upto(k, ChunkLen(p), Len(Items(p))) /\ m = (k - 1) * ChunkLen(p) /\ w = Items(p)
  BY <1>1, <1>2, <1>3
<1>11. Len(Chunk(p, k)) \in Nat \ {0}
  BY <1>5, <1>6, <1>9
<1> HIDE DEF Chunk, Upto
<1> QED BY <1>9, <1>10, <1>11

(* What a thread is made of.                                               *)
LEMMA ThreadTypes ==
  ASSUME FilterTypeOK, NEW p \in Filterers, NEW k \in 1 .. Len(helper[p])
  PROVE  /\ helper[p][k] \in HelperRecs /\ helper[p][k].pos \in Nat \ {0}
         /\ helper[p][k].out \in Seq(Filtered \X Nat) /\ Len(helper[p][k].out) \in Nat
<1>1. helper[p] \in Seq(HelperRecs)
  BY DEF FilterTypeOK
<1>2. helper[p][k] \in HelperRecs
  BY <1>1
<1>3. helper[p][k].pos \in Nat \ {0} /\ helper[p][k].out \in Seq(Filtered \X Nat)
  BY <1>2 DEF HelperRecs
<1> QED BY <1>2, <1>3

(* No value that is kept goes or changes.                                  *)
MemoGrows == \A f \in Filtered : memo[f].value # NoContents => memo'[f].value = memo[f].value

(* A step of one call.                                                     *)
OneMaps(p) ==
  /\ filtering'.lists = filtering.lists /\ Filtered' = Filtered /\ MemoGrows
  /\ \A q \in Filterers \ {p} : mapper'[q] = mapper[q] /\ helper'[q] = helper[q]

(* With the same files the types are the same.                             *)
LEMMA TypesKept ==
  ASSUME Filtered' = Filtered,
         filtering' \in [lists : [Filterers -> Seq(Filtered) \ {<<>>}], files : [Filtered -> Nat],
                        edits : Nat, fails : Nat],
         seenAs' \in [Filtered -> Nat], inUse' \in Nat, mapper' \in [Filterers -> MapperRecs],
         helper' \in [Filterers -> Seq(HelperRecs)],
         memo' \in [Filtered -> [value : Nat, by : Threads \cup {Unowned}]],
         readings' \in [Filtered -> SUBSET (Threads \X Nat)]
  PROVE  FilterTypeOK'
<1>1. MapperRecs' = MapperRecs /\ HelperRecs' = HelperRecs
  BY DEF MapperRecs, HelperRecs
<1> QED BY <1>1 DEF FilterTypeOK

(* A thread that does nothing is as it was.                                *)
LEMMA ThreadStays ==
  ASSUME FilterTypeOK, NEW p \in Filterers, NEW k \in 1 .. Len(helper[p]), k \in 1 .. Chunks(p),
         ThreadOK(p, k), helper'[p][k] = helper[p][k], filtering'.lists = filtering.lists, MemoGrows,
         mapper'[p].slots = mapper[p].slots
  PROVE  ThreadOK(p, k)'
<1>1. Chunk(p, k)' = Chunk(p, k)
  BY DEF Chunk, ChunkLen, Items, Lower
<1>2. ASSUME NEW i \in 1 .. Len(helper[p][k].out)
      PROVE  IsTold(helper[p][k].out[i], Chunk(p, k)[i])'
  <2>1. Len(helper[p][k].out) = helper[p][k].pos - 1 /\ helper[p][k].pos - 1 <= Len(Chunk(p, k))
    <3>1. helper[p][k].pos \in Nat /\ Len(Chunk(p, k)) \in Nat
      BY ChunkOf, ThreadTypes
    <3>2. helper[p][k].pos <= Len(Chunk(p, k)) + 1 /\ Len(helper[p][k].out) = helper[p][k].pos - 1
      BY <3>1 DEF ThreadOK
    <3> QED BY <3>1, <3>2
  <2>2. Chunk(p, k)[i] \in Filtered
    BY <2>1, ChunkOf
  <2>3. IsTold(helper[p][k].out[i], Chunk(p, k)[i])
    BY DEF ThreadOK
  <2> QED BY <1>1, <2>2, <2>3 DEF IsTold, MemoGrows
<1> QED BY <1>1, <1>2 DEF ThreadOK

(* The calls of other steps are as they were.                              *)
LEMMA OthersMap ==
  ASSUME FilterInv, NEW p, OneMaps(p), NEW q \in Filterers \ {p}
  PROVE  MapOK(q)' /\ ThreadsOK(q)'
<1>1. /\ MapOK(q) /\ ThreadsOK(q) /\ mapper'[q] = mapper[q] /\ helper'[q] = helper[q]
      /\ filtering'.lists = filtering.lists /\ MemoGrows /\ FilterTypeOK
  BY DEF FilterInv, OneMaps
<1>2. Items(q)' = Items(q) /\ Chunks(q)' = Chunks(q) /\ WantedThreads(q)' = WantedThreads(q)
  BY <1>1 DEF Items, Chunks, ChunkLen, WantedThreads, Lower
<1>3. \A i \in 1 .. Len(Items(q)) : Items(q)[i] \in Filtered
  BY <1>1, ChunkFacts
<1>4. MapOK(q)'
  BY <1>1, <1>2, <1>3 DEF MapOK, IsTold, MemoGrows
<1>5. ASSUME NEW k \in 1 .. Len(helper[q]) PROVE ThreadOK(q, k)'
  <2>1. k \in 1 .. Chunks(q)
    <3>1. mapper[q].at = "join"
      BY <1>1 DEF MapOK
    <3> QED BY <1>1, <3>1 DEF MapOK
  <2>2. ThreadOK(q, k)
    BY <1>1 DEF ThreadsOK
  <2> QED BY <1>1, <2>1, <2>2, ThreadStays
<1> QED BY <1>1, <1>4, <1>5 DEF ThreadsOK

(* With the slots as they were, the count is right.                        *)
LEMMA SlotsStay ==
  ASSUME SlotsOK, inUse' = inUse, \A q \in Filterers : mapper'[q].slots = mapper[q].slots
  PROVE  SlotsOK'
<1>1. SlotsHeld' = SlotsHeld
  <2>1. \A q \in Filterers : SlotsOf(q)' = SlotsOf(q)
    BY DEF SlotsOf
  <2> QED BY <2>1 DEF SlotsHeld
<1> QED BY <1>1 DEF SlotsOK

(* With the values as they were, they are those that were computed.        *)
LEMMA MemoStays ==
  ASSUME FilterInv, Filtered' = Filtered, readings' = readings,
         \A f \in Filtered : memo'[f].value = memo[f].value
  PROVE  MemoGrows /\ \A f \in Filtered' : MemoOK(f)'
BY DEF FilterInv, MemoGrows, MemoOK

(* The parts of the invariant make it.                                     *)
LEMMA OneMapKeepsInv ==
  ASSUME FilterInv, NEW p, OneMaps(p), FilterTypeOK', SlotsOK', MapOK(p)', ThreadsOK(p)',
         \A f \in Filtered' : MemoOK(f)'
  PROVE  FilterInv'
BY OthersMap DEF FilterInv

(* One step's slots beside those of others.                                *)
LEMMA SlotCount ==
  ASSUME NEW O, IsFiniteSet(O), NEW p, NEW n \in Nat, \A x \in O : x[1] # p
  PROVE  /\ IsFiniteSet(O \cup ({p} \X (1 .. n)))
         /\ Cardinality(O \cup ({p} \X (1 .. n))) = Cardinality(O) + n
<1> DEFINE S == {p} \X (1 .. n)
<1>1. IsFiniteSet({p}) /\ Cardinality({p}) = 1
  BY FS_Singleton
<1>2. IsFiniteSet(1 .. n) /\ Cardinality(1 .. n) = n
  <2>1. 1 \in Int /\ n \in Int /\ n - 1 + 1 = n
    OBVIOUS
  <2> QED BY <2>1, FS_Interval
<1>3. IsFiniteSet(S) /\ Cardinality(S) = n
  <2>1. IsFiniteSet(S) /\ Cardinality(S) = Cardinality({p}) * Cardinality(1 .. n)
    BY <1>1, <1>2, FS_Product
  <2>2. Cardinality({p}) * Cardinality(1 .. n) = 1 * n
    BY <1>1, <1>2
  <2>3. 1 * n = n
    OBVIOUS
  <2> HIDE DEF S
  <2> QED BY <2>1, <2>2, <2>3
<1>4. O \cap S = {}
  OBVIOUS
<1> HIDE DEF S
<1>5. IsFiniteSet(O \cup S) /\ Cardinality(O \cup S) = Cardinality(O) + n - Cardinality(O \cap S)
  BY <1>3, FS_Union
<1>6. Cardinality(O \cap S) = 0 /\ Cardinality(O) \in Nat
  BY <1>4, FS_EmptySet, FS_CardinalityType
<1>7. Cardinality(O \cup S) = Cardinality(O) + n
  BY <1>5, <1>6
<1> QED BY <1>5, <1>7 DEF S

(* A step's slots are counted with the others'.                            *)
LEMMA SlotsDiffer ==
  ASSUME FilterTypeOK, mapper' \in [Filterers -> MapperRecs], NEW p \in Filterers, SlotsOK,
         \A q \in Filterers \ {p} : mapper'[q].slots = mapper[q].slots
  PROVE  /\ IsFiniteSet(SlotsHeld') /\ mapper[p].slots \in Nat
         /\ Cardinality(SlotsHeld') = inUse - mapper[p].slots + mapper'[p].slots
<1> DEFINE O == UNION {SlotsOf(q) : q \in Filterers \ {p}}
<1>1. mapper[p].slots \in Nat /\ mapper'[p].slots \in Nat
  BY DEF FilterTypeOK, MapperRecs
<1>2. SlotsHeld = O \cup ({p} \X (1 .. mapper[p].slots))
  BY DEF SlotsHeld, SlotsOf
<1>3. SlotsHeld' = O \cup ({p} \X (1 .. mapper'[p].slots))
  <2>1. \A q \in Filterers \ {p} : SlotsOf(q)' = SlotsOf(q)
    BY DEF SlotsOf
  <2>2. SlotsOf(p)' = {p} \X (1 .. mapper'[p].slots)
    BY DEF SlotsOf
  <2>3. SlotsHeld' = O \cup SlotsOf(p)'
    BY <2>1 DEF SlotsHeld
  <2> QED BY <2>2, <2>3
<1>4. \A x \in O : x[1] # p
  BY DEF SlotsOf
<1>5. IsFiniteSet(O)
  <2>1. O \in SUBSET SlotsHeld
    BY <1>2
  <2> HIDE DEF O
  <2> QED BY <2>1, FS_Subset DEF SlotsOK
<1> HIDE DEF O
<1>6. Cardinality(SlotsHeld) = Cardinality(O) + mapper[p].slots
  BY <1>1, <1>2, <1>4, <1>5, SlotCount
<1>7. IsFiniteSet(SlotsHeld') /\ Cardinality(SlotsHeld') = Cardinality(O) + mapper'[p].slots
  BY <1>1, <1>3, <1>4, <1>5, SlotCount
<1>8. Cardinality(O) \in Nat /\ inUse = Cardinality(SlotsHeld)
  BY <1>5, FS_CardinalityType DEF SlotsOK
<1> QED BY <1>1, <1>6, <1>7, <1>8

(* The larger of a number and 0.                                           *)
LEMMA MaxWithZero ==
  ASSUME NEW x \in Int
  PROVE  Max({0, x}) = IF x > 0 THEN x ELSE 0
<1> DEFINE M(y) == y \in {0, x} /\ \A z \in {0, x} : y >= z
<1>1. M(IF x > 0 THEN x ELSE 0)
  OBVIOUS
<1>2. \A y, z : M(y) /\ M(z) => y = z
  OBVIOUS
<1>3. Max({0, x}) = CHOOSE y : M(y)
  BY DEF Max
<1>4. M(CHOOSE y : M(y))
  BY <1>1
<1> HIDE DEF M
<1> QED BY <1>1, <1>2, <1>3, <1>4

(* The caller begins.                                                      *)
LEMMA BeginMapKeeps ==
  ASSUME FilterInv, NEW p \in Filterers, BeginMap(p)
  PROVE  FilterInv'
<1>1. FilterTypeOK /\ MapOK(p) /\ ThreadsOK(p) /\ SlotsOK
  BY DEF FilterInv
<1>2. PICK m \in MapperRecs : m = mapper[p]
  BY <1>1 DEF FilterTypeOK
<1>3. PICK n : /\ n = [mapper[p] EXCEPT !.read = inUse,
                         !.at = IF WantedThreads(p) <= 1 THEN "spawn" ELSE "reserve"]
               /\ mapper' = [mapper EXCEPT ![p] = n]
  BY DEF BeginMap
<1>4. n \in MapperRecs /\ n.slots = m.slots /\ n.results = m.results
      /\ n.at = IF WantedThreads(p) <= 1 THEN "spawn" ELSE "reserve"
  BY <1>1, <1>2, <1>3 DEF MapperRecs, FilterTypeOK
<1>5. FilterTypeOK'
  <2>1. mapper' \in [Filterers -> MapperRecs]
    BY <1>1, <1>3, <1>4 DEF FilterTypeOK
  <2> QED BY <1>1, <2>1, TypesKept DEF BeginMap, FilterTypeOK, Filtered
<1>6. mapper'[p] = n /\ \A q \in Filterers \ {p} : mapper'[q] = mapper[q]
  BY <1>1, <1>3 DEF FilterTypeOK
<1>7. SlotsOK'
  BY <1>1, <1>2, <1>4, <1>6, SlotsStay DEF BeginMap
<1>8. OneMaps(p) /\ \A f \in Filtered' : MemoOK(f)'
  BY <1>6, MemoStays DEF BeginMap, OneMaps, Filtered
<1>9. WantedThreads(p) \in Int
  BY <1>1, ChunkFacts, DivFacts, FilteringsOK DEF WantedThreads, Lower
<1>10. MapOK(p)' /\ ThreadsOK(p)'
  BY <1>1, <1>2, <1>4, <1>6, <1>9 DEF MapOK, ThreadsOK, BeginMap, WantedThreads, Items, Lower
<1> QED BY <1>5, <1>7, <1>8, <1>10, OneMapKeepsInv

(* What a step of a caller leaves to the others.                           *)
LEMMA CallerMoves ==
  ASSUME FilterInv, NEW p \in Filterers, Filtered' = Filtered, filtering'.lists = filtering.lists,
         mapper' \in [Filterers -> MapperRecs], NEW n, mapper' = [mapper EXCEPT ![p] = n],
         NEW h, helper' = [helper EXCEPT ![p] = h], UNCHANGED <<memo, readings>>
  PROVE  /\ OneMaps(p) /\ mapper'[p] = n /\ helper'[p] = h /\ n \in MapperRecs
         /\ \A q \in Filterers \ {p} : mapper'[q] = mapper[q]
         /\ \A f \in Filtered' : MemoOK(f)'
<1>1. FilterTypeOK
  BY DEF FilterInv
<1>2. /\ \A q \in Filterers \ {p} : mapper'[q] = mapper[q] /\ helper'[q] = helper[q]
      /\ mapper'[p] = n /\ helper'[p] = h /\ n \in MapperRecs
  BY <1>1 DEF FilterTypeOK
<1>3. MemoGrows /\ \A f \in Filtered' : MemoOK(f)'
  BY MemoStays
<1> QED BY <1>2, <1>3 DEF OneMaps

(* The caller takes what is left of the slots, if nobody took some since.  *)
LEMMA ReserveKeeps ==
  ASSUME FilterInv, NEW p \in Filterers, Reserve(p)
  PROVE  FilterInv'
<1>1. FilterTypeOK /\ MapOK(p) /\ ThreadsOK(p) /\ SlotsOK
  BY DEF FilterInv
<1>2. PICK m \in MapperRecs : m = mapper[p]
  BY <1>1 DEF FilterTypeOK
<1>3. m.at = "reserve" /\ m.slots = 0 /\ helper[p] = <<>> /\ m.results = <<>> /\ m.read \in Nat
      /\ WantedThreads(p) > 1
  BY <1>1, <1>2 DEF MapOK, Reserve, MapperRecs
<1>4. WantedThreads(p) \in Int /\ MaxHelpers \in Nat /\ inUse \in Nat
  <2>1. WantedThreads(p) \in Int
    BY <1>1, ChunkFacts, DivFacts, FilteringsOK DEF WantedThreads, Lower
  <2> QED BY <1>1, <2>1, FilteringsOK DEF FilterTypeOK
<1> DEFINE left == Max({0, MaxHelpers - m.read})
           taken == Lower(WantedThreads(p) - 1, left)
<1>5. left \in Nat /\ left <= MaxHelpers /\ (left > 0 => left = MaxHelpers - m.read)
  <2>1. MaxHelpers - m.read \in Int
    BY <1>3, <1>4
  <2> QED BY <1>3, <1>4, <2>1, MaxWithZero
<1>6. taken \in Nat /\ taken <= left
  BY <1>3, <1>4, <1>5 DEF Lower
<1>7. CASE taken > 0 /\ inUse # m.read
  <2>1. mapper' = [mapper EXCEPT ![p].read = inUse] /\ inUse' = inUse
    BY <1>2, <1>7 DEF Reserve
  <2>2. PICK n : n = [m EXCEPT !.read = inUse]
    OBVIOUS
  <2>3. mapper' = [mapper EXCEPT ![p] = n] /\ n \in MapperRecs
    BY <1>1, <1>2, <1>4, <2>1, <2>2 DEF FilterTypeOK, MapperRecs
  <2>4. mapper' \in [Filterers -> MapperRecs] /\ Filtered' = Filtered
    BY <1>1, <2>3 DEF FilterTypeOK, Reserve, Filtered
  <2>5. FilterTypeOK'
    BY <1>1, <2>1, <2>4, TypesKept DEF Reserve, FilterTypeOK
  <2>6. PICK h : h = helper[p]
    OBVIOUS
  <2>7. helper' = [helper EXCEPT ![p] = h] /\ UNCHANGED <<filtering, memo, readings>>
    BY <1>1, <2>6 DEF Reserve, FilterTypeOK
  <2>8. /\ OneMaps(p) /\ mapper'[p] = n /\ helper'[p] = h
        /\ \A q \in Filterers \ {p} : mapper'[q] = mapper[q]
        /\ \A f \in Filtered' : MemoOK(f)'
    BY <2>3, <2>4, <2>7, CallerMoves
  <2>9. n.slots = m.slots /\ n.results = m.results /\ n.at = "reserve"
    BY <1>3, <2>2 DEF MapperRecs
  <2>10. SlotsOK'
    BY <1>1, <1>2, <2>1, <2>8, <2>9, SlotsStay
  <2>11. MapOK(p)' /\ ThreadsOK(p)'
    BY <1>3, <2>6, <2>7, <2>8, <2>9 DEF MapOK, ThreadsOK, WantedThreads, Items, Lower
  <2> QED BY <2>5, <2>8, <2>10, <2>11, OneMapKeepsInv
<1>8. CASE ~(taken > 0 /\ inUse # m.read)
  <2>1. mapper' = [mapper EXCEPT ![p].slots = taken, ![p].at = "spawn"] /\ inUse' = inUse + taken
    BY <1>2, <1>8 DEF Reserve
  <2> HIDE DEF taken
  <2>2. PICK n : n = [m EXCEPT !.slots = taken, !.at = "spawn"]
    OBVIOUS
  <2>3. mapper' = [mapper EXCEPT ![p] = n] /\ n \in MapperRecs
    BY <1>1, <1>2, <1>6, <2>1, <2>2 DEF FilterTypeOK, MapperRecs
  <2>4. mapper' \in [Filterers -> MapperRecs] /\ Filtered' = Filtered /\ inUse' \in Nat
    <3>1. inUse + taken \in Nat
      BY <1>4, <1>6
    <3>2. mapper' \in [Filterers -> MapperRecs] /\ Filtered' = Filtered
      BY <1>1, <2>3 DEF FilterTypeOK, Reserve, Filtered
    <3> QED BY <2>1, <3>1, <3>2
  <2>5. FilterTypeOK'
    BY <1>1, <2>4, TypesKept DEF Reserve, FilterTypeOK
  <2>6. PICK h : h = helper[p]
    OBVIOUS
  <2>7. helper' = [helper EXCEPT ![p] = h] /\ UNCHANGED <<filtering, memo, readings>>
    BY <1>1, <2>6 DEF Reserve, FilterTypeOK
  <2>8. /\ OneMaps(p) /\ mapper'[p] = n /\ helper'[p] = h
        /\ \A q \in Filterers \ {p} : mapper'[q] = mapper[q]
        /\ \A f \in Filtered' : MemoOK(f)'
    BY <2>3, <2>4, <2>7, CallerMoves
  <2>9. n.slots = taken /\ n.results = m.results /\ n.at = "spawn"
    BY <1>3, <2>2 DEF MapperRecs
  <2>10. inUse' <= MaxHelpers
    <3>1. CASE taken > 0
      BY <1>3, <1>4, <1>5, <1>6, <1>8, <2>1, <3>1
    <3>2. CASE taken = 0
      BY <1>1, <1>4, <2>1, <3>2 DEF SlotsOK
    <3> QED BY <1>6, <3>1, <3>2
  <2>11. IsFiniteSet(SlotsHeld') /\ Cardinality(SlotsHeld') = inUse - 0 + taken
    BY <1>1, <1>2, <1>3, <2>4, <2>8, <2>9, SlotsDiffer
  <2>12. SlotsOK'
    BY <1>4, <1>6, <2>1, <2>10, <2>11 DEF SlotsOK
  <2>13. MapOK(p)' /\ ThreadsOK(p)'
    BY <1>3, <2>6, <2>7, <2>8, <2>9 DEF MapOK, ThreadsOK
  <2> QED BY <2>5, <2>8, <2>12, <2>13, OneMapKeepsInv
<1> QED BY <1>7, <1>8

(* The threads of the chunks start.                                        *)
LEMMA StartHelpersKeeps ==
  ASSUME FilterInv, NEW p \in Filterers, StartHelpers(p)
  PROVE  FilterInv'
<1>1. FilterTypeOK /\ MapOK(p) /\ ThreadsOK(p) /\ SlotsOK
  BY DEF FilterInv
<1>2. PICK m \in MapperRecs : m = mapper[p]
  BY <1>1 DEF FilterTypeOK
<1>3. m.at = "spawn" /\ m.results = <<>>
  BY <1>1, <1>2 DEF MapOK, StartHelpers
<1>4. PICK failing \in SUBSET (2 .. Chunks(p)) :
        /\ Cardinality(failing) <= filtering.fails
        /\ helper' = [helper EXCEPT ![p] =
                        [k \in 1 .. Chunks(p) |-> NewThread(IF k \in failing THEN "unstarted" ELSE "look")]]
        /\ filtering' = [filtering EXCEPT !.fails = @ - Cardinality(failing)]
  BY DEF StartHelpers
<1>5. Chunks(p) \in Nat \ {0}
  BY <1>1, ChunkFacts
<1>6. Cardinality(failing) \in Nat
  <2>1. IsFiniteSet(2 .. Chunks(p))
    <3>1. 2 \in Int /\ Chunks(p) \in Int
      BY <1>5
    <3> QED BY <3>1, FS_Interval
  <2> QED BY <2>1, FS_Subset, FS_CardinalityType
<1>7. PICK h : h = [k \in 1 .. Chunks(p) |-> NewThread(IF k \in failing THEN "unstarted" ELSE "look")]
  OBVIOUS
<1>8. helper' = [helper EXCEPT ![p] = h]
  BY <1>4, <1>7
<1>9. h \in Seq(HelperRecs) /\ Len(h) = Chunks(p)
      /\ \A k \in 1 .. Chunks(p) : h[k].pos = 1 /\ h[k].out = <<>> /\ h[k].at \in {"unstarted", "look"}
  <2>1. \A k \in 1 .. Chunks(p) : h[k] = NewThread(IF k \in failing THEN "unstarted" ELSE "look")
    BY <1>7
  <2>2. \A k \in 1 .. Chunks(p) :
          h[k] \in HelperRecs /\ h[k].pos = 1 /\ h[k].out = <<>> /\ h[k].at \in {"unstarted", "look"}
    <3>1. SUFFICES ASSUME NEW k \in 1 .. Chunks(p)
          PROVE  h[k] \in HelperRecs /\ h[k].pos = 1 /\ h[k].out = <<>> /\ h[k].at \in {"unstarted", "look"}
      OBVIOUS
    <3>2. PICK a \in {"unstarted", "look"} : h[k] = NewThread(a)
      BY <2>1
    <3>3. <<>> \in Seq(Filtered \X Nat) /\ 1 \in Nat \ {0}
      OBVIOUS
    <3> QED BY <3>2, <3>3 DEF NewThread, HelperRecs
  <2>3. h = [k \in 1 .. Chunks(p) |-> h[k]]
    BY <1>7
  <2> QED BY <1>5, <2>2, <2>3
<1>10. /\ filtering' \in [lists : [Filterers -> Seq(Filtered) \ {<<>>}], files : [Filtered -> Nat],
                          edits : Nat, fails : Nat]
       /\ filtering'.lists = filtering.lists /\ filtering'.files = filtering.files
  <2>1. filtering.fails - Cardinality(failing) \in Nat
    BY <1>1, <1>4, <1>6 DEF FilterTypeOK
  <2> QED BY <1>1, <1>4, <2>1 DEF FilterTypeOK
<1>11. PICK n : n = [m EXCEPT !.at = "join"]
  OBVIOUS
<1>12. mapper' = [mapper EXCEPT ![p] = n] /\ n \in MapperRecs
  BY <1>1, <1>2, <1>11 DEF FilterTypeOK, MapperRecs, StartHelpers, To
<1>13. /\ mapper' \in [Filterers -> MapperRecs] /\ Filtered' = Filtered
       /\ helper' \in [Filterers -> Seq(HelperRecs)]
  BY <1>1, <1>8, <1>9, <1>10, <1>12 DEF FilterTypeOK, Filtered
<1>14. FilterTypeOK'
  BY <1>1, <1>10, <1>13, TypesKept DEF StartHelpers, FilterTypeOK
<1>15. UNCHANGED <<inUse, memo, readings>>
  BY DEF StartHelpers
<1>16. /\ OneMaps(p) /\ mapper'[p] = n /\ helper'[p] = h
       /\ \A q \in Filterers \ {p} : mapper'[q] = mapper[q]
       /\ \A f \in Filtered' : MemoOK(f)'
  BY <1>8, <1>10, <1>12, <1>13, <1>15, CallerMoves
<1>17. n.slots = m.slots /\ n.results = m.results /\ n.at = "join"
  BY <1>3, <1>11 DEF MapperRecs
<1>18. SlotsOK'
  BY <1>1, <1>2, <1>15, <1>16, <1>17, SlotsStay
<1>19. Chunks(p)' = Chunks(p) /\ \A k \in 1 .. Chunks(p) : Chunk(p, k)' = Chunk(p, k)
  BY <1>2, <1>10, <1>16, <1>17 DEF Chunks, Chunk, ChunkLen, Items, Lower
<1>20. MapOK(p)'
  BY <1>3, <1>9, <1>16, <1>17, <1>19 DEF MapOK
<1>21. ASSUME NEW k \in 1 .. Len(h) PROVE ThreadOK(p, k)'
  <2>1. k \in 1 .. Chunks(p) /\ Len(Chunk(p, k)) \in Nat \ {0}
    BY <1>1, <1>9, ChunkOf
  <2>2. h[k].pos = 1 /\ h[k].out = <<>> /\ h[k].at # "done"
    BY <1>9, <2>1
  <2> QED BY <1>16, <1>19, <2>1, <2>2 DEF ThreadOK
<1>22. ThreadsOK(p)'
  BY <1>16, <1>21 DEF ThreadsOK
<1> QED BY <1>14, <1>16, <1>18, <1>20, <1>22, OneMapKeepsInv

(* A step of a thread, or of the caller in its place, that leaves the      *)
(* thread right, and what is kept of the files.                            *)
LEMMA ThreadMoves ==
  ASSUME FilterInv, NEW p \in Filterers, NEW k \in 1 .. Len(helper[p]), NEW h \in HelperRecs,
         helper' = [helper EXCEPT ![p] = [@ EXCEPT ![k] = h]],
         UNCHANGED <<filtering, seenAs, inUse, mapper>>,
         memo' \in [Filtered -> [value : Nat, by : Threads \cup {Unowned}]],
         readings' \in [Filtered -> SUBSET (Threads \X Nat)],
         MemoGrows, \A f \in Filtered : MemoOK(f)',
         Len(h.out) = h.pos - 1,
         IF h.at = "done" THEN h.pos = Len(Chunk(p, k)) + 1 ELSE h.pos <= Len(Chunk(p, k)),
         \A i \in 1 .. Len(h.out) : IsTold(h.out[i], Chunk(p, k)[i])'
  PROVE  FilterInv'
<1>1. FilterTypeOK /\ MapOK(p) /\ ThreadsOK(p) /\ SlotsOK
  BY DEF FilterInv
<1>2. helper[p] \in Seq(HelperRecs)
  BY <1>1 DEF FilterTypeOK
<1>3. PICK g : g = [helper[p] EXCEPT ![k] = h]
  OBVIOUS
<1>4. g \in Seq(HelperRecs) /\ Len(g) = Len(helper[p]) /\ g[k] = h
      /\ \A i \in 1 .. Len(helper[p]) : i # k => g[i] = helper[p][i]
  BY <1>2, <1>3
<1>5. helper' = [helper EXCEPT ![p] = g]
  BY <1>3
<1>6. helper' \in [Filterers -> Seq(HelperRecs)] /\ helper'[p] = g
      /\ \A q \in Filterers \ {p} : helper'[q] = helper[q]
  BY <1>1, <1>4, <1>5 DEF FilterTypeOK
<1>7. Filtered' = Filtered /\ filtering'.lists = filtering.lists
  BY DEF Filtered
<1>8. FilterTypeOK'
  BY <1>1, <1>6, <1>7, TypesKept DEF FilterTypeOK
<1>9. SlotsOK'
  BY <1>1, SlotsStay
<1>10. OneMaps(p)
  BY <1>6, <1>7 DEF OneMaps
<1>11. mapper[p].at = "join" /\ Len(helper[p]) = Chunks(p) /\ Chunks(p)' = Chunks(p)
       /\ Chunk(p, k)' = Chunk(p, k)
  <2>1. helper[p] # <<>>
    BY <1>2
  <2>2. mapper[p].at = "join"
    BY <1>1, <2>1 DEF MapOK
  <2>3. Chunks(p)' = Chunks(p) /\ Chunk(p, k)' = Chunk(p, k)
    BY <1>7 DEF Chunks, Chunk, ChunkLen, Items, Lower
  <2> QED BY <1>1, <2>2, <2>3 DEF MapOK
<1>12. MapOK(p)'
  BY <1>1, <1>4, <1>6, <1>11 DEF MapOK
<1>13. ASSUME NEW i \in 1 .. Len(g) PROVE ThreadOK(p, i)'
  <2>1. CASE i = k
    BY <1>4, <1>6, <1>11, <2>1 DEF ThreadOK
  <2>2. CASE i # k
    <3>1. /\ i \in 1 .. Len(helper[p]) /\ i \in 1 .. Chunks(p) /\ helper'[p][i] = helper[p][i]
          /\ ThreadOK(p, i)
      BY <1>1, <1>4, <1>6, <1>11, <1>13, <2>2 DEF ThreadsOK
    <3> QED BY <1>1, <1>7, <3>1, ThreadStays
  <2> QED BY <2>1, <2>2
<1>14. ThreadsOK(p)'
  BY <1>4, <1>6, <1>13 DEF ThreadsOK
<1> QED BY <1>7, <1>8, <1>9, <1>10, <1>12, <1>14, OneMapKeepsInv

(* What is known of a thread before it moves.                              *)
LEMMA ThreadFacts ==
  ASSUME FilterInv, NEW p \in Filterers, NEW k \in 1 .. Len(helper[p])
  PROVE  /\ FilterTypeOK /\ helper[p][k] \in HelperRecs /\ k \in 1 .. Chunks(p)
         /\ Len(helper[p][k].out) = helper[p][k].pos - 1
         /\ helper[p][k].at # "done" => helper[p][k].pos <= Len(Chunk(p, k))
         /\ \A i \in 1 .. Len(helper[p][k].out) :
              Chunk(p, k)[i] \in Filtered /\ IsTold(helper[p][k].out[i], Chunk(p, k)[i])
         /\ Chunk(p, k) \in Seq(Filtered) /\ Len(Chunk(p, k)) \in Nat
<1>1. FilterTypeOK /\ MapOK(p) /\ ThreadOK(p, k)
  BY DEF FilterInv, ThreadsOK
<1>2. helper[p] # <<>>
  <2>1. helper[p] \in Seq(HelperRecs)
    BY <1>1 DEF FilterTypeOK
  <2> QED BY <2>1
<1>3. k \in 1 .. Chunks(p)
  BY <1>1, <1>2 DEF MapOK
<1>4. Chunk(p, k) \in Seq(Filtered) /\ Len(Chunk(p, k)) \in Nat
      /\ \A i \in 1 .. Len(Chunk(p, k)) : Chunk(p, k)[i] \in Filtered
  BY <1>1, <1>3, ChunkOf
<1>5. helper[p][k] \in HelperRecs /\ helper[p][k].pos \in Nat
  BY <1>1, ThreadTypes
<1>6. /\ Len(helper[p][k].out) = helper[p][k].pos - 1
      /\ helper[p][k].at # "done" => helper[p][k].pos <= Len(Chunk(p, k))
      /\ helper[p][k].pos <= Len(Chunk(p, k)) + 1
  BY <1>1, <1>4, <1>5 DEF ThreadOK
<1>7. ASSUME NEW i \in 1 .. Len(helper[p][k].out)
      PROVE  Chunk(p, k)[i] \in Filtered /\ IsTold(helper[p][k].out[i], Chunk(p, k)[i])
  <2>1. i \in 1 .. Len(Chunk(p, k))
    BY <1>4, <1>5, <1>6
  <2> QED BY <1>1, <1>4, <2>1 DEF ThreadOK
<1> QED BY <1>1, <1>3, <1>4, <1>5, <1>6, <1>7

(* A thread that goes from one place to the next, without an answer.       *)
LEMMA ThreadGoes ==
  ASSUME FilterInv, NEW p \in Filterers, NEW k \in 1 .. Len(helper[p]),
         NEW at \in {"look", "lock", "inside"}, helper[p][k].at # "done",
         helper' = [helper EXCEPT ![p][k].at = at], UNCHANGED <<filtering, seenAs, inUse, mapper, readings>>,
         memo' \in [Filtered -> [value : Nat, by : Threads \cup {Unowned}]],
         \A f \in Filtered : memo'[f].value = memo[f].value
  PROVE  FilterInv'
<1>1. PICK h : h = [helper[p][k] EXCEPT !.at = at]
  OBVIOUS
<1>2. /\ FilterTypeOK /\ helper[p][k] \in HelperRecs
      /\ Len(helper[p][k].out) = helper[p][k].pos - 1
      /\ helper[p][k].pos <= Len(Chunk(p, k))
      /\ \A i \in 1 .. Len(helper[p][k].out) :
           Chunk(p, k)[i] \in Filtered /\ IsTold(helper[p][k].out[i], Chunk(p, k)[i])
  BY ThreadFacts
<1>3. h \in HelperRecs /\ h.at # "done" /\ h.pos = helper[p][k].pos /\ h.out = helper[p][k].out
  BY <1>1, <1>2 DEF HelperRecs
<1>4. helper' = [helper EXCEPT ![p] = [@ EXCEPT ![k] = h]]
  BY <1>1
<1>5. Filtered' = Filtered /\ MemoGrows /\ \A f \in Filtered : MemoOK(f)'
  <2>1. Filtered' = Filtered
    BY DEF Filtered
  <2> QED BY <2>1, MemoStays
<1>6. ASSUME NEW i \in 1 .. Len(h.out) PROVE IsTold(h.out[i], Chunk(p, k)[i])'
  <2>1. Chunk(p, k)' = Chunk(p, k)
    BY DEF Chunk, ChunkLen, Items, Lower
  <2>2. Chunk(p, k)[i] \in Filtered /\ IsTold(h.out[i], Chunk(p, k)[i])
    BY <1>2, <1>3
  <2> QED BY <2>1, <2>2 DEF IsTold
<1>7. readings' \in [Filtered -> SUBSET (Threads \X Nat)]
  BY <1>2 DEF FilterTypeOK
<1> QED BY <1>2, <1>3, <1>4, <1>5, <1>6, <1>7, ThreadMoves

(* A thread that answers for its file with what is kept of it.             *)
LEMMA ThreadAnswers ==
  ASSUME FilterInv, NEW p \in Filterers, NEW k \in 1 .. Len(helper[p]), helper[p][k].at # "done",
         NEW v \in Nat, Answers(<<p, k>>, v), UNCHANGED <<filtering, seenAs, inUse, mapper>>,
         memo' \in [Filtered -> [value : Nat, by : Threads \cup {Unowned}]],
         readings' \in [Filtered -> SUBSET (Threads \X Nat)],
         MemoGrows, \A f \in Filtered : MemoOK(f)',
         v # NoContents => memo'[FileOf(<<p, k>>)].value = v
  PROVE  FilterInv'
<1> DEFINE h == helper[p][k]
           c == Chunk(p, k)
           f == FileOf(<<p, k>>)
<1>1. /\ FilterTypeOK /\ h \in HelperRecs
      /\ Len(h.out) = h.pos - 1 /\ h.pos <= Len(c)
      /\ \A i \in 1 .. Len(h.out) : c[i] \in Filtered /\ IsTold(h.out[i], c[i])
      /\ c \in Seq(Filtered) /\ Len(c) \in Nat
  BY ThreadFacts
<1>2. h.pos \in Nat \ {0} /\ h.out \in Seq(Filtered \X Nat)
  BY <1>1 DEF HelperRecs
<1>3. f = c[h.pos] /\ f \in Filtered
  <2>1. f = c[h.pos]
    BY DEF FileOf
  <2>2. h.pos \in 1 .. Len(c)
    BY <1>1, <1>2
  <2> HIDE DEF f, c, h
  <2> QED BY <1>1, <2>1, <2>2
<1>4. PICK g : g = [at |-> IF h.pos = Len(c) THEN "done" ELSE "look",
                    pos |-> h.pos + 1, out |-> Append(h.out, <<f, v>>)]
  OBVIOUS
<1>5. helper' = [helper EXCEPT ![p] = [@ EXCEPT ![k] = g]]
  BY <1>4 DEF Answers
<1> HIDE DEF f, c, h
<1>6. Append(h.out, <<f, v>>) \in Seq(Filtered \X Nat) /\ Len(Append(h.out, <<f, v>>)) = h.pos
      /\ Append(h.out, <<f, v>>)[h.pos] = <<f, v>>
      /\ \A i \in 1 .. Len(h.out) : Append(h.out, <<f, v>>)[i] = h.out[i]
  <2>1. PICK o \in Seq(Filtered \X Nat), x \in Filtered \X Nat : o = h.out /\ x = <<f, v>>
    BY <1>2, <1>3
  <2>2. /\ Append(o, x) \in Seq(Filtered \X Nat) /\ Len(Append(o, x)) = Len(o) + 1
        /\ Append(o, x)[Len(o) + 1] = x /\ \A i \in 1 .. Len(o) : Append(o, x)[i] = o[i]
    OBVIOUS
  <2>3. Len(o) + 1 = h.pos
    <3>1. Len(h.out) = h.pos - 1 /\ h.pos \in Nat
      BY <1>1, <1>2
    <3>2. (h.pos - 1) + 1 = h.pos
      BY <3>1
    <3> QED BY <2>1, <3>1, <3>2
  <2> QED BY <2>1, <2>2, <2>3
<1>7. g \in HelperRecs /\ g.pos = h.pos + 1 /\ g.out = Append(h.out, <<f, v>>)
      /\ g.at = IF h.pos = Len(c) THEN "done" ELSE "look"
  <2>1. h.pos + 1 \in Nat \ {0}
    BY <1>2
  <2> QED BY <1>4, <1>6, <2>1 DEF HelperRecs
<1>8. /\ Len(g.out) = g.pos - 1
      /\ IF g.at = "done" THEN g.pos = Len(c) + 1 ELSE g.pos <= Len(c)
  <2>1. Len(g.out) = g.pos - 1
    BY <1>2, <1>6, <1>7
  <2>2. CASE h.pos = Len(c)
    BY <1>7, <2>1, <2>2
  <2>3. CASE h.pos # Len(c)
    <3>1. g.at = "look" /\ h.pos + 1 <= Len(c)
      BY <1>1, <1>2, <1>7, <2>3
    <3> QED BY <1>7, <2>1, <3>1
  <2> QED BY <2>2, <2>3
<1>9. ASSUME NEW i \in 1 .. Len(g.out) PROVE IsTold(g.out[i], c[i])'
  <2>1. c' = c
    BY DEF c, Chunk, ChunkLen, Items, Lower
  <2>2. CASE i = h.pos
    <3>1. g.out[i] = <<f, v>> /\ c[i] = f
      BY <1>3, <1>6, <1>7, <2>2
    <3>2. v # NoContents => memo'[f].value = v
      BY DEF f
    <3> QED BY <2>1, <3>1, <3>2 DEF IsTold
  <2>3. CASE i # h.pos
    <3>1. i \in 1 .. Len(h.out)
      BY <1>1, <1>2, <1>6, <1>7, <1>9, <2>3
    <3>2. g.out[i] = h.out[i] /\ c[i] \in Filtered /\ IsTold(h.out[i], c[i])
      BY <1>1, <1>6, <1>7, <3>1
    <3> QED BY <2>1, <3>2 DEF IsTold, MemoGrows
  <2> QED BY <2>2, <2>3
<1> QED BY <1>5, <1>7, <1>8, <1>9, ThreadMoves DEF c

(* The caller takes a chunk whose thread could not be started.             *)
LEMMA TakeOverKeeps ==
  ASSUME FilterInv, NEW p \in Filterers, TakeOver(p)
  PROVE  FilterInv'
<1>1. FilterTypeOK
  BY DEF FilterInv
<1>2. DOMAIN helper[p] = 1 .. Len(helper[p])
  BY <1>1 DEF FilterTypeOK
<1>3. PICK k \in 1 .. Len(helper[p]) :
        helper[p][k].at = "unstarted" /\ helper' = [helper EXCEPT ![p][k].at = "look"]
  BY <1>2 DEF TakeOver
<1>4. memo' \in [Filtered -> [value : Nat, by : Threads \cup {Unowned}]] /\ memo' = memo
  BY <1>1 DEF TakeOver, FilterTypeOK
<1> QED BY <1>3, <1>4, ThreadGoes DEF TakeOver

(* A thread looks for what is kept, waits for its turn and computes.       *)
LEMMA ThreadKeeps ==
  ASSUME FilterInv, NEW p \in Filterers, NEW t \in HelpersOf(p), ThreadActs(t)
  PROVE  FilterInv'
<1>1. FilterTypeOK
  BY DEF FilterInv
<1>2. DOMAIN helper[p] = 1 .. Len(helper[p])
  BY <1>1 DEF FilterTypeOK
<1>3. PICK k \in 1 .. Len(helper[p]) : t = <<p, k>>
  BY <1>2 DEF HelpersOf
<1>4. t \in Threads /\ t[1] = p /\ t[2] = k
  <2>1. k \in Nat \ {0}
    BY <1>1 DEF FilterTypeOK
  <2> QED BY <1>3, <2>1 DEF Threads
<1>45. PICK f : f = FileOf(t)
  OBVIOUS
<1>5. helper[p][k].at \notin {"done", "unstarted"} => f \in Filtered
  <2>1. /\ helper[p][k] \in HelperRecs /\ helper[p][k].pos \in Nat \ {0}
        /\ helper[p][k].at # "done" => helper[p][k].pos <= Len(Chunk(p, k))
        /\ Chunk(p, k) \in Seq(Filtered) /\ Len(Chunk(p, k)) \in Nat
    BY ThreadFacts DEF HelperRecs
  <2>2. f = Chunk(p, k)[helper[p][k].pos]
    BY <1>4, <1>45 DEF FileOf
  <2> QED BY <2>1, <2>2
<1>6. Filtered' = Filtered /\ \A g \in Filtered : MemoOK(g)
      /\ memo \in [Filtered -> [value : Nat, by : Threads \cup {Unowned}]]
      /\ readings \in [Filtered -> SUBSET (Threads \X Nat)]
  BY <1>1 DEF ThreadActs, LookInMemo, LockMemo, InitMemo, Filtered, FilterInv, FilterTypeOK
<1>7. CASE LookInMemo(t)
  <2>1. helper[p][k].at = "look" /\ f \in Filtered /\ UNCHANGED <<filtering, seenAs, inUse, mapper, memo, readings>>
    BY <1>4, <1>45, <1>5, <1>7 DEF LookInMemo, ThreadAt
  <2>2. CASE memo[f].value # NoContents
    <3>1. memo[f].value \in Nat /\ Answers(<<p, k>>, memo[f].value)
      BY <1>3, <1>45, <1>6, <1>7, <2>1, <2>2 DEF LookInMemo
    <3>2. MemoGrows /\ \A g \in Filtered : MemoOK(g)'
      BY <1>6, <2>1 DEF MemoGrows, MemoOK
    <3>3. memo'[FileOf(<<p, k>>)].value = memo[f].value
      BY <1>3, <1>45, <2>1
    <3> QED BY <1>6, <2>1, <3>1, <3>2, <3>3, ThreadAnswers
  <2>3. CASE memo[f].value = NoContents
    <3>1. helper' = [helper EXCEPT ![p][k].at = "lock"]
      BY <1>4, <1>45, <1>7, <2>3 DEF LookInMemo
    <3> QED BY <1>6, <2>1, <3>1, ThreadGoes
  <2> QED BY <2>2, <2>3
<1>8. CASE LockMemo(t)
  <2>1. /\ helper[p][k].at = "lock" /\ f \in Filtered /\ UNCHANGED <<filtering, seenAs, inUse, mapper, readings>>
        /\ helper' = [helper EXCEPT ![p][k].at = "inside"] /\ memo' = [memo EXCEPT ![f].by = t]
    BY <1>4, <1>45, <1>5, <1>8 DEF LockMemo, ThreadAt
  <2>2. memo' \in [Filtered -> [value : Nat, by : Threads \cup {Unowned}]]
        /\ \A g \in Filtered : memo'[g].value = memo[g].value
    BY <1>4, <1>6, <2>1
  <2> QED BY <2>1, <2>2, ThreadGoes
<1>9. CASE InitMemo(t)
  <2> DEFINE v == IF Known(f) THEN memo[f].value ELSE seenAs[f]
  <2>1. /\ helper[p][k].at = "inside" /\ f \in Filtered /\ UNCHANGED <<filtering, seenAs, inUse, mapper>>
        /\ memo' = [memo EXCEPT ![f] = [value |-> IF v = NoContents THEN @.value ELSE v, by |-> Unowned]]
        /\ readings' = [readings EXCEPT ![f] = IF Known(f) \/ v = NoContents THEN @ ELSE @ \cup {<<t, v>>}]
        /\ Answers(<<p, k>>, v)
    BY <1>3, <1>4, <1>45, <1>5, <1>9 DEF InitMemo, ThreadAt
  <2>2. PICK w : w = v
    OBVIOUS
  <2>3. w \in Nat /\ (Known(f) => w = memo[f].value) /\ Known(f) = (memo[f].value # NoContents)
    BY <1>1, <1>6, <2>1, <2>2 DEF FilterTypeOK, Known
  <2>4. PICK m : m = [value |-> IF w = NoContents THEN memo[f].value ELSE w, by |-> Unowned]
    OBVIOUS
  <2>5. PICK r : r = IF Known(f) \/ w = NoContents THEN readings[f] ELSE readings[f] \cup {<<t, w>>}
    OBVIOUS
  <2>6. /\ memo' = [memo EXCEPT ![f] = m] /\ readings' = [readings EXCEPT ![f] = r]
        /\ Answers(<<p, k>>, w)
    BY <2>1, <2>2, <2>4, <2>5
  <2> HIDE DEF v
  <2>7. m \in [value : Nat, by : Threads \cup {Unowned}] /\ r \in SUBSET (Threads \X Nat)
    BY <1>4, <1>6, <2>1, <2>3, <2>4, <2>5
  <2>8. /\ memo' \in [Filtered -> [value : Nat, by : Threads \cup {Unowned}]] /\ memo'[f] = m
        /\ readings' \in [Filtered -> SUBSET (Threads \X Nat)] /\ readings'[f] = r
        /\ \A g \in Filtered \ {f} : memo'[g] = memo[g] /\ readings'[g] = readings[g]
    BY <1>6, <2>1, <2>6, <2>7
  <2>9. MemoGrows
    BY <2>3, <2>4, <2>8 DEF MemoGrows, Known
  <2>10. MemoOK(f)'
    <3>1. MemoOK(f)
      BY <1>6, <2>1
    <3>2. CASE Known(f)
      BY <2>3, <2>4, <2>5, <2>8, <3>1, <3>2 DEF MemoOK, Known
    <3>3. CASE ~Known(f)
      <4>1. readings[f] = {} /\ memo[f].value = NoContents
        BY <2>3, <3>1, <3>3 DEF MemoOK
      <4>2. CASE w = NoContents
        BY <2>4, <2>5, <2>8, <4>1, <4>2 DEF MemoOK
      <4>3. CASE w # NoContents
        BY <1>4, <2>4, <2>5, <2>8, <3>3, <4>1, <4>3 DEF MemoOK
      <4> QED BY <4>2, <4>3
    <3> QED BY <3>2, <3>3
  <2>11. \A g \in Filtered : MemoOK(g)'
    <3>1. ASSUME NEW g \in Filtered \ {f} PROVE MemoOK(g)'
      BY <1>6, <2>8 DEF MemoOK
    <3> QED BY <2>10, <3>1
  <2>12. w # NoContents => memo'[FileOf(<<p, k>>)].value = w
    BY <1>3, <1>45, <2>4, <2>8
  <2> QED BY <2>1, <2>3, <2>6, <2>8, <2>9, <2>11, <2>12, ThreadAnswers
<1> QED BY <1>7, <1>8, <1>9 DEF ThreadActs

(* What the chunks' threads have answered, one chunk after the other.      *)
Told == {x \in (Filtered \X Nat) \X Filtered : IsTold(x[1], x[2])}

(* There is one answer for each of the items, and it is of that item.      *)
LEMMA ResultsOfChunks ==
  ASSUME FilterInv, NEW p \in Filterers, mapper[p].at = "join", Joined(p),
         NEW r, r = FlattenSeq([k \in DOMAIN helper[p] |-> helper[p][k].out])
  PROVE  /\ r \in Seq(Filtered \X Nat) /\ Len(r) = Len(Items(p))
         /\ \A i \in 1 .. Len(Items(p)) : IsTold(r[i], Items(p)[i])
<1>1. FilterTypeOK /\ MapOK(p) /\ ThreadsOK(p)
  BY DEF FilterInv
<1>2. helper[p] \in Seq(HelperRecs) /\ Len(helper[p]) = Chunks(p) /\ DOMAIN helper[p] = 1 .. Chunks(p)
  BY <1>1 DEF FilterTypeOK, MapOK
<1>3. PICK w, l, c : w = Items(p) /\ l = ChunkLen(p) /\ c = Chunks(p)
  OBVIOUS
<1>4. /\ w \in Seq(Filtered) /\ Len(w) \in Nat /\ l \in Nat \ {0} /\ c \in Nat \ {0}
      /\ (c - 1) * l < Len(w) /\ Len(w) <= c * l
  BY <1>1, <1>3, ChunkFacts
<1>5. PICK s : s = [k \in 1 .. c |-> helper[p][k].out]
  OBVIOUS
<1>6. s \in Seq(Seq(Filtered \X Nat)) /\ Len(s) = c /\ s # <<>> /\ \A k \in 1 .. c : s[k] = helper[p][k].out
  <2>1. \A k \in 1 .. c : helper[p][k].out \in Seq(Filtered \X Nat)
    BY <1>1, <1>2, <1>3, ThreadTypes
  <2>2. s \in [1 .. c -> Seq(Filtered \X Nat)] /\ \A k \in 1 .. c : s[k] = helper[p][k].out
    BY <1>5, <2>1
  <2>3. s \in Seq(Seq(Filtered \X Nat)) /\ Len(s) = c
    BY <1>4, <2>2
  <2> QED BY <1>4, <2>2, <2>3
<1>7. ASSUME NEW k \in 1 .. c
      PROVE  Len(s[k]) = Upto(k, l, Len(w)) - (k - 1) * l /\ Fits(s[k], w, (k - 1) * l, Told)
  <2>1. k \in 1 .. Len(helper[p]) /\ k \in 1 .. Chunks(p)
    BY <1>2, <1>3
  <2>2. helper[p][k].at = "done"
    BY <1>2, <2>1 DEF Joined, Through
  <2>3. ThreadOK(p, k)
    BY <1>1, <2>1 DEF ThreadsOK
  <2>4. /\ Len(Chunk(p, k)) = Upto(k, l, Len(w)) - (k - 1) * l /\ Len(Chunk(p, k)) \in Nat
        /\ \A i \in 1 .. Len(Chunk(p, k)) :
             Chunk(p, k)[i] \in Filtered /\ Chunk(p, k)[i] = w[(k - 1) * l + i]
    BY <1>1, <1>3, <2>1, ChunkOf
  <2>5. s[k] = helper[p][k].out /\ s[k] \in Seq(Filtered \X Nat)
    BY <1>6
  <2>6. Len(s[k]) = Len(Chunk(p, k))
    <3>1. Len(s[k]) = (Len(Chunk(p, k)) + 1) - 1
      BY <2>2, <2>3, <2>5 DEF ThreadOK
    <3> QED BY <2>4, <3>1
  <2>7. ASSUME NEW i \in 1 .. Len(s[k]) PROVE <<s[k][i], w[(k - 1) * l + i]>> \in Told
    <3>1. i \in 1 .. Len(Chunk(p, k)) /\ s[k][i] \in Filtered \X Nat
      BY <2>5, <2>6
    <3>2. IsTold(s[k][i], Chunk(p, k)[i])
      BY <2>3, <2>5 DEF ThreadOK
    <3>3. Chunk(p, k)[i] \in Filtered /\ Chunk(p, k)[i] = w[(k - 1) * l + i]
      BY <2>4, <3>1
    <3> QED BY <3>1, <3>2, <3>3 DEF Told
  <2>8. Fits(s[k], w, (k - 1) * l, Told)
    BY <2>7 DEF Fits
  <2> QED BY <2>4, <2>6, <2>8
<1>8. r = FlattenSeq(s)
  BY <1>2, <1>3, <1>5
<1>9. r \in Seq(Filtered \X Nat) /\ Len(r) = Len(w) /\ Fits(r, w, 0, Told)
  <2>1. /\ w \in Seq(Filtered) /\ l \in Nat \ {0} /\ s \in Seq(Seq(Filtered \X Nat)) /\ s # <<>>
        /\ (Len(s) - 1) * l < Len(w) /\ Len(w) <= Len(s) * l
        /\ \A k \in 1 .. Len(s) : /\ Len(s[k]) = Upto(k, l, Len(w)) - (k - 1) * l
                                  /\ Fits(s[k], w, (k - 1) * l, Told)
    BY <1>4, <1>6, <1>7
  <2> QED BY ONLY <1>8, <2>1, FlattenChunks
<1>10. ASSUME NEW i \in 1 .. Len(w) PROVE IsTold(r[i], w[i])
  <2>1. i \in 1 .. Len(r) /\ 0 + i = i
    BY <1>4, <1>9
  <2>2. <<r[i], w[0 + i]>> \in Told
    BY <1>9, <2>1 DEF Fits
  <2> QED BY <2>1, <2>2 DEF Told
<1> QED BY <1>3, <1>9, <1>10

(* The slots go back, and the results are the caller's.                    *)
LEMMA DropSlotsKeeps ==
  ASSUME FilterInv, NEW p \in Filterers, DropSlots(p)
  PROVE  FilterInv'
<1>1. FilterTypeOK /\ MapOK(p) /\ ThreadsOK(p) /\ SlotsOK
  BY DEF FilterInv
<1>2. PICK m \in MapperRecs : m = mapper[p]
  BY <1>1 DEF FilterTypeOK
<1>3. PICK r : r = FlattenSeq([k \in DOMAIN helper[p] |-> helper[p][k].out])
  OBVIOUS
<1>4. /\ r \in Seq(Filtered \X Nat) /\ Len(r) = Len(Items(p))
      /\ \A i \in 1 .. Len(Items(p)) : IsTold(r[i], Items(p)[i])
  BY <1>3, ResultsOfChunks DEF DropSlots
<1>5. PICK n : n = [m EXCEPT !.at = "over", !.slots = 0, !.results = r]
  OBVIOUS
<1>6. mapper' = [mapper EXCEPT ![p] = n] /\ helper' = [helper EXCEPT ![p] = <<>>]
      /\ inUse' = inUse - m.slots /\ UNCHANGED <<filtering, seenAs, memo, readings>>
  BY <1>2, <1>3, <1>5 DEF DropSlots
<1>7. n \in MapperRecs /\ n.at = "over" /\ n.slots = 0 /\ n.results = r
  BY <1>4, <1>5 DEF MapperRecs
<1>8. mapper' \in [Filterers -> MapperRecs] /\ helper' \in [Filterers -> Seq(HelperRecs)]
      /\ Filtered' = Filtered
  <2>1. <<>> \in Seq(HelperRecs)
    OBVIOUS
  <2> QED BY <1>1, <1>6, <1>7, <2>1 DEF FilterTypeOK, Filtered
<1>9. /\ OneMaps(p) /\ mapper'[p] = n /\ helper'[p] = <<>>
      /\ \A q \in Filterers \ {p} : mapper'[q] = mapper[q]
      /\ \A f \in Filtered' : MemoOK(f)'
  BY <1>6, <1>8, CallerMoves
<1>10. /\ IsFiniteSet(SlotsHeld') /\ m.slots \in Nat
       /\ Cardinality(SlotsHeld') = inUse - m.slots
  <2>1. \A q \in Filterers \ {p} : mapper'[q].slots = mapper[q].slots
    BY <1>9
  <2>2. m.slots \in Nat /\ inUse \in Nat
    BY <1>1 DEF FilterTypeOK, MapperRecs
  <2>3. mapper'[p].slots = 0 /\ mapper[p].slots = m.slots
    BY <1>2, <1>7, <1>9
  <2>4. /\ IsFiniteSet(SlotsHeld')
        /\ Cardinality(SlotsHeld') = inUse - mapper[p].slots + mapper'[p].slots
    BY <1>1, <1>6, <1>8, <2>1, <2>3, SlotsDiffer
  <2> QED BY <2>2, <2>3, <2>4
<1>11. inUse' \in Nat /\ SlotsOK'
  <2>1. inUse' = Cardinality(SlotsHeld') /\ inUse' \in Nat
    BY <1>6, <1>10, FS_CardinalityType
  <2>2. inUse \in Nat /\ inUse <= MaxHelpers /\ MaxHelpers \in Nat
    BY <1>1, FilteringsOK DEF SlotsOK, FilterTypeOK
  <2>3. inUse' <= MaxHelpers
    BY <1>6, <1>10, <2>2
  <2> QED BY <1>10, <2>1, <2>3 DEF SlotsOK
<1>12. FilterTypeOK'
  BY <1>1, <1>6, <1>8, <1>11, TypesKept DEF FilterTypeOK
<1>13. Items(p)' = Items(p)
  BY <1>6 DEF Items
<1>14. MapOK(p)' /\ ThreadsOK(p)'
  BY <1>4, <1>6, <1>7, <1>9, <1>13 DEF MapOK, ThreadsOK, IsTold
<1> QED BY <1>9, <1>11, <1>12, <1>14, OneMapKeepsInv

(* A file is written to or goes: what was kept of it stays.                *)
LEMMA FilesChange ==
  ASSUME FilterInv, NEW f \in DOMAIN seenAs, FileChanges(f) \/ FileGoes(f)
  PROVE  FilterInv'
<1>1. FilterTypeOK /\ SlotsOK
  BY DEF FilterInv
<1>2. /\ filtering' \in [lists : [Filterers -> Seq(Filtered) \ {<<>>}], files : [Filtered -> Nat],
                         edits : Nat, fails : Nat]
      /\ filtering'.lists = filtering.lists /\ filtering'.files = filtering.files
  <2>1. filtering' = [filtering EXCEPT !.edits = @ - 1] /\ filtering.edits > 0
    BY DEF FileChanges, FileGoes
  <2>2. filtering.edits - 1 \in Nat
    BY <1>1, <2>1 DEF FilterTypeOK
  <2> QED BY <1>1, <2>1, <2>2 DEF FilterTypeOK
<1>3. seenAs' \in [Filtered -> Nat]
  <2>1. CASE FileChanges(f)
    BY <1>1, <2>1 DEF FileChanges, FilterTypeOK
  <2>2. CASE FileGoes(f)
    BY <1>1, <2>2 DEF FileGoes, FilterTypeOK, NoContents
  <2> QED BY <2>1, <2>2
<1>4. UNCHANGED <<inUse, mapper, helper, memo, readings>> /\ Filtered' = Filtered
  BY <1>2 DEF FileChanges, FileGoes, Filtered
<1>5. FilterTypeOK'
  BY <1>1, <1>2, <1>3, <1>4, TypesKept DEF FilterTypeOK
<1>6. SlotsOK'
  BY <1>1, <1>4, SlotsStay
<1>7. MemoGrows /\ \A g \in Filtered' : MemoOK(g)'
  BY <1>4, MemoStays
<1>8. ASSUME NEW q \in Filterers PROVE MapOK(q)' /\ ThreadsOK(q)'
  <2>1. PICK p : p \notin Filterers
    BY NoSetContainsEverything
  <2>2. OneMaps(p) /\ q \in Filterers \ {p}
    BY <1>2, <1>4, <1>7, <2>1 DEF OneMaps
  <2> QED BY <2>2, OthersMap
<1> QED BY <1>5, <1>6, <1>7, <1>8 DEF FilterInv

(* The invariant holds before any step filters its files.                  *)
LEMMA FilterBegins == FilterInit => FilterInv
<1> SUFFICES ASSUME FilterInit PROVE FilterInv
  OBVIOUS
<1>1. /\ filtering \in [lists : [Filterers -> Seq(Filtered) \ {<<>>}], files : [Filtered -> Nat],
                        edits : Nat, fails : Nat]
      /\ seenAs = filtering.files /\ inUse = 0
      /\ mapper = [p \in Filterers |-> Mapping("begin")]
      /\ helper = [p \in Filterers |-> <<>>]
      /\ memo = [f \in Filtered |-> [value |-> NoContents, by |-> Unowned]]
      /\ readings = [f \in Filtered |-> {}]
  BY FilteringsOK DEF FilterInit, Filtered
<1>2. Mapping("begin") \in MapperRecs
  <2>1. <<>> \in Seq(Filtered \X Nat)
    OBVIOUS
  <2> QED BY <2>1 DEF Mapping, MapperRecs
<1>3. <<>> \in Seq(HelperRecs)
  OBVIOUS
<1>4. FilterTypeOK
  BY <1>1, <1>2, <1>3 DEF FilterTypeOK, NoContents
<1>5. SlotsOK
  <2>1. \A p \in Filterers : SlotsOf(p) = {}
    BY <1>1 DEF SlotsOf, Mapping
  <2>2. SlotsHeld = {}
    BY <2>1 DEF SlotsHeld
  <2>3. MaxHelpers \in Nat
    BY FilteringsOK
  <2> QED BY <1>1, <2>2, <2>3, FS_EmptySet DEF SlotsOK
<1>6. \A p \in Filterers : MapOK(p) /\ ThreadsOK(p)
  BY <1>1 DEF MapOK, ThreadsOK, Mapping
<1>7. \A f \in Filtered : MemoOK(f)
  BY <1>1 DEF MemoOK
<1> QED BY <1>4, <1>5, <1>6, <1>7 DEF FilterInv

(* Every step keeps the invariant.                                         *)
LEMMA FilterNextKeeps == FilterInv /\ [FilterNext]_filterVars => FilterInv'
<1> SUFFICES ASSUME FilterInv, [FilterNext]_filterVars PROVE FilterInv'
  OBVIOUS
<1>1. CASE UNCHANGED filterVars
  <2>1. UNCHANGED <<filtering, seenAs, inUse, mapper, helper, memo, readings>> /\ Filtered' = Filtered
    BY <1>1 DEF filterVars, Filtered
  <2>2. FilterTypeOK /\ SlotsOK
    BY DEF FilterInv
  <2>3. FilterTypeOK'
    BY <2>1, <2>2, TypesKept DEF FilterTypeOK
  <2>4. SlotsOK'
    BY <2>1, <2>2, SlotsStay
  <2>5. MemoGrows /\ \A g \in Filtered' : MemoOK(g)'
    BY <2>1, MemoStays
  <2>6. ASSUME NEW q \in Filterers PROVE MapOK(q)' /\ ThreadsOK(q)'
    <3>1. PICK p : p \notin Filterers
      BY NoSetContainsEverything
    <3>2. OneMaps(p) /\ q \in Filterers \ {p}
      BY <2>1, <2>5, <3>1 DEF OneMaps
    <3> QED BY <3>2, OthersMap
  <2> QED BY <2>3, <2>4, <2>5, <2>6 DEF FilterInv
<1>2. ASSUME NEW p \in Filterers, MapActs(p) PROVE FilterInv'
  <2>1. CASE \E t \in HelpersOf(p) : ThreadActs(t)
    BY <2>1, ThreadKeeps
  <2>2. CASE BeginMap(p) \/ Reserve(p) \/ StartHelpers(p) \/ TakeOver(p) \/ DropSlots(p)
    BY <2>2, BeginMapKeeps, ReserveKeeps, StartHelpersKeeps, TakeOverKeeps, DropSlotsKeeps
  <2> QED BY <1>2, <2>1, <2>2 DEF MapActs
<1>3. ASSUME NEW f \in DOMAIN seenAs, FileChanges(f) \/ FileGoes(f) PROVE FilterInv'
  BY <1>3, FilesChange
<1> QED BY <1>1, <1>2, <1>3 DEF FilterNext

(* The invariant of the steps that filter their files side by side.        *)
THEOREM FilterInvariance == FilterSpec => []FilterInv
<1>1. FilterInit => FilterInv
  BY FilterBegins
<1>2. FilterInv /\ [FilterNext]_filterVars => FilterInv'
  BY FilterNextKeeps
<1> QED BY <1>1, <1>2, PTL DEF FilterSpec

(* The helper threads that run are no more than the slots that are held:   *)
(* the first thread of a call is the caller, and a call has a chunk more   *)
(* than it has slots, at most.                                             *)
LEMMA RunningHaveSlots ==
  ASSUME FilterInv,
         NEW running, running = {t \in UNION {HelpersOf(p) : p \in Filterers} :
                                  t[2] > 1 /\ helper[t[1]][t[2]].at \notin {"unstarted", "done"}}
  PROVE  Cardinality(running) <= MaxHelpers
<1>1. FilterTypeOK /\ SlotsOK
  BY DEF FilterInv
<1>2. ASSUME NEW t \in running PROVE t[1] \in Filterers /\ t[2] \in Nat /\ t[2] > 1
                                     /\ t = <<t[1], t[2]>> /\ <<t[1], t[2] - 1>> \in SlotsHeld
  <2>1. PICK p \in Filterers : t \in HelpersOf(p)
    OBVIOUS
  <2>2. PICK k \in DOMAIN helper[p] : t = <<p, k>>
    BY <2>1 DEF HelpersOf
  <2>3. k \in 1 .. Len(helper[p]) /\ k > 1
    <3>1. helper[p] \in Seq(HelperRecs)
      BY <1>1 DEF FilterTypeOK
    <3>2. k > 1
      BY <2>2
    <3> QED BY <2>2, <3>1, <3>2
  <2>4. k \in 1 .. Chunks(p)
    BY <2>3, ThreadFacts
  <2>5. Chunks(p) \in Nat /\ Chunks(p) <= mapper[p].slots + 1 /\ mapper[p].slots \in Nat
    BY <1>1, ChunkFacts DEF FilterTypeOK, MapperRecs
  <2>6. k - 1 \in 1 .. mapper[p].slots /\ k \in Nat
    BY <2>3, <2>4, <2>5
  <2>7. <<p, k - 1>> \in SlotsHeld
    BY <2>6 DEF SlotsHeld, SlotsOf
  <2> QED BY <2>2, <2>3, <2>6, <2>7
<1> DEFINE g == [t \in running |-> <<t[1], t[2] - 1>>]
<1>3. g \in Injection(running, SlotsHeld)
  <2>1. g \in [running -> SlotsHeld]
    BY <1>2
  <2>2. ASSUME NEW t \in running, NEW u \in running, g[t] = g[u] PROVE t = u
    <3>1. t[1] = u[1] /\ t[2] - 1 = u[2] - 1
      BY <2>2
    <3>2. /\ t[2] \in Nat /\ u[2] \in Nat
          /\ t = <<t[1], t[2]>> /\ u = <<u[1], u[2]>>
      BY <1>2
    <3>3. t[2] = u[2]
      BY <3>1, <3>2
    <3> QED BY <3>1, <3>2, <3>3
  <2> HIDE DEF g
  <2>3. DOMAIN g = running
    BY <2>1
  <2> QED BY <2>1, <2>2, <2>3 DEF Injection, IsInjective
<1>4. IsFiniteSet(running) /\ Cardinality(running) <= Cardinality(SlotsHeld)
  <2> HIDE DEF g
  <2> QED BY <1>1, <1>3, FS_Injection DEF SlotsOK
<1>5. Cardinality(running) \in Nat /\ Cardinality(SlotsHeld) \in Nat /\ MaxHelpers \in Nat
      /\ Cardinality(SlotsHeld) <= MaxHelpers
  BY <1>1, <1>4, FS_CardinalityType, FilteringsOK DEF SlotsOK
<1> QED BY <1>4, <1>5

(* The helper threads of all steps keep to the budget, which is given back *)
(* to the last of them; each call returns its results in the order of its  *)
(* files; and what is told of a file was computed once (par.rs).           *)
THEOREM ChecksAreOrderly == FilterSpec => [](BudgetIsKept /\ ResultsInOrder /\ ComputedOnce)
<1>1. FilterInv => BudgetIsKept
  BY RunningHaveSlots DEF BudgetIsKept, FilterInv, SlotsOK, SlotsHeld
<1>2. FilterInv => ResultsInOrder
  <2> SUFFICES ASSUME FilterInv, NEW p \in Filterers, mapper[p].at = "over"
               PROVE  /\ Len(mapper[p].results) = Len(Items(p))
                      /\ \A i \in DOMAIN Items(p) : mapper[p].results[i][1] = Items(p)[i]
    BY DEF ResultsInOrder
  <2>1. MapOK(p) /\ DOMAIN Items(p) = 1 .. Len(Items(p))
    BY ChunkFacts DEF FilterInv
  <2> QED BY <2>1 DEF MapOK, IsTold
<1>3. FilterInv => ComputedOnce
  <2> SUFFICES ASSUME FilterInv, NEW f \in DOMAIN readings
               PROVE  /\ Cardinality(readings[f]) <= 1
                      /\ \A p \in Filterers : \A i \in DOMAIN mapper[p].results :
                           LET r == mapper[p].results[i]
                           IN r[1] = f /\ r[2] # NoContents => \E x \in readings[f] : x[2] = r[2]
    BY DEF ComputedOnce
  <2>1. FilterTypeOK /\ f \in Filtered /\ MemoOK(f)
    BY DEF FilterInv, FilterTypeOK
  <2>2. Cardinality(readings[f]) <= 1
    <3>1. CASE readings[f] = {}
      BY <3>1, FS_EmptySet
    <3>2. CASE readings[f] # {}
      <4>1. PICK x : readings[f] = {x}
        BY <2>1, <3>2 DEF MemoOK
      <4> QED BY <4>1, FS_Singleton
    <3> QED BY <3>1, <3>2
  <2>3. ASSUME NEW p \in Filterers, NEW i \in DOMAIN mapper[p].results,
               mapper[p].results[i][1] = f, mapper[p].results[i][2] # NoContents
        PROVE  \E x \in readings[f] : x[2] = mapper[p].results[i][2]
    <3>1. mapper[p].results \in Seq(Filtered \X Nat) /\ MapOK(p)
      BY <2>1 DEF FilterTypeOK, MapperRecs, FilterInv
    <3>2. i \in 1 .. Len(mapper[p].results)
      BY <3>1
    <3>3. mapper[p].at = "over"
      BY <3>1, <3>2 DEF MapOK
    <3>4. i \in 1 .. Len(Items(p)) /\ IsTold(mapper[p].results[i], Items(p)[i])
      BY <3>1, <3>2, <3>3 DEF MapOK
    <3>5. memo[f].value = mapper[p].results[i][2]
      BY <2>3, <3>4 DEF IsTold
    <3>6. PICK t \in Threads : readings[f] = {<<t, memo[f].value>>}
      BY <2>1, <2>3, <3>5 DEF MemoOK
    <3> QED BY <3>5, <3>6
  <2> QED BY <2>2, <2>3
<1> QED BY <1>1, <1>2, <1>3, FilterInvariance, PTL

(* The thread that holds the mutex of a file's value is computing it.      *)
OwnerOK(f, t) ==
  /\ t[1] \in Filterers /\ t[2] \in 1 .. Len(helper[t[1]])
  /\ helper[t[1]][t[2]].at = "inside" /\ FileOf(t) = f
OwnersOK == \A f \in Filtered : memo[f].by # Unowned => OwnerOK(f, memo[f].by)

(* A thread that is left alone in its chunk still holds what it holds.     *)
LEMMA OwnerStays ==
  ASSUME NEW f, NEW t, OwnerOK(f, t), helper'[t[1]][t[2]] = helper[t[1]][t[2]],
         t[2] \in 1 .. Len(helper'[t[1]]), filtering'.lists = filtering.lists,
         mapper'[t[1]].slots = mapper[t[1]].slots
  PROVE  OwnerOK(f, t)'
<1>1. FileOf(t)' = FileOf(t)
  BY DEF FileOf, Chunk, ChunkLen, Items, Lower
<1> QED BY <1>1 DEF OwnerOK

(* A step's call of map changes, while no thread of it holds a value.      *)
LEMMA OwnersElsewhere ==
  ASSUME FilterInv, OwnersOK, NEW p \in Filterers, memo' = memo, Filtered' = Filtered,
         filtering'.lists = filtering.lists,
         \A q \in Filterers \ {p} : helper'[q] = helper[q] /\ mapper'[q] = mapper[q],
         \A k \in 1 .. Len(helper[p]) : helper[p][k].at # "inside"
  PROVE  OwnersOK'
<1>1. ASSUME NEW f \in Filtered, memo[f].by # Unowned PROVE OwnerOK(f, memo[f].by)'
  <2>1. PICK t : t = memo[f].by
    OBVIOUS
  <2>2. OwnerOK(f, t)
    BY <1>1, <2>1 DEF OwnersOK
  <2>3. t[1] \in Filterers \ {p} /\ t[2] \in 1 .. Len(helper[t[1]])
    BY <2>2 DEF OwnerOK
  <2>4. OwnerOK(f, t)'
    BY <2>2, <2>3, OwnerStays
  <2> QED BY <2>1, <2>4
<1> QED BY <1>1 DEF OwnersOK

(* A thread of a call goes on.                                             *)
OneGoes(p, k, h) == helper' = [helper EXCEPT ![p] = [@ EXCEPT ![k] = h]]

(* A thread goes on, which is not the one that holds this value.           *)
LEMMA OwnersBeside ==
  ASSUME FilterInv, OwnersOK, NEW p \in Filterers, NEW k \in 1 .. Len(helper[p]), NEW h,
         OneGoes(p, k, h), Filtered' = Filtered,
         filtering'.lists = filtering.lists, mapper' = mapper,
         NEW f \in Filtered, memo[f].by # Unowned, NEW t, t = memo[f].by,
         t[1] # p \/ t[2] # k
  PROVE  OwnerOK(f, t)'
<1>1. OwnerOK(f, t)
  BY DEF OwnersOK
<1>2. helper \in [Filterers -> Seq(HelperRecs)]
  BY DEF FilterInv, FilterTypeOK
<1>3. helper'[p] = [helper[p] EXCEPT ![k] = h] /\ \A q \in Filterers \ {p} : helper'[q] = helper[q]
  BY <1>2 DEF OneGoes
<1>4. helper[p] \in Seq(HelperRecs)
  BY <1>2
<1>5. Len(helper'[p]) = Len(helper[p]) /\ \A i \in 1 .. Len(helper[p]) : i # k => helper'[p][i] = helper[p][i]
  BY <1>3, <1>4
<1>6. helper'[t[1]][t[2]] = helper[t[1]][t[2]] /\ t[2] \in 1 .. Len(helper'[t[1]])
  <2>1. t[1] \in Filterers /\ t[2] \in 1 .. Len(helper[t[1]])
    BY <1>1 DEF OwnerOK
  <2>2. CASE t[1] = p
    BY <1>5, <2>1, <2>2
  <2>3. CASE t[1] # p
    BY <1>3, <2>1, <2>3
  <2> QED BY <2>2, <2>3
<1> QED BY <1>1, <1>6, OwnerStays

(* A thread that goes to another place, and holds no value.                *)
LEMMA OwnersStay ==
  ASSUME FilterInv, OwnersOK, NEW p \in Filterers, NEW k \in 1 .. Len(helper[p]), NEW h,
         OneGoes(p, k, h), Filtered' = Filtered,
         filtering'.lists = filtering.lists, mapper' = mapper, memo' = memo,
         helper[p][k].at # "inside"
  PROVE  OwnersOK'
<1>1. ASSUME NEW f \in Filtered, memo[f].by # Unowned PROVE OwnerOK(f, memo[f].by)'
  <2>1. PICK t : t = memo[f].by
    OBVIOUS
  <2>2. t[1] # p \/ t[2] # k
    BY <1>1, <2>1 DEF OwnersOK, OwnerOK
  <2>3. OwnerOK(f, t)'
    BY <1>1, <2>1, <2>2, OwnersBeside
  <2> QED BY <2>1, <2>3
<1> QED BY <1>1 DEF OwnersOK

(* No step leaves a value locked by a thread that is elsewhere.            *)
LEMMA OwnersKept ==
  ASSUME FilterInv, OwnersOK, [FilterNext]_filterVars
  PROVE  OwnersOK'
<1>1. /\ FilterTypeOK /\ \A p \in Filterers : MapOK(p)
      /\ helper \in [Filterers -> Seq(HelperRecs)] /\ mapper \in [Filterers -> MapperRecs]
      /\ \A p \in Filterers : DOMAIN helper[p] = 1 .. Len(helper[p])
  BY DEF FilterInv, FilterTypeOK
<1>2. CASE UNCHANGED filterVars
  BY <1>2 DEF filterVars, OwnersOK, OwnerOK, FileOf, Chunk, ChunkLen, Items, Filtered, Lower
<1>3. ASSUME NEW f \in DOMAIN seenAs, FileChanges(f) \/ FileGoes(f) PROVE OwnersOK'
  <2>1. UNCHANGED <<inUse, mapper, helper, memo, readings>>
    BY <1>3 DEF FileChanges, FileGoes
  <2>2. filtering' = [filtering EXCEPT !.edits = @ - 1]
    BY <1>3 DEF FileChanges, FileGoes
  <2>3. filtering'.lists = filtering.lists /\ filtering'.files = filtering.files
    BY <1>1, <2>2 DEF FilterTypeOK
  <2>4. Filtered' = Filtered
    BY <2>3 DEF Filtered
  <2>5. ASSUME NEW g \in Filtered, memo[g].by # Unowned PROVE OwnerOK(g, memo[g].by)'
    <3>1. PICK t : t = memo[g].by
      OBVIOUS
    <3>2. OwnerOK(g, t)
      BY <2>5, <3>1 DEF OwnersOK
    <3>3. t[2] \in 1 .. Len(helper[t[1]])
      BY <3>2 DEF OwnerOK
    <3>4. OwnerOK(g, t)'
      BY <2>1, <2>3, <3>2, <3>3, OwnerStays
    <3> QED BY <2>1, <3>1, <3>4
  <2> QED BY <2>1, <2>4, <2>5 DEF OwnersOK
<1>4. ASSUME NEW p \in Filterers, BeginMap(p) \/ Reserve(p) PROVE OwnersOK'
  <2>1. /\ UNCHANGED <<filtering, helper, memo>> /\ mapper[p].at # "join"
        /\ \A q \in Filterers \ {p} : mapper'[q] = mapper[q]
    BY <1>1, <1>4 DEF BeginMap, Reserve
  <2>2. helper[p] = <<>> /\ Filtered' = Filtered
    BY <1>1, <2>1 DEF MapOK, Filtered
  <2> QED BY <2>1, <2>2, OwnersElsewhere
<1>5. ASSUME NEW p \in Filterers, StartHelpers(p) PROVE OwnersOK'
  <2>1. /\ memo' = memo /\ mapper[p].at = "spawn"
        /\ \A q \in Filterers \ {p} : mapper'[q] = mapper[q] /\ helper'[q] = helper[q]
    BY <1>1, <1>5 DEF StartHelpers, To
  <2>2. PICK n : filtering' = [filtering EXCEPT !.fails = @ - n]
    BY <1>5 DEF StartHelpers
  <2>3. filtering'.lists = filtering.lists /\ filtering'.files = filtering.files
    BY <1>1, <2>2 DEF FilterTypeOK
  <2>4. helper[p] = <<>> /\ Filtered' = Filtered
    BY <1>1, <2>1, <2>3 DEF MapOK, Filtered
  <2> QED BY <2>1, <2>3, <2>4, OwnersElsewhere
<1>6. ASSUME NEW p \in Filterers, TakeOver(p) PROVE OwnersOK'
  <2>1. PICK k \in 1 .. Len(helper[p]) :
          helper[p][k].at = "unstarted" /\ helper' = [helper EXCEPT ![p][k].at = "look"]
    BY <1>1, <1>6 DEF TakeOver
  <2>2. PICK h : h = [helper[p][k] EXCEPT !.at = "look"]
    OBVIOUS
  <2>3. OneGoes(p, k, h)
    BY <2>1, <2>2 DEF OneGoes
  <2>4. Filtered' = Filtered /\ filtering' = filtering /\ mapper' = mapper /\ memo' = memo
    BY <1>6 DEF TakeOver, Filtered
  <2> QED BY <2>1, <2>3, <2>4, OwnersStay
<1>7. ASSUME NEW p \in Filterers, DropSlots(p) PROVE OwnersOK'
  <2>1. /\ UNCHANGED <<filtering, memo>> /\ \A k \in 1 .. Len(helper[p]) : helper[p][k].at = "done"
        /\ \A q \in Filterers \ {p} : mapper'[q] = mapper[q] /\ helper'[q] = helper[q]
    BY <1>1, <1>7 DEF DropSlots, Joined, Through
  <2>2. Filtered' = Filtered
    BY <2>1 DEF Filtered
  <2> QED BY <2>1, <2>2, OwnersElsewhere
<1>8. ASSUME NEW p \in Filterers, NEW t \in HelpersOf(p), ThreadActs(t) PROVE OwnersOK'
  <2>1. PICK k \in 1 .. Len(helper[p]) : t = <<p, k>> /\ t[1] = p /\ t[2] = k
    BY <1>1, <1>8 DEF HelpersOf
  <2>2. helper[p] \in Seq(HelperRecs) /\ Filtered' = Filtered /\ filtering' = filtering /\ mapper' = mapper
    BY <1>1, <1>8 DEF ThreadActs, LookInMemo, LockMemo, InitMemo, Filtered
  <2>4. CASE LookInMemo(t)
    <3>1. PICK h : OneGoes(p, k, h)
      <4>1. CASE memo[FileOf(t)].value # NoContents
        BY <2>1, <2>4, <4>1 DEF LookInMemo, Answers, OneGoes
      <4>2. CASE memo[FileOf(t)].value = NoContents
        <5>1. helper' = [helper EXCEPT ![p][k].at = "lock"]
          BY <2>1, <2>4, <4>2 DEF LookInMemo
        <5> QED BY <5>1 DEF OneGoes
      <4> QED BY <4>1, <4>2
    <3>2. memo' = memo /\ helper[p][k].at # "inside"
      BY <2>1, <2>4 DEF LookInMemo, ThreadAt
    <3> QED BY <2>2, <3>1, <3>2, OwnersStay
  <2>5. CASE LockMemo(t)
    <3>1. PICK f : f = FileOf(t)
      OBVIOUS
    <3>2. PICK h : h = [helper[p][k] EXCEPT !.at = "inside"]
      OBVIOUS
    <3>3. /\ OneGoes(p, k, h)
          /\ memo' = [memo EXCEPT ![f].by = t] /\ helper[p][k].at = "lock"
      BY <2>1, <2>5, <3>1, <3>2 DEF LockMemo, ThreadAt, OneGoes
    <3>4. ASSUME NEW g \in Filtered, memo'[g].by # Unowned PROVE OwnerOK(g, memo[g].by)'
      <4>1. CASE g = f
        <5>1. memo'[g].by = t
          BY <1>1, <3>3, <3>4, <4>1 DEF FilterTypeOK
        <5>2. helper'[p] = [helper[p] EXCEPT ![k] = h]
          BY <1>1, <3>3 DEF OneGoes
        <5>3. helper'[p][k] = h /\ Len(helper'[p]) = Len(helper[p])
          BY <2>1, <2>2, <5>2
        <5>4. helper[p][k] \in HelperRecs
          BY <2>1, <2>2
        <5>5. helper'[p][k].at = "inside" /\ helper'[p][k].pos = helper[p][k].pos
          BY <3>2, <5>3, <5>4 DEF HelperRecs
        <5>6. FileOf(t)' = FileOf(t)
          BY <2>1, <2>2, <5>5 DEF FileOf, Chunk, ChunkLen, Items, Lower
        <5> QED BY <2>1, <3>1, <4>1, <5>1, <5>3, <5>5, <5>6 DEF OwnerOK
      <4>2. CASE g # f
        <5>1. PICK u : u = memo[g].by
          OBVIOUS
        <5>2. memo'[g].by = u /\ u # Unowned
          BY <1>1, <3>3, <3>4, <4>2, <5>1 DEF FilterTypeOK
        <5>3. u[1] # p \/ u[2] # k
          BY <3>3, <5>1, <5>2 DEF OwnersOK, OwnerOK
        <5>4. OwnerOK(g, u)'
          BY <2>2, <3>3, <5>1, <5>2, <5>3, OwnersBeside
        <5> QED BY <5>2, <5>4
      <4> QED BY <4>1, <4>2
    <3> QED BY <2>2, <3>4 DEF OwnersOK
  <2>6. CASE InitMemo(t)
    <3>1. PICK f : f = FileOf(t)
      OBVIOUS
    <3>2. PICK v : memo' = [memo EXCEPT ![f] = [value |-> v, by |-> Unowned]]
      <4> DEFINE w == IF Known(f) THEN memo[f].value ELSE seenAs[f]
      <4>1. memo' = [memo EXCEPT ![f] = [value |-> IF w = NoContents THEN @.value ELSE w, by |-> Unowned]]
        BY <2>6, <3>1 DEF InitMemo
      <4> QED BY <4>1
    <3>3. PICK h : OneGoes(p, k, h)
      BY <2>1, <2>6 DEF InitMemo, Answers, OneGoes
    <3>4. ASSUME NEW g \in Filtered, memo'[g].by # Unowned PROVE OwnerOK(g, memo[g].by)'
      <4>1. PICK u : u = memo[g].by
        OBVIOUS
      <4>2. g # f /\ memo'[g].by = u /\ u # Unowned
        BY <1>1, <3>2, <3>4, <4>1 DEF FilterTypeOK
      <4>3. u[1] # p \/ u[2] # k
        <5>1. FileOf(u) = g
          BY <4>1, <4>2 DEF OwnersOK, OwnerOK
        <5> QED BY <2>1, <3>1, <4>2, <5>1 DEF FileOf
      <4>4. OwnerOK(g, u)'
        BY <2>2, <3>3, <4>1, <4>2, <4>3, OwnersBeside
      <4> QED BY <4>2, <4>4
    <3> QED BY <2>2, <3>4 DEF OwnersOK
  <2> QED BY <1>8, <2>4, <2>5, <2>6 DEF ThreadActs
<1> QED BY <1>2, <1>3, <1>4, <1>5, <1>6, <1>7, <1>8 DEF FilterNext, MapActs

(* The first thread of a call that is not through, or the one that holds   *)
(* the value it waits for, can go on.                                      *)
LEMMA SomeFilterGoesOn ==
  ASSUME FilterInv, OwnersOK, NEW p \in Filterers, mapper[p].at # "over"
  PROVE  \E q \in Filterers : FilterGoesOn(q)
<1>1. /\ FilterTypeOK /\ mapper[p] \in MapperRecs /\ helper[p] \in Seq(HelperRecs)
      /\ \A q \in Filterers : DOMAIN helper[q] = 1 .. Len(helper[q]) /\ MapOK(q)
  <2>1. FilterTypeOK /\ \A q \in Filterers : MapOK(q)
    BY DEF FilterInv
  <2>2. mapper \in [Filterers -> MapperRecs] /\ helper \in [Filterers -> Seq(HelperRecs)]
    BY <2>1 DEF FilterTypeOK
  <2>3. ASSUME NEW q \in Filterers PROVE DOMAIN helper[q] = 1 .. Len(helper[q])
    <3>1. helper[q] \in Seq(HelperRecs)
      BY <2>2
    <3> QED BY <3>1
  <2> QED BY <2>1, <2>2, <2>3
<1>2. SUFFICES ASSUME mapper[p].at = "join", ~Joined(p) PROVE \E q \in Filterers : FilterGoesOn(q)
  BY <1>1 DEF FilterGoesOn, MapperRecs
<1>3. PICK k \in 1 .. Len(helper[p]) : ~Through(p, k) /\ \A i \in 1 .. k - 1 : Through(p, i)
  <2> DEFINE D == {n \in Nat : n <= Len(helper[p]) => \A i \in 1 .. n : Through(p, i)}
  <2>1. SUFFICES ASSUME \A k \in 1 .. Len(helper[p]) : (\A i \in 1 .. k - 1 : Through(p, i)) => Through(p, k)
                 PROVE  FALSE
    OBVIOUS
  <2>2. 0 \in D
    OBVIOUS
  <2>3. ASSUME NEW n \in Nat, n \in D PROVE n + 1 \in D
    <3>1. SUFFICES ASSUME n + 1 <= Len(helper[p]) PROVE \A i \in 1 .. n + 1 : Through(p, i)
      OBVIOUS
    <3>2. Len(helper[p]) \in Nat /\ n + 1 \in 1 .. Len(helper[p]) /\ (n + 1) - 1 = n
      BY <1>1, <3>1
    <3>3. \A i \in 1 .. n : Through(p, i)
      BY <2>3, <3>1, <3>2
    <3>4. Through(p, n + 1)
      BY <2>1, <3>2, <3>3
    <3>5. \A i \in 1 .. n + 1 : i \in 1 .. n \/ i = n + 1
      OBVIOUS
    <3> QED BY <3>3, <3>4, <3>5
  <2>4. Nat \subseteq D
    <3> HIDE DEF D
    <3> QED BY <2>2, <2>3, SetInduction
  <2>5. Len(helper[p]) \in D /\ Len(helper[p]) \in Nat
    BY <1>1, <2>4
  <2> QED BY <1>1, <1>2, <2>5 DEF Joined
<1>4. helper[p][k] \in HelperRecs /\ k \in DOMAIN helper[p]
  BY <1>1, <1>3
<1>5. CASE helper[p][k].at \in {"unstarted", "look", "inside"}
  BY <1>2, <1>3, <1>4, <1>5 DEF FilterGoesOn
<1>6. CASE helper[p][k].at = "lock"
  <2>1. PICK f : f = FileOf(<<p, k>>)
    OBVIOUS
  <2>2. f \in Filtered
    <3>1. /\ helper[p][k].pos \in Nat \ {0} /\ helper[p][k].pos <= Len(Chunk(p, k))
          /\ Chunk(p, k) \in Seq(Filtered) /\ Len(Chunk(p, k)) \in Nat
      BY <1>6, ThreadFacts DEF HelperRecs
    <3>2. f = Chunk(p, k)[helper[p][k].pos]
      BY <2>1 DEF FileOf
    <3> QED BY <3>1, <3>2
  <2>3. CASE memo[f].by = Unowned
    BY <1>2, <1>4, <1>6, <2>1, <2>3 DEF FilterGoesOn
  <2>4. CASE memo[f].by # Unowned
    <3>1. PICK t : t = memo[f].by
      OBVIOUS
    <3>2. t[1] \in Filterers /\ t[2] \in 1 .. Len(helper[t[1]]) /\ helper[t[1]][t[2]].at = "inside"
      BY <2>2, <2>4, <3>1 DEF OwnersOK, OwnerOK
    <3>3. helper[t[1]] # <<>>
      <4>1. helper[t[1]] \in Seq(HelperRecs)
        BY <1>1, <3>2 DEF FilterTypeOK
      <4> QED BY <3>2, <4>1
    <3>4. mapper[t[1]].at = "join" /\ t[2] \in DOMAIN helper[t[1]]
      BY <1>1, <3>2, <3>3 DEF MapOK
    <3> QED BY <3>2, <3>4 DEF FilterGoesOn
  <2> QED BY <2>3, <2>4
<1> QED BY <1>3, <1>4, <1>5, <1>6 DEF HelperRecs, Through

(* Until all steps have filtered their files, a thread of one of them can  *)
(* go on: whoever holds the value of a file is computing it, and a chunk   *)
(* without a thread waits for nothing but those before it (par.rs 85-132). *)
THEOREM FiltersGoOn ==
  FilterSpec => []((\E p \in Filterers : mapper[p].at # "over") => \E p \in Filterers : FilterGoesOn(p))
<1>1. FilterInit => OwnersOK
  BY DEF FilterInit, OwnersOK, Filtered
<1>2. FilterInv /\ OwnersOK /\ [FilterNext]_filterVars => OwnersOK'
  BY OwnersKept
<1>3. FilterInv /\ OwnersOK =>
        ((\E p \in Filterers : mapper[p].at # "over") => \E p \in Filterers : FilterGoesOn(p))
  BY SomeFilterGoesOn
<1> QED BY <1>1, <1>2, <1>3, FilterInvariance, PTL DEF FilterSpec
(***************************************************************************)
(* How the fixers go over a list of files, in its order.                   *)
(***************************************************************************)
(* What the fixers of a list are made of.                                  *)
Disk    == DOMAIN fixList.disk
Sound   == {"clean", "dirty", "odd"}
Results == [item : Nat, got : {"same", "clean", "error", "garbage"}]
CrewRecs   == [at : {"off", "claim", "asleep", "work", "gone"}, item : Nat]
CallerRecs == [at : {"begin", "recv", "drain", "writing", "next", "notify", "failed", "stopped",
                     "loop", "join"},
               got : {"none", "same", "clean", "error", "garbage"}]
FixTypeOK ==
  /\ fixList \in FixLists /\ onDisk \in [Disk -> Sound \cup {"torn"}]
  /\ round \in {"identify", "fix", "alone", "over"}
  /\ ahead \in [claimed : Nat, emitted : Nat, stop : BOOLEAN]
  /\ crew \in [Crew -> CrewRecs]
  /\ channel \in Seq(Results) /\ held \in SUBSET Results
  /\ caller \in CallerRecs
  /\ identities \in Seq(Int) /\ failedAt \in Nat

(* Whether threads read the files of the pass; how many entries are        *)
(* handled, the one that is being handled too; and what is due of an entry. *)
Threaded == round # "alone" /\ Started # {} /\ caller.at # "begin"
Handling == \/ caller.at \in {"writing", "next", "failed", "stopped"}
            \/ caller.at = "join" /\ failedAt # 0
Low    == IF Handling THEN ahead.emitted + 1 ELSE ahead.emitted
Due(i) == IF round = "identify" \/ (round = "fix" /\ ~IsFirst(i)) THEN "same"
          ELSE FixOf(fixList.files[i], fixList.disk)
Working == {w \in Crew : crew[w].at = "work"}

(* Where the threads and the caller are in a pass.                         *)
CrewOK ==
  \A w \in Crew : /\ crew[w].at # "off" <=> Threaded /\ w \in Started
                  /\ crew[w].at = "gone" => ahead.stop \/ ahead.claimed >= ListLen
PassOK ==
  /\ caller.at = "loop" => ~Threaded
  /\ caller.at \in {"recv", "drain", "notify"} => Threaded
  /\ Low <= ListLen
  /\ Threaded => /\ Low <= ahead.claimed /\ ahead.claimed <= ListLen
                 /\ ahead.claimed <= ahead.emitted + AheadMax
  /\ caller.at = "recv" => \A r \in held : r.item # NextItem
  /\ ahead.stop => caller.at \in {"stopped", "join", "begin"}
  /\ caller.at = "join" /\ failedAt = 0 => ahead.emitted = ListLen
  /\ caller.at \in {"failed", "stopped", "writing"} => round \in {"fix", "alone"}
  /\ failedAt # 0 => caller.at \in {"stopped", "join"} \/ round = "over"
  /\ caller.at = "stopped" => failedAt # 0
  /\ round = "over" => caller.at = "begin"

(* The entries that are claimed and not handled: each is in one place, and *)
(* what was read of it is what is due.                                     *)
PlayOK ==
  /\ \A r \in held : r.item \in Low + 1 .. ahead.claimed /\ r.got = Due(r.item)
  /\ \A n \in 1 .. Len(channel) :
       channel[n].item \in Low + 1 .. ahead.claimed /\ channel[n].got = Due(channel[n].item)
  /\ \A w \in Working : crew[w].item \in Low + 1 .. ahead.claimed
Apart ==
  /\ \A r, s \in held : r.item = s.item => r = s
  /\ \A m, n \in 1 .. Len(channel) : channel[m].item = channel[n].item => m = n
  /\ \A v, w \in Working : crew[v].item = crew[w].item => v = w
  /\ \A r \in held : \A n \in 1 .. Len(channel) : r.item # channel[n].item
  /\ \A w \in Working : \A r \in held : crew[w].item # r.item
  /\ \A w \in Working : \A n \in 1 .. Len(channel) : crew[w].item # channel[n].item
Covered ==
  Threaded => \A i \in Low + 1 .. ahead.claimed :
                \/ \E r \in held : r.item = i
                \/ \E n \in 1 .. Len(channel) : channel[n].item = i
                \/ \E w \in Working : crew[w].item = i
Counted ==
  /\ IsFiniteSet(held) /\ IsFiniteSet(Working)
  /\ Threaded => Cardinality(held) + Len(channel) + Cardinality(Working) = ahead.claimed - Low
  /\ ~Threaded => held = {} /\ channel = <<>> /\ Working = {}
InPlay == PlayOK /\ Apart /\ Covered /\ Counted

(* What is known of the names of the files.                                *)
IdentOf(i) == IF i \in fixList.unknown THEN UnknownFile ELSE fixList.files[i]
NamesOK ==
  /\ \A i \in 1 .. Len(identities) : identities[i] = IdentOf(i)
  /\ round = "identify" => Len(identities) = IF caller.at = "begin" THEN 0 ELSE Low
  /\ round # "identify" => Len(identities) = ListLen
  /\ round = "fix" => \A i \in 1 .. ListLen : i \notin fixList.unknown

(* What is on the disk is what the loop has made after as many entries, but *)
(* for a file that is being written.                                       *)
LoopAt(e) ==
  /\ caller.at = "begin" => onDisk = fixList.disk
  /\ caller.at \notin {"begin", "next"} => Looped[e].failed = 0
  /\ caller.at \notin {"begin", "next", "writing"} => onDisk = Looped[e].disk
  /\ caller.at = "next" => Looped[e + 1].failed = 0 /\ onDisk = Looped[e + 1].disk
  /\ caller.at = "writing" =>
       LET f == fixList.files[e + 1]
       IN /\ f # NoFile /\ f \in fixList.writable
          /\ caller.got = "clean" /\ Looped[e].disk[f] = "dirty"
          /\ onDisk = [Looped[e].disk EXCEPT ![f] = "torn"]
  /\ caller.at \in {"failed", "stopped"} \/ failedAt # 0 =>
       Looped[e + 1] = [Looped[e] EXCEPT !.failed = e + 1]
  /\ failedAt # 0 => failedAt = e + 1
DiskOK ==
  /\ round = "identify" => onDisk = fixList.disk /\ failedAt = 0
  /\ round \in {"fix", "alone"} => LoopAt(ahead.emitted)
  /\ round = "over" => onDisk = Looped[ListLen].disk /\ failedAt = Looped[ListLen].failed

(* The inductive invariant of the fixers.                                  *)
FixInv == FixTypeOK /\ CrewOK /\ PassOK /\ InPlay /\ NamesOK /\ DiskOK

(* What is known of a list of files.                                       *)
LEMMA ListFacts ==
  ASSUME fixList \in FixLists
  PROVE  /\ ListLen \in Nat /\ Disk \subseteq Nat \ {0} /\ fixList.disk \in [Disk -> Sound]
         /\ \A i \in 1 .. ListLen : fixList.files[i] \in {0} \cup Disk
         /\ AheadMax \in Nat
<1>1. /\ DOMAIN fixList.disk \subseteq Nat \ {0}
      /\ fixList.disk \in [DOMAIN fixList.disk -> {"clean", "dirty", "odd"}]
      /\ fixList.files \in Seq({0} \cup DOMAIN fixList.disk) /\ AheadMax \in Nat
  BY FixListsOK
<1> QED BY <1>1 DEF ListLen, Disk, Sound

(* What the fixer answers for a file.                                      *)
LEMMA FixOfFacts ==
  ASSUME fixList \in FixLists, NEW f \in {0} \cup Disk, NEW d \in [Disk -> Sound]
  PROVE  /\ FixOf(f, d) \in {"same", "clean", "error"}
         /\ f = NoFile => FixOf(f, d) = "same"
         /\ f # NoFile => /\ f \in Disk
                          /\ FixOf(f, d) = "same" <=> d[f] = "clean"
                          /\ FixOf(f, d) = "clean" <=> d[f] = "dirty"
<1>1. CASE f = NoFile
  BY <1>1 DEF FixOf
<1>2. CASE f # NoFile
  <2>1. f \in Disk /\ d[f] \in Sound
    BY <1>2 DEF NoFile
  <2>2. FixOf(f, d) = CASE d[f] = "clean" -> "same" [] d[f] = "dirty" -> "clean"
                        [] d[f] = "torn" -> "garbage" [] OTHER -> "error"
    BY <1>2 DEF FixOf
  <2>3. CASE d[f] = "clean"
    BY <1>2, <2>1, <2>2, <2>3
  <2>4. CASE d[f] = "dirty"
    BY <1>2, <2>1, <2>2, <2>4
  <2>5. CASE d[f] = "odd"
    BY <1>2, <2>1, <2>2, <2>5
  <2> QED BY <2>1, <2>3, <2>4, <2>5 DEF Sound
<1> QED BY <1>1, <1>2

(* What the loop has made so far.                                          *)
LoopStates == [disk : [Disk -> Sound], failed : Nat]

(* An entry makes one of these of another.                                 *)
LEMMA LoopFixesTypes ==
  ASSUME fixList \in FixLists, NEW s \in LoopStates, NEW k \in 1 .. ListLen
  PROVE  LoopFixes(s, k) \in LoopStates
<1> DEFINE f == fixList.files[k]
           r == FixOf(f, s.disk)
<1>1. f \in {0} \cup Disk /\ s.disk \in [Disk -> Sound] /\ k \in Nat
  BY ListFacts DEF LoopStates
<1>2. r \in {"same", "clean", "error"} /\ (f = NoFile => r = "same") /\ (f # NoFile => f \in Disk)
  BY <1>1, FixOfFacts
<1>3. LoopFixes(s, k) = IF s.failed # 0 \/ r = "same" THEN s
     ELSE IF r = "error" \/ f \notin fixList.writable THEN [s EXCEPT !.failed = k]
     ELSE [s EXCEPT !.disk[f] = r]
  BY DEF LoopFixes
<1> HIDE DEF f, r
<1>4. [s EXCEPT !.failed = k] \in LoopStates
  BY <1>1 DEF LoopStates
<1>5. CASE r = "clean"
  <2>1. f \in Disk
    BY <1>2, <1>5
  <2>2. [s EXCEPT !.disk[f] = r] \in LoopStates
    BY <1>1, <1>5, <2>1 DEF LoopStates, Sound
  <2> QED BY <1>3, <1>4, <2>2
<1>6. CASE r # "clean"
  BY <1>2, <1>3, <1>4, <1>6
<1> QED BY <1>5, <1>6

(* The loop, entry by entry.                                               *)
LEMMA LoopedIsDefined ==
  ASSUME fixList \in FixLists
  PROVE  /\ Looped \in [0 .. ListLen -> LoopStates]
         /\ Looped[0] = [disk |-> fixList.disk, failed |-> 0]
         /\ \A k \in 1 .. ListLen : Looped[k] = LoopFixes(Looped[k - 1], k)
<1> DEFINE N == ListLen
           first == [disk |-> fixList.disk, failed |-> 0]
           next == [x \in (1 .. N) \X LoopStates |-> LoopFixes(x[2], x[1])]
           Whole(g) == g = [k \in 0 .. ListLen |-> IF k = 0 THEN [disk |-> fixList.disk, failed |-> 0]
                                                ELSE LoopFixes(g[k - 1], k)]
<1>1. N \in Nat /\ first \in LoopStates
  BY ListFacts DEF LoopStates
<1>2. next \in [(1 .. N) \X LoopStates -> LoopStates]
  BY LoopFixesTypes
<1>3. PICK f : IsPrefixes(f, N, LoopStates, first, next)
  <2> HIDE DEF next, first, N
  <2> QED BY <1>1, <1>2, PrefixRecursion
<1>4. f \in [0 .. N -> LoopStates] /\ f[0] = first
      /\ \A k \in 1 .. N : f[k] = next[<<k, f[k - 1]>>]
  BY <1>3 DEF IsPrefixes
<1>5. ASSUME NEW k \in 1 .. N PROVE f[k] = LoopFixes(f[k - 1], k)
  <2>1. k - 1 \in 0 .. N /\ f[k - 1] \in LoopStates
    BY <1>1, <1>4
  <2>2. <<k, f[k - 1]>> \in (1 .. N) \X LoopStates
    BY <2>1
  <2> QED BY <1>4, <2>2
<1>6. Whole(f)
  <2> DEFINE e(k) == IF k = 0 THEN first ELSE LoopFixes(f[k - 1], k)
  <2>1. ASSUME NEW k \in 0 .. N PROVE f[k] = e(k)
    <3>1. CASE k = 0
      BY <1>4, <3>1
    <3>2. CASE k # 0
      <4>1. k \in 1 .. N
        BY <1>1, <3>2
      <4> QED BY <1>5, <3>2, <4>1
    <3> QED BY <3>1, <3>2
  <2>2. f = [k \in 0 .. N |-> f[k]]
    BY <1>4
  <2> HIDE DEF e
  <2>3. f = [k \in 0 .. N |-> e(k)]
    BY <2>1, <2>2
  <2> QED BY <2>3 DEF e
<1>7. Looped = CHOOSE g : Whole(g)
  BY DEF Looped, LoopFixes, FixOf, ListLen, NoFile
<1>8. Whole(Looped)
  BY <1>6, <1>7
<1>9. Looped = [k \in 0 .. N |-> IF k = 0 THEN first ELSE LoopFixes(Looped[k - 1], k)]
  BY <1>8
<1> DEFINE e(k) == IF k = 0 THEN first ELSE LoopFixes(Looped[k - 1], k)
<1>10. Looped = [k \in 0 .. N |-> e(k)]
  BY <1>9
<1>11. e(0) = first
  OBVIOUS
<1>12. \A k \in 1 .. N : e(k) = LoopFixes(Looped[k - 1], k)
  BY <1>1
<1> HIDE DEF e, Whole, next, first, N
<1>13. /\ \A k \in 0 .. N : Looped[k] = e(k)
       /\ Looped = [k \in 0 .. N |-> Looped[k]]
  BY <1>10
<1>14. Looped[0] = first /\ \A k \in 1 .. N : Looped[k] = LoopFixes(Looped[k - 1], k)
  BY <1>1, <1>11, <1>12, <1>13
<1> DEFINE D == {k \in Nat : k <= N => Looped[k] \in LoopStates}
<1>15. 0 \in D
  BY <1>1, <1>14
<1>16. ASSUME NEW k \in Nat, k \in D PROVE k + 1 \in D
  <2>1. SUFFICES ASSUME k + 1 <= N PROVE Looped[k + 1] \in LoopStates
    OBVIOUS
  <2>2. k + 1 \in 1 .. N /\ (k + 1) - 1 = k /\ Looped[k] \in LoopStates
    BY <1>1, <1>16, <2>1
  <2>3. Looped[k + 1] = LoopFixes(Looped[k], k + 1)
    BY <1>14, <2>2
  <2> QED BY <2>2, <2>3, LoopFixesTypes DEF N
<1>17. Nat \subseteq D
  <2> HIDE DEF D
  <2> QED BY <1>15, <1>16, SetInduction
<1>18. \A k \in 0 .. N : Looped[k] \in LoopStates
  BY <1>1, <1>17
<1>19. Looped \in [0 .. N -> LoopStates]
  BY <1>13, <1>18
<1> QED BY <1>14, <1>19 DEF N, first

(* An entry of the loop, of file f, for which the fixer answers r.         *)
LoopDid(e, f, r) ==
  /\ Looped[e] \in LoopStates /\ Looped[e + 1] \in LoopStates
  /\ f \in {0} \cup Disk /\ r \in {"same", "clean", "error"}
  /\ f # NoFile => /\ f \in Disk
                   /\ r = "same" <=> Looped[e].disk[f] = "clean"
                   /\ r = "clean" <=> Looped[e].disk[f] = "dirty"
  /\ f = NoFile => r = "same"
  /\ Looped[e].failed # 0 \/ r = "same" => Looped[e + 1] = Looped[e]
  /\ Looped[e].failed = 0 /\ (r = "error" \/ (r = "clean" /\ f \notin fixList.writable))
       => Looped[e + 1] = [Looped[e] EXCEPT !.failed = e + 1]
  /\ Looped[e].failed = 0 /\ r = "clean" /\ f \in fixList.writable
       => Looped[e + 1] = [Looped[e] EXCEPT !.disk[f] = "clean"]

(* It fixes the file, fails, or goes on.                                   *)
LEMMA LoopDoes ==
  ASSUME fixList \in FixLists, NEW e \in Nat, e + 1 <= ListLen,
         NEW f, f = fixList.files[e + 1], NEW r, r = FixOf(f, Looped[e].disk)
  PROVE  LoopDid(e, f, r)
<1>1. ListLen \in Nat /\ e \in 0 .. ListLen /\ e + 1 \in 1 .. ListLen /\ e + 1 \in 0 .. ListLen
  BY ListFacts
<1>2. Looped[e] \in LoopStates /\ Looped[e + 1] \in LoopStates
  BY <1>1, LoopedIsDefined
<1>3. f \in {0} \cup Disk /\ Looped[e].disk \in [Disk -> Sound]
  BY <1>1, <1>2, ListFacts DEF LoopStates
<1>4. /\ r \in {"same", "clean", "error"} /\ (f = NoFile => r = "same")
      /\ f # NoFile => /\ f \in Disk
                       /\ r = "same" <=> Looped[e].disk[f] = "clean"
                       /\ r = "clean" <=> Looped[e].disk[f] = "dirty"
  BY <1>3, FixOfFacts
<1>5. Looped[e + 1] = LoopFixes(Looped[e], e + 1)
  <2>1. (e + 1) - 1 = e
    OBVIOUS
  <2> QED BY <1>1, <2>1, LoopedIsDefined
<1>6. Looped[e + 1] = IF Looped[e].failed # 0 \/ r = "same" THEN Looped[e]
     ELSE IF r = "error" \/ f \notin fixList.writable THEN [Looped[e] EXCEPT !.failed = e + 1]
     ELSE [Looped[e] EXCEPT !.disk[f] = r]
  BY <1>5 DEF LoopFixes
<1> QED BY <1>2, <1>3, <1>4, <1>6 DEF LoopDid

(* After an error the loop does no more.                                   *)
LEMMA LoopStuck ==
  ASSUME fixList \in FixLists, NEW k \in 0 .. ListLen, Looped[k].failed # 0
  PROVE  Looped[ListLen] = Looped[k]
<1> DEFINE D == {n \in Nat : k + n <= ListLen => Looped[k + n] = Looped[k]}
<1>1. ListLen \in Nat /\ k \in Nat
  BY ListFacts
<1>2. 0 \in D
  BY <1>1
<1>3. ASSUME NEW n \in Nat, n \in D PROVE n + 1 \in D
  <2>1. SUFFICES ASSUME k + (n + 1) <= ListLen PROVE Looped[k + (n + 1)] = Looped[k]
    OBVIOUS
  <2>2. k + n \in Nat /\ (k + n) + 1 <= ListLen /\ (k + n) + 1 = k + (n + 1)
    BY <1>1, <2>1
  <2>3. Looped[k + n] = Looped[k]
    BY <1>1, <1>3, <2>2
  <2>4. Looped[(k + n) + 1] = Looped[k + n]
    <3>1. (k + n) + 1 \in 1 .. ListLen /\ ((k + n) + 1) - 1 = k + n
      BY <1>1, <2>2
    <3>2. Looped[(k + n) + 1] = LoopFixes(Looped[k + n], (k + n) + 1)
      <4> HIDE DEF D
      <4> QED BY <3>1, LoopedIsDefined
    <3> QED BY <2>3, <3>2 DEF LoopFixes
  <2> QED BY <2>2, <2>3, <2>4
<1>4. Nat \subseteq D
  <2> HIDE DEF D
  <2> QED BY <1>2, <1>3, SetInduction
<1>5. ListLen - k \in D /\ k + (ListLen - k) = ListLen
  BY <1>1, <1>4
<1> QED BY <1>1, <1>5

(* Until it fails, what a loop has made of the files it came by, and of    *)
(* the others.                                                             *)
Gone(k) ==
  /\ \A f \in Disk : (\A i \in 1 .. k : fixList.files[i] # f) => Looped[k].disk[f] = fixList.disk[f]
  /\ Looped[k].failed = 0 =>
       \A i \in 1 .. k : fixList.files[i] # NoFile => Looped[k].disk[fixList.files[i]] = "clean"

(* It makes the one clean, and leaves the other as they were.              *)
LEMMA LoopGoes ==
  ASSUME fixList \in FixLists, NEW n \in 0 .. ListLen
  PROVE  Gone(n)
<1> DEFINE D == {k \in Nat : k <= ListLen => Gone(k)}
<1>1. ListLen \in Nat
  BY ListFacts
<1>2. 0 \in D
  <2>1. Looped[0] = [disk |-> fixList.disk, failed |-> 0]
    BY LoopedIsDefined
  <2> QED BY <2>1 DEF Gone
<1>3. ASSUME NEW k \in Nat, k \in D PROVE k + 1 \in D
  <2>1. SUFFICES ASSUME k + 1 <= ListLen PROVE Gone(k + 1)
    OBVIOUS
  <2>2. Gone(k)
    BY <1>1, <1>3, <2>1
  <2>3. PICK g : g = fixList.files[k + 1]
    OBVIOUS
  <2>4. PICK r : r = FixOf(g, Looped[k].disk)
    OBVIOUS
  <2>5. /\ Looped[k] \in LoopStates /\ Looped[k + 1] \in LoopStates
        /\ g \in {0} \cup Disk /\ r \in {"same", "clean", "error"}
        /\ g # NoFile => g \in Disk /\ (r = "same" <=> Looped[k].disk[g] = "clean")
        /\ g = NoFile => r = "same"
        /\ Looped[k].failed # 0 \/ r = "same" => Looped[k + 1] = Looped[k]
        /\ Looped[k].failed = 0 /\ (r = "error" \/ (r = "clean" /\ g \notin fixList.writable))
              => Looped[k + 1] = [Looped[k] EXCEPT !.failed = k + 1]
        /\ Looped[k].failed = 0 /\ r = "clean" /\ g \in fixList.writable
              => Looped[k + 1] = [Looped[k] EXCEPT !.disk[g] = "clean"]
    BY <2>1, <2>3, <2>4, LoopDoes DEF LoopDid
  <2>6. \A i \in 1 .. k + 1 : i \in 1 .. k \/ i = k + 1
    OBVIOUS
  <2>7. \A i \in 1 .. k : fixList.files[i] # NoFile => fixList.files[i] \in Disk
    BY <1>1, <2>1, ListFacts DEF NoFile
  <2>8. CASE Looped[k].failed # 0 \/ r = "same"
    <3>1. Looped[k + 1] = Looped[k]
      BY <2>5, <2>8
    <3>2. Looped[k].failed = 0 /\ g # NoFile => Looped[k].disk[g] = "clean"
      BY <2>5, <2>8
    <3>3. 1 .. k \subseteq 1 .. k + 1
      OBVIOUS
    <3> QED BY <2>2, <2>3, <2>6, <3>1, <3>2, <3>3 DEF Gone
  <2>9. CASE Looped[k].failed = 0 /\ (r = "error" \/ (r = "clean" /\ g \notin fixList.writable))
    <3>1. Looped[k + 1].failed = k + 1 /\ Looped[k + 1].disk = Looped[k].disk
      BY <2>5, <2>9 DEF LoopStates
    <3>2. k + 1 # 0 /\ 1 .. k \subseteq 1 .. k + 1
      OBVIOUS
    <3> QED BY <2>2, <3>1, <3>2 DEF Gone
  <2>10. CASE Looped[k].failed = 0 /\ r = "clean" /\ g \in fixList.writable
    <3>1. g # NoFile /\ g \in Disk /\ Looped[k + 1] = [Looped[k] EXCEPT !.disk[g] = "clean"]
      BY <2>5, <2>10
    <3>2. /\ Looped[k + 1].disk[g] = "clean"
          /\ \A f \in Disk \ {g} : Looped[k + 1].disk[f] = Looped[k].disk[f]
      BY <2>5, <3>1 DEF LoopStates
    <3>3. 1 .. k \subseteq 1 .. k + 1 /\ k + 1 \in 1 .. k + 1
      OBVIOUS
    <3>4. ASSUME NEW f \in Disk, \A i \in 1 .. k + 1 : fixList.files[i] # f
          PROVE  Looped[k + 1].disk[f] = fixList.disk[f]
      BY <2>2, <2>3, <3>2, <3>3, <3>4 DEF Gone
    <3>5. ASSUME NEW i \in 1 .. k + 1, fixList.files[i] # NoFile
          PROVE  Looped[k + 1].disk[fixList.files[i]] = "clean"
      BY <2>2, <2>3, <2>6, <2>7, <2>10, <3>2, <3>5 DEF Gone
    <3> QED BY <3>4, <3>5 DEF Gone
  <2> QED BY <2>5, <2>8, <2>9, <2>10
<1>4. Nat \subseteq D
  <2> HIDE DEF D
  <2> QED BY <1>2, <1>3, SetInduction
<1> QED BY <1>1, <1>4

(* The answer for a file depends on its own contents.                      *)
LEMMA FixOfSame ==
  ASSUME NEW f, NEW c, NEW d, f = NoFile \/ c[f] = d[f]
  PROVE  FixOf(f, c) = FixOf(f, d)
BY DEF FixOf

(* What is due of the next entry is what the loop would make of it.        *)
LEMMA DueIsRight ==
  ASSUME fixList \in FixLists, NamesOK, round = "fix", NEW e \in Nat, e + 1 <= ListLen,
         Looped[e].failed = 0
  PROVE  Due(e + 1) = FixOf(fixList.files[e + 1], Looped[e].disk)
<1> DEFINE f == fixList.files[e + 1]
<1>1. ListLen \in Nat /\ e \in 0 .. ListLen /\ e + 1 \in 1 .. ListLen /\ 1 .. e \subseteq 1 .. ListLen
      /\ (e + 1) - 1 = e
  BY ListFacts
<1>2. \A i \in 1 .. ListLen : identities[i] = fixList.files[i]
  BY DEF NamesOK, IdentOf
<1>3. Gone(e) /\ f \in {0} \cup Disk
  BY <1>1, LoopGoes, ListFacts
<1>4. IsFirst(e + 1) <=> f = NoFile \/ \A k \in 1 .. e : fixList.files[k] # f
  BY <1>1, <1>2 DEF IsFirst
<1>5. CASE IsFirst(e + 1)
  <2>1. Due(e + 1) = FixOf(f, fixList.disk)
    BY <1>5 DEF Due
  <2>2. f = NoFile \/ Looped[e].disk[f] = fixList.disk[f]
    BY <1>3, <1>4, <1>5 DEF Gone, NoFile
  <2> QED BY <2>1, <2>2, FixOfSame
<1>6. CASE ~IsFirst(e + 1)
  <2>1. Due(e + 1) = "same" /\ f # NoFile
    BY <1>4, <1>6 DEF Due
  <2>2. PICK k \in 1 .. e : fixList.files[k] = f
    BY <1>4, <1>6
  <2>3. Looped[e].disk[f] = "clean"
    BY <1>3, <2>1, <2>2 DEF Gone
  <2>4. FixOf(f, Looped[e].disk) = "same"
    BY <2>1, <2>3 DEF FixOf
  <2> QED BY <2>1, <2>4
<1> QED BY <1>5, <1>6

(* Without threads, the next entry is read as the loop would.              *)
LEMMA ReadIsLoop ==
  ASSUME FixInv, caller.at = "loop", round \in {"fix", "alone"}, ahead.emitted < ListLen
  PROVE  ReadAndFix(NextItem) = FixOf(fixList.files[NextItem], Looped[ahead.emitted].disk)
<1>1. fixList \in FixLists /\ ahead.emitted \in Nat /\ NamesOK /\ LoopAt(ahead.emitted)
  BY DEF FixInv, FixTypeOK, DiskOK
<1>2. PICK e \in Nat : e = ahead.emitted /\ NextItem = e + 1 /\ e + 1 <= ListLen
  BY <1>1, ListFacts DEF NextItem
<1>3. Looped[e].failed = 0 /\ onDisk = Looped[e].disk
  BY <1>1, <1>2 DEF LoopAt
<1>4. CASE round = "fix" /\ ~IsFirst(e + 1)
  <2>1. Due(e + 1) = "same" /\ ReadAndFix(e + 1) = "same"
    BY <1>4 DEF Due, ReadAndFix
  <2>2. Due(e + 1) = FixOf(fixList.files[e + 1], Looped[e].disk)
    BY <1>1, <1>2, <1>3, <1>4, DueIsRight
  <2> QED BY <1>2, <2>1, <2>2
<1>5. CASE ~(round = "fix" /\ ~IsFirst(e + 1))
  BY <1>2, <1>3, <1>5 DEF ReadAndFix
<1> QED BY <1>4, <1>5

(* What a thread reads is what is due of its entry: no other writes that   *)
(* file before, as it is named there for the first time.                   *)
LEMMA ReadIsDue ==
  ASSUME FixInv, Threaded, NEW i \in Nat, Low < i, i <= ListLen
  PROVE  ReadAndFix(i) = Due(i)
<1>1. /\ fixList \in FixLists /\ ahead.emitted \in Nat /\ NamesOK /\ ListLen \in Nat
      /\ i \in 1 .. ListLen /\ Low \in {ahead.emitted, ahead.emitted + 1}
      /\ (round = "fix" => LoopAt(ahead.emitted)) /\ PassOK
  BY ListFacts DEF FixInv, FixTypeOK, DiskOK, Low
<1>2. SUFFICES ASSUME round # "identify", ~(round = "fix" /\ ~IsFirst(i))
               PROVE  FixOf(fixList.files[i], onDisk) = FixOf(fixList.files[i], fixList.disk)
  BY DEF ReadAndFix, Due
<1>3. round = "fix" /\ IsFirst(i) /\ caller.at # "begin"
  BY <1>1, <1>2 DEF Threaded, PassOK, FixInv, FixTypeOK
<1>4. PICK f : f = fixList.files[i]
  OBVIOUS
<1>5. SUFFICES ASSUME f # NoFile PROVE onDisk[f] = fixList.disk[f]
  BY <1>4, FixOfSame
<1>6. PICK e \in Nat : e = ahead.emitted
  BY <1>1
<1>7. \A k \in 1 .. ListLen : identities[k] = fixList.files[k]
  BY <1>1, <1>3 DEF NamesOK, IdentOf
<1>8. \A k \in 1 .. i - 1 : fixList.files[k] # f
  <2>1. 1 .. i - 1 \subseteq 1 .. ListLen
    BY <1>1
  <2> QED BY <1>1, <1>3, <1>4, <1>5, <1>7, <2>1 DEF IsFirst, NoFile
<1>9. ASSUME NEW k \in 0 .. i - 1 PROVE Looped[k].disk[f] = fixList.disk[f]
  <2>1. k \in 0 .. ListLen /\ 1 .. k \subseteq 1 .. i - 1 /\ f \in Disk
    BY <1>1, <1>4, <1>5, ListFacts DEF NoFile
  <2>2. Gone(k)
    BY <1>1, <2>1, LoopGoes
  <2> QED BY <1>8, <2>1, <2>2 DEF Gone
<1>10. LoopAt(e) /\ e \in 0 .. i - 1
  BY <1>1, <1>3, <1>6
<1>11. CASE caller.at = "next"
  <2>1. e + 1 \in 0 .. i - 1
    BY <1>1, <1>6, <1>11 DEF Low, Handling
  <2> QED BY <1>9, <1>10, <1>11, <2>1 DEF LoopAt
<1>12. CASE caller.at = "writing"
  <2>1. e + 1 \in 1 .. i - 1
    BY <1>1, <1>6, <1>12 DEF Low, Handling
  <2>2. PICK g : g = fixList.files[e + 1]
    OBVIOUS
  <2>3. onDisk = [Looped[e].disk EXCEPT ![g] = "torn"] /\ g # f
    BY <1>8, <1>10, <1>12, <2>1, <2>2 DEF LoopAt
  <2>4. Looped[e].disk \in [Disk -> Sound] /\ f \in Disk
    <3>1. e \in 0 .. ListLen
      BY <1>1, <1>10
    <3>2. Looped[e] \in LoopStates
      BY <1>1, <3>1, LoopedIsDefined
    <3>3. f \in Disk
      BY <1>1, <1>4, <1>5, ListFacts DEF NoFile
    <3> QED BY <3>2, <3>3 DEF LoopStates
  <2>5. onDisk[f] = Looped[e].disk[f]
    BY <2>3, <2>4
  <2> QED BY <1>9, <1>10, <2>5
<1>13. CASE caller.at \notin {"next", "writing"}
  BY <1>3, <1>9, <1>10, <1>13 DEF LoopAt
<1> QED BY <1>11, <1>12, <1>13

(* What is due of an entry is settled before there is a fix.               *)
LEMMA DueStays ==
  ASSUME fixList' = fixList, round' = round, round = "identify" \/ identities' = identities, NEW i
  PROVE  Due(i)' = Due(i)
<1>1. CASE round = "identify"
  BY <1>1 DEF Due
<1>2. CASE identities' = identities
  BY <1>2 DEF Due, IsFirst, FixOf
<1> QED BY <1>1, <1>2

(* A step that leaves alone what is in play.                               *)
LEMMA PlayStays ==
  ASSUME InPlay, fixList' = fixList, round' = round, held' = held, channel' = channel,
         round = "identify" \/ identities' = identities,
         Working' = Working, \A w \in Working : crew'[w].item = crew[w].item,
         ahead'.claimed = ahead.claimed, Low' = Low, Threaded' = Threaded
  PROVE  InPlay'
<1>1. \A i : Due(i)' = Due(i)
  BY DueStays
<1>2. PlayOK'
  BY <1>1 DEF InPlay, PlayOK
<1>3. Apart'
  BY DEF InPlay, Apart
<1>4. Covered'
  BY DEF InPlay, Covered
<1>5. Counted'
  BY DEF InPlay, Counted
<1> QED BY <1>2, <1>3, <1>4, <1>5 DEF InPlay

(* Nothing is in play where no thread is, or before the first has claimed. *)
LEMMA PlayEmpty ==
  ASSUME held' = {}, channel' = <<>>, Working' = {},
         Threaded' => Low' \in Nat /\ ahead'.claimed = Low'
  PROVE  InPlay'
<1>1. PlayOK' /\ Apart'
  BY DEF PlayOK, Apart
<1>2. Covered'
  BY DEF Covered
<1>3. Counted'
  <2>1. IsFiniteSet({}) /\ Cardinality({}) = 0
    BY FS_EmptySet
  <2> QED BY <2>1 DEF Counted
<1> QED BY <1>1, <1>2, <1>3 DEF InPlay

(* What the loop makes depends on the list.                                *)
LEMMA LoopedStays ==
  ASSUME fixList' = fixList
  PROVE  Looped' = Looped
<1>1. \A s, k : LoopFixes(s, k)' = LoopFixes(s, k)
  BY DEF LoopFixes, FixOf
<1>2. ListLen' = ListLen
  BY DEF ListLen
<1> QED BY <1>1, <1>2 DEF Looped

(* What an entry's result makes the caller do.                             *)
LEMMA EmitMoves ==
  ASSUME FixInv, caller.at \in {"drain", "loop"}, NEW r, Emitted(r),
         fixList' = fixList, round' = round, ahead' = ahead, crew' = crew
  PROVE  /\ caller'.at \in {"next", "failed", "writing"} /\ Low = ahead.emitted /\ Low' = Low + 1
         /\ Threaded' = Threaded /\ Started' = Started /\ Handling'
         /\ (round = "identify" \/ identities' = identities)
         /\ failedAt = 0 /\ round # "over" /\ ~ahead.stop
<1>1. caller' = [at |-> IF r = "same" THEN "next"
                        ELSE IF r = "error" \/ fixList.files[NextItem] \notin fixList.writable
                        THEN "failed" ELSE "writing", got |-> r]
  BY DEF Emitted
<1>2. caller'.at \in {"next", "failed", "writing"}
  BY <1>1
<1>3. ahead.emitted \in Nat
  BY DEF FixInv, FixTypeOK
<1>4. Low = ahead.emitted /\ Low' = Low + 1 /\ Handling'
  BY <1>2, <1>3 DEF Low, Handling
<1>5. Started' = Started
  BY DEF Started, ListLen
<1>6. Threaded' = Threaded
  BY <1>2, <1>5 DEF Threaded
<1>7. round = "identify" \/ identities' = identities
  BY DEF Emitted
<1>8. failedAt = 0 /\ round # "over" /\ ~ahead.stop
  BY DEF FixInv, PassOK
<1> QED BY <1>2, <1>4, <1>5, <1>6, <1>7, <1>8

(* An entry is handled as the loop would.                                  *)
LEMMA EmitKeeps ==
  ASSUME FixInv, caller.at \in {"drain", "loop"}, ahead.emitted < ListLen, NEW r, Emitted(r),
         round = "identify" => r = "same",
         round # "identify" => r = FixOf(fixList.files[NextItem], Looped[ahead.emitted].disk),
         fixList' = fixList, round' = round, ahead' = ahead, crew' = crew, failedAt' = failedAt,
         channel' = channel, held' \subseteq held, InPlay', Threaded => Low + 1 <= ahead.claimed
  PROVE  FixInv'
<1> DEFINE at == IF r = "same" THEN "next"
                 ELSE IF r = "error" \/ fixList.files[NextItem] \notin fixList.writable THEN "failed"
                 ELSE "writing"
<1>1. /\ caller'.at \in {"next", "failed", "writing"} /\ Low = ahead.emitted /\ Low' = Low + 1
      /\ Threaded' = Threaded /\ Started' = Started
      /\ failedAt = 0 /\ round # "over" /\ ~ahead.stop
  BY EmitMoves
<1>2. FixTypeOK /\ CrewOK /\ PassOK /\ NamesOK /\ DiskOK /\ ListLen \in Nat
  BY ListFacts DEF FixInv, FixTypeOK
<1>3. PICK e \in Nat : e = ahead.emitted /\ NextItem = e + 1 /\ e + 1 <= ListLen
  BY <1>2 DEF NextItem, FixTypeOK
<1>4. PICK f : f = fixList.files[e + 1]
  OBVIOUS
<1>5. /\ caller' = [at |-> at, got |-> r]
      /\ onDisk' = IF at = "writing" THEN [onDisk EXCEPT ![f] = "torn"] ELSE onDisk
      /\ identities' = IF round # "identify" THEN identities ELSE Append(identities, IdentOf(e + 1))
      /\ at = IF r = "same" THEN "next"
              ELSE IF r = "error" \/ f \notin fixList.writable THEN "failed" ELSE "writing"
  BY <1>3, <1>4 DEF Emitted, IdentOf
<1> HIDE DEF at
<1>6. f \in {0} \cup Disk /\ e + 1 \in 1 .. ListLen /\ fixList \in FixLists
  BY <1>2, <1>3, <1>4, ListFacts DEF FixTypeOK
<1>7. CASE round = "identify"
  <2>1. r = "same" /\ at = "next" /\ onDisk' = onDisk
    BY <1>5, <1>7
  <2>2. caller' = [at |-> "next", got |-> "same"]
    BY <1>5, <2>1
  <2>3. IdentOf(e + 1) \in Int /\ identities \in Seq(Int)
    BY <1>2, <1>4, <1>6, ListFacts DEF IdentOf, UnknownFile, FixTypeOK
  <2>4. identities' = Append(identities, IdentOf(e + 1)) /\ identities' \in Seq(Int)
        /\ Len(identities') = Len(identities) + 1
    BY <1>5, <1>7, <2>3
  <2>5. FixTypeOK'
    <3>1. held' \in SUBSET Results'
      BY <1>2 DEF FixTypeOK, Results
    <3> QED BY <1>2, <2>1, <2>2, <2>4, <3>1 DEF FixTypeOK, Disk, Results, CallerRecs
  <2>6. CrewOK'
    BY <1>1, <1>2 DEF CrewOK, ListLen
  <2>7. PassOK'
    <3>1. Low' <= ListLen' /\ (Threaded' => /\ Low' <= ahead'.claimed /\ ahead'.claimed <= ListLen'
                                            /\ ahead'.claimed <= ahead'.emitted + AheadMax)
      BY <1>1, <1>2, <1>3 DEF PassOK, ListLen
    <3> QED BY <1>1, <1>7, <2>2, <3>1 DEF PassOK
  <2>8. NamesOK'
    <3>1. Len(identities) = e /\ \A i \in 1 .. e : identities[i] = IdentOf(i)
      BY <1>1, <1>2, <1>3, <1>7 DEF NamesOK
    <3>2. \A i \in 1 .. e + 1 : identities'[i] = IdentOf(i)
      BY <2>3, <2>4, <3>1
    <3>3. \A i : IdentOf(i)' = IdentOf(i)
      BY DEF IdentOf
    <3>4. Len(identities') = e + 1 /\ Low' = e + 1
      BY <1>1, <1>3, <2>4, <3>1
    <3> QED BY <1>7, <2>2, <3>2, <3>3, <3>4 DEF NamesOK
  <2>9. DiskOK'
    BY <1>2, <1>7, <2>1 DEF DiskOK
  <2> QED BY <2>5, <2>6, <2>7, <2>8, <2>9 DEF FixInv
<1>8. CASE round \in {"fix", "alone"}
  <2>1. LoopAt(e) /\ r = FixOf(f, Looped[e].disk) /\ identities' = identities
    BY <1>2, <1>3, <1>4, <1>5, <1>8 DEF DiskOK
  <2>2. Looped[e].failed = 0 /\ onDisk = Looped[e].disk
    BY <2>1 DEF LoopAt
  <2>3. /\ Looped[e] \in LoopStates /\ Looped[e + 1] \in LoopStates
        /\ r \in {"same", "clean", "error"}
        /\ f # NoFile => /\ f \in Disk
                         /\ r = "clean" <=> Looped[e].disk[f] = "dirty"
        /\ f = NoFile => r = "same"
        /\ r = "same" => Looped[e + 1] = Looped[e]
        /\ r = "error" \/ (r = "clean" /\ f \notin fixList.writable)
              => Looped[e + 1] = [Looped[e] EXCEPT !.failed = e + 1]
    <3>1. LoopDid(e, f, r)
      BY <1>3, <1>4, <1>6, <2>1, LoopDoes
    <3> QED BY <2>2, <3>1 DEF LoopDid
  <2>4. at = "writing" => r = "clean" /\ f # NoFile /\ f \in Disk /\ f \in fixList.writable
    BY <1>5, <2>3
  <2>5. FixTypeOK'
    <3>1. held' \in SUBSET Results'
      BY <1>2 DEF FixTypeOK, Results
    <3>2. onDisk' \in [Disk -> Sound \cup {"torn"}]
      BY <1>2, <1>5, <2>4 DEF FixTypeOK
    <3>3. caller' \in CallerRecs
      BY <1>5, <2>3 DEF CallerRecs
    <3>4. Disk' = Disk /\ Results' = Results
      BY DEF Disk, Results
    <3> QED BY <1>2, <2>1, <3>1, <3>2, <3>3, <3>4 DEF FixTypeOK
  <2>6. CrewOK'
    BY <1>1, <1>2 DEF CrewOK, ListLen
  <2>7. PassOK'
    <3>1. Low' <= ListLen' /\ (Threaded' => /\ Low' <= ahead'.claimed /\ ahead'.claimed <= ListLen'
                                            /\ ahead'.claimed <= ahead'.emitted + AheadMax)
      BY <1>1, <1>2, <1>3 DEF PassOK, ListLen
    <3> QED BY <1>1, <1>8, <3>1 DEF PassOK
  <2>8. NamesOK'
    <3>1. \A i : IdentOf(i)' = IdentOf(i)
      BY DEF IdentOf
    <3> QED BY <1>1, <1>2, <1>8, <2>1, <3>1 DEF NamesOK, ListLen
  <2>9. DiskOK'
    <3>2. Looped' = Looped
      BY LoopedStays
    <3>3. LoopAt(e)'
      <4>1. CASE at = "next"
        <5>1. r = "same" /\ caller'.at = "next" /\ onDisk' = onDisk
          BY <1>5, <2>3, <4>1
        <5> QED BY <1>1, <2>2, <2>3, <3>2, <5>1 DEF LoopAt
      <4>2. CASE at = "failed"
        <5>1. caller'.at = "failed" /\ onDisk' = onDisk
              /\ Looped[e + 1] = [Looped[e] EXCEPT !.failed = e + 1]
          BY <1>5, <2>3, <4>2
        <5> QED BY <1>1, <2>2, <3>2, <5>1 DEF LoopAt
      <4>3. CASE at = "writing"
        <5>1. caller'.at = "writing" /\ caller'.got = "clean" /\ onDisk' = [onDisk EXCEPT ![f] = "torn"]
              /\ f # NoFile /\ f \in fixList.writable /\ Looped[e].disk[f] = "dirty"
          BY <1>5, <2>3, <2>4, <4>3
        <5>2. fixList'.files[e + 1] = f
          BY <1>4
        <5> QED BY <1>1, <2>2, <3>2, <5>1, <5>2 DEF LoopAt
      <4> QED BY <1>5, <4>1, <4>2, <4>3
    <3> QED BY <1>3, <1>8, <3>3 DEF DiskOK
  <2> QED BY <2>5, <2>6, <2>7, <2>8, <2>9 DEF FixInv
<1> QED BY <1>1, <1>2, <1>7, <1>8 DEF FixTypeOK

(* What the threads do leaves the caller, the names and the disk alone.    *)
LEMMA CallerStays ==
  ASSUME FixInv, UNCHANGED <<fixList, onDisk, round, caller, identities, failedAt>>,
         ahead'.emitted = ahead.emitted
  PROVE  /\ Low' = Low /\ Threaded' = Threaded /\ Started' = Started /\ ListLen' = ListLen
         /\ NextItem' = NextItem
         /\ NamesOK' /\ DiskOK'
<1>1. ListLen' = ListLen /\ Started' = Started /\ NextItem' = NextItem
  BY DEF Started, ListLen, NextItem
<1>2. Low' = Low /\ Threaded' = Threaded
  BY <1>1 DEF Low, Handling, Threaded
<1>3. NamesOK'
  BY <1>1, <1>2 DEF FixInv, NamesOK, IdentOf
<1>4. DiskOK'
  <2>1. Looped' = Looped
    BY LoopedStays
  <2>2. ASSUME NEW e, LoopAt(e) PROVE LoopAt(e)'
    BY <2>1, <2>2 DEF LoopAt
  <2> QED BY <1>1, <2>1, <2>2 DEF FixInv, DiskOK
<1> QED BY <1>1, <1>2, <1>3, <1>4

(* A thread claims the next entry, sleeps when it is too far ahead, or is   *)
(* through.                                                                *)
LEMMA ClaimKeeps ==
  ASSUME FixInv, NEW w \in Crew, ClaimFile(w)
  PROVE  FixInv'
<1>1. /\ crew[w].at = "claim"
      /\ UNCHANGED <<fixList, onDisk, round, channel, caller, held, identities, failedAt>>
      /\ ahead'.emitted = ahead.emitted
  BY DEF ClaimFile, FixInv, FixTypeOK
<1>2. /\ Low' = Low /\ Threaded' = Threaded /\ Started' = Started /\ ListLen' = ListLen
      /\ NamesOK' /\ DiskOK'
  BY <1>1, CallerStays
<1>3. FixTypeOK /\ CrewOK /\ PassOK /\ InPlay /\ ListLen \in Nat /\ AheadMax \in Nat
      /\ ahead.emitted \in Nat /\ ahead.claimed \in Nat /\ w \notin Working
      /\ crew \in [Crew -> CrewRecs]
      /\ Disk' = Disk /\ Results' = Results
  BY <1>1, ListFacts DEF FixInv, FixTypeOK, Working, Disk, Results
<1>4. Threaded /\ Low \in Nat
  BY <1>1, <1>3 DEF CrewOK, Low
<1>5. ASSUME NEW at \in {"gone", "asleep"}, crew' = [crew EXCEPT ![w].at = at], ahead' = ahead,
             at = "gone" => ahead.stop \/ ahead.claimed >= ListLen
      PROVE  FixInv'
  <2>1. /\ crew' \in [Crew -> CrewRecs]
        /\ crew'[w].at = at /\ \A v \in Crew \ {w} : crew'[v] = crew[v]
    BY <1>3, <1>5 DEF CrewRecs
  <2>2. Working' = Working
    BY <1>3, <1>5, <2>1 DEF Working
  <2>3. \A v \in Working : crew'[v].item = crew[v].item
    BY <1>3, <2>1 DEF Working
  <2>4. InPlay'
    BY <1>1, <1>2, <1>3, <1>5, <2>2, <2>3, PlayStays
  <2>5. CrewOK'
    BY <1>1, <1>2, <1>3, <1>5, <2>1 DEF CrewOK
  <2>6. PassOK'
    BY <1>1, <1>2, <1>3, <1>5 DEF PassOK, NextItem
  <2>7. FixTypeOK'
    BY <1>1, <1>3, <1>5, <2>1 DEF FixTypeOK
  <2> QED BY <1>2, <2>4, <2>5, <2>6, <2>7 DEF FixInv
<1>6. ASSUME ~ahead.stop, ahead.claimed < ListLen, Room,
             ahead' = [ahead EXCEPT !.claimed = @ + 1],
             crew' = [crew EXCEPT ![w] = [at |-> "work", item |-> ahead.claimed + 1]]
      PROVE  FixInv'
  <2>1. /\ ahead' \in [claimed : Nat, emitted : Nat, stop : BOOLEAN]
        /\ ahead'.claimed = ahead.claimed + 1 /\ ahead'.stop = ahead.stop
    <3>1. ahead \in [claimed : Nat, emitted : Nat, stop : BOOLEAN]
      BY <1>3 DEF FixTypeOK
    <3> QED BY <1>6, <3>1
  <2>2. /\ crew' \in [Crew -> CrewRecs]
        /\ crew'[w].at = "work" /\ crew'[w].item = ahead.claimed + 1
        /\ \A v \in Crew \ {w} : crew'[v] = crew[v]
    BY <1>3, <1>6 DEF CrewRecs
  <2>3. Working' = Working \cup {w}
    BY <1>3, <2>2 DEF Working
  <2>4. \A i : Due(i)' = Due(i)
    BY <1>1, DueStays
  <2>5. /\ \A i \in Low + 1 .. ahead.claimed : i \in Low' + 1 .. ahead'.claimed /\ i # ahead.claimed + 1
        /\ ahead.claimed + 1 \in Low' + 1 .. ahead'.claimed
        /\ \A i \in Low' + 1 .. ahead'.claimed : i \in Low + 1 .. ahead.claimed \/ i = ahead.claimed + 1
    <3>1. Low <= ahead.claimed
      BY <1>3, <1>4 DEF PassOK
    <3> QED BY <1>2, <1>3, <1>4, <2>1, <3>1
  <2>6. PlayOK'
    BY <1>1, <1>3, <2>2, <2>3, <2>4, <2>5 DEF InPlay, PlayOK, Working
  <2>7. Apart'
    <3>1. \A v \in Working : v # w /\ crew'[v] = crew[v] /\ crew[v].item # ahead.claimed + 1
      BY <1>3, <2>2, <2>5 DEF InPlay, PlayOK, Working
    <3>2. \A r \in held : r.item # ahead.claimed + 1
      BY <1>3, <2>5 DEF InPlay, PlayOK
    <3>3. \A n \in 1 .. Len(channel) : channel[n].item # ahead.claimed + 1
      BY <1>3, <2>5 DEF InPlay, PlayOK
    <3>4. \A u, v \in Working' : crew'[u].item = crew'[v].item => u = v
      BY <1>3, <2>2, <2>3, <3>1 DEF InPlay, Apart
    <3>5. \A v \in Working' : \A r \in held : crew'[v].item # r.item
      BY <1>3, <2>2, <2>3, <3>1, <3>2 DEF InPlay, Apart
    <3>6. \A v \in Working' : \A n \in 1 .. Len(channel) : crew'[v].item # channel[n].item
      BY <1>3, <2>2, <2>3, <3>1, <3>3 DEF InPlay, Apart
    <3> QED BY <1>1, <1>3, <3>4, <3>5, <3>6 DEF InPlay, Apart
  <2>8. Covered'
    <3>1. ASSUME NEW i \in Low' + 1 .. ahead'.claimed
          PROVE  \/ \E r \in held : r.item = i
                 \/ \E n \in 1 .. Len(channel) : channel[n].item = i
                 \/ \E v \in Working' : crew'[v].item = i
      <4>1. CASE i \in Low + 1 .. ahead.claimed
        <5>1. \A v \in Working : v \in Working' /\ crew'[v] = crew[v]
          BY <1>3, <2>2, <2>3 DEF Working
        <5> QED BY <1>3, <1>4, <4>1, <5>1 DEF InPlay, Covered
      <4>2. CASE i = ahead.claimed + 1
        BY <2>2, <2>3, <4>2
      <4> QED BY <2>5, <4>1, <4>2
    <3> QED BY <1>1, <3>1 DEF Covered
  <2>9. Counted'
    <3>1. IsFiniteSet(Working) /\ Cardinality(Working) \in Nat
      BY <1>3, FS_CardinalityType DEF InPlay, Counted
    <3>2. IsFiniteSet(Working') /\ Cardinality(Working') = Cardinality(Working) + 1
      BY <1>3, <2>3, <3>1, FS_AddElement
    <3>3. IsFiniteSet(held) /\ Cardinality(held) \in Nat /\ Len(channel) \in Nat
      BY <1>3, FS_CardinalityType DEF InPlay, Counted, FixTypeOK
    <3>4. Cardinality(held) + Len(channel) + Cardinality(Working) = ahead.claimed - Low
      BY <1>3, <1>4 DEF InPlay, Counted
    <3>5. Cardinality(held') + Len(channel') + Cardinality(Working') = ahead'.claimed - Low'
      <4>1. Cardinality(held') = Cardinality(held) /\ Len(channel') = Len(channel)
        BY <1>1
      <4>2. Low' = Low /\ Low \in Nat /\ ahead.claimed \in Nat /\ ahead'.claimed = ahead.claimed + 1
        BY <1>2, <1>3, <1>4, <2>1
      <4>3. PICK h, c, k \in Nat : h = Cardinality(held) /\ c = Len(channel) /\ k = Cardinality(Working)
        BY <3>1, <3>3
      <4>4. h + c + k = ahead.claimed - Low
        BY <3>4, <4>3
      <4>5. PICK a, b \in Nat : a = ahead.claimed /\ b = Low
        BY <4>2
      <4>6. h + c + k = a - b
        BY <4>4, <4>5
      <4>7. h + c + (k + 1) = (a + 1) - b
        BY <4>6
      <4>8. (a + 1) - b = ahead'.claimed - Low'
        BY <4>2, <4>5
      <4> QED BY <3>2, <4>1, <4>3, <4>7, <4>8
    <3> QED BY <1>1, <1>2, <1>4, <3>2, <3>3, <3>5 DEF Counted
  <2>10. CrewOK'
    BY <1>1, <1>2, <1>3, <1>6, <2>1, <2>2 DEF CrewOK
  <2>11. PassOK'
    <3>1. Low' <= ahead'.claimed /\ ahead'.claimed <= ListLen /\ ahead'.claimed <= ahead'.emitted + AheadMax
          /\ Low' <= ListLen
      BY <1>1, <1>2, <1>3, <1>4, <1>6, <2>1 DEF PassOK, Room
    <3> QED BY <1>1, <1>2, <1>3, <2>1, <3>1 DEF PassOK, NextItem
  <2>12. FixTypeOK'
    BY <1>1, <1>3, <2>1, <2>2 DEF FixTypeOK
  <2> QED BY <1>2, <2>6, <2>7, <2>8, <2>9, <2>10, <2>11, <2>12 DEF FixInv, InPlay
<1>7. CASE ahead.stop \/ ahead.claimed >= ListLen
  BY <1>5, <1>7 DEF ClaimFile
<1>8. CASE ~(ahead.stop \/ ahead.claimed >= ListLen) /\ ~Room
  BY <1>5, <1>8 DEF ClaimFile
<1>9. CASE ~(ahead.stop \/ ahead.claimed >= ListLen) /\ Room
  <2>1. ~ahead.stop /\ ahead.claimed < ListLen
    BY <1>3, <1>9
  <2> QED BY <1>6, <1>9, <2>1 DEF ClaimFile
<1> QED BY <1>7, <1>8, <1>9

(* A thread reads its entry and sends what is due of it.                   *)
LEMMA DoKeeps ==
  ASSUME FixInv, NEW w \in Crew, DoItem(w)
  PROVE  FixInv'
<1>1. /\ crew[w].at = "work" /\ crew' = [crew EXCEPT ![w].at = "claim"]
      /\ UNCHANGED <<fixList, onDisk, round, ahead, caller, held, identities, failedAt>>
  BY DEF DoItem
<1>2. /\ Low' = Low /\ Threaded' = Threaded /\ Started' = Started /\ ListLen' = ListLen
      /\ NamesOK' /\ DiskOK'
  BY <1>1, CallerStays
<1>3. FixTypeOK /\ CrewOK /\ PassOK /\ InPlay /\ ListLen \in Nat
      /\ ahead.emitted \in Nat /\ ahead.claimed \in Nat /\ w \in Working
      /\ crew \in [Crew -> CrewRecs]
      /\ Disk' = Disk /\ Results' = Results /\ fixList \in FixLists
  BY <1>1, ListFacts DEF FixInv, FixTypeOK, Working, Disk, Results
<1>4. Threaded /\ Low \in Nat
  BY <1>1, <1>3 DEF CrewOK, Low
<1>5. PICK i \in Low + 1 .. ahead.claimed : i = crew[w].item
  BY <1>3 DEF InPlay, PlayOK
<1>6. i \in Nat /\ Low < i /\ i <= ListLen /\ i \in 1 .. ListLen
  BY <1>3, <1>4, <1>5 DEF PassOK
<1>7. ReadAndFix(i) = Due(i)
  BY <1>4, <1>6, ReadIsDue
<1>8. PICK m : m = [item |-> i, got |-> Due(i)]
  OBVIOUS
<1>9. channel' = Append(channel, m)
  BY <1>5, <1>7, <1>8 DEF DoItem
<1>10. Due(i) \in {"same", "clean", "error"}
  BY <1>3, <1>6, ListFacts, FixOfFacts DEF Due
<1>11. m \in Results /\ m.item = i /\ m.got = Due(i)
  BY <1>6, <1>8, <1>10 DEF Results
<1>12. /\ channel \in Seq(Results) /\ channel' \in Seq(Results) /\ Len(channel) \in Nat
       /\ Len(channel') = Len(channel) + 1
       /\ \A n \in 1 .. Len(channel') : \/ n \in 1 .. Len(channel) /\ channel'[n] = channel[n]
                                        \/ n = Len(channel) + 1 /\ channel'[n] = m
       /\ \A n \in 1 .. Len(channel) : n \in 1 .. Len(channel') /\ channel'[n] = channel[n]
       /\ Len(channel) + 1 \in 1 .. Len(channel') /\ channel'[Len(channel) + 1] = m
  <2>1. channel \in Seq(Results)
    BY <1>3 DEF FixTypeOK
  <2>2. /\ channel' \in Seq(Results) /\ Len(channel) \in Nat /\ Len(channel') = Len(channel) + 1
        /\ \A n \in 1 .. Len(channel) : channel'[n] = channel[n]
        /\ channel'[Len(channel) + 1] = m
    BY <1>9, <1>11, <2>1
  <2>3. ASSUME NEW n \in 1 .. Len(channel')
        PROVE  \/ n \in 1 .. Len(channel) /\ channel'[n] = channel[n]
               \/ n = Len(channel) + 1 /\ channel'[n] = m
    <3>1. n \in 1 .. Len(channel) \/ n = Len(channel) + 1
      BY <2>2
    <3> QED BY <2>2, <3>1
  <2>4. 1 .. Len(channel) \subseteq 1 .. Len(channel') /\ Len(channel) + 1 \in 1 .. Len(channel')
    BY <2>2
  <2> QED BY <2>1, <2>2, <2>3, <2>4
<1>13. /\ crew' \in [Crew -> CrewRecs]
       /\ crew'[w].at = "claim" /\ \A v \in Crew \ {w} : crew'[v] = crew[v]
  BY <1>1, <1>3 DEF CrewRecs
<1>14. Working' = Working \ {w}
  BY <1>3, <1>13 DEF Working
<1>15. \A k : Due(k)' = Due(k)
  BY <1>1, DueStays
<1>16. PlayOK'
  BY <1>1, <1>2, <1>3, <1>5, <1>11, <1>12, <1>13, <1>14, <1>15 DEF InPlay, PlayOK, Working
<1>17. Apart'
  <2>1. \A k, n \in 1 .. Len(channel') : channel'[k].item = channel'[n].item => k = n
    BY <1>3, <1>5, <1>11, <1>12 DEF InPlay, Apart
  <2>2. \A r \in held : \A n \in 1 .. Len(channel') : r.item # channel'[n].item
    BY <1>3, <1>5, <1>11, <1>12 DEF InPlay, Apart
  <2>3. \A v \in Working' : v \in Working /\ v # w /\ crew'[v] = crew[v]
    BY <1>13, <1>14 DEF Working
  <2>4. \A v \in Working' : \A n \in 1 .. Len(channel') : crew'[v].item # channel'[n].item
    BY <1>3, <1>5, <1>11, <1>12, <2>3 DEF InPlay, Apart
  <2> QED BY <1>1, <1>3, <2>1, <2>2, <2>3, <2>4 DEF InPlay, Apart
<1>18. Covered'
  <2>1. ASSUME NEW k \in Low + 1 .. ahead.claimed
        PROVE  \/ \E r \in held : r.item = k
               \/ \E n \in 1 .. Len(channel') : channel'[n].item = k
               \/ \E v \in Working' : crew'[v].item = k
    <3>1. CASE k = i
      BY <1>11, <1>12, <3>1
    <3>2. CASE \E n \in 1 .. Len(channel) : channel[n].item = k
      BY <1>12, <3>2
    <3>3. CASE k # i /\ \E v \in Working : crew[v].item = k
      <4>1. PICK v \in Working : crew[v].item = k /\ v # w
        BY <1>5, <3>3
      <4> QED BY <1>13, <1>14, <4>1 DEF Working
    <3> QED BY <1>3, <1>4, <3>1, <3>2, <3>3 DEF InPlay, Covered
  <2> QED BY <1>1, <1>2, <2>1 DEF Covered
<1>19. Counted'
  <2>1. IsFiniteSet(Working) /\ Cardinality(Working) \in Nat /\ IsFiniteSet(held)
        /\ Cardinality(held) \in Nat
    BY <1>3, FS_CardinalityType DEF InPlay, Counted
  <2>2. IsFiniteSet(Working') /\ Cardinality(Working') = Cardinality(Working) - 1
    BY <1>3, <1>14, <2>1, FS_RemoveElement
  <2>3. Cardinality(held) + Len(channel) + Cardinality(Working) = ahead.claimed - Low
    BY <1>3, <1>4 DEF InPlay, Counted
  <2> QED BY <1>1, <1>2, <1>3, <1>4, <1>12, <2>1, <2>2, <2>3 DEF Counted
<1>20. CrewOK'
  BY <1>1, <1>2, <1>3, <1>13 DEF CrewOK
<1>21. PassOK'
  BY <1>1, <1>2, <1>3 DEF PassOK, NextItem
<1>22. FixTypeOK'
  BY <1>1, <1>3, <1>12, <1>13 DEF FixTypeOK
<1> QED BY <1>2, <1>16, <1>17, <1>18, <1>19, <1>20, <1>21, <1>22 DEF FixInv, InPlay

(* What the calling thread does leaves the list and its threads alone.     *)
LEMMA ListStays ==
  ASSUME FixInv, fixList' = fixList
  PROVE  /\ ListLen' = ListLen /\ Started' = Started /\ Disk' = Disk /\ Results' = Results
         /\ Looped' = Looped /\ \A i : IdentOf(i)' = IdentOf(i)
         /\ ListLen \in Nat /\ AheadMax \in Nat /\ fixList \in FixLists
         /\ ahead.emitted \in Nat /\ ahead.claimed \in Nat
<1>1. ListLen' = ListLen /\ Disk' = Disk /\ Results' = Results /\ Looped' = Looped
  BY LoopedStays DEF ListLen, Disk, Results
<1>2. Started' = Started
  BY <1>1 DEF Started
<1>3. \A i : IdentOf(i)' = IdentOf(i)
  BY DEF IdentOf
<1>4. fixList \in FixLists /\ ahead.emitted \in Nat /\ ahead.claimed \in Nat
  BY DEF FixInv, FixTypeOK
<1> QED BY <1>1, <1>2, <1>3, <1>4, ListFacts

(* The next result on the channel joins those that are held.               *)
LEMMA ReceiveKeeps ==
  ASSUME FixInv, ReceiveResult
  PROVE  FixInv'
<1>1. /\ caller.at = "recv" /\ channel # <<>> /\ channel' = Tail(channel)
      /\ held' = held \cup {Head(channel)} /\ caller' = [caller EXCEPT !.at = "drain"]
      /\ UNCHANGED <<fixList, onDisk, round, ahead, crew, identities, failedAt>>
  BY DEF ReceiveResult, CallerTo
<1>2. FixTypeOK /\ CrewOK /\ PassOK /\ InPlay /\ NamesOK /\ DiskOK
  BY DEF FixInv
<1>3. /\ ListLen' = ListLen /\ Started' = Started /\ Disk' = Disk /\ Results' = Results
      /\ Looped' = Looped /\ \A i : IdentOf(i)' = IdentOf(i)
      /\ ListLen \in Nat /\ ahead.emitted \in Nat /\ ahead.claimed \in Nat
  BY <1>1, ListStays
<1>4. caller'.at = "drain" /\ caller' \in CallerRecs
  BY <1>1, <1>2 DEF FixTypeOK, CallerRecs
<1>5. Low' = Low /\ Threaded' = Threaded /\ Threaded /\ Low = ahead.emitted /\ failedAt = 0
      /\ round # "over" /\ Working' = Working
  BY <1>1, <1>2, <1>3, <1>4 DEF Low, Handling, Threaded, PassOK, Working
<1>6. PICK m : m = Head(channel)
  OBVIOUS
<1>7. /\ channel \in Seq(Results) /\ Len(channel) \in Nat /\ 1 \in 1 .. Len(channel)
      /\ m = channel[1] /\ m \in Results
      /\ channel' \in Seq(Results) /\ Len(channel') = Len(channel) - 1
      /\ \A n \in 1 .. Len(channel') : n + 1 \in 1 .. Len(channel) /\ channel'[n] = channel[n + 1]
  BY <1>1, <1>2, <1>6 DEF FixTypeOK
<1>8. \A i : Due(i)' = Due(i)
  BY <1>1, DueStays
<1>9. \A r \in held : r # m /\ r.item # m.item
  BY <1>2, <1>7 DEF InPlay, Apart
<1>10. PlayOK'
  BY <1>1, <1>2, <1>5, <1>6, <1>7, <1>8 DEF InPlay, PlayOK
<1>11. Apart'
  <2>1. \A r, s \in held' : r.item = s.item => r = s
    BY <1>1, <1>2, <1>6, <1>9 DEF InPlay, Apart
  <2>2. \A k, n \in 1 .. Len(channel') : channel'[k].item = channel'[n].item => k = n
    <3>1. \A k, n \in 1 .. Len(channel') : channel'[k].item = channel'[n].item => k + 1 = n + 1
      BY <1>2, <1>7 DEF InPlay, Apart
    <3> QED BY <3>1
  <2>3. ASSUME NEW r \in held', NEW n \in 1 .. Len(channel') PROVE r.item # channel'[n].item
    <3>1. n + 1 \in 1 .. Len(channel) /\ channel'[n] = channel[n + 1] /\ n + 1 # 1
      BY <1>7
    <3>2. CASE r \in held
      BY <1>2, <3>1, <3>2 DEF InPlay, Apart
    <3>3. CASE r = m
      BY <1>2, <1>7, <3>1, <3>3 DEF InPlay, Apart
    <3> QED BY <1>1, <1>6, <3>2, <3>3
  <2>4. \A v \in Working : \A r \in held' : crew[v].item # r.item
    BY <1>1, <1>2, <1>6, <1>7 DEF InPlay, Apart
  <2>5. \A v \in Working : \A n \in 1 .. Len(channel') : crew[v].item # channel'[n].item
    BY <1>2, <1>7 DEF InPlay, Apart
  <2>6. \A v, w \in Working : crew[v].item = crew[w].item => v = w
    BY <1>2 DEF InPlay, Apart
  <2> QED BY <1>1, <1>5, <2>1, <2>2, <2>3, <2>4, <2>5, <2>6 DEF Apart
<1>12. Covered'
  <2>1. ASSUME NEW i \in Low + 1 .. ahead.claimed
        PROVE  \/ \E r \in held' : r.item = i
               \/ \E n \in 1 .. Len(channel') : channel'[n].item = i
               \/ \E w \in Working : crew[w].item = i
    <3>1. CASE \E n \in 1 .. Len(channel) : channel[n].item = i
      <4>1. PICK n \in 1 .. Len(channel) : channel[n].item = i
        BY <3>1
      <4>2. CASE n = 1
        BY <1>1, <1>6, <1>7, <4>1, <4>2
      <4>3. CASE n # 1
        <5>1. n - 1 \in 1 .. Len(channel') /\ (n - 1) + 1 = n
          BY <1>7, <4>3
        <5>2. channel'[n - 1] = channel[n]
          BY <1>7, <5>1
        <5> QED BY <4>1, <5>1, <5>2
      <4> QED BY <4>2, <4>3
    <3> QED BY <1>1, <1>2, <1>5, <3>1 DEF InPlay, Covered
  <2> QED BY <1>1, <1>5, <2>1 DEF Covered
<1>13. Counted'
  <2>1. IsFiniteSet(held) /\ Cardinality(held) \in Nat /\ IsFiniteSet(Working)
        /\ Cardinality(Working) \in Nat
    BY <1>2, FS_CardinalityType DEF InPlay, Counted
  <2>2. m \notin held
    BY <1>9
  <2>3. IsFiniteSet(held') /\ Cardinality(held') = Cardinality(held) + 1
    BY <1>1, <1>6, <2>1, <2>2, FS_AddElement
  <2>4. PICK h, c, k \in Nat : h = Cardinality(held) /\ c = Len(channel) /\ k = Cardinality(Working)
    BY <1>7, <2>1
  <2>5. h + c + k = ahead.claimed - Low
    BY <1>2, <1>5, <2>4 DEF InPlay, Counted
  <2>6. (h + 1) + (c - 1) + k = h + c + k
    OBVIOUS
  <2>7. Cardinality(held') + Len(channel') + Cardinality(Working') = ahead'.claimed - Low'
    BY <1>1, <1>5, <1>7, <2>3, <2>4, <2>5, <2>6
  <2> QED BY <1>1, <1>5, <2>1, <2>3, <2>7 DEF Counted
<1>14. CrewOK' /\ PassOK'
  <2>1. CrewOK'
    BY <1>1, <1>2, <1>3, <1>5 DEF CrewOK
  <2>2. PassOK'
    BY <1>1, <1>2, <1>3, <1>4, <1>5 DEF PassOK
  <2> QED BY <2>1, <2>2
<1>15. FixTypeOK'
  BY <1>1, <1>2, <1>3, <1>4, <1>6, <1>7 DEF FixTypeOK
<1>16. NamesOK'
  BY <1>1, <1>2, <1>3, <1>4, <1>5 DEF NamesOK
<1>17. DiskOK'
  <2>1. ASSUME NEW e, LoopAt(e) PROVE LoopAt(e)'
    BY <1>1, <1>3, <1>4, <1>5, <2>1 DEF LoopAt
  <2> QED BY <1>1, <1>2, <1>3, <2>1 DEF DiskOK
<1> QED BY <1>10, <1>11, <1>12, <1>13, <1>14, <1>15, <1>16, <1>17 DEF FixInv, InPlay

(* The result of the next entry is handled, if it is there.                *)
LEMMA EmitNextKeeps ==
  ASSUME FixInv, EmitNext
  PROVE  FixInv'
<1>1. caller.at = "drain" /\ UNCHANGED <<fixList, round, ahead, crew, channel, failedAt>>
  BY DEF EmitNext
<1>2. FixTypeOK /\ CrewOK /\ PassOK /\ InPlay /\ NamesOK /\ DiskOK
  BY DEF FixInv
<1>3. /\ ListLen' = ListLen /\ Started' = Started /\ Disk' = Disk /\ Results' = Results
      /\ Looped' = Looped /\ \A i : IdentOf(i)' = IdentOf(i)
      /\ ListLen \in Nat /\ ahead.emitted \in Nat /\ ahead.claimed \in Nat /\ fixList \in FixLists
  BY <1>1, ListStays
<1>4. Threaded /\ Low = ahead.emitted /\ failedAt = 0 /\ round \in {"identify", "fix"}
  BY <1>1, <1>2 DEF Low, Handling, Threaded, PassOK, FixTypeOK
<1>5. CASE \E r \in held : r.item = NextItem
  <2>1. PICK m \in held : m.item = NextItem /\ held' = held \ {m} /\ Emitted(m.got)
    BY <1>5 DEF EmitNext
  <2>2. PICK e \in Nat : e = ahead.emitted /\ NextItem = e + 1 /\ Low = e
    BY <1>3, <1>4 DEF NextItem
  <2>3. m.got = Due(e + 1) /\ e + 1 \in Low + 1 .. ahead.claimed
    BY <1>2, <2>1, <2>2 DEF InPlay, PlayOK
  <2>4. e + 1 <= ListLen /\ e + 1 <= ahead.claimed
    BY <1>2, <1>3, <1>4, <2>2, <2>3 DEF PassOK
  <2>5. round = "identify" => m.got = "same"
    BY <2>3 DEF Due
  <2>6. round # "identify" => m.got = FixOf(fixList.files[e + 1], Looped[e].disk)
    <3>1. SUFFICES ASSUME round = "fix" PROVE m.got = FixOf(fixList.files[e + 1], Looped[e].disk)
      BY <1>4
    <3>2. Looped[e].failed = 0
      BY <1>1, <1>2, <2>2, <3>1 DEF DiskOK, LoopAt
    <3> QED BY <1>2, <1>3, <2>3, <2>4, <3>1, <3>2, DueIsRight
  <2>7. /\ Low' = Low + 1 /\ Threaded' = Threaded /\ (round = "identify" \/ identities' = identities)
    BY <1>1, <2>1, EmitMoves
  <2>8. \A i : Due(i)' = Due(i)
    BY <1>1, <2>7, DueStays
  <2>9. Working' = Working
    BY <1>1 DEF Working
  <2>10. Low' = e + 1 /\ \A i \in Low + 1 .. ahead.claimed : i # e + 1 => i \in Low' + 1 .. ahead.claimed
    BY <1>3, <2>2, <2>7
  <2>11. \A i \in Low' + 1 .. ahead.claimed : i \in Low + 1 .. ahead.claimed /\ i # e + 1
    BY <1>3, <2>2, <2>10
  <2>12. PlayOK'
    <3>1. \A r \in held' : r \in held /\ r.item # e + 1
      BY <1>2, <2>1, <2>2 DEF InPlay, Apart
    <3>2. \A n \in 1 .. Len(channel) : channel[n].item # e + 1
      BY <1>2, <2>1, <2>2 DEF InPlay, Apart
    <3>3. \A w \in Working : crew[w].item # e + 1
      BY <1>2, <2>1, <2>2 DEF InPlay, Apart
    <3> QED BY <1>1, <1>2, <2>8, <2>9, <2>10, <3>1, <3>2, <3>3 DEF InPlay, PlayOK
  <2>13. Apart'
    BY <1>1, <1>2, <2>1, <2>9 DEF InPlay, Apart
  <2>14. Covered'
    <3>1. \A r \in held : r.item # e + 1 => r \in held'
      BY <2>1, <2>2
    <3> QED BY <1>1, <1>2, <1>4, <2>9, <2>11, <3>1 DEF InPlay, Covered
  <2>15. Counted'
    <3>1. IsFiniteSet(held) /\ Cardinality(held) \in Nat /\ IsFiniteSet(Working)
          /\ Cardinality(Working) \in Nat /\ Len(channel) \in Nat
      BY <1>2, FS_CardinalityType DEF InPlay, Counted, FixTypeOK
    <3>2. IsFiniteSet(held') /\ Cardinality(held') = Cardinality(held) - 1
      BY <2>1, <3>1, FS_RemoveElement
    <3>3. PICK h, c, k, a \in Nat : /\ h = Cardinality(held) /\ c = Len(channel)
                                    /\ k = Cardinality(Working) /\ a = ahead.claimed
      BY <1>3, <3>1
    <3>4. h + c + k = a - e
      BY <1>2, <1>4, <2>2, <3>3 DEF InPlay, Counted
    <3>5. (h - 1) + c + k = a - (e + 1)
      BY <3>4
    <3>6. Cardinality(held') + Len(channel') + Cardinality(Working') = ahead'.claimed - Low'
      BY <1>1, <2>9, <2>10, <3>2, <3>3, <3>5
    <3> QED BY <1>4, <2>7, <2>9, <3>1, <3>2, <3>6 DEF Counted
  <2>16. InPlay'
    BY <2>12, <2>13, <2>14, <2>15 DEF InPlay
  <2>17. ahead.emitted < ListLen /\ Low + 1 <= ahead.claimed /\ held' \subseteq held
    BY <1>3, <2>1, <2>2, <2>4
  <2> QED BY <1>1, <2>1, <2>2, <2>5, <2>6, <2>16, <2>17, EmitKeeps
<1>6. CASE ~(\E r \in held : r.item = NextItem)
  <2>1. caller' = [caller EXCEPT !.at = "recv"] /\ UNCHANGED <<onDisk, held, identities>>
    BY <1>6 DEF EmitNext, CallerTo
  <2>2. caller'.at = "recv" /\ caller' \in CallerRecs
    BY <1>2, <2>1 DEF FixTypeOK, CallerRecs
  <2>3. Low' = Low /\ Threaded' = Threaded /\ Working' = Working /\ NextItem' = NextItem
    BY <1>1, <1>3, <1>4, <2>2 DEF Low, Handling, Threaded, Working, NextItem
  <2>4. InPlay'
    BY <1>1, <1>2, <2>1, <2>3, PlayStays
  <2>5. CrewOK'
    BY <1>1, <1>2, <1>3, <2>3 DEF CrewOK
  <2>6. PassOK'
    BY <1>1, <1>2, <1>3, <1>4, <1>6, <2>1, <2>2, <2>3 DEF PassOK
  <2>7. FixTypeOK'
    BY <1>1, <1>2, <1>3, <2>1, <2>2 DEF FixTypeOK
  <2>8. NamesOK'
    BY <1>1, <1>2, <1>3, <2>1, <2>2, <2>3 DEF NamesOK
  <2>9. DiskOK'
    <3>1. ASSUME NEW e, LoopAt(e) PROVE LoopAt(e)'
      BY <1>1, <1>3, <1>4, <2>1, <2>2, <3>1 DEF LoopAt
    <3> QED BY <1>1, <1>2, <1>3, <2>1, <3>1 DEF DiskOK
  <2> QED BY <2>4, <2>5, <2>6, <2>7, <2>8, <2>9 DEF FixInv
<1> QED BY <1>5, <1>6

(* The caller goes on in a pass; threads are woken at most.                *)
LEMMA GoesOn ==
  ASSUME FixInv, NEW at \in {"recv", "drain", "next", "notify", "stopped", "loop", "join"},
         caller.at # "begin", caller' = [caller EXCEPT !.at = at],
         UNCHANGED <<fixList, round, channel, held, identities>>,
         ahead' \in [claimed : Nat, emitted : Nat, stop : BOOLEAN],
         ahead'.claimed = ahead.claimed, ahead.stop => ahead'.stop, Low' = Low,
         crew' \in {crew, Woken}, onDisk' \in [Disk -> Sound \cup {"torn"}], failedAt' \in Nat
  PROVE  /\ FixTypeOK' /\ CrewOK' /\ InPlay' /\ NamesOK'
         /\ caller'.at = at /\ caller'.got = caller.got /\ Threaded' = Threaded
         /\ ListLen' = ListLen /\ Looped' = Looped
<1>1. /\ ListLen' = ListLen /\ Started' = Started /\ Disk' = Disk /\ Results' = Results
      /\ Looped' = Looped /\ \A i : IdentOf(i)' = IdentOf(i)
  BY ListStays
<1>2. FixTypeOK /\ CrewOK /\ InPlay /\ NamesOK /\ caller \in CallerRecs /\ crew \in [Crew -> CrewRecs]
  BY DEF FixInv, FixTypeOK
<1>3. caller'.at = at /\ caller'.got = caller.got /\ caller' \in CallerRecs
  BY <1>2 DEF CallerRecs
<1>4. Threaded' = Threaded
  BY <1>1, <1>3 DEF Threaded
<1>5. /\ crew' \in [Crew -> CrewRecs]
      /\ \A w \in Crew : /\ crew'[w].item = crew[w].item
                         /\ crew'[w].at = "off" <=> crew[w].at = "off"
                         /\ crew'[w].at = "gone" <=> crew[w].at = "gone"
                         /\ crew'[w].at = "work" <=> crew[w].at = "work"
  <2>1. CASE crew' = crew
    BY <1>2, <2>1
  <2>2. CASE crew' = Woken
    <3>1. ASSUME NEW w \in Crew, crew[w].at = "asleep"
          PROVE  crew'[w] = [crew[w] EXCEPT !.at = "claim"] /\ crew'[w] \in CrewRecs
      BY <1>2, <2>2, <3>1 DEF Woken, CrewRecs
    <3>2. ASSUME NEW w \in Crew, crew[w].at # "asleep"
          PROVE  crew'[w] = crew[w] /\ crew'[w] \in CrewRecs
      BY <1>2, <2>2, <3>2 DEF Woken
    <3>3. ASSUME NEW w \in Crew
          PROVE  /\ crew'[w].item = crew[w].item /\ crew'[w] \in CrewRecs
                 /\ crew'[w].at = "off" <=> crew[w].at = "off"
                 /\ crew'[w].at = "gone" <=> crew[w].at = "gone"
                 /\ crew'[w].at = "work" <=> crew[w].at = "work"
      <4>1. CASE crew[w].at = "asleep"
        <5>1. crew[w] \in CrewRecs
          BY <1>2
        <5> QED BY <3>1, <4>1, <5>1 DEF CrewRecs
      <4>2. CASE crew[w].at # "asleep"
        BY <3>2, <4>2
      <4> QED BY <4>1, <4>2
    <3>4. crew' = [w \in Crew |-> crew'[w]]
      BY <2>2 DEF Woken
    <3> QED BY <3>3, <3>4
  <2> QED BY <2>1, <2>2
<1>6. Working' = Working /\ \A w \in Working : crew'[w].item = crew[w].item
  BY <1>5 DEF Working
<1>7. InPlay'
  BY <1>2, <1>4, <1>6, PlayStays
<1>8. CrewOK'
  BY <1>1, <1>2, <1>4, <1>5 DEF CrewOK
<1>9. NamesOK'
  BY <1>1, <1>2, <1>3 DEF NamesOK
<1>10. FixTypeOK'
  BY <1>1, <1>2, <1>3, <1>5 DEF FixTypeOK
<1> QED BY <1>1, <1>3, <1>4, <1>7, <1>8, <1>9, <1>10

(* A file is written; then the entry counts as handled.                    *)
LEMMA WriteKeeps ==
  ASSUME FixInv, WriteEnds
  PROVE  FixInv'
<1>1. /\ caller.at = "writing" /\ caller' = [caller EXCEPT !.at = "next"]
      /\ UNCHANGED <<fixList, round, ahead, crew, channel, held, identities, failedAt>>
      /\ onDisk' = [onDisk EXCEPT ![fixList.files[NextItem]] = caller.got]
  BY DEF WriteEnds, CallerTo
<1>2. /\ FixTypeOK /\ PassOK /\ DiskOK /\ ListLen \in Nat /\ fixList \in FixLists
      /\ ahead \in [claimed : Nat, emitted : Nat, stop : BOOLEAN] /\ failedAt \in Nat
      /\ onDisk \in [Disk -> Sound \cup {"torn"}] /\ caller \in CallerRecs
  BY ListFacts DEF FixInv, FixTypeOK
<1>3. PICK e \in Nat : e = ahead.emitted /\ NextItem = e + 1
  BY <1>2 DEF NextItem
<1>4. PICK f : f = fixList.files[e + 1]
  OBVIOUS
<1>5. caller'.at = "next"
  BY <1>1, <1>2 DEF CallerRecs
<1>6. Low = e + 1 /\ Low' = Low
  BY <1>1, <1>3, <1>5 DEF Low, Handling
<1>7. e + 1 <= ListLen /\ round \in {"fix", "alone"} /\ failedAt = 0 /\ e + 1 \in 1 .. ListLen
  BY <1>1, <1>2, <1>3, <1>6 DEF PassOK
<1>8. /\ f # NoFile /\ f \in fixList.writable /\ caller.got = "clean"
      /\ Looped[e].disk[f] = "dirty" /\ Looped[e].failed = 0
      /\ onDisk = [Looped[e].disk EXCEPT ![f] = "torn"]
  BY <1>1, <1>2, <1>3, <1>4, <1>7 DEF DiskOK, LoopAt
<1>9. PICK r : r = FixOf(f, Looped[e].disk)
  OBVIOUS
<1>10. LoopDid(e, f, r)
  BY <1>2, <1>4, <1>7, <1>9, LoopDoes
<1>11. f \in Disk /\ Looped[e + 1] = [Looped[e] EXCEPT !.disk[f] = "clean"]
       /\ Looped[e].disk \in [Disk -> Sound] /\ Looped[e] \in LoopStates
  BY <1>8, <1>10 DEF LoopDid, LoopStates
<1>12. onDisk' = [onDisk EXCEPT ![f] = "clean"]
  BY <1>1, <1>3, <1>4, <1>8
<1>13. onDisk' \in [Disk -> Sound \cup {"torn"}]
  BY <1>2, <1>11, <1>12 DEF Sound
<1>14. Looped[e + 1].failed = 0 /\ onDisk' = Looped[e + 1].disk
  BY <1>8, <1>11, <1>12 DEF LoopStates
<1>15. /\ FixTypeOK' /\ CrewOK' /\ InPlay' /\ NamesOK' /\ Threaded' = Threaded
       /\ ListLen' = ListLen /\ Looped' = Looped
  BY <1>1, <1>2, <1>6, <1>13, GoesOn
<1>16. PassOK'
  BY <1>1, <1>2, <1>5, <1>6, <1>7, <1>15 DEF PassOK
<1>17. DiskOK'
  <2>1. LoopAt(e)'
    BY <1>1, <1>5, <1>7, <1>14, <1>15 DEF LoopAt
  <2> QED BY <1>1, <1>3, <1>7, <2>1 DEF DiskOK
<1> QED BY <1>15, <1>16, <1>17 DEF FixInv

(* One more entry is handled.                                              *)
LEMMA CountKeeps ==
  ASSUME FixInv, CountOne
  PROVE  FixInv'
<1> DEFINE at == IF Started = {} \/ round = "alone" THEN "loop" ELSE "notify"
<1>1. /\ caller.at = "next" /\ caller' = [caller EXCEPT !.at = at]
      /\ ahead' = [ahead EXCEPT !.emitted = NextItem]
      /\ UNCHANGED <<fixList, onDisk, round, crew, channel, held, identities, failedAt>>
      /\ at \in {"loop", "notify"}
  BY DEF CountOne, CallerTo
<1>2. /\ FixTypeOK /\ PassOK /\ DiskOK /\ ListLen \in Nat /\ fixList \in FixLists /\ AheadMax \in Nat
      /\ ahead \in [claimed : Nat, emitted : Nat, stop : BOOLEAN] /\ failedAt \in Nat
      /\ onDisk \in [Disk -> Sound \cup {"torn"}] /\ caller \in CallerRecs
  BY ListFacts DEF FixInv, FixTypeOK
<1>3. PICK e \in Nat : e = ahead.emitted /\ NextItem = e + 1
  BY <1>2 DEF NextItem
<1>4. Threaded <=> at = "notify"
  BY <1>1 DEF Threaded
<1> HIDE DEF at
<1>5. caller'.at = at
  BY <1>1, <1>2 DEF CallerRecs
<1>6. /\ ahead' \in [claimed : Nat, emitted : Nat, stop : BOOLEAN]
      /\ ahead'.emitted = e + 1 /\ ahead'.claimed = ahead.claimed /\ ahead'.stop = ahead.stop
  BY <1>1, <1>2, <1>3
<1>7. Low = e + 1 /\ Low' = Low /\ failedAt = 0 /\ round # "over" /\ ~ahead.stop
  BY <1>1, <1>2, <1>3, <1>5, <1>6 DEF Low, Handling, PassOK
<1>8. /\ FixTypeOK' /\ CrewOK' /\ InPlay' /\ NamesOK' /\ Threaded' = Threaded
      /\ ListLen' = ListLen /\ Looped' = Looped
  BY <1>1, <1>2, <1>6, <1>7, GoesOn
<1>9. PassOK'
  <2>1. /\ Low' <= ListLen
        /\ Threaded' => /\ Low' <= ahead'.claimed /\ ahead'.claimed <= ListLen
                        /\ ahead'.claimed <= ahead'.emitted + AheadMax
    BY <1>1, <1>2, <1>3, <1>6, <1>7, <1>8 DEF PassOK, FixTypeOK
  <2> QED BY <1>1, <1>2, <1>4, <1>5, <1>6, <1>7, <1>8, <2>1 DEF PassOK
<1>10. DiskOK'
  <2>1. CASE round = "identify"
    BY <1>1, <1>2, <2>1 DEF DiskOK
  <2>2. CASE round \in {"fix", "alone"}
    <3>1. Looped[e + 1].failed = 0 /\ onDisk = Looped[e + 1].disk
      BY <1>1, <1>2, <1>3, <2>2 DEF DiskOK, LoopAt
    <3>2. LoopAt(e + 1)'
      BY <1>1, <1>5, <1>7, <1>8, <3>1 DEF LoopAt
    <3> QED BY <1>1, <1>6, <2>2, <3>2 DEF DiskOK
  <2> QED BY <1>2, <1>7, <2>1, <2>2 DEF FixTypeOK
<1> QED BY <1>8, <1>9, <1>10 DEF FixInv

(* The threads are woken, and the next result is looked for.               *)
LEMMA NotifyKeeps ==
  ASSUME FixInv, NotifyAll
  PROVE  FixInv'
<1>1. /\ caller.at = "notify" /\ caller' = [caller EXCEPT !.at = "drain"] /\ crew' = Woken
      /\ UNCHANGED <<fixList, onDisk, round, ahead, channel, held, identities, failedAt>>
  BY DEF NotifyAll, CallerTo
<1>2. /\ FixTypeOK /\ PassOK /\ DiskOK
      /\ ahead \in [claimed : Nat, emitted : Nat, stop : BOOLEAN] /\ failedAt \in Nat
      /\ onDisk \in [Disk -> Sound \cup {"torn"}] /\ caller \in CallerRecs
  BY DEF FixInv, FixTypeOK
<1>3. caller'.at = "drain"
  BY <1>1, <1>2 DEF CallerRecs
<1>4. Low = ahead.emitted /\ Low' = Low /\ failedAt = 0 /\ round # "over"
  BY <1>1, <1>2, <1>3 DEF Low, Handling, PassOK
<1>5. /\ FixTypeOK' /\ CrewOK' /\ InPlay' /\ NamesOK' /\ Threaded' = Threaded
      /\ ListLen' = ListLen /\ Looped' = Looped
  BY <1>1, <1>2, <1>4, GoesOn
<1>6. PassOK'
  BY <1>1, <1>2, <1>3, <1>4, <1>5 DEF PassOK
<1>7. DiskOK'
  <2>1. ASSUME NEW e, LoopAt(e) PROVE LoopAt(e)'
    BY <1>1, <1>3, <1>4, <1>5, <2>1 DEF LoopAt
  <2> QED BY <1>1, <1>2, <1>5, <2>1 DEF DiskOK
<1> QED BY <1>5, <1>6, <1>7 DEF FixInv

(* The threads are told to stop.                                           *)
LEMMA StopKeeps ==
  ASSUME FixInv, StopCrew
  PROVE  FixInv'
<1>1. /\ caller.at = "failed" /\ caller' = [caller EXCEPT !.at = "stopped"]
      /\ failedAt' = NextItem /\ ahead' = [ahead EXCEPT !.stop = TRUE]
      /\ UNCHANGED <<fixList, onDisk, round, crew, channel, held, identities>>
  BY DEF StopCrew, CallerTo
<1>2. /\ FixTypeOK /\ PassOK /\ DiskOK /\ ListLen \in Nat
      /\ ahead \in [claimed : Nat, emitted : Nat, stop : BOOLEAN]
      /\ onDisk \in [Disk -> Sound \cup {"torn"}] /\ caller \in CallerRecs
  BY ListFacts DEF FixInv, FixTypeOK
<1>3. PICK e \in Nat : e = ahead.emitted /\ NextItem = e + 1
  BY <1>2 DEF NextItem
<1>4. caller'.at = "stopped"
  BY <1>1, <1>2 DEF CallerRecs
<1>5. /\ ahead' \in [claimed : Nat, emitted : Nat, stop : BOOLEAN]
      /\ ahead'.emitted = e /\ ahead'.claimed = ahead.claimed /\ ahead'.stop
  BY <1>1, <1>2, <1>3
<1>6. Low = e + 1 /\ Low' = Low /\ round \in {"fix", "alone"} /\ failedAt' \in Nat /\ failedAt' # 0
  BY <1>1, <1>2, <1>3, <1>4, <1>5 DEF Low, Handling, PassOK
<1>7. /\ FixTypeOK' /\ CrewOK' /\ InPlay' /\ NamesOK' /\ Threaded' = Threaded
      /\ ListLen' = ListLen /\ Looped' = Looped
  BY <1>1, <1>2, <1>5, <1>6, GoesOn
<1>8. PassOK'
  <2>1. /\ Low' <= ListLen
        /\ Threaded' => /\ Low' <= ahead'.claimed /\ ahead'.claimed <= ListLen
                        /\ ahead'.claimed <= ahead'.emitted + AheadMax
    BY <1>2, <1>3, <1>5, <1>6, <1>7 DEF PassOK
  <2> QED BY <1>1, <1>4, <1>6, <1>7, <2>1 DEF PassOK
<1>9. DiskOK'
  <2>1. LoopAt(e)
    BY <1>2, <1>3, <1>6 DEF DiskOK
  <2>2. LoopAt(e)'
    BY <1>1, <1>3, <1>4, <1>7, <2>1 DEF LoopAt
  <2> QED BY <1>1, <1>5, <1>6, <2>2 DEF DiskOK
<1> QED BY <1>7, <1>8, <1>9 DEF FixInv

(* They are woken to see it.                                               *)
LEMMA NotifyStopKeeps ==
  ASSUME FixInv, NotifyStop
  PROVE  FixInv'
<1>1. /\ caller.at = "stopped" /\ caller' = [caller EXCEPT !.at = "join"] /\ crew' = Woken
      /\ UNCHANGED <<fixList, onDisk, round, ahead, channel, held, identities, failedAt>>
  BY DEF NotifyStop, CallerTo
<1>2. /\ FixTypeOK /\ PassOK /\ DiskOK
      /\ ahead \in [claimed : Nat, emitted : Nat, stop : BOOLEAN] /\ failedAt \in Nat
      /\ onDisk \in [Disk -> Sound \cup {"torn"}] /\ caller \in CallerRecs
  BY DEF FixInv, FixTypeOK
<1>3. caller'.at = "join"
  BY <1>1, <1>2 DEF CallerRecs
<1>4. Low' = Low /\ failedAt # 0 /\ round \in {"fix", "alone"}
  BY <1>1, <1>2, <1>3 DEF Low, Handling, PassOK
<1>5. /\ FixTypeOK' /\ CrewOK' /\ InPlay' /\ NamesOK' /\ Threaded' = Threaded
      /\ ListLen' = ListLen /\ Looped' = Looped
  BY <1>1, <1>2, <1>4, GoesOn
<1>6. PassOK'
  BY <1>1, <1>2, <1>3, <1>4, <1>5 DEF PassOK
<1>7. DiskOK'
  <2>1. ASSUME NEW e, LoopAt(e) PROVE LoopAt(e)'
    BY <1>1, <1>3, <1>4, <1>5, <2>1 DEF LoopAt
  <2> QED BY <1>1, <1>2, <1>4, <2>1 DEF DiskOK
<1> QED BY <1>5, <1>6, <1>7 DEF FixInv

(* Without threads the entries are read and handled one by one.            *)
LEMMA LoopKeeps ==
  ASSUME FixInv, LoopOne
  PROVE  FixInv'
<1>1. caller.at = "loop" /\ UNCHANGED <<fixList, round, ahead, crew, channel, held, failedAt>>
  BY DEF LoopOne
<1>2. /\ FixTypeOK /\ PassOK /\ DiskOK /\ InPlay /\ ListLen \in Nat
      /\ ahead \in [claimed : Nat, emitted : Nat, stop : BOOLEAN] /\ failedAt \in Nat
      /\ onDisk \in [Disk -> Sound \cup {"torn"}] /\ caller \in CallerRecs
  BY ListFacts DEF FixInv, FixTypeOK
<1>3. ~Threaded /\ failedAt = 0 /\ round # "over" /\ Low = ahead.emitted /\ ahead.emitted \in Nat
  BY <1>1, <1>2 DEF PassOK, Low, Handling
<1>4. held = {} /\ channel = <<>> /\ Working = {}
  BY <1>2, <1>3 DEF InPlay, Counted
<1>5. CASE ahead.emitted < ListLen
  <2>1. Emitted(ReadAndFix(NextItem))
    BY <1>5 DEF LoopOne
  <2>2. PICK r : r = ReadAndFix(NextItem)
    OBVIOUS
  <2>3. Emitted(r)
    BY <2>1, <2>2
  <2>4. round = "identify" => r = "same"
    BY <2>2 DEF ReadAndFix
  <2>5. round # "identify" => r = FixOf(fixList.files[NextItem], Looped[ahead.emitted].disk)
    BY <1>1, <1>2, <1>3, <1>5, <2>2, ReadIsLoop DEF FixTypeOK
  <2>6. Threaded' = Threaded
    BY <1>1, <2>3, EmitMoves
  <2>7. InPlay'
    <3>1. held' = {} /\ channel' = <<>> /\ Working' = {}
      BY <1>1, <1>4 DEF Working
    <3> QED BY <1>3, <2>6, <3>1, PlayEmpty
  <2> QED BY <1>1, <1>3, <1>5, <2>3, <2>4, <2>5, <2>7, EmitKeeps
<1>6. CASE ~(ahead.emitted < ListLen)
  <2>1. caller' = [caller EXCEPT !.at = "join"] /\ UNCHANGED <<onDisk, identities>>
    BY <1>6 DEF LoopOne, CallerTo
  <2>2. caller'.at = "join"
    BY <1>2, <2>1 DEF CallerRecs
  <2>3. Low' = Low
    BY <1>1, <1>3, <2>2 DEF Low, Handling
  <2>4. /\ FixTypeOK' /\ CrewOK' /\ InPlay' /\ NamesOK' /\ Threaded' = Threaded
        /\ ListLen' = ListLen /\ Looped' = Looped
    BY <1>1, <1>2, <2>1, <2>3, GoesOn
  <2>5. ahead.emitted = ListLen
    BY <1>2, <1>3, <1>6 DEF PassOK
  <2>6. PassOK'
    BY <1>1, <1>2, <1>3, <2>1, <2>2, <2>3, <2>4, <2>5 DEF PassOK
  <2>7. DiskOK'
    <3>1. ASSUME NEW e, LoopAt(e) PROVE LoopAt(e)'
      BY <1>1, <1>3, <2>1, <2>2, <2>4, <3>1 DEF LoopAt
    <3> QED BY <1>1, <1>2, <1>3, <2>1, <3>1 DEF DiskOK
  <2> QED BY <2>4, <2>6, <2>7 DEF FixInv
<1> QED BY <1>5, <1>6

(* The channel is closed: no entry was left out.                           *)
LEMMA AllReceivedKeeps ==
  ASSUME FixInv, AllReceived
  PROVE  FixInv'
<1>1. /\ caller.at = "recv" /\ channel = <<>> /\ caller' = [caller EXCEPT !.at = "join"]
      /\ \A w \in Crew : crew[w].at \in {"off", "gone"}
      /\ UNCHANGED <<fixList, onDisk, round, ahead, crew, channel, held, identities, failedAt>>
  BY DEF AllReceived, CallerTo, AllGone
<1>2. /\ FixTypeOK /\ CrewOK /\ PassOK /\ DiskOK /\ InPlay /\ ListLen \in Nat
      /\ ahead \in [claimed : Nat, emitted : Nat, stop : BOOLEAN] /\ failedAt \in Nat
      /\ onDisk \in [Disk -> Sound \cup {"torn"}] /\ caller \in CallerRecs
      /\ ahead.emitted \in Nat /\ ahead.claimed \in Nat
  BY ListFacts DEF FixInv, FixTypeOK
<1>3. caller'.at = "join"
  BY <1>1, <1>2 DEF CallerRecs
<1>4. Threaded /\ failedAt = 0 /\ round # "over" /\ Low = ahead.emitted /\ Low' = Low /\ ~ahead.stop
  BY <1>1, <1>2, <1>3 DEF PassOK, Low, Handling
<1>5. ahead.claimed = ListLen
  <2>1. PICK w \in Started : w \in Crew
    BY <1>4 DEF Threaded, Started
  <2>2. crew[w].at = "gone"
    BY <1>1, <1>2, <1>4, <2>1 DEF CrewOK
  <2>3. ahead.claimed >= ListLen
    BY <1>2, <1>4, <2>1, <2>2 DEF CrewOK
  <2> QED BY <1>2, <1>4, <2>3 DEF PassOK
<1>6. ahead.emitted = ListLen
  <2>1. SUFFICES ASSUME ahead.emitted # ListLen PROVE FALSE
    OBVIOUS
  <2>2. Low + 1 \in Low + 1 .. ahead.claimed /\ Low + 1 = NextItem
    BY <1>2, <1>4, <1>5, <2>1 DEF PassOK, NextItem
  <2>3. \A r \in held : r.item # Low + 1
    BY <1>1, <1>2, <2>2 DEF PassOK
  <2>4. Working = {} /\ 1 .. Len(channel) = {}
    BY <1>1 DEF Working
  <2> QED BY <1>2, <1>4, <2>2, <2>3, <2>4 DEF InPlay, Covered
<1>7. /\ FixTypeOK' /\ CrewOK' /\ InPlay' /\ NamesOK' /\ Threaded' = Threaded
      /\ ListLen' = ListLen /\ Looped' = Looped
  BY <1>1, <1>2, <1>4, GoesOn
<1>8. PassOK'
  BY <1>1, <1>2, <1>3, <1>4, <1>6, <1>7 DEF PassOK
<1>9. DiskOK'
  <2>1. ASSUME NEW e, LoopAt(e) PROVE LoopAt(e)'
    BY <1>1, <1>3, <1>4, <1>7, <2>1 DEF LoopAt
  <2> QED BY <1>1, <1>2, <1>4, <2>1 DEF DiskOK
<1> QED BY <1>7, <1>8, <1>9 DEF FixInv

(* A pass begins with nothing claimed.                                     *)
LEMMA BeginKeeps ==
  ASSUME FixInv, BeginPass
  PROVE  FixInv'
<1>1. /\ round # "over" /\ caller.at = "begin"
      /\ ahead' = [claimed |-> 0, emitted |-> 0, stop |-> FALSE]
      /\ crew' = [w \in Crew |-> [at |-> IF round # "alone" /\ w \in Started THEN "claim" ELSE "off",
                                  item |-> 0]]
      /\ UNCHANGED <<fixList, onDisk, round, channel, held, identities, failedAt>>
      /\ caller' = [caller EXCEPT !.at = IF round = "alone" \/ Started = {} THEN "loop" ELSE "recv"]
  BY DEF BeginPass, CallerTo
<1>2. FixTypeOK /\ PassOK /\ InPlay /\ NamesOK /\ DiskOK /\ caller \in CallerRecs
  BY DEF FixInv, FixTypeOK
<1>3. /\ ListLen' = ListLen /\ Started' = Started /\ Disk' = Disk /\ Results' = Results
      /\ Looped' = Looped /\ \A i : IdentOf(i)' = IdentOf(i)
      /\ ListLen \in Nat /\ AheadMax \in Nat /\ fixList \in FixLists
  BY <1>1, ListStays
<1>4. /\ caller' \in CallerRecs
      /\ round = "alone" \/ Started = {} => caller'.at = "loop"
      /\ ~(round = "alone" \/ Started = {}) => caller'.at = "recv"
  BY <1>1, <1>2 DEF CallerRecs
<1>5. Low' = 0 /\ failedAt = 0 /\ caller'.at \in {"loop", "recv"}
  BY <1>1, <1>2, <1>4 DEF Low, Handling, PassOK
<1>6. Threaded' <=> round # "alone" /\ Started # {}
  BY <1>1, <1>3, <1>5 DEF Threaded
<1>7. held = {} /\ channel = <<>> /\ ~Threaded
  BY <1>1, <1>2 DEF InPlay, Counted, Threaded
<1>8. ASSUME NEW w \in Crew
      PROVE  crew'[w] \in CrewRecs /\ crew'[w].at \in {"off", "claim"}
             /\ (crew'[w].at # "off" <=> Threaded' /\ w \in Started)
  <2>1. crew'[w] = [at |-> IF round # "alone" /\ w \in Started THEN "claim" ELSE "off", item |-> 0]
    BY <1>1
  <2> QED BY <1>6, <2>1 DEF CrewRecs
<1>9. CrewOK'
  BY <1>3, <1>8 DEF CrewOK
<1>10. InPlay'
  <2>1. Working' = {}
    BY <1>8 DEF Working
  <2> QED BY <1>1, <1>5, <1>7, <2>1, PlayEmpty
<1>11. PassOK'
  BY <1>1, <1>3, <1>4, <1>5, <1>6, <1>7 DEF PassOK
<1>12. FixTypeOK'
  <2>1. crew' \in [Crew -> CrewRecs]
    <3>1. crew' = [w \in Crew |-> crew'[w]]
      BY <1>1
    <3> QED BY <1>8, <3>1
  <2> QED BY <1>1, <1>2, <1>3, <1>4, <2>1 DEF FixTypeOK
<1>13. NamesOK'
  BY <1>1, <1>2, <1>3, <1>5 DEF NamesOK
<1>14. DiskOK'
  <2>1. CASE round = "identify"
    BY <1>1, <1>2, <2>1 DEF DiskOK
  <2>2. CASE round \in {"fix", "alone"}
    <3>1. onDisk = fixList.disk
      BY <1>1, <1>2, <2>2 DEF DiskOK, LoopAt
    <3>2. Looped[0].failed = 0 /\ onDisk = Looped[0].disk
      BY <1>3, <3>1, LoopedIsDefined
    <3>3. LoopAt(0)'
      BY <1>1, <1>3, <1>5, <3>2 DEF LoopAt
    <3> QED BY <1>1, <2>2, <3>3 DEF DiskOK
  <2> QED BY <1>1, <1>2, <2>1, <2>2 DEF FixTypeOK
<1> QED BY <1>9, <1>10, <1>11, <1>12, <1>13, <1>14 DEF FixInv

(* A pass ends when its threads are through.                               *)
LEMMA EndKeeps ==
  ASSUME FixInv, EndPass
  PROVE  FixInv'
<1>1. /\ caller.at = "join"
      /\ round' = IF round = "identify"
                  THEN IF \E i \in DOMAIN identities : identities[i] = UnknownFile THEN "alone" ELSE "fix"
                  ELSE "over"
      /\ channel' = <<>> /\ held' = {} /\ crew' = CrewIdle /\ caller' = [caller EXCEPT !.at = "begin"]
      /\ UNCHANGED <<fixList, onDisk, ahead, identities, failedAt>>
  BY DEF EndPass, CallerTo
<1>2. FixTypeOK /\ PassOK /\ NamesOK /\ DiskOK /\ caller \in CallerRecs
      /\ identities \in Seq(Int) /\ failedAt \in Nat
  BY DEF FixInv, FixTypeOK
<1>3. /\ ListLen' = ListLen /\ Started' = Started /\ Disk' = Disk /\ Results' = Results
      /\ Looped' = Looped /\ \A i : IdentOf(i)' = IdentOf(i)
      /\ ListLen \in Nat /\ ahead.emitted \in Nat /\ fixList \in FixLists
  BY <1>1, ListStays
<1>4. caller' \in CallerRecs /\ caller'.at = "begin"
  BY <1>1, <1>2 DEF CallerRecs
<1>5. round # "over" /\ round' # "identify"
  BY <1>1, <1>2 DEF PassOK
<1>6. PICK e \in Nat : e = ahead.emitted
  BY <1>3
<1>7. ~Threaded' /\ Low' = e /\ e <= ListLen /\ (failedAt # 0 => e + 1 <= ListLen)
      /\ (failedAt = 0 => e = ListLen)
  BY <1>1, <1>2, <1>3, <1>4, <1>6 DEF Threaded, Low, Handling, PassOK
<1>8. ASSUME NEW w \in Crew PROVE crew'[w] \in CrewRecs /\ crew'[w].at = "off"
  BY <1>1 DEF CrewIdle, CrewRecs
<1>9. CrewOK'
  BY <1>7, <1>8 DEF CrewOK
<1>10. InPlay'
  <2>1. Working' = {}
    BY <1>8 DEF Working
  <2> QED BY <1>1, <1>7, <2>1, PlayEmpty
<1>11. round = "identify" => failedAt = 0 /\ onDisk = fixList.disk /\ Len(identities) = ListLen
  BY <1>1, <1>2, <1>3, <1>6, <1>7 DEF DiskOK, NamesOK, Low, Handling
<1>12. PassOK'
  BY <1>1, <1>3, <1>4, <1>5, <1>7, <1>11 DEF PassOK
<1>13. FixTypeOK'
  <2>1. crew' \in [Crew -> CrewRecs]
    BY <1>1, <1>8 DEF CrewIdle, CrewRecs
  <2>2. round' \in {"identify", "fix", "alone", "over"}
    BY <1>1
  <2>3. channel' \in Seq(Results') /\ held' \in SUBSET Results'
    BY <1>1
  <2> QED BY <1>1, <1>2, <1>3, <1>4, <2>1, <2>2, <2>3 DEF FixTypeOK
<1>14. NamesOK'
  <2>1. Len(identities) = ListLen /\ \A i \in 1 .. Len(identities) : identities[i] = IdentOf(i)
    BY <1>2, <1>11 DEF NamesOK
  <2>2. round' = "fix" => \A i \in 1 .. ListLen : i \notin fixList.unknown
    <3>1. SUFFICES ASSUME round' = "fix", NEW i \in 1 .. ListLen, i \in fixList.unknown PROVE FALSE
      OBVIOUS
    <3>2. i \in DOMAIN identities
      BY <1>2, <2>1
    <3>3. identities[i] # UnknownFile
      BY <1>1, <3>1, <3>2
    <3>4. identities[i] = UnknownFile
      BY <2>1, <3>1 DEF IdentOf
    <3> QED BY <3>3, <3>4
  <2> QED BY <1>1, <1>3, <1>5, <2>1, <2>2 DEF NamesOK
<1>15. DiskOK'
  <2>1. CASE round = "identify"
    <3>1. round' \in {"fix", "alone"}
      BY <1>1, <2>1
    <3>2. LoopAt(e)'
      BY <1>1, <1>4, <1>11, <2>1 DEF LoopAt
    <3> QED BY <1>1, <1>6, <3>1, <3>2 DEF DiskOK
  <2>2. CASE round \in {"fix", "alone"}
    <3>1. round' = "over"
      BY <1>1, <2>2
    <3>2. LoopAt(e)
      BY <1>2, <1>6, <2>2 DEF DiskOK
    <3>3. Looped[e].failed = 0 /\ onDisk = Looped[e].disk
          /\ (failedAt # 0 => failedAt = e + 1 /\ Looped[e + 1] = [Looped[e] EXCEPT !.failed = e + 1])
      BY <1>1, <3>2 DEF LoopAt
    <3>4. onDisk = Looped[ListLen].disk /\ failedAt = Looped[ListLen].failed
      <4>1. CASE failedAt = 0
        BY <1>7, <3>3, <4>1
      <4>2. CASE failedAt # 0
        <5>1. e \in 0 .. ListLen /\ e + 1 \in 0 .. ListLen /\ e + 1 # 0
          BY <1>3, <1>7, <4>2
        <5>2. Looped[e] \in LoopStates
          BY <1>3, <5>1, LoopedIsDefined
        <5>3. Looped[e + 1].failed = e + 1 /\ Looped[e + 1].disk = Looped[e].disk
          BY <3>3, <4>2, <5>2 DEF LoopStates
        <5>4. Looped[ListLen] = Looped[e + 1]
          BY <1>3, <5>1, <5>3, LoopStuck
        <5> QED BY <3>3, <4>2, <5>3, <5>4
      <4> QED BY <4>1, <4>2
    <3> QED BY <1>1, <1>3, <3>1, <3>4 DEF DiskOK
  <2> QED BY <1>2, <1>5, <2>1, <2>2 DEF FixTypeOK
<1> QED BY <1>9, <1>10, <1>12, <1>13, <1>14, <1>15 DEF FixInv

(* It holds before the first pass, and every step keeps it.                *)
LEMMA FixBegins ==
  ASSUME FixInit
  PROVE  FixInv
<1>1. /\ ahead = [claimed |-> 0, emitted |-> 0, stop |-> FALSE]
      /\ crew = CrewIdle /\ channel = <<>> /\ held = {}
      /\ caller = [at |-> "begin", got |-> "none"] /\ identities = <<>> /\ failedAt = 0
      /\ fixList \in FixLists /\ onDisk = fixList.disk /\ round = "identify"
  BY DEF FixInit, FixBegin
<1>2. ListLen \in Nat /\ fixList.disk \in [Disk -> Sound]
  BY <1>1, ListFacts
<1>3. ~Threaded /\ Low = 0
  BY <1>1 DEF Threaded, Low, Handling
<1>4. \A w \in Crew : crew[w].at = "off"
  BY <1>1 DEF CrewIdle
<1>5. Working = {}
  BY <1>4 DEF Working
<1>6. FixTypeOK
  <2>1. crew \in [Crew -> CrewRecs] /\ caller \in CallerRecs
    BY <1>1 DEF CrewIdle, CrewRecs, CallerRecs
  <2>2. channel \in Seq(Results) /\ identities \in Seq(Int) /\ onDisk \in [Disk -> Sound \cup {"torn"}]
    BY <1>1, <1>2
  <2> QED BY <1>1, <2>1, <2>2 DEF FixTypeOK
<1>7. CrewOK /\ PassOK
  BY <1>1, <1>2, <1>3, <1>4 DEF CrewOK, PassOK
<1>8. InPlay
  <2>1. IsFiniteSet({}) /\ Cardinality({}) = 0
    BY FS_EmptySet
  <2>2. PlayOK /\ Apart
    BY <1>1, <1>5 DEF PlayOK, Apart
  <2>3. Covered /\ Counted
    BY <1>1, <1>3, <1>5, <2>1 DEF Covered, Counted
  <2> QED BY <2>2, <2>3 DEF InPlay
<1>9. NamesOK /\ DiskOK
  BY <1>1 DEF NamesOK, DiskOK
<1> QED BY <1>6, <1>7, <1>8, <1>9 DEF FixInv

(* A step of any of them.                                                  *)
LEMMA FixNextKeeps ==
  ASSUME FixInv, [FixNext]_fixVars
  PROVE  FixInv'
<1>1. CASE UNCHANGED fixVars
  <2>1. UNCHANGED <<fixList, onDisk, round, ahead, crew, channel, caller, held, identities, failedAt>>
    BY <1>1 DEF fixVars
  <2>2. Low' = Low /\ Threaded' = Threaded /\ Started' = Started /\ ListLen' = ListLen
        /\ NextItem' = NextItem /\ NamesOK' /\ DiskOK'
    BY <2>1, CallerStays
  <2>3. Working' = Working /\ Disk' = Disk /\ Results' = Results
    BY <2>1 DEF Working, Disk, Results
  <2>4. FixTypeOK' /\ CrewOK' /\ PassOK'
    BY <2>1, <2>2, <2>3 DEF FixInv, FixTypeOK, CrewOK, PassOK
  <2>5. InPlay'
    BY <2>1, <2>2, <2>3, PlayStays DEF FixInv
  <2> QED BY <2>2, <2>4, <2>5 DEF FixInv
<1>2. CASE MainActs
  BY <1>2, BeginKeeps, ReceiveKeeps, EmitNextKeeps, WriteKeeps, CountKeeps, NotifyKeeps, StopKeeps,
     NotifyStopKeeps, LoopKeeps, AllReceivedKeeps, EndKeeps DEF MainActs
<1>3. CASE \E w \in Crew : ClaimFile(w) \/ DoItem(w)
  BY <1>3, ClaimKeeps, DoKeeps
<1> QED BY <1>1, <1>2, <1>3 DEF FixNext

(* The invariant of the fixers.                                            *)
THEOREM FixInvariance == FixSpec => []FixInv
<1>1. FixInit => FixInv
  BY FixBegins
<1>2. FixInv /\ [FixNext]_fixVars => FixInv'
  BY FixNextKeeps
<1> QED BY <1>1, <1>2, PTL DEF FixSpec

(* The results that are read and not handled are of entries that were      *)
(* claimed, of which there are RESULTS_AHEAD at most.                      *)
LEMMA FewAreHeld ==
  ASSUME FixInv
  PROVE  HeldIsBounded
<1>1. /\ FixTypeOK /\ PassOK /\ InPlay /\ ListLen \in Nat /\ AheadMax \in Nat
      /\ ahead.emitted \in Nat /\ ahead.claimed \in Nat
  BY ListFacts DEF FixInv, FixTypeOK
<1>2. CASE Threaded
  <2>1. PICK s : s = Cardinality(held) + Len(channel) + Cardinality(Working)
    OBVIOUS
  <2>2. s = ahead.claimed - Low
    BY <1>1, <1>2, <2>1 DEF InPlay, Counted
  <2>3. ahead.claimed <= ahead.emitted + AheadMax /\ Low \in Nat /\ Low >= ahead.emitted
    BY <1>1, <1>2 DEF PassOK, Low
  <2>4. s <= AheadMax
    BY <1>1, <2>2, <2>3
  <2> QED BY <2>1, <2>4 DEF HeldIsBounded, Working
<1>3. CASE ~Threaded
  <2>1. held = {} /\ channel = <<>> /\ Working = {}
    BY <1>1, <1>3 DEF InPlay, Counted
  <2>2. Cardinality(held) = 0 /\ Len(channel) = 0 /\ Cardinality(Working) = 0
    <3>1. Cardinality({}) = 0
      BY FS_EmptySet
    <3> QED BY <2>1, <3>1
  <2>3. Cardinality(held) + Len(channel) + Cardinality(Working) <= AheadMax
    BY <1>1, <2>2
  <2> QED BY <2>3 DEF HeldIsBounded, Working
<1> QED BY <1>2, <1>3

(* However the threads of a fixer are scheduled, and whatever its list     *)
(* names twice, it leaves the files as a loop over the list would, stops   *)
(* where that stops, and holds no more results than it may                 *)
(* (text_files.rs 77-105, 190-274).                                        *)
THEOREM FixersAreOrderly == FixSpec => [](LikeASequentialLoop /\ HeldIsBounded)
<1>1. FixInv => LikeASequentialLoop /\ HeldIsBounded
  <2> SUFFICES ASSUME FixInv PROVE LikeASequentialLoop /\ HeldIsBounded
    OBVIOUS
  <2>1. LikeASequentialLoop
    BY DEF FixInv, DiskOK, LikeASequentialLoop
  <2> QED BY <2>1, FewAreHeld
<1> QED BY <1>1, FixInvariance, PTL

(* A thread that sleeps has no room, or is about to be woken; one that     *)
(* sleeps when all are to stop is about to be woken too.                   *)
WakeOK ==
  /\ \A w \in Crew : crew[w].at = "asleep" => /\ caller.at = "notify" \/ ~Room
                                              /\ ahead.stop => caller.at = "stopped"
  /\ caller.at = "stopped" \/ (caller.at = "join" /\ failedAt # 0) => ahead.stop
  /\ caller.at = "join" /\ failedAt = 0 => AllGone

(* The caller leaves what threads wait for alone.                          *)
LEMMA CallerWakes ==
  ASSUME WakeOK, UNCHANGED <<crew, ahead, failedAt>>, caller.at \notin {"notify", "stopped"},
         caller'.at \notin {"stopped", "join"}
  PROVE  WakeOK'
BY DEF WakeOK, Room

(* Woken threads do not sleep.                                             *)
LEMMA NoneSleeps ==
  ASSUME FixInv, crew' = Woken
  PROVE  \A w \in Crew : crew'[w].at # "asleep"
<1>1. crew \in [Crew -> CrewRecs]
  BY DEF FixInv, FixTypeOK
<1>2. ASSUME NEW w \in Crew PROVE crew'[w].at # "asleep"
  <2>1. crew[w] \in CrewRecs
    BY <1>1
  <2>2. CASE crew[w].at = "asleep"
    <3>1. crew'[w] = [crew[w] EXCEPT !.at = "claim"]
      BY <2>2 DEF Woken
    <3> QED BY <2>1, <3>1 DEF CrewRecs
  <2>3. CASE crew[w].at # "asleep"
    <3>1. crew'[w] = crew[w]
      BY <2>3 DEF Woken
    <3> QED BY <2>3, <3>1
  <2> QED BY <2>2, <2>3
<1> QED BY <1>2

(* No thread is left asleep by any step.                                   *)
LEMMA WakeKeeps ==
  ASSUME FixInv, WakeOK, [FixNext]_fixVars
  PROVE  WakeOK'
<1>1. /\ FixTypeOK /\ CrewOK /\ PassOK /\ caller \in CallerRecs /\ crew \in [Crew -> CrewRecs]
      /\ ahead \in [claimed : Nat, emitted : Nat, stop : BOOLEAN] /\ AheadMax \in Nat
  BY ListFacts DEF FixInv, FixTypeOK
<1>2. ~Threaded => \A w \in Crew : crew[w].at = "off"
  BY <1>1 DEF CrewOK
<1>3. CASE UNCHANGED fixVars
  BY <1>3 DEF fixVars, WakeOK, Room, AllGone
<1>4. CASE BeginPass
  <2>1. \A w \in Crew : crew'[w].at # "asleep"
    BY <1>4 DEF BeginPass
  <2>2. caller'.at \in {"loop", "recv"}
    BY <1>1, <1>4 DEF BeginPass, CallerTo, CallerRecs
  <2> QED BY <2>1, <2>2 DEF WakeOK
<1>5. CASE ReceiveResult
  <2>1. caller'.at = "drain"
    BY <1>1, <1>5 DEF ReceiveResult, CallerTo, CallerRecs
  <2> QED BY <1>5, <2>1, CallerWakes DEF ReceiveResult
<1>6. CASE EmitNext
  <2>1. caller'.at \in {"recv", "next", "failed", "writing"}
    BY <1>1, <1>6 DEF EmitNext, Emitted, CallerTo, CallerRecs
  <2> QED BY <1>6, <2>1, CallerWakes DEF EmitNext
<1>7. CASE WriteEnds
  <2>1. caller'.at = "next"
    BY <1>1, <1>7 DEF WriteEnds, CallerTo, CallerRecs
  <2> QED BY <1>7, <2>1, CallerWakes DEF WriteEnds
<1>8. CASE CountOne
  <2>1. caller.at = "next" /\ crew' = crew /\ failedAt' = failedAt /\ ahead'.stop = ahead.stop
        /\ caller'.at = IF Started = {} \/ round = "alone" THEN "loop" ELSE "notify"
    BY <1>1, <1>8 DEF CountOne, CallerTo, CallerRecs
  <2>2. caller'.at = "notify" \/ \A w \in Crew : crew[w].at = "off"
    BY <1>2, <2>1 DEF Threaded
  <2>3. \A w \in Crew : crew[w].at = "asleep" => ~ahead.stop
    BY <2>1 DEF WakeOK
  <2> QED BY <2>1, <2>2, <2>3 DEF WakeOK
<1>9. CASE NotifyAll
  <2>1. caller'.at = "drain" /\ crew' = Woken
    BY <1>1, <1>9 DEF NotifyAll, CallerTo, CallerRecs
  <2>2. \A w \in Crew : crew'[w].at # "asleep"
    BY <2>1, NoneSleeps
  <2> QED BY <2>1, <2>2 DEF WakeOK
<1>10. CASE StopCrew
  <2>1. caller.at = "failed" /\ caller'.at = "stopped" /\ crew' = crew /\ ahead'.stop
        /\ ahead'.claimed = ahead.claimed /\ ahead'.emitted = ahead.emitted
    BY <1>1, <1>10 DEF StopCrew, CallerTo, CallerRecs
  <2>2. Room' = Room
    BY <2>1 DEF Room
  <2> QED BY <2>1, <2>2 DEF WakeOK
<1>11. CASE NotifyStop
  <2>1. caller.at = "stopped" /\ caller'.at = "join" /\ crew' = Woken /\ ahead' = ahead
        /\ failedAt' = failedAt
    BY <1>1, <1>11 DEF NotifyStop, CallerTo, CallerRecs
  <2>2. \A w \in Crew : crew'[w].at # "asleep"
    BY <2>1, NoneSleeps
  <2>3. failedAt # 0 /\ ahead.stop
    BY <1>1, <2>1 DEF PassOK, WakeOK
  <2> QED BY <2>1, <2>2, <2>3 DEF WakeOK
<1>12. CASE LoopOne
  <2>1. caller'.at \in {"next", "failed", "writing", "join"} /\ crew' = crew /\ failedAt' = failedAt
    BY <1>1, <1>12 DEF LoopOne, Emitted, CallerTo, CallerRecs
  <2>2. failedAt = 0 /\ \A w \in Crew : crew[w].at = "off"
    BY <1>1, <1>2, <1>12 DEF LoopOne, PassOK
  <2> QED BY <2>1, <2>2 DEF WakeOK, AllGone
<1>13. CASE AllReceived
  <2>1. caller'.at = "join" /\ crew' = crew /\ failedAt' = failedAt /\ AllGone /\ caller.at = "recv"
    BY <1>1, <1>13 DEF AllReceived, CallerTo, CallerRecs
  <2>2. failedAt = 0
    BY <1>1, <2>1 DEF PassOK
  <2> QED BY <2>1, <2>2 DEF WakeOK, AllGone
<1>14. CASE EndPass
  <2>1. caller'.at = "begin" /\ \A w \in Crew : crew'[w].at = "off"
    BY <1>1, <1>14 DEF EndPass, CallerTo, CallerRecs, CrewIdle
  <2> QED BY <2>1 DEF WakeOK
<1>15. ASSUME NEW w \in Crew, ClaimFile(w) PROVE WakeOK'
  <2>1. /\ crew[w].at = "claim" /\ caller' = caller /\ failedAt' = failedAt
        /\ ahead'.stop = ahead.stop
        /\ \A v \in Crew \ {w} : crew'[v] = crew[v]
    <3>1. crew[w].at = "claim" /\ caller' = caller /\ failedAt' = failedAt
      BY <1>15 DEF ClaimFile
    <3>2. ahead' \in {ahead, [ahead EXCEPT !.claimed = @ + 1]}
      BY <1>15 DEF ClaimFile
    <3>3. ahead'.stop = ahead.stop
      BY <1>1, <3>2
    <3>4. \A v \in Crew \ {w} : crew'[v] = crew[v]
      BY <1>1, <1>15 DEF ClaimFile
    <3> QED BY <3>1, <3>3, <3>4
  <2>2. ~Room => ~Room' /\ ahead' = ahead
    BY <1>1, <1>15 DEF ClaimFile, Room
  <2>3. crew'[w].at = "asleep" => ~Room /\ ~ahead.stop
    <3>1. CASE ahead.stop \/ ahead.claimed >= ListLen
      <4>1. crew'[w].at = "gone"
        BY <1>1, <1>15, <3>1 DEF ClaimFile, CrewRecs
      <4> QED BY <4>1
    <3>2. CASE ~(ahead.stop \/ ahead.claimed >= ListLen) /\ Room
      <4>1. crew'[w].at = "work"
        BY <1>1, <1>15, <3>2 DEF ClaimFile, CrewRecs
      <4> QED BY <4>1
    <3>3. CASE ~(ahead.stop \/ ahead.claimed >= ListLen) /\ ~Room
      BY <3>3
    <3> QED BY <3>1, <3>2, <3>3
  <2>4. ~(caller.at = "join" /\ failedAt = 0)
    BY <2>1 DEF WakeOK, AllGone
  <2> QED BY <2>1, <2>2, <2>3, <2>4 DEF WakeOK
<1>16. ASSUME NEW w \in Crew, DoItem(w) PROVE WakeOK'
  <2>1. /\ crew[w].at = "work" /\ caller' = caller /\ failedAt' = failedAt /\ ahead' = ahead
        /\ \A v \in Crew \ {w} : crew'[v] = crew[v]
    BY <1>1, <1>16 DEF DoItem
  <2>2. crew'[w].at = "claim"
    BY <1>1, <1>16 DEF DoItem, CrewRecs
  <2>3. ~(caller.at = "join" /\ failedAt = 0)
    BY <2>1 DEF WakeOK, AllGone
  <2>4. Room' = Room
    BY <2>1 DEF Room
  <2> QED BY <2>1, <2>2, <2>3, <2>4 DEF WakeOK
<1> QED BY <1>3, <1>4, <1>5, <1>6, <1>7, <1>8, <1>9, <1>10, <1>11, <1>12, <1>13, <1>14, <1>15, <1>16
     DEF FixNext, MainActs

(* The first entry that is not handled is on its way to the caller: it     *)
(* does not wait for a thread that waits for it.                           *)
LEMMA SomeoneGoesOn ==
  ASSUME FixInv, WakeOK
  PROVE  FixerGoesOn
<1>1. /\ FixTypeOK /\ PassOK /\ InPlay /\ AheadMax \in Nat /\ AheadMax # 0
      /\ crew \in [Crew -> CrewRecs] /\ ahead.emitted \in Nat /\ ahead.claimed \in Nat
  <2>1. AheadMax \in Nat /\ AheadMax # 0
    BY FixListsOK
  <2> QED BY <2>1 DEF FixInv, FixTypeOK
<1>2. SUFFICES ASSUME caller.at \in {"recv", "join"}, caller.at = "recv" => channel = <<>>, ~AllGone,
                      \A w \in Crew : crew[w].at \notin {"claim", "work"}
               PROVE  FALSE
  BY DEF FixerGoesOn
<1>3. PICK w \in Crew : crew[w].at \notin {"off", "gone"}
  BY <1>2 DEF AllGone
<1>4. crew[w].at = "asleep"
  BY <1>1, <1>2, <1>3 DEF CrewRecs
<1>5. ~Room /\ ~ahead.stop
  BY <1>2, <1>4 DEF WakeOK
<1>6. caller.at = "recv" /\ channel = <<>>
  BY <1>2, <1>5 DEF WakeOK
<1>7. Threaded /\ Low = ahead.emitted
  BY <1>1, <1>6 DEF PassOK, Low, Handling
<1>8. Low + 1 \in Low + 1 .. ahead.claimed /\ Low + 1 = NextItem
  BY <1>1, <1>5, <1>7 DEF Room, NextItem
<1>9. Working = {} /\ 1 .. Len(channel) = {}
  BY <1>2, <1>6 DEF Working
<1>10. \A r \in held : r.item # NextItem
  BY <1>1, <1>6 DEF PassOK
<1> QED BY <1>1, <1>7, <1>8, <1>9, <1>10 DEF InPlay, Covered

(* Until a fixer is through, its caller or a thread of it can go on:       *)
(* nobody sleeps while there is room, or after the stop was told, and the  *)
(* caller waits for no thread that sleeps (text_files.rs 233-274).         *)
THEOREM FixersGoOn == FixSpec => []FixerGoesOn
<1>1. FixInit => WakeOK
  BY DEF FixInit, FixBegin, WakeOK, CrewIdle
<1>2. FixInv /\ WakeOK /\ [FixNext]_fixVars => WakeOK'
  BY WakeKeeps
<1>3. FixInv /\ WakeOK => FixerGoesOn
  BY SomeoneGoesOn
<1> QED BY <1>1, <1>2, <1>3, FixInvariance, PTL DEF FixSpec
=============================================================================
