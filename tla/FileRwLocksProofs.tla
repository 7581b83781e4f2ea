-------------------------- MODULE FileRwLocksProofs --------------------------
(* Proofs that the table of file locks keeps its invariants for any files, *)
(* any finite set of tasks and any number of requests, that it implements  *)
(* FileLocks, and that its write counts tell of every writer.              *)
EXTENDS WriteHistory, FiniteSetTheorems, TLAPS

(* Until a request is made nothing is locked: what remove_files relies on. *)
NothingAskedNothingLocked == asked = 0 => Queued = {} /\ Holders = {}

(* The inductive invariant.  Exclusion needs the counters to be exact, and *)
(* NoLostWakeup needs both and the order of the queue.                     *)
IInv == /\ TypeOK
        /\ QueueIsTheWaiters
        /\ CountersMatchHolders
        /\ Exclusion
        /\ NoLostWakeup
        /\ LockedFilesAreKnown
        /\ NothingAskedNothingLocked

-----------------------------------------------------------------------------
(* Two requests of known shape conflict by a file one of them writes.      *)
LEMMA ConflictByFile ==
  ASSUME NEW r \in Requests, NEW s \in Requests
  PROVE  Conflict(r, s) <=> \E f \in Files : /\ f \in r.files
                                             /\ f \in s.files
                                             /\ r.mode = "write" \/ s.mode = "write"
BY DEF Conflict, Promise!Conflict, Requests, Promise!Requests, Promise!Modes

(* It does not matter which of two requests came first.                    *)
LEMMA ConflictSymmetric ==
  ASSUME NEW r \in Requests, NEW s \in Requests
  PROVE  Conflict(r, s) <=> Conflict(s, r)
BY DEF Conflict, Promise!Conflict

(* The table lets a request start exactly when no holder conflicts: the    *)
(* counters stand for the holders.                                         *)
LEMMA CanStartIffNoConflict ==
  ASSUME NEW S \in SUBSET Jobs,
         NEW rd \in [Files -> Nat],
         NEW wr \in [Files -> BOOLEAN],
         req \in [Jobs -> Requests],
         \A f \in Files : /\ rd[f] = Cardinality(ReadersOf(S, f))
                          /\ wr[f] <=> \E j \in S : Writes(j, f),
         NEW r \in Requests
  PROVE  CanStart(rd, wr, r) <=> \A h \in S : ~Conflict(r, req[h])
<1>1. \A f \in Files : IsFiniteSet(ReadersOf(S, f))
  <2>1. \A f \in Files : ReadersOf(S, f) \subseteq Jobs
    BY DEF ReadersOf
  <2>2. QED
    BY <2>1, ConstantsOK, FS_Subset
<1>2. \A f \in Files : rd[f] = 0 <=> \A h \in S : ~Reads(h, f)
  BY <1>1, FS_EmptySet DEF ReadersOf
<1>3. \A h \in S : req[h] \in Requests
  OBVIOUS
<1>4. r.mode \in {"read", "write"} /\ r.files \subseteq Files
  BY DEF Requests, Promise!Requests, Promise!Modes
<1>5. \A h \in S : req[h].mode \in {"read", "write"} /\ req[h].files \subseteq Files
  BY <1>3 DEF Requests, Promise!Requests, Promise!Modes
<1>6. ASSUME CanStart(rd, wr, r), NEW h \in S, Conflict(r, req[h])
      PROVE  FALSE
  <2>1. PICK f \in Files : /\ f \in r.files
                           /\ f \in req[h].files
                           /\ r.mode = "write" \/ req[h].mode = "write"
    BY <1>3, <1>6, ConflictByFile
  <2>2. ~wr[f] /\ (r.mode = "write" => rd[f] = 0)
    BY <1>6, <2>1 DEF CanStart
  <2>3. ~Writes(h, f)
    BY <2>2
  <2>4. Reads(h, f) /\ r.mode = "write"
    BY <2>1, <2>3, <1>5 DEF Writes, Reads
  <2>5. QED
    BY <2>2, <2>4, <1>2
<1>7. ASSUME ~CanStart(rd, wr, r)
      PROVE  \E h \in S : Conflict(r, req[h])
  <2>1. PICK f \in r.files : wr[f] \/ (r.mode = "write" /\ rd[f] # 0)
    BY <1>7 DEF CanStart
  <2>2. f \in Files
    BY <1>4
  <2>3. CASE wr[f]
    <3>1. PICK h \in S : Writes(h, f)
      BY <2>2, <2>3
    <3>2. Conflict(r, req[h])
      BY <3>1, <2>2, <1>3, ConflictByFile DEF Writes
    <3>3. QED
      BY <3>2
  <2>4. CASE r.mode = "write" /\ rd[f] # 0
    <3>1. PICK h \in S : Reads(h, f)
      BY <2>2, <2>4, <1>2
    <3>2. Conflict(r, req[h])
      BY <3>1, <2>2, <2>4, <1>3, ConflictByFile DEF Reads
    <3>3. QED
      BY <3>2
  <2>5. QED
    BY <2>1, <2>3, <2>4
<1>8. QED
  BY <1>6, <1>7

-----------------------------------------------------------------------------
(* Taking locks at once: the job joins the holders.                        *)
LEMMA StartPreserves ==
  ASSUME IInv, NEW j \in Jobs, NEW r \in Requests, MayAsk(j), Start(j, r),
         known' = known \cup r.files,
         req' = [req EXCEPT ![j] = r],
         asked' = asked + 1,
         noted' = noted
  PROVE  IInv'
<1> USE DEF IInv
<1>1. TypeOK'
  BY DEF TypeOK, Start, MayAsk, HoldReads, HoldWrites, PCs, Requests, Promise!Requests
<1>2. j \notin Holders /\ j \notin Queued /\ r.files \subseteq Files
  BY DEF TypeOK, MayAsk, Holders, Queued, Requests, Promise!Requests
<1>3. Holders' = Holders \cup {j} /\ Queued' = Queued
  BY <1>2 DEF TypeOK, Start, Holders, Queued
<1>4. req'[j] = r /\ \A i \in Jobs \ {j} : req'[i] = req[i]
  BY DEF TypeOK
<1>5. Holders \subseteq Jobs /\ Queued \subseteq Jobs
  BY DEF Holders, Queued
<1>6. \A h \in Holders : ~Conflict(r, req[h])
  BY <1>5, CanStartIffNoConflict DEF TypeOK, CountersMatchHolders, Start
<1>7. QueueIsTheWaiters'
  BY <1>3 DEF QueueIsTheWaiters, Start
<1>8. CountersMatchHolders'
  <2>1. ASSUME NEW f \in Files
        PROVE  readers'[f] = Cardinality(ReadersOf(Holders, f)')
    <3>1. IsFiniteSet(ReadersOf(Holders, f))
      BY <1>5, ConstantsOK, FS_Subset DEF ReadersOf
    <3>2. CASE r.mode = "read" /\ f \in r.files
      <4>1. ReadersOf(Holders, f)' = ReadersOf(Holders, f) \cup {j}
        BY <1>2, <1>3, <1>4, <1>5, <3>2 DEF ReadersOf, Reads
      <4>2. j \notin ReadersOf(Holders, f)
        BY <1>2 DEF ReadersOf
      <4>3. Cardinality(ReadersOf(Holders, f) \cup {j}) = Cardinality(ReadersOf(Holders, f)) + 1
        BY <4>2, <3>1, FS_AddElement
      <4>4. readers'[f] = readers[f] + 1
        BY <3>2 DEF Start, HoldReads
      <4>5. QED
        BY <4>1, <4>3, <4>4 DEF CountersMatchHolders
    <3>3. CASE ~(r.mode = "read" /\ f \in r.files)
      <4>1. ReadersOf(Holders, f)' = ReadersOf(Holders, f)
        BY <1>2, <1>3, <1>4, <1>5, <3>3 DEF ReadersOf, Reads
      <4>2. QED
        BY <4>1, <3>3 DEF CountersMatchHolders, Start, HoldReads
    <3>4. QED
      BY <3>2, <3>3
  <2>2. ASSUME NEW f \in Files
        PROVE  writer'[f] <=> \E i \in Holders' : Writes(i, f)'
    BY <1>2, <1>3, <1>4, <1>5 DEF CountersMatchHolders, Start, HoldWrites, Writes
  <2>3. QED
    BY <2>1, <2>2 DEF CountersMatchHolders
<1>9. Exclusion'
  <2>1. \A h \in Holders : ~Conflict(req[h], r)
    BY <1>5, <1>6, ConflictSymmetric DEF TypeOK
  <2>2. QED
    BY <1>2, <1>3, <1>4, <1>5, <1>6, <2>1 DEF Exclusion
<1>10. NoLostWakeup'
  BY <1>2, <1>3, <1>4, <1>5 DEF NoLostWakeup
<1>11. LockedFilesAreKnown'
  BY <1>2, <1>3, <1>4, <1>5 DEF LockedFilesAreKnown
<1>12. NothingAskedNothingLocked'
  BY DEF NothingAskedNothingLocked, TypeOK
<1>13. QED
  BY <1>1, <1>7, <1>8, <1>9, <1>10, <1>11, <1>12

(* Joining the queue: a job that cannot start conflicts with a holder.     *)
LEMMA EnqueuePreserves ==
  ASSUME IInv, NEW j \in Jobs, NEW r \in Requests, MayAsk(j), Enqueue(j, r),
         known' = known \cup r.files,
         req' = [req EXCEPT ![j] = r],
         asked' = asked + 1,
         noted' = noted
  PROVE  IInv'
<1> USE DEF IInv
<1>1. TypeOK'
  BY DEF TypeOK, Enqueue, MayAsk, PCs, Requests, Promise!Requests
<1>2. j \notin Holders /\ j \notin Queued /\ r.files \subseteq Files
  BY DEF TypeOK, MayAsk, Holders, Queued, Requests, Promise!Requests
<1>3. Holders' = Holders /\ Queued' = Queued \cup {j}
  BY <1>2 DEF TypeOK, Enqueue, Holders, Queued
<1>4. req'[j] = r /\ \A i \in Jobs \ {j} : req'[i] = req[i]
  BY DEF TypeOK
<1>5. Holders \subseteq Jobs /\ Queued \subseteq Jobs
  BY DEF Holders, Queued
<1>6. \E h \in Holders : Conflict(r, req[h])
  BY <1>5, CanStartIffNoConflict DEF TypeOK, CountersMatchHolders, Enqueue
<1>7. QueueIsTheWaiters'
  BY <1>2, <1>3 DEF QueueIsTheWaiters, Enqueue, TypeOK
<1>8. CountersMatchHolders'
  <2>1. \A f \in Files : ReadersOf(Holders, f)' = ReadersOf(Holders, f)
    BY <1>2, <1>3, <1>4, <1>5 DEF ReadersOf, Reads
  <2>2. \A f \in Files, i \in Holders : Writes(i, f)' = Writes(i, f)
    BY <1>2, <1>4, <1>5 DEF Writes
  <2>3. QED
    BY <2>1, <2>2, <1>3 DEF CountersMatchHolders, Enqueue
<1>9. Exclusion'
  BY <1>2, <1>3, <1>4, <1>5 DEF Exclusion
<1>10. NoLostWakeup'
  BY <1>2, <1>3, <1>4, <1>5, <1>6 DEF NoLostWakeup
<1>11. LockedFilesAreKnown'
  BY <1>2, <1>3, <1>4, <1>5 DEF LockedFilesAreKnown
<1>12. NothingAskedNothingLocked'
  BY DEF NothingAskedNothingLocked, TypeOK
<1>13. QED
  BY <1>1, <1>7, <1>8, <1>9, <1>10, <1>11, <1>12

(* The table without the locks of a leaving job stands for the other       *)
(* holders, so the pass over the queue decides by the jobs that hold locks. *)
LEMMA TableWithoutAHolder ==
  ASSUME IInv, NEW j \in Holders
  PROVE  /\ ReadersWithout(j) \in [Files -> Nat]
         /\ WriterWithout(j) \in [Files -> BOOLEAN]
         /\ \A f \in Files :
              /\ ReadersWithout(j)[f] = Cardinality(ReadersOf(Holders \ {j}, f))
              /\ WriterWithout(j)[f] <=> \E i \in Holders \ {j} : Writes(i, f)
         /\ \A w \in Queued :
              CanStart(ReadersWithout(j), WriterWithout(j), req[w])
                <=> \A h \in Holders \ {j} : ~Conflict(req[w], req[h])
<1> USE DEF IInv
<1> DEFINE rd == ReadersWithout(j)
           wr == WriterWithout(j)
           Others == Holders \ {j}
<1>1. j \in Jobs /\ Holders \subseteq Jobs /\ Queued \subseteq Jobs /\ j \notin Queued
  BY DEF Holders, Queued
<1>2. \A S \in SUBSET Jobs, f \in Files : IsFiniteSet(ReadersOf(S, f))
  <2>1. \A S \in SUBSET Jobs, f \in Files : ReadersOf(S, f) \subseteq Jobs
    BY DEF ReadersOf
  <2>2. QED
    BY <2>1, ConstantsOK, FS_Subset
<1>3. \A f \in Files : rd[f] = Cardinality(ReadersOf(Others, f)) /\ rd[f] \in Nat
  <2> TAKE f \in Files
  <2>1. IsFiniteSet(ReadersOf(Holders, f)) /\ IsFiniteSet(ReadersOf(Others, f))
    BY <1>1, <1>2
  <2>2. ReadersOf(Others, f) = ReadersOf(Holders, f) \ {j}
    BY DEF ReadersOf
  <2>3. j \in ReadersOf(Holders, f) <=> Reads(j, f)
    BY DEF ReadersOf
  <2>4. Cardinality(ReadersOf(Holders, f) \ {j})
          = IF j \in ReadersOf(Holders, f) THEN Cardinality(ReadersOf(Holders, f)) - 1
            ELSE Cardinality(ReadersOf(Holders, f))
    BY <2>1, FS_RemoveElement
  <2>5. rd[f] = IF Reads(j, f) THEN Cardinality(ReadersOf(Holders, f)) - 1
                ELSE Cardinality(ReadersOf(Holders, f))
    BY DEF CountersMatchHolders, ReadersWithout
  <2>6. rd[f] = Cardinality(ReadersOf(Others, f))
    BY <2>2, <2>3, <2>4, <2>5
  <2>7. QED
    BY <2>1, <2>6, FS_CardinalityType
<1>4. \A f \in Files : wr[f] \in BOOLEAN /\ (wr[f] <=> \E i \in Others : Writes(i, f))
  <2> TAKE f \in Files
  <2>1. ASSUME Writes(j, f), NEW i \in Others, Writes(i, f)
        PROVE  FALSE
    <3>1. Conflict(req[j], req[i])
      BY <1>1, <2>1, ConflictByFile DEF Writes, TypeOK
    <3>2. QED
      BY <1>1, <3>1 DEF Exclusion
  <2>2. QED
    BY <2>1 DEF CountersMatchHolders, WriterWithout, TypeOK
<1>5. rd \in [Files -> Nat] /\ wr \in [Files -> BOOLEAN]
  BY <1>3, <1>4 DEF ReadersWithout, WriterWithout
<1> HIDE DEF rd, wr
<1>6. \A w \in Queued : CanStart(rd, wr, req[w]) <=> \A h \in Others : ~Conflict(req[w], req[h])
  <2> TAKE w \in Queued
  <2>1. Others \in SUBSET Jobs /\ req \in [Jobs -> Requests] /\ req[w] \in Requests
    BY <1>1 DEF TypeOK
  <2>2. \A f \in Files : /\ rd[f] = Cardinality(ReadersOf(Others, f))
                         /\ wr[f] <=> \E i \in Others : Writes(i, f)
    BY <1>3, <1>4
  <2> HIDE DEF Others
  <2>3. QED
    BY <2>1, <2>2, <1>5, CanStartIffNoConflict
<1>7. QED
  BY <1>3, <1>4, <1>5, <1>6 DEF rd, wr

(* A release and the wakeup that follows it.                               *)
LEMMA ReleasePreserves ==
  ASSUME IInv, NEW j \in Holders, NEW next \in {"idle", "dropped"},
         ReleaseAndWake(j, next),
         UNCHANGED <<known, next_id, req, asked, noted>>
  PROVE  IInv'
<1> USE DEF IInv
<1> DEFINE rd == ReadersWithout(j)
           wr == WriterWithout(j)
           Others == Holders \ {j}
<1>1. j \in Jobs /\ Holders \subseteq Jobs /\ Queued \subseteq Jobs /\ j \notin Queued
  BY DEF Holders, Queued
<1>2. \A S \in SUBSET Jobs, f \in Files : IsFiniteSet(ReadersOf(S, f))
  <2>1. \A S \in SUBSET Jobs, f \in Files : ReadersOf(S, f) \subseteq Jobs
    BY DEF ReadersOf
  <2>2. QED
    BY <2>1, ConstantsOK, FS_Subset
<1>3. rd \in [Files -> Nat] /\ wr \in [Files -> BOOLEAN]
  BY TableWithoutAHolder
<1>4. \A f \in Files : /\ rd[f] = Cardinality(ReadersOf(Others, f))
                       /\ wr[f] <=> \E i \in Others : Writes(i, f)
  BY TableWithoutAHolder
<1>5. \A w \in Queued : CanStart(rd, wr, req[w]) <=> \A h \in Others : ~Conflict(req[w], req[h])
  BY TableWithoutAHolder
<1>6. PICK W \in SUBSET Queued :
        /\ Wakes(W, rd, wr)
        /\ readers' = [f \in Files |-> rd[f] + Cardinality(ReadersOf(W, f))]
        /\ writer'  = [f \in Files |-> wr[f] \/ \E i \in W : Writes(i, f)]
        /\ writes'  = [f \in Files |-> IF Writes(j, f) THEN writes[f] + 1 ELSE writes[f]]
        /\ Leaving(W)
        /\ pc' = [i \in Jobs |-> IF i = j THEN next
                                 ELSE IF i \in W THEN "granted"
                                 ELSE pc[i]]
  BY DEF ReleaseAndWake, CountWrites
<1> HIDE DEF rd, wr
<1>7. Holders' = Others \cup W /\ Queued' = Queued \ W /\ Others \cap W = {} /\ W \subseteq Jobs
  BY <1>1, <1>6 DEF Holders, Queued
<1>8. req' = req /\ \A i \in Jobs : req[i] \in Requests
  BY DEF TypeOK
<1>11. TypeOK'
  <2>1. \A f \in Files : Cardinality(ReadersOf(W, f)) \in Nat
    BY <1>2, <1>7, FS_CardinalityType
  <2>2. readers' \in [Files -> Nat] /\ writer' \in [Files -> BOOLEAN] /\ writes' \in [Files -> Nat]
    BY <2>1, <1>3, <1>6 DEF TypeOK
  <2>3. pc' \in [Jobs -> PCs]
    BY <1>6 DEF TypeOK, PCs
  <2>4. QED
    BY <2>2, <2>3 DEF TypeOK
<1>12. QueueIsTheWaiters'
  BY <1>6, <1>7 DEF QueueIsTheWaiters, Leaving
<1>13. CountersMatchHolders'
  <2>1. ASSUME NEW f \in Files
        PROVE  readers'[f] = Cardinality(ReadersOf(Holders, f)')
    <3>1. ReadersOf(Holders, f)' = ReadersOf(Others, f) \cup ReadersOf(W, f)
      BY <1>7, <1>8 DEF ReadersOf, Reads
    <3>2. ReadersOf(Others, f) \cap ReadersOf(W, f) = {}
      BY <1>7 DEF ReadersOf
    <3>3. IsFiniteSet(ReadersOf(Others, f)) /\ IsFiniteSet(ReadersOf(W, f))
      BY <1>1, <1>2, <1>7
    <3>4. /\ Cardinality(ReadersOf(Others, f)) \in Nat
          /\ Cardinality(ReadersOf(W, f)) \in Nat
      BY <3>3, FS_CardinalityType
    <3>5. Cardinality(ReadersOf(Others, f) \cup ReadersOf(W, f))
            = Cardinality(ReadersOf(Others, f)) + Cardinality(ReadersOf(W, f))
      <4>1. Cardinality(ReadersOf(Others, f) \cup ReadersOf(W, f))
              = Cardinality(ReadersOf(Others, f)) + Cardinality(ReadersOf(W, f))
                - Cardinality(ReadersOf(Others, f) \cap ReadersOf(W, f))
        BY <3>3, FS_Union
      <4>2. Cardinality(ReadersOf(Others, f) \cap ReadersOf(W, f)) = 0
        BY <3>2, FS_EmptySet
      <4>3. QED
        BY <4>1, <4>2, <3>4
    <3>6. QED
      BY <3>1, <3>5, <1>4, <1>6
  <2>2. ASSUME NEW f \in Files
        PROVE  writer'[f] <=> \E i \in Holders' : Writes(i, f)'
    BY <1>4, <1>6, <1>7, <1>8 DEF Writes
  <2>3. QED
    BY <2>1, <2>2 DEF CountersMatchHolders
<1>14. Exclusion'
  <2>1. ASSUME NEW w \in W, NEW h \in Others
        PROVE  ~Conflict(req[w], req[h]) /\ ~Conflict(req[h], req[w])
    BY <1>1, <1>5, <1>6, <1>7, <1>8, ConflictSymmetric DEF Wakes
  <2>2. ASSUME NEW v \in W, NEW w \in W, v # w
        PROVE  ~Conflict(req[v], req[w])
    <3>1. Ahead(v, w) \/ Ahead(w, v)
      <4>1. /\ v \in DOMAIN queue /\ w \in DOMAIN queue
            /\ queue[v] \in Int /\ queue[w] \in Int
            /\ queue[v] # queue[w]
        BY <2>2 DEF QueueIsTheWaiters, TypeOK
      <4>2. {v, w} \subseteq DOMAIN queue /\ {w, v} \subseteq DOMAIN queue
        BY <4>1
      <4>3. QED
        BY <4>1, <4>2 DEF Ahead
    <3>2. ~Conflict(req[v], req[w]) \/ ~Conflict(req[w], req[v])
      BY <3>1, <1>6 DEF Wakes
    <3>3. QED
      BY <3>2, <1>7, <1>8, ConflictSymmetric
  <2>3. ASSUME NEW g \in Others, NEW h \in Others, g # h
        PROVE  ~Conflict(req[g], req[h])
    BY <2>3 DEF Exclusion
  <2>4. QED
    BY <2>1, <2>2, <2>3, <1>7, <1>8 DEF Exclusion
<1>15. NoLostWakeup'
  <2>1. ASSUME NEW w \in Queued \ W
        PROVE  \E h \in Others \cup W : Conflict(req[w], req[h])
    <3>1. CASE ~CanStart(rd, wr, req[w])
      BY <3>1, <1>5
    <3>2. CASE \E i \in W : Ahead(i, w) /\ Conflict(req[i], req[w])
      BY <3>2, <1>1, <1>7, <1>8, ConflictSymmetric
    <3>3. QED
      BY <3>1, <3>2, <1>6 DEF Wakes
  <2>2. QED
    BY <2>1, <1>7, <1>8 DEF NoLostWakeup
<1>16. LockedFilesAreKnown'
  BY <1>7, <1>8 DEF LockedFilesAreKnown
<1>17. NothingAskedNothingLocked'
  BY <1>7 DEF NothingAskedNothingLocked
<1>18. QED
  BY <1>11, <1>12, <1>13, <1>14, <1>15, <1>16, <1>17

(* The steps that move no lock: the jobs that hold locks and the jobs that *)
(* wait are the same sets after them, or one waiter less.                  *)
LEMMA NoLockMovesPreserves ==
  ASSUME IInv, TypeOK',
         Holders' = Holders, Queued' \subseteq Queued,
         UNCHANGED <<readers, writer, next_id, req, asked>>,
         queue' = [i \in Queued' |-> queue[i]],
         known \subseteq known' \/ asked = 0
  PROVE  IInv'
<1> USE DEF IInv
<1>1. QueueIsTheWaiters'
  BY DEF QueueIsTheWaiters
<1>2. CountersMatchHolders'
  <2>1. \A f \in Files : ReadersOf(Holders, f)' = ReadersOf(Holders, f)
    BY DEF ReadersOf, Reads
  <2>2. QED
    BY <2>1 DEF CountersMatchHolders, Writes
<1>3. Exclusion' /\ NoLostWakeup'
  BY DEF Exclusion, NoLostWakeup
<1>4. NothingAskedNothingLocked'
  BY DEF NothingAskedNothingLocked
<1>5. LockedFilesAreKnown'
  BY DEF LockedFilesAreKnown, NothingAskedNothingLocked
<1>6. QED
  BY <1>1, <1>2, <1>3, <1>4, <1>5

-----------------------------------------------------------------------------
(* The inductive invariant holds when the table is made: nobody holds a    *)
(* lock and nobody waits.                                                  *)
LEMMA InitIInv == Init => IInv
<1> SUFFICES ASSUME Init PROVE IInv
  OBVIOUS
<1>1. TypeOK
  BY DEF Init, TypeOK, PCs, NoNote, NoRequest, Requests, Promise!Requests, Promise!Modes
<1>2. Queued = {} /\ Holders = {}
  BY DEF Init, Queued, Holders
<1>3. QueueIsTheWaiters
  BY <1>2 DEF Init, QueueIsTheWaiters
<1>4. CountersMatchHolders
  <2>1. \A f \in Files : ReadersOf(Holders, f) = {}
    BY <1>2 DEF ReadersOf
  <2>2. QED
    BY <1>2, <2>1, FS_EmptySet DEF Init, CountersMatchHolders
<1>5. QED
  BY <1>1, <1>2, <1>3, <1>4
     DEF IInv, Exclusion, NoLostWakeup, LockedFilesAreKnown, NothingAskedNothingLocked

(* Every operation on the table preserves the inductive invariant.         *)
LEMMA NextIInv == IInv /\ [Next]_vars => IInv'
<1> SUFFICES ASSUME IInv, [Next]_vars PROVE IInv'
  OBVIOUS
<1> USE DEF IInv
<1>1. ASSUME NEW j \in Jobs, NEW r \in Requests, Lock(j, r)
      PROVE  IInv'
  BY <1>1, StartPreserves, EnqueuePreserves DEF Lock
<1>2. ASSUME NEW j \in Jobs, NEW r \in Requests, TryLock(j, r)
      PROVE  IInv'
  <2>1. CASE Start(j, r) /\ req' = [req EXCEPT ![j] = r] /\ asked' = asked + 1
    BY <1>2, <2>1, StartPreserves DEF TryLock
  <2>2. CASE UNCHANGED <<readers, writer, writes, queue, next_id, pc, req, asked>>
    <3>1. TypeOK' /\ Holders' = Holders /\ Queued' = Queued
      BY <1>2, <2>2 DEF TryLock, TypeOK, Holders, Queued, Requests, Promise!Requests
    <3>2. queue' = [i \in Queued' |-> queue[i]]
      BY <2>2, <3>1 DEF QueueIsTheWaiters
    <3>3. known \subseteq known'
      BY <1>2 DEF TryLock
    <3>4. QED
      BY <2>2, <3>1, <3>2, <3>3, NoLockMovesPreserves
  <2>3. QED
    BY <1>2, <2>1, <2>2 DEF TryLock
<1>3. ASSUME NEW j \in Jobs, Release(j)
      PROVE  IInv'
  <2>1. j \in Holders
    BY <1>3 DEF Release, Holders
  <2>2. QED
    BY <1>3, <2>1, ReleasePreserves DEF Release
<1>4. ASSUME NEW j \in Jobs, Receive(j)
      PROVE  IInv'
  <2>1. TypeOK' /\ Holders' = Holders /\ Queued' = Queued
    BY <1>4 DEF Receive, TypeOK, PCs, Holders, Queued
  <2>2. queue' = [i \in Queued' |-> queue[i]]
    BY <1>4, <2>1 DEF Receive, QueueIsTheWaiters
  <2>3. QED
    BY <1>4, <2>1, <2>2, NoLockMovesPreserves DEF Receive
<1>5. ASSUME NEW j \in Jobs, DropWait(j)
      PROVE  IInv'
  <2>1. CASE pc[j] = "queued"
    <3>1. TypeOK' /\ Holders' = Holders /\ Queued' = Queued \ {j}
      BY <1>5, <2>1 DEF DropWait, TypeOK, PCs, Holders, Queued
    <3>2. queue' = [i \in Queued' |-> queue[i]]
      BY <1>5, <2>1, <3>1 DEF DropWait, Leaving, QueueIsTheWaiters
    <3>3. QED
      BY <1>5, <2>1, <3>1, <3>2, NoLockMovesPreserves DEF DropWait
  <2>2. CASE pc[j] = "granted"
    <3>1. j \in Holders
      BY <2>2 DEF Holders
    <3>2. QED
      BY <1>5, <2>2, <3>1, ReleasePreserves DEF DropWait
  <2>3. QED
    BY <1>5, <2>1, <2>2 DEF DropWait
<1>6. ASSUME NEW j \in Jobs, NoteWriteCounts(j)
      PROVE  IInv'
  <2>1. TypeOK' /\ Holders' = Holders /\ Queued' = Queued
    BY <1>6 DEF NoteWriteCounts, TypeOK, Holders, Queued
  <2>2. queue' = [i \in Queued' |-> queue[i]]
    BY <1>6, <2>1 DEF NoteWriteCounts, QueueIsTheWaiters
  <2>3. QED
    BY <1>6, <2>1, <2>2, NoLockMovesPreserves DEF NoteWriteCounts
<1>7. ASSUME NEW f \in Files, AddFiles({f}) \/ RemoveFiles({f})
      PROVE  IInv'
  <2>1. TypeOK' /\ Holders' = Holders /\ Queued' = Queued
    BY <1>7 DEF AddFiles, RemoveFiles, TypeOK, Holders, Queued
  <2>2. queue' = [i \in Queued' |-> queue[i]]
    BY <1>7, <2>1 DEF AddFiles, RemoveFiles, QueueIsTheWaiters
  <2>3. known \subseteq known' \/ asked = 0
    BY <1>7 DEF AddFiles, RemoveFiles
  <2>4. UNCHANGED <<readers, writer, next_id, req, asked>>
    BY <1>7 DEF AddFiles, RemoveFiles
  <2>5. QED
    BY <2>1, <2>2, <2>3, <2>4, NoLockMovesPreserves
<1>8. CASE UNCHANGED vars
  <2>1. TypeOK' /\ Holders' = Holders /\ Queued' = Queued
    BY <1>8 DEF vars, TypeOK, Holders, Queued
  <2>2. queue' = [i \in Queued' |-> queue[i]]
    BY <1>8, <2>1 DEF vars, QueueIsTheWaiters
  <2>3. QED
    BY <1>8, <2>1, <2>2, NoLockMovesPreserves DEF vars
<1>9. QED
  BY <1>1, <1>2, <1>3, <1>4, <1>5, <1>6, <1>7, <1>8 DEF Next, Finished

-----------------------------------------------------------------------------
(* The inductive invariant of the file locks holds in every state.         *)
THEOREM Invariance == Spec => []IInv
BY InitIInv, NextIInv, PTL DEF Spec

(* Every variable of the table stays in its range (TypeOK).                *)
THEOREM TypeCorrect == Spec => []TypeOK
BY Invariance, PTL DEF IInv

(* No two jobs ever hold conflicting locks (Table::can_start and wake).    *)
THEOREM MutualExclusion == Spec => []Exclusion
BY Invariance, PTL DEF IInv

(* A queued job always conflicts with a job holding locks, so the release  *)
(* that lets it start is still to come (file_rw_locks.rs:60-61).           *)
THEOREM WakeupsAreNotLost == Spec => []NoLostWakeup
BY Invariance, PTL DEF IInv

(* No drop of a task, queued or granted, leaks a lock or frees it twice.   *)
THEOREM LocksAreAccountedFor == Spec => [](CountersMatchHolders /\ QueueIsTheWaiters)
BY Invariance, PTL DEF IInv

(* remove_files never takes a file that is locked or waited for.           *)
THEOREM RemovedFilesAreFree == Spec => []LockedFilesAreKnown
BY Invariance, PTL DEF IInv

-----------------------------------------------------------------------------
(* The steps that grant queued requests, told apart from all others.       *)
LEMMA StepShape ==
  ASSUME IInv, Next
  PROVE  \/ \E j \in Jobs, r \in Requests :
              /\ MayAsk(j) /\ (Start(j, r) \/ Enqueue(j, r))
              /\ req' = [req EXCEPT ![j] = r]
         \/ \E j \in Holders, next \in {"idle", "dropped"} :
              ReleaseAndWake(j, next) /\ req' = req
         \/ \E j \in Queued : /\ Leaving({j})
                              /\ pc' = [pc EXCEPT ![j] = "dropped"]
                              /\ UNCHANGED <<readers, writer, writes, req>>
         \/ \E j \in Jobs : Receive(j)
         \/ UNCHANGED <<readers, writer, writes, queue, pc, req>>
<1>1. ASSUME NEW j \in Jobs, NEW r \in Requests, Lock(j, r) \/ TryLock(j, r)
      PROVE  \/ /\ MayAsk(j) /\ (Start(j, r) \/ Enqueue(j, r))
                /\ req' = [req EXCEPT ![j] = r]
             \/ UNCHANGED <<readers, writer, writes, queue, pc, req>>
  BY <1>1 DEF Lock, TryLock
<1>2. ASSUME NEW j \in Jobs, Release(j)
      PROVE  j \in Holders /\ ReleaseAndWake(j, "idle") /\ req' = req
  BY <1>2 DEF Release, Holders
<1>3. ASSUME NEW j \in Jobs, DropWait(j)
      PROVE  \/ /\ j \in Queued
                /\ Leaving({j})
                /\ pc' = [pc EXCEPT ![j] = "dropped"]
                /\ UNCHANGED <<readers, writer, writes, req>>
             \/ j \in Holders /\ ReleaseAndWake(j, "dropped") /\ req' = req
  BY <1>3 DEF DropWait, Holders, Queued
<1>4. ASSUME \/ \E j \in Jobs : NoteWriteCounts(j)
             \/ \E f \in Files : AddFiles({f}) \/ RemoveFiles({f})
             \/ Finished
      PROVE  UNCHANGED <<readers, writer, writes, queue, pc, req>>
  BY <1>4 DEF NoteWriteCounts, AddFiles, RemoveFiles, Finished, vars
<1>5. QED
  BY <1>1, <1>2, <1>3, <1>4 DEF Next

(* Table::wake starts the queue in order: a job is left waiting only for a *)
(* job that held its locks before, or that was ahead of it.                *)
THEOREM QueueOrder == Spec => WakesInOrder
<1> DEFINE InOrder == \A w \in Queued : w \in Queued' =>
                        \E h \in Holders' : /\ Conflict(req[w], req[h])
                                            /\ h \in Holders \/ Ahead(h, w)
<1>1. ASSUME IInv, Next
      PROVE  InOrder
  <2> USE DEF IInv
  <2>1. \A w \in Queued : \E h \in Holders : Conflict(req[w], req[h])
    BY <1>1 DEF NoLostWakeup
  <2>2. CASE Holders \subseteq Holders'
    BY <2>1, <2>2
  <2>3. ASSUME NEW j \in Holders, NEW next \in {"idle", "dropped"}, ReleaseAndWake(j, next)
        PROVE  InOrder
    <3>1. PICK W \in SUBSET Queued :
            /\ Wakes(W, ReadersWithout(j), WriterWithout(j))
            /\ pc' = [i \in Jobs |-> IF i = j THEN next
                                     ELSE IF i \in W THEN "granted"
                                     ELSE pc[i]]
      BY <2>3 DEF ReleaseAndWake, CountWrites
    <3>2. Holders' = (Holders \ {j}) \cup W /\ Queued' = Queued \ W
      BY <3>1 DEF Holders, Queued
    <3>3. ASSUME NEW w \in Queued \ W
          PROVE  \/ \E h \in Holders \ {j} : Conflict(req[w], req[h])
                 \/ \E h \in W : Ahead(h, w) /\ Conflict(req[w], req[h])
      <4>1. \A h \in W : Conflict(req[h], req[w]) => Conflict(req[w], req[h])
        BY <1>1, ConflictSymmetric DEF TypeOK, Queued
      <4>2. \/ ~CanStart(ReadersWithout(j), WriterWithout(j), req[w])
            \/ \E h \in W : Ahead(h, w) /\ Conflict(req[h], req[w])
        BY <3>1 DEF Wakes
      <4>3. QED
        BY <1>1, <4>1, <4>2, TableWithoutAHolder
    <3>4. QED
      BY <3>2, <3>3
  <2>4. ASSUME NEW j \in Jobs, NEW r \in Requests, MayAsk(j), Start(j, r) \/ Enqueue(j, r)
        PROVE  Holders \subseteq Holders'
    BY <1>1, <2>4 DEF MayAsk, Start, Enqueue, Holders, TypeOK
  <2>5. ASSUME NEW j \in Queued, pc' = [pc EXCEPT ![j] = "dropped"]
        PROVE  Holders \subseteq Holders'
    BY <1>1, <2>5 DEF Queued, Holders, TypeOK
  <2>6. ASSUME NEW j \in Jobs, Receive(j)
        PROVE  Holders \subseteq Holders'
    BY <1>1, <2>6 DEF Receive, Holders, TypeOK
  <2>7. ASSUME pc' = pc
        PROVE  Holders \subseteq Holders'
    BY <2>7 DEF Holders
  <2>8. QED
    BY <1>1, <2>2, <2>3, <2>4, <2>5, <2>6, <2>7, StepShape
<1>2. IInv /\ [Next]_vars => [InOrder]_vars
  BY <1>1
<1>3. QED
  BY <1>2, Invariance, PTL DEF Spec, WakesInOrder

(* While a job reads a file nobody releases a write lock on it, so what    *)
(* write_counts told the job stays true until it lets go.                  *)
THEOREM CountsFrozen == Spec => CountsFrozenUnderRead
<1> DEFINE Frozen == \A j \in Jobs :
                       pc[j] = "holding" /\ pc'[j] = "holding" /\ req[j].mode = "read" =>
                         \A f \in req[j].files : writes'[f] = writes[f]
<1>1. ASSUME IInv, Next, NEW j \in Jobs, pc[j] = "holding", pc'[j] = "holding",
             req[j].mode = "read", NEW f \in req[j].files
      PROVE  writes'[f] = writes[f]
  <2> USE DEF IInv
  <2>1. f \in Files /\ j \in Holders
    BY <1>1 DEF TypeOK, Requests, Promise!Requests, Holders
  <2>2. ASSUME NEW i \in Holders, NEW next \in {"idle", "dropped"}, ReleaseAndWake(i, next)
        PROVE  writes'[f] = writes[f]
    <3>1. i # j
      BY <1>1, <2>2 DEF ReleaseAndWake, CountWrites
    <3>2. ~Conflict(req[i], req[j])
      BY <1>1, <2>1, <3>1 DEF Exclusion
    <3>3. i \in Jobs
      BY DEF Holders
    <3>4. ~Writes(i, f)
      BY <1>1, <2>1, <3>2, <3>3, ConflictByFile DEF Writes, TypeOK
    <3>5. QED
      BY <2>1, <2>2, <3>4 DEF ReleaseAndWake, CountWrites
  <2>3. QED
    BY <1>1, <2>2, StepShape DEF Start, Enqueue, Receive
<1>2. IInv /\ [Next]_vars => [Frozen]_vars
  BY <1>1
<1>3. QED
  BY <1>2, Invariance, PTL DEF Spec, CountsFrozenUnderRead

-----------------------------------------------------------------------------
(* The table implements the promise.                                       *)
LEMMA PhaseOfJobs ==
  ASSUME IInv
  PROVE  /\ Promise!Holding = Holders
         /\ Promise!Waiting = Queued
         /\ Promise!Compatible <=> Exclusion
         /\ Promise!Maximal <=> NoLostWakeup
<1>1. Promise!Holding = Holders /\ Promise!Waiting = Queued
  BY DEF IInv, TypeOK, PCs, Promise!Holding, Promise!Waiting, Phase, PhaseOf, Holders, Queued
<1>2. QED
  BY <1>1 DEF Promise!Compatible, Promise!Maximal, Exclusion, NoLostWakeup, Conflict

(* Taking locks, and joining the queue for them, is asking for them in     *)
(* FileLocks.                                                              *)
LEMMA AskImplementsAsk ==
  ASSUME IInv, NEW j \in Jobs, NEW r \in Requests, MayAsk(j),
         Start(j, r) \/ Enqueue(j, r), req' = [req EXCEPT ![j] = r]
  PROVE  Promise!Ask(j)
<1>1. Phase[j] = "out"
  BY DEF MayAsk, Phase, PhaseOf
<1>2. CASE Start(j, r)
  <2>1. \A i \in Jobs : Phase'[i] = IF i = j THEN "holding" ELSE Phase[i]
    BY <1>2 DEF IInv, TypeOK, Start, Phase, PhaseOf
  <2>2. Phase' = [Phase EXCEPT ![j] = "holding"]
    BY <2>1 DEF Phase
  <2>3. QED
    BY <1>1, <2>2 DEF Promise!Ask, Promise!AskFor, Requests
<1>3. CASE Enqueue(j, r)
  <2>1. \A i \in Jobs : Phase'[i] = IF i = j THEN "waiting" ELSE Phase[i]
    BY <1>3 DEF IInv, TypeOK, Enqueue, Phase, PhaseOf
  <2>2. Phase' = [Phase EXCEPT ![j] = "waiting"]
    BY <2>1 DEF Phase
  <2>3. QED
    BY <1>1, <2>2 DEF Promise!Ask, Promise!AskFor, Requests
<1>4. QED
  BY <1>2, <1>3

(* A job that leaves keeps its last request, which it may.                 *)
LEMMA WantIsKept ==
  ASSUME IInv, NEW j \in Jobs, req' = req
  PROVE  \E r \in Promise!Requests : req' = [req EXCEPT ![j] = r]
<1>1. req \in [Jobs -> Requests]
  BY DEF IInv, TypeOK
<1>2. req[j] \in Promise!Requests /\ req' = [req EXCEPT ![j] = req[j]]
  BY <1>1 DEF Requests
<1>3. QED
  BY <1>2

(* Giving locks back with the wakeups that causes is leaving in FileLocks. *)
LEMMA ReleaseImplementsLeave ==
  ASSUME IInv, NEW j \in Holders, NEW next \in {"idle", "dropped"},
         ReleaseAndWake(j, next), req' = req
  PROVE  Promise!Leave(j)
<1>1. PICK W \in SUBSET Queued :
        pc' = [i \in Jobs |-> IF i = j THEN next
                             ELSE IF i \in W THEN "granted"
                             ELSE pc[i]]
  BY DEF ReleaseAndWake, CountWrites
<1>2. j \in Jobs /\ Phase[j] # "out" /\ j \notin Queued
  BY DEF Holders, Queued, Phase, PhaseOf
<1>3. W \in SUBSET (Promise!Waiting \ {j})
  BY <1>1, <1>2, PhaseOfJobs
<1>4. Phase' = [i \in Jobs |-> IF i = j THEN "out"
                              ELSE IF i \in W THEN "holding"
                              ELSE Phase[i]]
  BY <1>1, <1>2 DEF Phase, PhaseOf, IInv, TypeOK, PCs
<1>5. \E r \in Promise!Requests : req' = [req EXCEPT ![j] = r]
  BY <1>2, WantIsKept
<1>6. QED
  BY <1>2, <1>3, <1>4, <1>5 DEF Promise!Leave

(* So is dropping a waiting task, granted in the meantime or not.          *)
LEMMA DropImplementsLeave ==
  ASSUME IInv, NEW j \in Queued, pc' = [pc EXCEPT ![j] = "dropped"], req' = req
  PROVE  Promise!Leave(j)
<1>1. j \in Jobs /\ Phase[j] # "out"
  BY DEF Queued, Phase, PhaseOf
<1>2. Phase' = [i \in Jobs |-> IF i = j THEN "out"
                              ELSE IF i \in {} THEN "holding"
                              ELSE Phase[i]]
  BY <1>1 DEF Phase, PhaseOf, IInv, TypeOK, PCs
<1>3. {} \in SUBSET (Promise!Waiting \ {j})
  OBVIOUS
<1>4. \E r \in Promise!Requests : req' = [req EXCEPT ![j] = r]
  BY <1>1, WantIsKept
<1>5. QED
  BY <1>1, <1>2, <1>3, <1>4 DEF Promise!Leave

(* Whatever the jobs ask and drop, what they see are the locks FileLocks   *)
(* specifies: whole requests, no conflict, and no needless wait.           *)
THEOREM Refinement == Spec => KeepsPromise
<1>1. Init => Promise!Init
  BY DEF Init, Promise!Init, Phase, PhaseOf, NoRequest, Requests, Promise!Requests, Promise!Modes
<1>2. ASSUME IInv, IInv', [Next]_vars
      PROVE  [Promise!Next]_<<Phase, req>>
  <2>1. Promise!Compatible' /\ Promise!Maximal'
    <3>1. IInv' => (Promise!Compatible <=> Exclusion)' /\ (Promise!Maximal <=> NoLostWakeup)'
      BY PhaseOfJobs, PTL
    <3>2. QED
      BY <1>2, <3>1 DEF IInv
  <2>2. CASE Next
    <3>1. \A j \in Holders : j \in Jobs
      BY DEF Holders
    <3>2. \A j \in Queued : j \in Jobs
      BY DEF Queued
    <3>3. ASSUME NEW j \in Jobs, NEW r \in Requests, MayAsk(j),
                 Start(j, r) \/ Enqueue(j, r), req' = [req EXCEPT ![j] = r]
          PROVE  Promise!Next
      BY <1>2, <2>1, <3>3, AskImplementsAsk DEF Promise!Next, Promise!Settled
    <3>4. ASSUME NEW j \in Holders, NEW next \in {"idle", "dropped"},
                 ReleaseAndWake(j, next), req' = req
          PROVE  Promise!Next
      BY <1>2, <2>1, <3>1, <3>4, ReleaseImplementsLeave DEF Promise!Next, Promise!Settled
    <3>5. ASSUME NEW j \in Queued, pc' = [pc EXCEPT ![j] = "dropped"], req' = req
          PROVE  Promise!Next
      BY <1>2, <2>1, <3>2, <3>5, DropImplementsLeave DEF Promise!Next, Promise!Settled
    <3>6. ASSUME NEW j \in Jobs, Receive(j)
          PROVE  UNCHANGED <<Phase, req>>
      <4>1. \A i \in Jobs : PhaseOf(pc[i])' = PhaseOf(pc[i])
        BY <1>2, <3>6 DEF Receive, PhaseOf, IInv, TypeOK
      <4>2. QED
        BY <3>6, <4>1 DEF Receive, Phase
    <3>7. ASSUME pc' = pc, req' = req
          PROVE  UNCHANGED <<Phase, req>>
      BY <3>7 DEF Phase
    <3>8. QED
      BY <1>2, <2>2, <3>3, <3>4, <3>5, <3>6, <3>7, StepShape
  <2>3. CASE UNCHANGED vars
    BY <2>3 DEF vars, Phase
  <2>4. QED
    BY <1>2, <2>2, <2>3
<1>3. QED
  BY <1>1, <1>2, Invariance, PTL DEF Spec, KeepsPromise, Promise!Spec, Promise!lockVars

-----------------------------------------------------------------------------
(* The write counts tell of every writer.                                  *)

(* What a count noted before says of file f now: since then either nobody  *)
(* took it to write, or a writer has it, or the count has moved on.        *)
NoteTells(j, f) ==
  noted[j][f] # -1 =>
    /\ noted[j][f] <= writes[f]
    /\ f \in touched[j] <=> \/ writes[f] # noted[j][f]
                            \/ \E h \in Holders : Writes(h, f)

NotesTell == /\ touched \in [Jobs -> SUBSET Files]
             /\ \A j \in Jobs, f \in Files : NoteTells(j, f)

(* How a step changes the holders: it only adds some, or it takes one away *)
(* and counts its writes.  No holder's request changes.                    *)
LEMMA HoldersStep ==
  ASSUME IInv, Next
  PROVE  /\ \A h \in Holders : req'[h] = req[h]
         /\ \/ writes' = writes /\ Holders \subseteq Holders'
            \/ \E i \in Holders : /\ writes' = CountWrites(i)
                                  /\ Holders \ {i} \subseteq Holders'
                                  /\ i \notin Holders'
<1> USE DEF IInv
<1>1. ASSUME NEW j \in Jobs, NEW r \in Requests, MayAsk(j), Start(j, r) \/ Enqueue(j, r),
             req' = [req EXCEPT ![j] = r]
      PROVE  /\ writes' = writes /\ Holders \subseteq Holders'
             /\ \A h \in Holders : req'[h] = req[h]
  BY <1>1 DEF MayAsk, Start, Enqueue, Holders, TypeOK
<1>2. ASSUME NEW i \in Holders, NEW next \in {"idle", "dropped"}, ReleaseAndWake(i, next),
             req' = req
      PROVE  writes' = CountWrites(i) /\ Holders \ {i} \subseteq Holders' /\ i \notin Holders'
  <2>1. writes' = CountWrites(i)
    BY <1>2 DEF ReleaseAndWake
  <2>2. PICK W \in SUBSET Queued :
          pc' = [k \in Jobs |-> IF k = i THEN next ELSE IF k \in W THEN "granted" ELSE pc[k]]
    BY <1>2 DEF ReleaseAndWake, CountWrites
  <2>3. QED
    BY <2>1, <2>2 DEF Holders
<1>3. ASSUME NEW j \in Queued, pc' = [pc EXCEPT ![j] = "dropped"],
             UNCHANGED <<readers, writer, writes, req>>
      PROVE  /\ writes' = writes /\ Holders \subseteq Holders'
             /\ \A h \in Holders : req'[h] = req[h]
  BY <1>3 DEF Queued, Holders, TypeOK
<1>4. ASSUME NEW j \in Jobs, Receive(j)
      PROVE  /\ writes' = writes /\ Holders \subseteq Holders'
             /\ \A h \in Holders : req'[h] = req[h]
  BY <1>4 DEF Receive, Holders, TypeOK
<1>5. ASSUME UNCHANGED <<readers, writer, writes, queue, pc, req>>
      PROVE  /\ writes' = writes /\ Holders \subseteq Holders'
             /\ \A h \in Holders : req'[h] = req[h]
  BY <1>5 DEF Holders
<1>6. QED
  BY <1>1, <1>2, <1>3, <1>4, <1>5, StepShape

(* Only a job that holds read locks changes its note, to the counts of the *)
(* files it reads, and nothing else of the table moves.                    *)
LEMMA NotesStep ==
  ASSUME IInv, Next, NEW j \in Jobs, noted'[j] # noted[j]
  PROVE  /\ j \in Holders /\ req[j].mode = "read"
         /\ noted'[j] = [f \in Files |-> IF f \in req[j].files THEN writes[f] ELSE -1]
         /\ UNCHANGED <<writes, pc, req>>
<1> USE DEF IInv
<1>1. ASSUME NEW i \in Jobs, NoteWriteCounts(i)
      PROVE  i = j
  BY <1>1 DEF NoteWriteCounts, TypeOK
<1>2. NoteWriteCounts(j)
  BY <1>1 DEF Next, Lock, TryLock, Release, Receive, DropWait, AddFiles, RemoveFiles,
              Finished, vars
<1>3. QED
  BY <1>2 DEF NoteWriteCounts, Holders, TypeOK

(* A step of the locks and of their history keeps every note telling.      *)
LEMMA NotesTellNext ==
  ASSUME IInv, IInv', NotesTell, HNext
  PROVE  NotesTell'
<1> DEFINE New == UNION {req'[i].files : i \in {i \in Holders' \ Holders : req'[i].mode = "write"}}
<1> USE DEF IInv
<1>1. Next /\ touched' = [j \in Jobs |-> IF noted'[j] # noted[j] THEN {} ELSE touched[j] \cup New]
  BY DEF HNext
<1>2. \A i \in Holders' : i \in Jobs
  BY DEF Holders
<1>3. New \subseteq Files
  BY <1>2 DEF TypeOK, Requests, Promise!Requests
<1>4. touched' \in [Jobs -> SUBSET Files]
  BY <1>1, <1>3 DEF NotesTell
<1>5. \A f \in Files : f \in New <=> \E i \in Holders' \ Holders : Writes(i, f)'
  BY DEF Writes
<1>6. ASSUME NEW j \in Jobs, NEW f \in Files, noted'[j] # noted[j]
      PROVE  NoteTells(j, f)'
  <2>1. /\ j \in Holders /\ req[j].mode = "read"
        /\ noted'[j] = [g \in Files |-> IF g \in req[j].files THEN writes[g] ELSE -1]
        /\ UNCHANGED <<writes, pc, req>>
    BY <1>1, <1>6, NotesStep
  <2>2. touched'[j] = {}
    BY <1>1, <1>6
  <2>3. CASE f \notin req[j].files
    BY <2>1, <2>3 DEF NoteTells
  <2>4. CASE f \in req[j].files
    <3>1. noted'[j][f] = writes'[f] /\ writes'[f] \in Nat
      BY <2>1, <2>4 DEF TypeOK
    <3>2. ASSUME NEW h \in Holders
          PROVE  ~Writes(h, f)
      <4>1. CASE h = j
        BY <2>1, <4>1 DEF Writes
      <4>2. CASE h # j
        BY <2>1, <2>4, <4>2, ConflictByFile DEF Exclusion, Writes, Holders, TypeOK
      <4>3. QED
        BY <4>1, <4>2
    <3>3. ~ \E h \in Holders' : Writes(h, f)'
      BY <2>1, <3>2 DEF Holders, Writes
    <3>4. QED
      BY <2>2, <3>1, <3>3 DEF NoteTells
  <2>5. QED
    BY <2>3, <2>4
<1>7. ASSUME NEW j \in Jobs, NEW f \in Files, noted'[j] = noted[j]
      PROVE  NoteTells(j, f)'
  <2> SUFFICES ASSUME noted[j][f] # -1
               PROVE  /\ noted[j][f] <= writes'[f]
                      /\ f \in touched'[j] <=> \/ writes'[f] # noted[j][f]
                                               \/ \E h \in Holders' : Writes(h, f)'
    BY <1>7 DEF NoteTells
  <2>1. /\ noted[j][f] <= writes[f]
        /\ f \in touched[j] <=> \/ writes[f] # noted[j][f]
                                \/ \E h \in Holders : Writes(h, f)
    BY DEF NotesTell, NoteTells
  <2>2. f \in touched'[j] <=> f \in touched[j] \/ \E i \in Holders' \ Holders : Writes(i, f)'
    BY <1>1, <1>5, <1>7
  <2>3. \A h \in Holders : Writes(h, f)' <=> Writes(h, f)
    BY <1>1, HoldersStep DEF Writes
  <2>4. writes[f] \in Nat /\ noted[j][f] \in Int
    BY DEF TypeOK
  <2>5. CASE writes' = writes /\ Holders \subseteq Holders'
    BY <2>1, <2>2, <2>3, <2>5
  <2>6. ASSUME NEW i \in Holders, writes' = CountWrites(i),
               Holders \ {i} \subseteq Holders', i \notin Holders'
        PROVE  /\ noted[j][f] <= writes'[f]
               /\ f \in touched'[j] <=> \/ writes'[f] # noted[j][f]
                                        \/ \E h \in Holders' : Writes(h, f)'
    <3>1. writes'[f] = IF Writes(i, f) THEN writes[f] + 1 ELSE writes[f]
      BY <2>6 DEF CountWrites
    <3>2. CASE Writes(i, f)
      <4>1. f \in touched'[j]
        BY <2>1, <2>2, <3>2
      <4>2. writes'[f] # noted[j][f] /\ noted[j][f] <= writes'[f]
        BY <2>1, <2>4, <3>1, <3>2
      <4>3. QED
        BY <4>1, <4>2
    <3>3. CASE ~Writes(i, f)
      <4>1. writes'[f] = writes[f]
        BY <3>1, <3>3
      <4>2. (\E h \in Holders' : Writes(h, f)') <=>
              \/ \E h \in Holders : Writes(h, f)
              \/ \E h \in Holders' \ Holders : Writes(h, f)'
        BY <2>3, <2>6, <3>3
      <4>3. QED
        BY <2>1, <2>2, <4>1, <4>2
    <3>4. QED
      BY <3>2, <3>3
  <2>7. QED
    BY <1>1, <2>5, <2>6, HoldersStep
<1>8. QED
  BY <1>4, <1>6, <1>7 DEF NotesTell

(* With its history the table keeps its invariants, and every note tells.  *)
THEOREM NotesInvariance == HSpec => [](IInv /\ NotesTell)
<1>1. HInit => IInv /\ NotesTell
  BY InitIInv DEF HInit, Init, NoNote, NotesTell, NoteTells
<1>2. IInv /\ NotesTell /\ [HNext]_hvars => (IInv /\ NotesTell)'
  <2>1. CASE HNext
    BY <2>1, NextIInv, NotesTellNext DEF HNext
  <2>2. CASE UNCHANGED hvars
    <3>1. IInv => IInv'
      BY <2>2, NextIInv DEF hvars
    <3>2. NotesTell => NotesTell'
      BY <2>2 DEF hvars, vars, NotesTell, NoteTells, Holders, Writes
    <3>3. QED
      BY <3>1, <3>2
  <2>3. QED
    BY <2>1, <2>2
<1>3. QED
  BY <1>1, <1>2, PTL DEF HSpec

(* What a job learns when it reads its files again (write_counts): a count *)
(* that moved is a file somebody locked to write since, and one that did   *)
(* not is a file nobody did (file_rw_locks.rs:211-213).                    *)
THEOREM WritersAreCounted == HSpec => []CountsTellOfWriters
<1>1. IInv /\ NotesTell => CountsTellOfWriters
  <2> SUFFICES ASSUME IInv, NotesTell, NEW j \in Jobs, pc[j] = "holding",
                      NEW f \in req[j].files, noted[j][f] # -1, req[j].mode = "read"
               PROVE  writes[f] # noted[j][f] <=> f \in touched[j]
    BY DEF CountsTellOfWriters
  <2> USE DEF IInv
  <2>1. f \in Files /\ j \in Holders
    BY DEF TypeOK, Requests, Promise!Requests, Holders
  <2>2. ASSUME NEW h \in Holders
        PROVE  ~Writes(h, f)
    <3>1. CASE h = j
      BY <3>1 DEF Writes
    <3>2. CASE h # j
      BY <2>1, <3>2, ConflictByFile DEF Exclusion, Writes, Holders, TypeOK
    <3>3. QED
      BY <3>1, <3>2
  <2>3. QED
    BY <2>1, <2>2 DEF NotesTell, NoteTells
<1>2. QED
  BY <1>1, NotesInvariance, PTL
=============================================================================
