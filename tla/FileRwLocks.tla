----------------------------- MODULE FileRwLocks -----------------------------
(***************************************************************************)
(* Read/write locks on the files of a hook run (src/src/file_rw_locks.rs). *)
(* Every operation runs under the mutex of the table, so it is one step.   *)
(* A request is granted whole or queued whole; a release wakes, in queue   *)
(* order, every queued request that conflicts with no holder.  A queued    *)
(* task learns of its grant later, and may be dropped before or after.     *)
(***************************************************************************)
EXTENDS Integers, FiniteSets

CONSTANTS Files,   (* the files a run may lock *)
          Jobs,    (* the tasks that lock them *)
          MaxAsks  (* bound: how many requests a run makes *)

ASSUME ConstantsOK == IsFiniteSet(Jobs) /\ MaxAsks \in Nat

VARIABLES
  known,    (* the files with a position in the table *)
  readers,  (* file -> how many readers hold it *)
  writer,   (* file -> whether a writer holds it *)
  writes,   (* file -> how many write locks on it were released *)
  queue,    (* the waiting tasks, each with the id that orders its request *)
  next_id,  (* the id of the next request to wait *)
  pc,       (* task -> where it is with its request *)
  req,      (* task -> its latest request *)
  asked,    (* how many requests were made so far *)
  noted     (* task -> write_counts it noted, -1 for a file it did not note *)

vars == <<known, readers, writer, writes, queue, next_id, pc, req, asked, noted>>

(* "granted": taken out of the queue with its locks, not yet told.         *)
PCs == {"idle", "queued", "granted", "holding", "dropped"}

(* The promise this module keeps: what a job outside sees of its locks.    *)
PhaseOf(p) == CASE p = "queued"               -> "waiting"
                [] p \in {"granted", "holding"} -> "holding"
                [] OTHER                       -> "out"
Phase == [j \in Jobs |-> PhaseOf(pc[j])]

Promise == INSTANCE FileLocks WITH phase <- Phase, want <- req
Requests       == Promise!Requests
Conflict(r, s) == Promise!Conflict(r, s)

Queued   == {j \in Jobs : pc[j] = "queued"}
Holders  == {j \in Jobs : pc[j] \in {"granted", "holding"}}
Reads(j, f)  == req[j].mode = "read"  /\ f \in req[j].files
Writes(j, f) == req[j].mode = "write" /\ f \in req[j].files
ReadersOf(S, f) == {j \in S : Reads(j, f)}

NoRequest == [mode |-> "read", files |-> {}]
NoNote    == [f \in Files |-> -1]

Init == /\ known \in SUBSET Files
        /\ readers = [f \in Files |-> 0]
        /\ writer  = [f \in Files |-> FALSE]
        /\ writes  = [f \in Files |-> 0]
        /\ queue   = [j \in {} |-> 0]
        /\ next_id = 0
        /\ pc      = [j \in Jobs |-> "idle"]
        /\ req     = [j \in Jobs |-> NoRequest]
        /\ asked   = 0
        /\ noted   = [j \in Jobs |-> NoNote]

-----------------------------------------------------------------------------
(* Mutant of CanStart: a writer ignores the readers.                       *)
CanStartMutant(rd, wr, r) == \A f \in r.files : ~wr[f]

(* Whether nothing in the table (rd, wr) conflicts with request r.         *)
CanStart(rd, wr, r) ==
  \A f \in r.files : /\ ~wr[f]
                     /\ r.mode = "write" => rd[f] = 0

(* The table with the locks of request r taken.                            *)
HoldReads(rd, r)  == [f \in Files |-> IF r.mode = "read" /\ f \in r.files
                                      THEN rd[f] + 1 ELSE rd[f]]
HoldWrites(wr, r) == [f \in Files |-> wr[f] \/ (r.mode = "write" /\ f \in r.files)]

(* A task with no request out may make another, up to the bound.           *)
MayAsk(j) == pc[j] = "idle" /\ asked < MaxAsks

Start(j, r) ==
  /\ CanStart(readers, writer, r)
  /\ readers' = HoldReads(readers, r)
  /\ writer'  = HoldWrites(writer, r)
  /\ pc'      = [pc EXCEPT ![j] = "holding"]
  /\ UNCHANGED <<writes, queue, next_id>>

Enqueue(j, r) ==
  /\ ~CanStart(readers, writer, r)
  /\ queue'   = [i \in DOMAIN queue \cup {j} |-> IF i = j THEN next_id ELSE queue[i]]
  /\ next_id' = next_id + 1
  /\ pc'      = [pc EXCEPT ![j] = "queued"]
  /\ UNCHANGED <<readers, writer, writes>>

(* read_locks and write_locks: take the locks, or wait in the queue.       *)
Lock(j, r) ==
  /\ MayAsk(j)
  /\ known' = known \cup r.files
  /\ req'   = [req EXCEPT ![j] = r]
  /\ asked' = asked + 1
  /\ Start(j, r) \/ Enqueue(j, r)
  /\ UNCHANGED noted

(* try_read and try_write: take the locks, or return without them.         *)
TryLock(j, r) ==
  /\ MayAsk(j)
  /\ known' = known \cup r.files
  /\ \/ /\ Start(j, r)
        /\ req'   = [req EXCEPT ![j] = r]
        /\ asked' = asked + 1
     \/ /\ ~CanStart(readers, writer, r)
        /\ UNCHANGED <<readers, writer, writes, queue, next_id, pc, req, asked>>
  /\ UNCHANGED noted

-----------------------------------------------------------------------------
(* Requests join the queue at its back and in the order of their ids.      *)
Ahead(i, j) == {i, j} \subseteq DOMAIN queue /\ queue[i] < queue[j]

(* The requests of the jobs in S leave the queue.                          *)
Leaving(S)  == queue' = [i \in DOMAIN queue \ S |-> queue[i]]

(* Mutant of Wakes: the newest request goes first.                         *)
WakesMutant(W, rd, wr) ==
  \A j \in Queued :
    j \in W <=> /\ CanStart(rd, wr, req[j])
                /\ \A i \in W : Ahead(j, i) => ~Conflict(req[i], req[j])

(* W is the set of queued jobs a pass over the queue starts in table       *)
(* (rd, wr): those that conflict with no holder and with no job the pass   *)
(* has started before reaching them.                                       *)
Wakes(W, rd, wr) ==
  \A j \in Queued :
    j \in W <=> /\ CanStart(rd, wr, req[j])
                /\ \A i \in W : Ahead(i, j) => ~Conflict(req[i], req[j])

(* The table without the locks of job j.                                   *)
ReadersWithout(j) == [f \in Files |-> IF Reads(j, f) THEN readers[f] - 1 ELSE readers[f]]
WriterWithout(j)  == [f \in Files |-> writer[f] /\ ~Writes(j, f)]

(* Mutant of CountWrites: a release is not counted.                        *)
CountWritesMutant(j) == writes

(* The write counts after job j gives its locks back.                      *)
CountWrites(j) == [f \in Files |-> IF Writes(j, f) THEN writes[f] + 1 ELSE writes[f]]

(* Mutant of ReleaseAndWake: nobody is woken.                              *)
ReleaseAndWakeMutant(j, next) ==
  /\ readers' = ReadersWithout(j)
  /\ writer'  = WriterWithout(j)
  /\ writes'  = CountWrites(j)
  /\ pc' = [pc EXCEPT ![j] = next]
  /\ UNCHANGED queue

(* Job j gives its locks back, and the queue is woken in the same step.    *)
ReleaseAndWake(j, next) ==
  LET rd == ReadersWithout(j)
      wr == WriterWithout(j)
  IN \E W \in SUBSET Queued :
       /\ Wakes(W, rd, wr)
       /\ readers' = [f \in Files |-> rd[f] + Cardinality(ReadersOf(W, f))]
       /\ writer'  = [f \in Files |-> wr[f] \/ \E i \in W : Writes(i, f)]
       /\ writes'  = CountWrites(j)
       /\ Leaving(W)
       /\ pc' = [i \in Jobs |-> IF i = j THEN next
                                ELSE IF i \in W THEN "granted"
                                ELSE pc[i]]

(* The locks of a job are dropped.                                         *)
Release(j) ==
  /\ pc[j] = "holding"
  /\ ReleaseAndWake(j, "idle")
  /\ UNCHANGED <<known, next_id, req, asked, noted>>

(* The task that was granted its locks runs again and has them.            *)
Receive(j) ==
  /\ pc[j] = "granted"
  /\ pc' = [pc EXCEPT ![j] = "holding"]
  /\ UNCHANGED <<known, readers, writer, writes, queue, next_id, req, asked, noted>>

(* Mutant of DropWait: a grant that came in the meantime is forgotten.     *)
DropWaitMutant(j) ==
  /\ \/ pc[j] = "queued" /\ Leaving({j})
     \/ pc[j] = "granted" /\ UNCHANGED queue
  /\ pc' = [pc EXCEPT ![j] = "dropped"]
  /\ UNCHANGED <<known, readers, writer, writes, next_id, req, asked, noted>>

(* Mutant of DropWait: a request that still waits releases its locks too.  *)
DropWaitTwiceMutant(j) ==
  /\ pc[j] \in {"queued", "granted"}
  /\ ReleaseAndWake(j, "dropped")
  /\ UNCHANGED <<known, next_id, req, asked, noted>>

(* A waiting task is dropped: its request leaves the queue, or, granted    *)
(* in the meantime, its locks are released.                                *)
DropWait(j) ==
  /\ \/ /\ pc[j] = "queued"
        /\ Leaving({j})
        /\ pc' = [pc EXCEPT ![j] = "dropped"]
        /\ UNCHANGED <<readers, writer, writes>>
     \/ /\ pc[j] = "granted"
        /\ ReleaseAndWake(j, "dropped")
  /\ UNCHANGED <<known, next_id, req, asked, noted>>

(* write_counts: a job notes the counts of the files it reads.             *)
NoteWriteCounts(j) ==
  /\ pc[j] = "holding"
  /\ req[j].mode = "read"
  /\ noted' = [noted EXCEPT ![j] = [f \in Files |-> IF f \in req[j].files
                                                    THEN writes[f] ELSE -1]]
  /\ UNCHANGED <<known, readers, writer, writes, queue, next_id, pc, req, asked>>

(* add_files: the hook adds files at any time.                             *)
AddFiles(S) ==
  /\ ~(S \subseteq known)
  /\ known' = known \cup S
  /\ UNCHANGED <<readers, writer, writes, queue, next_id, pc, req, asked, noted>>

(* remove_files: only before any step runs.                                *)
RemoveFiles(S) ==
  /\ asked = 0
  /\ S \cap known # {}
  /\ known' = known \ S
  /\ UNCHANGED <<readers, writer, writes, queue, next_id, pc, req, asked, noted>>

(* Every task has ended: the run is over.                                  *)
Finished ==
  /\ asked = MaxAsks
  /\ \A j \in Jobs : pc[j] \in {"idle", "dropped"}
  /\ UNCHANGED vars

Next == \/ \E j \in Jobs, r \in Requests : Lock(j, r) \/ TryLock(j, r)
        \/ \E j \in Jobs : \/ Release(j)
                           \/ Receive(j)
                           \/ DropWait(j)
                           \/ NoteWriteCounts(j)
        \/ \E f \in Files : AddFiles({f}) \/ RemoveFiles({f})
        \/ Finished

(* The runtime polls a woken task, and a job with its locks ends.          *)
Fairness == \A j \in Jobs : WF_vars(Receive(j)) /\ WF_vars(Release(j))

Spec     == Init /\ [][Next]_vars
FairSpec == Spec /\ Fairness

-----------------------------------------------------------------------------
(* Every variable stays in its range: the only invariant about types.      *)
TypeOK ==
  /\ known   \in SUBSET Files
  /\ readers \in [Files -> Nat]
  /\ writer  \in [Files -> BOOLEAN]
  /\ writes  \in [Files -> Nat]
  /\ next_id \in Nat
  /\ pc      \in [Jobs -> PCs]
  /\ req     \in [Jobs -> Requests]
  /\ asked   \in Nat
  /\ noted   \in [Jobs -> [Files -> Int]]

(* The queue holds each waiting job once and no other: a request leaves it *)
(* by a grant or by the drop of its task, never both and never neither.    *)
QueueIsTheWaiters ==
  /\ queue \in [Queued -> 0..next_id - 1]
  /\ \A i, j \in Queued : i # j => queue[i] # queue[j]

(* The counters in the table are those of the jobs that hold locks: no     *)
(* drop of a task leaks a lock or gives one back twice.                    *)
CountersMatchHolders ==
  \A f \in Files :
    /\ readers[f] = Cardinality(ReadersOf(Holders, f))
    /\ writer[f] <=> \E j \in Holders : Writes(j, f)

(* Any number of readers of a file, or one writer.                         *)
Exclusion == \A i, j \in Holders : i # j => ~Conflict(req[i], req[j])

(* "After every change to the table, each of them conflicts with a job     *)
(* holding locks" (file_rw_locks.rs:60-61): no wakeup is ever lost.        *)
NoLostWakeup ==
  \A w \in Queued : \E h \in Holders : Conflict(req[w], req[h])

(* Removing files from the table takes none a job waits for or holds.      *)
LockedFilesAreKnown == \A j \in Queued \cup Holders : req[j].files \subseteq known

(* A step leaves a queued job waiting only for a job that was there before *)
(* it: one that kept its locks, or was ahead of it in the queue.  A wakeup *)
(* never lets a later request take the files first.                        *)
WakesInOrder ==
  [][\A w \in Queued :
       w \in Queued' =>
         \E h \in Holders' : /\ Conflict(req[w], req[h])
                             /\ h \in Holders \/ Ahead(h, w)]_vars

(* The counts of files under a read lock do not move until its release:    *)
(* what a job notes stays what it read (file_rw_locks.rs:210-211).         *)
CountsFrozenUnderRead ==
  [][\A j \in Jobs :
       pc[j] = "holding" /\ pc'[j] = "holding" /\ req[j].mode = "read" =>
         \A f \in req[j].files : writes'[f] = writes[f]]_vars

(* The jobs outside see the locks that FileLocks promises.                 *)
KeepsPromise == Promise!Spec

(* Every waiting job gets its locks or is dropped, as long as holders end: *)
(* with finitely many requests a wide waiter is not passed over for ever.  *)
WaitersServed == \A j \in Jobs : pc[j] = "queued" ~> pc[j] # "queued"
=============================================================================
