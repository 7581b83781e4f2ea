-------------------------- MODULE StashJournalProofs --------------------------
(***************************************************************************)
(* Proofs about the stash, for any processes, files, crashes and failing    *)
(* writes: no edit of the user's is lost, no two processes recover, stash   *)
(* or put back at once, no journal of a running process is touched by one   *)
(* that can see it, a run that meets no failure leaves nothing behind, and  *)
(* a recovery tells of all that it leaves.                                 *)
(***************************************************************************)
EXTENDS StashJournal, TLAPS

(* The edits of a user among a file's; when one file's contents have all    *)
(* the user's edits that another one's have.                               *)
Users(E)   == E \cap {"old", "new"}
Has(E, F)  == Users(F) \subseteq Users(E)

(* Where a process is that has not begun, that runs, and that puts entries  *)
(* back.                                                                   *)
First      == {"idle", "await", "reread"}
Running    == {"queue", "stash", "store_intents", "record_intents", "unmark", "remove", "push",
               "store", "record", "reset", "rollback", "roll_drop", "roll_forget",
               "stashed", "steps"}
Popping    == {"pop", "restore", "drop", "back", "mark", "drop_intents", "forget_intents", "popped"}

(* A process has not made its entry yet.                                   *)
Before(p, k) ==
  \/ pc[p] \in First \cup {"leave", "status", "queue", "stash", "store_intents"}
  \/ k = "unstaged" /\ pc[p] \in {"record_intents", "unmark", "remove", "push", "store"}
  \/ pc[p] \in Popping /\ my[p].task = "recover"

(* What is staged is in the file too, unless the user took it out, and      *)
(* files that are not in HEAD are not staged.                              *)
TreeInv == /\ \A f \in Files : Has(tree[f], index[f])
           /\ \A f \in NewFiles : index[f] = {}

(* An entry has of its files what was in the tree, which had what is still  *)
(* staged.                                                                 *)
EntryInv(c) ==
  /\ c \notin refs => saved[c] = NoSave
  /\ c[2] = "intent" => saved[c].files \subseteq NewFiles
  /\ \A f \in Files : /\ Has(index[f], saved[c].base[f])
                      /\ Has(saved[c].work[f], saved[c].base[f])
                      /\ f \notin saved[c].files => saved[c].work[f] = {}

(* The entry has what the tree has of its files, or the other way round.    *)
InEntry(c) == \A f \in saved[c].files : Has(saved[c].work[f], tree[f])
InTree(c)  == \A f \in saved[c].files : Has(tree[f], saved[c].work[f])

(* What a process knows while it sets files aside.                          *)
Stashing(p) ==
  /\ pc[p] \in {"record_intents", "unmark", "remove"} =>
       LET c == <<p, "intent">>
       IN c \in refs /\ saved[c].files = my[p].intent /\ InEntry(c)
  /\ pc[p] \in {"unmark", "remove"} => my[p].intents = <<p, "intent">>
  /\ pc[p] = "remove" => my[p].todo \subseteq my[p].intent
  /\ pc[p] \in {"record", "reset", "rollback"} =>
       <<p, "unstaged">> \in refs /\ InEntry(<<p, "unstaged">>)
  /\ pc[p] \in {"reset", "rollback", "roll_drop"} => my[p].stash = <<p, "unstaged">>
  /\ pc[p] = "reset" => my[p].todo \subseteq saved[my[p].stash].files
  /\ pc[p] = "roll_drop" => InTree(my[p].stash)

(* What a process knows while it puts them back: the files it has to write, *)
(* and those it wrote or left.                                             *)
Restoring(p) ==
  LET c == my[p].stash
      r == my[p]
  IN /\ pc[p] \in {"restore", "drop"} => c \in refs
     /\ pc[p] = "restore" =>
          /\ r.todo \subseteq r.wrote \cup r.touched
          /\ r.wrote \cup r.touched \subseteq saved[c].files
          /\ \A f \in r.todo \ r.touched : Has(saved[c].work[f], tree[f])
          /\ ~r.bad => \A f \in saved[c].files \ r.todo :
                         f \in r.wrote \/ Has(tree[f], saved[c].work[f])
     /\ pc[p] = "drop" => InTree(c)

(* Of the files with intent to add, one that exists when it is put back has *)
(* its contents or keeps the entry, or is one of `reborn`.                 *)
BringingBack(p) ==
  LET c == my[p].intents
  IN /\ pc[p] \in {"mark", "drop_intents"} => c # None
     /\ pc[p] = "mark" =>
          \A f \in saved[c].files : \/ Has(tree[f], saved[c].work[f])
                                    \/ f \in reborn
                                    \/ my[p].set_aside /\ f \in my[p].touched
     /\ pc[p] = "drop_intents" =>
          \A f \in saved[c].files : Has(tree[f], saved[c].work[f]) \/ f \in reborn

ProcInv(p) ==
  /\ pc[p] \in First => my[p].task = "recover"
  /\ pc[p] \in Running => my[p].task = "run"
  /\ \A k \in Kinds : Before(p, k) => <<p, k>> \notin refs
  /\ Stashing(p) /\ Restoring(p) /\ BringingBack(p)

(* The inductive invariant.                                                *)
Inv == /\ TypeOK
       /\ LockIsHeld
       /\ TreeInv
       /\ \A c \in Entries : EntryInv(c)
       /\ NothingLost
       /\ \A p \in Procs : ProcInv(p)

(* Its parts, as the lemmas below come to them.                            *)
FilesInv  == TreeInv /\ (\A c \in Entries : EntryInv(c)) /\ NothingLost
LockInv   == pc \in [Procs -> PCs] /\ lock \in Procs \cup {"none"} /\ LockIsHeld
DataTypes ==
  /\ tree \in [Files -> SUBSET Edits] /\ index \in [Files -> SUBSET Edits]
  /\ made \in [Files -> SUBSET {"old", "new"}]
  /\ marked \subseteq NewFiles /\ reborn \subseteq NewFiles
  /\ refs \subseteq Entries /\ saved \in [Entries -> Saves]
  /\ disk \in Journals /\ own \in [Procs -> Journals] /\ told \in [Procs -> SUBSET Entries]
  /\ scene \in Scenarios

(* What stays while entries are put back.                                  *)
Same(p) == /\ my'[p].task = my[p].task /\ my'[p].stash = my[p].stash
           /\ my'[p].intents = my[p].intents /\ (my[p].bad => my'[p].bad)

(* A step of p's leaves what the others remember, and where they are.       *)
Others(p) == \A q \in Procs \ {p} : pc'[q] = pc[q] /\ my'[q] = my[q]
-----------------------------------------------------------------------------
(* What a process remembers stays in its range when it notes something, or  *)
(* gives up.                                                               *)
LEMMA Remembers ==
  ASSUME NEW r \in Memories
  PROVE  /\ r.todo \subseteq Files /\ r.intent \subseteq Files /\ r.intent \subseteq NewFiles
         /\ Bad(r) \in Memories
         /\ \A T \in SUBSET Files : /\ [r EXCEPT !.todo = T] \in Memories
                                    /\ Bad([r EXCEPT !.todo = T]) \in Memories
<1>1. r.todo \subseteq Files /\ r.intent \subseteq Files /\ r.intent \subseteq NewFiles
  BY StashOK DEF Memories
<1>2. Bad(r) \in Memories
  BY DEF Memories, Bad
<1>3. ASSUME NEW T \in SUBSET Files
      PROVE  [r EXCEPT !.todo = T] \in Memories /\ Bad([r EXCEPT !.todo = T]) \in Memories
  BY DEF Memories, Bad
<1>4. QED
  BY <1>1, <1>2, <1>3

(* A process that gives up puts back what it had set aside.                 *)
LEMMA GivesUp ==
  ASSUME my \in [Procs -> Memories], pc \in [Procs -> PCs],
         NEW p \in Procs, NEW r \in Memories, GiveUp(p, r)
  PROVE  my' \in [Procs -> Memories] /\ pc'[p] = "back" /\ my'[p].task = "abort"
<1>1. [Bad(r) EXCEPT !.task = "abort", !.todo = {}] \in Memories
  BY DEF Bad, Memories
<1>2. QED
  BY <1>1 DEF GiveUp, Goto, Know, Bad, Memories

(* With what it gives up.                                                  *)
LEMMA Forgotten ==
  ASSUME NEW r \in Memories
  PROVE  [r EXCEPT !.stash = None] \in Memories /\ [r EXCEPT !.set_aside = FALSE] \in Memories
  BY DEF Memories

(* Whoever has the stash lock is where it is held.                          *)
LEMMA LockStays == Inv /\ [Next]_vars => LockInv'
<1> SUFFICES ASSUME Inv, [Next]_vars PROVE LockInv'
  OBVIOUS
<1>1. ASSUME NEW p \in Procs, Look(p) \/ Await(p) \/ Reread(p) \/ Leave(p) PROVE LockInv'
  BY <1>1, StashOK DEF Look, Await, Reread, Leave, DecideGone, DecideUnknown, Inv, TypeOK,
    LockInv, LockIsHeld, Goto, PCs, Holding
<1>2. ASSUME NEW p \in Procs, Pop(p) \/ Restore(p) PROVE LockInv'
  BY <1>2, StashOK DEF Pop, Restore, Inv, TypeOK, LockInv, LockIsHeld, Goto, PCs, Holding
<1>3. ASSUME NEW p \in Procs, Verify(p) \/ Drop(p) PROVE LockInv'
  BY <1>3, StashOK DEF Verify, Drop, Inv, TypeOK, LockInv, LockIsHeld, Goto, PCs, Holding
<1>4. ASSUME NEW p \in Procs, Back(p) \/ Mark(p) \/ DropIntents(p)
         \/ ForgetIntents(p) PROVE LockInv'
  BY <1>4, StashOK DEF Back, Mark, DropIntents, ForgetIntents, Inv, TypeOK, LockInv, LockIsHeld,
    Goto, PCs, Holding
<1>5. ASSUME NEW p \in Procs, Exit(p) \/ Status(p) \/ Queue(p) \/ Stash(p) PROVE LockInv'
  BY <1>5, StashOK DEF Exit, Status, Queue, Stash, Inv, TypeOK, LockInv, LockIsHeld, Goto, PCs,
    Holding
<1>6. ASSUME NEW p \in Procs, StoreIntents(p) \/ RecordIntents(p) \/ Unmark(p) PROVE LockInv'
  BY <1>6, StashOK DEF StoreIntents, RecordIntents, Unmark, GiveUp, Inv, TypeOK, LockInv,
    LockIsHeld, Goto, PCs, Holding
<1>7. ASSUME NEW p \in Procs, Remove(p) PROVE LockInv'
  BY <1>7, StashOK DEF Remove, GiveUp, Inv, TypeOK, LockInv, LockIsHeld, Goto, PCs, Holding
<1>8. ASSUME NEW p \in Procs, Push(p) \/ Store(p) \/ Record(p) PROVE LockInv'
  BY <1>8, StashOK DEF Push, Store, Record, GiveUp, Inv, TypeOK, LockInv, LockIsHeld, Goto, PCs,
    Holding
<1>9. ASSUME NEW p \in Procs, Reset(p) \/ Rollback(p) PROVE LockInv'
  BY <1>9, StashOK DEF Reset, Rollback, GiveUp, Inv, TypeOK, LockInv, LockIsHeld, Goto, PCs,
    Holding
<1>10. ASSUME NEW p \in Procs, RollDrop(p) \/ RollForget(p) PROVE LockInv'
  BY <1>10, StashOK DEF RollDrop, RollForget, GiveUp, Inv, TypeOK, LockInv, LockIsHeld, Goto,
    PCs, Holding
<1>11. ASSUME NEW p \in Procs, Stashed(p) \/ Fix(p) \/ StepsEnd(p) \/ Crash(p) PROVE LockInv'
  BY <1>11, StashOK DEF Stashed, Fix, StepsEnd, Crash, Inv, TypeOK, LockInv, LockIsHeld, Goto,
    PCs, Holding
<1>12. ASSUME NEW p \in Procs, Popped(p) PROVE LockInv'
  <2>1. \/ pc' = [pc EXCEPT ![p] = "leave"] /\ lock' = lock
        \/ pc' = [pc EXCEPT ![p] = "exiting"] /\ lock' = "none"
    <3>1. my[p].task \in {"recover", "run", "abort"}
      BY DEF Inv, TypeOK, Memories
    <3>2. CASE my[p].task = "recover"
      BY <1>12, <3>2 DEF Popped, Goto
    <3>3. CASE my[p].task = "run"
      BY <1>12, <3>3 DEF Popped, Goto
    <3>4. CASE my[p].task = "abort"
      BY <1>12, <3>4 DEF Popped, Goto
    <3>5. QED
      BY <3>1, <3>2, <3>3, <3>4
  <2>2. pc[p] = "popped"
    BY <1>12 DEF Popped
  <2>3. QED
    BY <2>1, <2>2, StashOK DEF Inv, TypeOK, LockInv, LockIsHeld, PCs, Holding
<1>13. ASSUME Edit \/ StageByHand \/ UNCHANGED vars PROVE LockInv'
  BY <1>13 DEF Inv, TypeOK, LockInv, LockIsHeld, Edit, StageByHand, vars
<1>14. QED
  BY <1>1, <1>2, <1>3, <1>4, <1>5, <1>6, <1>7, <1>8, <1>9, <1>10, <1>11, <1>12
     , <1>13 DEF Next, AllOver

(* What the processes remember stays in its range.                          *)
LEMMA MemoriesStay == Inv /\ [Next]_vars => my' \in [Procs -> Memories]
<1> SUFFICES ASSUME Inv, [Next]_vars PROVE my' \in [Procs -> Memories]
  OBVIOUS
<1>0. my \in [Procs -> Memories] /\ pc \in [Procs -> PCs]
  BY DEF Inv, TypeOK
<1>1. ASSUME NEW p \in Procs, Look(p) \/ Await(p) \/ Drop(p) \/ DropIntents(p)
         \/ ForgetIntents(p) \/ Queue(p) \/ Stash(p) \/ Push(p) \/ Fix(p)
         \/ StepsEnd(p) \/ Popped(p) PROVE my' \in [Procs -> Memories]
  BY <1>0, <1>1 DEF Look, Await, Drop, DropIntents, ForgetIntents, Queue, Stash, Push, Fix,
    StepsEnd, Popped
<1>2. ASSUME NEW p \in Procs, Leave(p) PROVE my' \in [Procs -> Memories]
  BY <1>0, <1>2, StashOK DEF Leave, Fresh, Know, Memories, Inv, TypeOK
<1>3. ASSUME NEW p \in Procs, Status(p) PROVE my' \in [Procs -> Memories]
  BY <1>0, <1>3, StashOK DEF Status, Fresh, Know, Memories, Inv, TypeOK, Dirty
<1>4. ASSUME NEW p \in Procs, Exit(p) PROVE my' \in [Procs -> Memories]
  BY <1>0, <1>4, StashOK DEF Exit, Fresh, Know, Memories, Inv, TypeOK
<1>5. ASSUME NEW p \in Procs, Crash(p) PROVE my' \in [Procs -> Memories]
  BY <1>0, <1>5, StashOK DEF Crash, Fresh, Know, Memories, Inv, TypeOK
<1>6. ASSUME NEW p \in Procs, StoreIntents(p) PROVE my' \in [Procs -> Memories]
  BY <1>0, <1>6, GivesUp DEF StoreIntents
<1>7. ASSUME NEW p \in Procs, Store(p) PROVE my' \in [Procs -> Memories]
  BY <1>0, <1>7, GivesUp DEF Store
<1>8. ASSUME NEW p \in Procs, Rollback(p) PROVE my' \in [Procs -> Memories]
  BY <1>0, <1>8, GivesUp, Forgotten DEF Rollback
<1>9. ASSUME NEW p \in Procs, RollDrop(p) PROVE my' \in [Procs -> Memories]
  BY <1>0, <1>9, GivesUp, Forgotten DEF RollDrop
<1>10. ASSUME NEW p \in Procs, RollForget(p) PROVE my' \in [Procs -> Memories]
  BY <1>0, <1>10, GivesUp, Forgotten DEF RollForget
<1>11. ASSUME NEW p \in Procs, Unmark(p) PROVE my' \in [Procs -> Memories]
  <2>1. \/ my' = [my EXCEPT ![p] = [my[p] EXCEPT !.todo = my[p].intent]]
        \/ GiveUp(p, [my[p] EXCEPT !.set_aside = FALSE])
    BY <1>11 DEF Unmark, Know
  <2>2. [my[p] EXCEPT !.todo = my[p].intent] \in Memories
    BY <1>0, Remembers
  <2>3. QED
    BY <1>0, <2>1, <2>2, GivesUp, Forgotten
<1>12. ASSUME NEW p \in Procs, Remove(p) PROVE my' \in [Procs -> Memories]
  <2>1. \/ \E f \in my[p].todo : my' = [my EXCEPT ![p] = [my[p] EXCEPT !.todo = my[p].todo \ {f}]]
        \/ GiveUp(p, [my[p] EXCEPT !.set_aside = FALSE])
        \/ my' = my
    BY <1>12 DEF Remove, Know
  <2>2. \A f : [my[p] EXCEPT !.todo = my[p].todo \ {f}] \in Memories
    BY <1>0, Remembers
  <2>3. QED
    BY <1>0, <2>1, <2>2, GivesUp, Forgotten
<1>13. ASSUME NEW p \in Procs, Reset(p) PROVE my' \in [Procs -> Memories]
  <2>1. \/ \E f \in my[p].todo : my' = [my EXCEPT ![p] = [my[p] EXCEPT !.todo = my[p].todo \ {f}]]
        \/ GiveUp(p, [my[p] EXCEPT !.stash = None])
        \/ my' = my
    BY <1>13 DEF Reset, Know
  <2>2. \A f : [my[p] EXCEPT !.todo = my[p].todo \ {f}] \in Memories
    BY <1>0, Remembers
  <2>3. QED
    BY <1>0, <2>1, <2>2, GivesUp, Forgotten
<1>14. ASSUME NEW p \in Procs, Restore(p) PROVE my' \in [Procs -> Memories]
  <2>1. my[p] \in Memories /\ my \in [Procs -> Memories]
    BY DEF TypeOK, Inv
  <2>2. PICK f \in my[p].todo : \/ my' = [my EXCEPT ![p] = [my[p] EXCEPT !.todo = my[p].todo \ {f}]]
                                \/ my' = [my EXCEPT ![p] = Bad([my[p] EXCEPT !.todo = my[p].todo \ {f}])]
    BY <1>14 DEF Restore, Know
  <2>3. my[p].todo \ {f} \in SUBSET Files
    BY <2>1, Remembers
  <2>4. QED
    BY <2>1, <2>2, <2>3, Remembers
<1>15. ASSUME NEW p \in Procs, RecordIntents(p) PROVE my' \in [Procs -> Memories]
  <2>1. [my[p] EXCEPT !.intents = <<p, "intent">>] \in Memories
    BY <1>0 DEF Memories
  <2>2. QED
    BY <1>0, <1>15, <2>1 DEF RecordIntents, Know
<1>16. ASSUME NEW p \in Procs, Record(p) PROVE my' \in [Procs -> Memories]
  <2>1. [my[p] EXCEPT !.stash = <<p, "unstaged">>, !.todo = saved[<<p, "unstaged">>].files]
          \in Memories
    <3>1. saved[<<p, "unstaged">>].files \subseteq Files
      BY DEF Inv, TypeOK, Saves, Entries, Kinds
    <3>2. QED
      BY <1>0, <3>1 DEF Memories
  <2>2. QED
    BY <1>0, <1>16, <2>1 DEF Record, Know
<1>17. ASSUME NEW p \in Procs, Stashed(p) PROVE my' \in [Procs -> Memories]
  <2>1. [my[p] EXCEPT !.seen = {}, !.intent = {}] \in Memories
    BY <1>0 DEF Memories
  <2>2. QED
    BY <1>0, <1>17, <2>1 DEF Stashed, Know
<1>18. ASSUME NEW p \in Procs, Verify(p) PROVE my' \in [Procs -> Memories]
  <2>1. \A b \in BOOLEAN : [my[p] EXCEPT !.bad = b, !.wrote = {}, !.touched = {}] \in Memories
    BY <1>0 DEF Memories
  <2>2. QED
    BY <1>0, <1>18, <2>1, Remembers DEF Verify, Know
<1>19. ASSUME NEW p \in Procs, Mark(p) PROVE my' \in [Procs -> Memories]
  <2>1. \A b \in BOOLEAN : [my[p] EXCEPT !.bad = b, !.touched = {}] \in Memories
    BY <1>0 DEF Memories
  <2>2. QED
    BY <1>0, <1>19, <2>1, Remembers DEF Mark, Know
<1>20. ASSUME NEW p \in Procs, Reread(p) PROVE my' \in [Procs -> Memories]
  <2>1. my[p] \in Memories /\ refs \subseteq Entries /\ my \in [Procs -> Memories]
    BY DEF TypeOK, Inv
  <2> DEFINE entry(k) == IF <<disk.owner, k>> \in Present(disk) THEN <<disk.owner, k>> ELSE None
             r == [my[p] EXCEPT !.stash = entry("unstaged"), !.intents = entry("intent")]
  <2>2. \A k \in Kinds : entry(k) \in (Procs \X {k}) \cup {None}
    BY <2>1 DEF Present, Entries
  <2> HIDE DEF entry
  <2>3. r \in Memories
    BY <2>1, <2>2 DEF Memories, Kinds
  <2>4. my' = my \/ my' = [my EXCEPT ![p] = r]
    BY <1>20 DEF Reread, DecideGone, DecideUnknown, Know, entry
  <2>5. QED
    BY <2>1, <2>3, <2>4
<1>21. ASSUME NEW p \in Procs, Pop(p) PROVE my' \in [Procs -> Memories]
  <2>1. my[p] \in Memories /\ my \in [Procs -> Memories]
    BY DEF TypeOK, Inv
  <2>2. ASSUME NEW T \in SUBSET Files, NEW U \in SUBSET Files, NEW V \in SUBSET Files, NEW b \in BOOLEAN
        PROVE [my[p] EXCEPT !.todo = T, !.wrote = U, !.touched = V, !.bad = b] \in Memories
    BY <2>1 DEF Memories
  <2> DEFINE c == my[p].stash
             differs == {f \in saved[c].files : tree[f] # saved[c].work[f]}
             touched == {f \in differs : tree[f] # saved[c].base[f]}
             r == [my[p] EXCEPT !.todo = differs \ (touched \cap NewFiles),
                                  !.wrote = differs \ touched,
                                  !.touched = touched \ NewFiles,
                                  !.bad = @ \/ touched \cap NewFiles # {}]
  <2>3. my' = my \/ my' = [my EXCEPT ![p] = Bad(my[p])] \/ (c \in refs /\ my' = [my EXCEPT ![p] = r])
    BY <1>21 DEF Pop, Know
  <2>4. c \in refs => saved[c].files \subseteq Files
    BY DEF Inv, TypeOK, Saves
  <2>5. c \in refs => touched \subseteq Files /\ differs \subseteq Files
    BY <2>4
  <2>6. c \in refs => r \in Memories
    <3> SUFFICES ASSUME c \in refs PROVE r \in Memories
      OBVIOUS
    <3>1. differs \ (touched \cap NewFiles) \in SUBSET Files /\ differs \ touched \in SUBSET Files /\ touched \ NewFiles \in SUBSET Files
      BY <2>5
    <3>2. (my[p].bad \/ touched \cap NewFiles # {}) \in BOOLEAN
      OBVIOUS
    <3> HIDE DEF touched, differs
    <3>3. QED
      BY <2>2, <3>1, <3>2
  <2>7. QED
    BY <2>1, <2>3, <2>6, Remembers
<1>22. ASSUME NEW p \in Procs, Back(p) PROVE my' \in [Procs -> Memories]
  <2>1. my[p] \in Memories /\ my \in [Procs -> Memories]
    BY DEF TypeOK, Inv
  <2> DEFINE c == my[p].intents
             occupied == {f \in saved[c].files : tree[f] # {}}
  <2>2. \/ my' = [my EXCEPT ![p] = [my[p] EXCEPT !.bad = my[p].bad \/ c # None]]
        \/ c # None /\ my' = [my EXCEPT ![p] = [my[p] EXCEPT !.touched = occupied]]
    BY <1>22 DEF Back, Know
  <2>3. c # None => c \in Entries
    BY <2>1 DEF Memories, Entries, Kinds
  <2>4. c # None => occupied \in SUBSET Files
    BY <2>3 DEF Inv, TypeOK, Saves
  <2>5. [my[p] EXCEPT !.bad = my[p].bad \/ c # None] \in Memories
    BY <2>1 DEF Memories
  <2>6. \A T \in SUBSET Files : [my[p] EXCEPT !.touched = T] \in Memories
    BY <2>1 DEF Memories
  <2> HIDE DEF occupied
  <2>7. QED
    BY <2>1, <2>2, <2>4, <2>5, <2>6
<1>23. ASSUME Edit \/ StageByHand \/ UNCHANGED vars PROVE my' \in [Procs -> Memories]
  BY <1>0, <1>23 DEF Edit, StageByHand, vars
<1>24. QED
  BY <1>1, <1>2, <1>3, <1>4, <1>5, <1>6, <1>7, <1>8, <1>9, <1>10, <1>11, <1>12,
     <1>13, <1>14, <1>15, <1>16, <1>17, <1>18, <1>19, <1>20, <1>21, <1>22, <1>23 DEF Next, AllOver

(* A journal is begun, written and deleted as one of Journals.             *)
LEMMA JournalTypes ==
  ASSUME Inv, NEW p \in Procs, NEW E \in SUBSET Entries,
         EnsureJournal(p) \/ JournalWrite(p, E) \/ JournalFinish(p)
  PROVE  disk' \in Journals /\ own' \in [Procs -> Journals]
<1>1. disk \in Journals /\ own \in [Procs -> Journals] /\ refs \subseteq Entries
  BY DEF Inv, TypeOK
<1>2. NoJournal \in Journals /\ [owner |-> p, before |-> refs, entries |-> {}] \in Journals
  BY <1>1 DEF NoJournal, Journals
<1>3. [own[p] EXCEPT !.entries = E] \in Journals
  BY <1>1 DEF Journals
<1>4. QED
  BY <1>1, <1>2, <1>3 DEF EnsureJournal, JournalWrite, JournalFinish

(* An entry is made, and dropped, as one of Saves.                          *)
LEMMA EntryTypes ==
  ASSUME Inv, NEW c \in Entries, NEW S \in SUBSET Files, StoreEntry(c, S) \/ DropEntry(c)
  PROVE  refs' \subseteq Entries /\ saved' \in [Entries -> Saves]
<1>1. refs \subseteq Entries /\ saved \in [Entries -> Saves]
  BY DEF Inv, TypeOK
<1>2. CASE DropEntry(c)
  <2>1. NoSave \in Saves
    BY DEF NoSave, Saves
  <2>2. QED
    BY <1>1, <1>2, <2>1 DEF DropEntry, refVars
<1>3. CASE StoreEntry(c, S)
  <2> DEFINE base == [f \in Files |-> IF f \in S THEN index[f] ELSE {}]
             work == [f \in Files |-> IF f \in S THEN tree[f] ELSE {}]
  <2>1. base \in [Files -> SUBSET Edits] /\ work \in [Files -> SUBSET Edits]
    BY DEF Inv, TypeOK
  <2>2. saved' = [saved EXCEPT ![c] = [files |-> S, base |-> base, work |-> work]]
        /\ refs' = refs \cup {c}
    BY <1>3 DEF StoreEntry
  <2> HIDE DEF base, work
  <2>3. [files |-> S, base |-> base, work |-> work] \in Saves
    BY <2>1 DEF Saves
  <2>4. QED
    BY <1>1, <2>2, <2>3
<1>4. QED
  BY <1>2, <1>3

(* So does everything else.                                                *)
LEMMA DataStays == Inv /\ [Next]_vars => DataTypes'
<1> SUFFICES ASSUME Inv, [Next]_vars PROVE DataTypes'
  OBVIOUS
<1>0. DataTypes /\ my \in [Procs -> Memories]
  BY DEF Inv, TypeOK, DataTypes
<1>1. ASSUME NEW p \in Procs, Look(p) \/ Await(p) \/ Leave(p) \/ Pop(p) \/ Verify(p)
         \/ Exit(p) \/ Status(p) \/ Queue(p) \/ Unmark(p) \/ StepsEnd(p) \/ Crash(p)
      PROVE DataTypes'
  BY <1>0, <1>1 DEF Look, Await, Leave, Pop, Verify, Exit, Status, Queue, Unmark, StepsEnd,
    Crash, DataTypes, treeVars, refVars, runVars
<1>2. ASSUME NEW p \in Procs, Reread(p) PROVE DataTypes'
  <2>1. NoJournal \in Journals
    BY DEF NoJournal, Journals
  <2>2. disk.entries \subseteq Entries
    BY <1>0 DEF DataTypes, Journals
  <2>3. QED
    BY <1>0, <1>2, <2>1, <2>2 DEF Reread, DecideGone, DecideUnknown, Present, Unrecorded,
       DataTypes, treeVars, refVars, runVars
<1>3. ASSUME NEW p \in Procs, Popped(p) PROVE DataTypes'
  <2>1. NoJournal \in Journals /\ disk.entries \subseteq Entries
    BY <1>0 DEF DataTypes, NoJournal, Journals
  <2>2. /\ disk' = disk \/ disk' = NoJournal
        /\ own' = own \/ own' = [own EXCEPT ![p] = NoJournal]
        /\ told' = told \/ told' = [told EXCEPT ![p] = disk.entries]
    <3>1. my[p].task \in {"recover", "run", "abort"}
      BY <1>0 DEF Memories
    <3>2. CASE my[p].task = "recover"
      BY <1>3, <3>2 DEF Popped
    <3>3. CASE my[p].task = "run"
      BY <1>3, <3>3 DEF Popped, JournalFinish
    <3>4. CASE my[p].task = "abort"
      BY <1>3, <3>4 DEF Popped
    <3>5. QED
      BY <3>1, <3>2, <3>3, <3>4
  <2>3. QED
    BY <1>0, <1>3, <2>1, <2>2 DEF Popped, DataTypes, treeVars, refVars, runVars
<1>4. ASSUME NEW p \in Procs, Stash(p) \/ Push(p) PROVE DataTypes'
  BY <1>0, <1>4, JournalTypes DEF Stash, Push, DataTypes, treeVars, refVars, runVars
<1>5. ASSUME NEW p \in Procs, Stashed(p) PROVE DataTypes'
  BY <1>0, <1>5, JournalTypes DEF Stashed, DataTypes, treeVars, refVars, runVars
<1>6. ASSUME NEW p \in Procs, RecordIntents(p) PROVE DataTypes'
  <2>1. own[p].entries \cup {<<p, "intent">>} \in SUBSET Entries
    BY <1>0 DEF DataTypes, Journals, Entries, Kinds
  <2>2. QED
    BY <1>0, <1>6, <2>1, JournalTypes DEF RecordIntents, JournalRecord, DataTypes, treeVars,
       refVars, runVars
<1>7. ASSUME NEW p \in Procs, Record(p) PROVE DataTypes'
  <2>1. own[p].entries \cup {<<p, "unstaged">>} \in SUBSET Entries
    BY <1>0 DEF DataTypes, Journals, Entries, Kinds
  <2>2. QED
    BY <1>0, <1>7, <2>1, JournalTypes DEF Record, JournalRecord, DataTypes, treeVars, refVars,
       runVars
<1>8. ASSUME NEW p \in Procs, ForgetIntents(p) PROVE DataTypes'
  <2>1. own[p].entries \ {my[p].intents} \in SUBSET Entries
    BY <1>0 DEF DataTypes, Journals, Entries, Kinds
  <2>2. QED
    BY <1>0, <1>8, <2>1, JournalTypes DEF ForgetIntents, JournalForget, DataTypes, treeVars,
       refVars, runVars
<1>9. ASSUME NEW p \in Procs, RollForget(p) PROVE DataTypes'
  <2>1. own[p].entries \ {my[p].stash} \in SUBSET Entries
    BY <1>0 DEF DataTypes, Journals, Entries, Kinds
  <2>2. QED
    BY <1>0, <1>9, <2>1, JournalTypes DEF RollForget, JournalForget, DataTypes, treeVars,
       refVars, runVars
<1>10. ASSUME NEW p \in Procs, Drop(p) PROVE DataTypes'
  <2>1. my[p].stash \in Entries
    BY <1>10 DEF Inv, TypeOK, Drop, ProcInv, Restoring, Entries, Kinds
  <2>2. QED
    BY <1>0, <1>10, <2>1, EntryTypes DEF Drop, DataTypes, treeVars, refVars, runVars
<1>11. ASSUME NEW p \in Procs, DropIntents(p) PROVE DataTypes'
  <2>1. my[p].intents \in Entries
    BY <1>11 DEF Inv, TypeOK, DropIntents, ProcInv, BringingBack, Memories, Entries, Kinds
  <2>2. QED
    BY <1>0, <1>11, <2>1, EntryTypes DEF DropIntents, DataTypes, treeVars, refVars, runVars
<1>12. ASSUME NEW p \in Procs, RollDrop(p) PROVE DataTypes'
  <2>1. my[p].stash \in Entries
    <3>1. pc[p] = "roll_drop" /\ ProcInv(p)
      BY <1>12 DEF Inv, RollDrop
    <3>2. my[p].stash = <<p, "unstaged">>
      BY <3>1 DEF ProcInv, Stashing
    <3>3. QED
      BY <3>2 DEF Entries, Kinds
  <2>2. QED
    BY <1>0, <1>12, <2>1, EntryTypes DEF RollDrop, DataTypes, treeVars, refVars, runVars
<1>13. ASSUME NEW p \in Procs, StoreIntents(p) PROVE DataTypes'
  <2>1. <<p, "intent">> \in Entries /\ my[p].intent \in SUBSET Files
    BY <1>0, Remembers DEF Entries, Kinds
  <2>2. QED
    BY <1>0, <1>13, <2>1, EntryTypes DEF StoreIntents, DataTypes, treeVars, refVars, runVars
<1>14. ASSUME NEW p \in Procs, Store(p) PROVE DataTypes'
  <2>1. <<p, "unstaged">> \in Entries /\ ToStash(p) \in SUBSET Files
    BY <1>0, Remembers DEF Entries, Kinds, ToStash, Dirty
  <2>2. QED
    BY <1>0, <1>14, <2>1, EntryTypes DEF Store, DataTypes, treeVars, refVars, runVars
<1>15. ASSUME NEW p \in Procs, Restore(p) PROVE DataTypes'
  <2>1. my[p] \in Memories /\ tree \in [Files -> SUBSET Edits]
    BY DEF TypeOK, Inv
  <2>2. my[p].todo \subseteq Files /\ (my[p].stash \in Entries \/ my[p].stash = None)
    BY <2>1, Remembers DEF Memories, Entries, Kinds
  <2>3. saved[my[p].stash] \in Saves
    BY <1>15 DEF Inv, ProcInv, Restoring, Restore, TypeOK
  <2>4. \A f \in Files : tree[f] \subseteq Edits /\ saved[my[p].stash].work[f] \subseteq Edits
    BY <2>1, <2>3 DEF Saves
  <2>5. \/ tree' = tree
        \/ \E f \in my[p].todo : \E E \in {saved[my[p].stash].work[f], tree[f] \cup Change(my[p].stash, f),
                                           (tree[f] \ {"fix"}) \cup Change(my[p].stash, f)} :
               tree' = [tree EXCEPT ![f] = E]
    BY <1>15 DEF Restore, Write
  <2>6. tree' \in [Files -> SUBSET Edits]
    BY <2>1, <2>2, <2>4, <2>5 DEF Change
  <2>7. QED
    BY <1>0, <1>15, <2>6 DEF Restore, DataTypes, treeVars, refVars, runVars
<1>16. ASSUME NEW p \in Procs, Back(p) PROVE DataTypes'
  <2>1. my[p] \in Memories /\ tree \in [Files -> SUBSET Edits] /\ reborn \subseteq NewFiles
    BY DEF TypeOK, Inv
  <2>2. my[p].intents # None => /\ my[p].intents \in Entries /\ my[p].intents[2] = "intent"
                                /\ saved[my[p].intents] \in Saves
    BY <2>1 DEF Memories, Entries, Kinds, Inv, TypeOK
  <2>3. my[p].intents # None => saved[my[p].intents].files \subseteq NewFiles
    BY <2>2 DEF Inv, EntryInv
  <2>4. my[p].intents # None => \A f \in Files : saved[my[p].intents].work[f] \subseteq Edits
    BY <2>2 DEF Saves
  <2> DEFINE t == [f \in Files |-> IF f \in saved[my[p].intents].files /\ tree[f] = {}
                                     THEN saved[my[p].intents].work[f] ELSE tree[f]]
  <2>5. my[p].intents # None => t \in [Files -> SUBSET Edits]
    BY <2>1, <2>4
  <2>6. \/ tree' = tree /\ reborn' = reborn
        \/ my[p].intents # None /\ tree' = t /\ reborn' \subseteq reborn \cup saved[my[p].intents].files
    BY <1>16 DEF Back
  <2> HIDE DEF t
  <2>7. tree' \in [Files -> SUBSET Edits] /\ reborn' \subseteq NewFiles
    BY <2>1, <2>3, <2>5, <2>6
  <2>8. QED
    BY <1>0, <1>16, <2>7 DEF Back, DataTypes, treeVars, refVars, runVars
<1>17. ASSUME NEW p \in Procs, Mark(p) PROVE DataTypes'
  <2>1. my[p] \in Memories /\ marked \subseteq NewFiles
    BY DEF TypeOK, Inv
  <2>2. my[p].intents \in Entries /\ my[p].intents[2] = "intent"
    BY <1>17, <2>1 DEF Memories, Entries, Kinds, Inv, ProcInv, BringingBack, Mark
  <2>3. saved[my[p].intents].files \subseteq NewFiles
    BY <2>2 DEF Inv, EntryInv
  <2>4. marked' \subseteq NewFiles
    BY <1>17, <2>1, <2>3 DEF Mark
  <2>5. QED
    BY <1>0, <1>17, <2>4 DEF Mark, DataTypes, treeVars, refVars, runVars
<1>18. ASSUME NEW p \in Procs, Reset(p) PROVE DataTypes'
  <2>1. my[p] \in Memories /\ tree \in [Files -> SUBSET Edits]
    BY DEF TypeOK, Inv
  <2>2. my[p].todo \subseteq Files
    BY <2>1, Remembers
  <2>3. \A f \in Files : CheckedOut(f) \subseteq Edits
    BY DEF CheckedOut, Edits, Inv, TypeOK
  <2>4. tree' = tree \/ \E f \in my[p].todo : tree' = [tree EXCEPT ![f] = CheckedOut(f)]
    BY <1>18 DEF Reset, Write
  <2>5. tree' \in [Files -> SUBSET Edits]
    BY <2>1, <2>2, <2>3, <2>4
  <2>6. QED
    BY <1>0, <1>18, <2>5 DEF Reset, DataTypes, treeVars, refVars, runVars
<1>19. ASSUME NEW p \in Procs, Rollback(p) PROVE DataTypes'
  <2>1. tree \in [Files -> SUBSET Edits]
    BY DEF TypeOK, Inv
  <2>2. saved[my[p].stash] \in Saves
    BY <1>19 DEF Inv, ProcInv, Stashing, Rollback, TypeOK
  <2>3. \A f \in Files : tree[f] \subseteq Edits /\ saved[my[p].stash].work[f] \subseteq Edits
    BY <2>1, <2>2 DEF Saves
  <2> DEFINE t == [f \in Files |-> IF f \in saved[my[p].stash].files THEN saved[my[p].stash].work[f] ELSE tree[f]]
  <2>4. tree' = tree \/ tree' = t
    BY <1>19 DEF Rollback
  <2>5. t \in [Files -> SUBSET Edits]
    BY <2>3
  <2> HIDE DEF t
  <2>6. tree' \in [Files -> SUBSET Edits]
    BY <2>1, <2>4, <2>5
  <2>7. QED
    BY <1>0, <1>19, <2>6 DEF Rollback, DataTypes, treeVars, refVars, runVars
<1>20. ASSUME NEW p \in Procs, Remove(p) PROVE DataTypes'
  <2>1. my[p].todo \subseteq Files
    BY <1>0, Remembers
  <2>2. QED
    BY <1>0, <1>20, <2>1 DEF Remove, Write, DataTypes, treeVars, refVars, runVars
<1>21. ASSUME NEW p \in Procs, Fix(p) PROVE DataTypes'
  <2>1. PICK f \in Files : /\ tree' = [tree EXCEPT ![f] = tree[f] \cup {"fix"}]
                           /\ index' = index \/ index' = [index EXCEPT ![f] = tree'[f]]
    BY <1>21 DEF Fix, Write
  <2>2. tree' \in [Files -> SUBSET Edits]
    BY <1>0, <2>1 DEF DataTypes, Edits
  <2>3. QED
    BY <1>0, <1>21, <2>1, <2>2 DEF Fix, DataTypes, treeVars, refVars, runVars
<1>22. ASSUME Edit \/ StageByHand \/ UNCHANGED vars PROVE DataTypes'
  BY <1>0, <1>22 DEF Edit, StageByHand, vars, Dirty, Write, DataTypes, Edits, treeVars,
     refVars, runVars
<1>23. QED
  BY <1>1, <1>2, <1>3, <1>4, <1>5, <1>6, <1>7, <1>8, <1>9, <1>10, <1>11, <1>12,
     <1>13, <1>14, <1>15, <1>16, <1>17, <1>18, <1>19, <1>20, <1>21, <1>22 DEF Next, AllOver

(* Every variable stays in its range.                                      *)
LEMMA TypesStay == Inv /\ [Next]_vars => TypeOK' /\ LockIsHeld'
  BY LockStays, MemoriesStay, DataStays DEF TypeOK, LockInv, DataTypes

-----------------------------------------------------------------------------
(* What a step of p's means for another process q: none, if p has the lock  *)
(* or leaves the files and the entries.                                    *)
LEMMA Bystanders ==
  ASSUME Inv, NEW p \in Procs, NEW q \in Procs, q # p,
         pc'[q] = pc[q], my'[q] = my[q],
         \A k \in Kinds : <<q, k>> \notin refs => <<q, k>> \notin refs',
         \/ lock = p
         \/ UNCHANGED <<refs, saved, reborn>> /\ \A f \in Files : Users(tree'[f]) = Users(tree[f])
  PROVE  ProcInv(q)'
<1>1. ProcInv(q)
  BY DEF Inv
<1>2. /\ pc'[q] \in First => my'[q].task = "recover"
      /\ pc'[q] \in Running => my'[q].task = "run"
      /\ \A k \in Kinds : Before(q, k)' => <<q, k>> \notin refs'
  BY <1>1 DEF ProcInv, Before, Popping, First, Running
<1>3. CASE lock = p
  <2>1. pc'[q] \notin Holding
    BY <1>3 DEF Inv, LockIsHeld
  <2>2. QED
    BY <1>2, <2>1 DEF ProcInv, Stashing, Restoring, BringingBack, Holding
<1>4. CASE UNCHANGED <<refs, saved, reborn>> /\ \A f \in Files : Users(tree'[f]) = Users(tree[f])
  <2>1. \A c \in Entries : saved[c].files \subseteq Files
    BY DEF Inv, TypeOK, Saves
  <2>2. \A f \in Files : \A E : Has(E, tree'[f]) <=> Has(E, tree[f])
    BY <1>4 DEF Has
  <2>3. \A f \in Files : \A E : Has(tree'[f], E) <=> Has(tree[f], E)
    BY <1>4 DEF Has
  <2>4. \A c \in Entries : (InEntry(c)' <=> InEntry(c)) /\ (InTree(c)' <=> InTree(c))
    <3>1. ASSUME NEW c \in Entries  PROVE InEntry(c)' <=> InEntry(c)
      BY <1>4, <2>1, <2>2 DEF InEntry
    <3>2. ASSUME NEW c \in Entries  PROVE InTree(c)' <=> InTree(c)
      BY <1>4, <2>1, <2>3 DEF InTree
    <3>3. QED
      BY <3>1, <3>2
  <2>5. <<q, "intent">> \in Entries /\ <<q, "unstaged">> \in Entries /\ refs \subseteq Entries
    BY DEF Entries, Kinds, Inv, TypeOK
  <2>6. Stashing(q)'
    <3>1. Stashing(q)
      BY <1>1 DEF ProcInv
    <3>2. pc'[q] = "roll_drop" => InTree(my[q].stash)'
      BY <2>4, <2>5, <3>1 DEF Stashing
    <3>3. QED
      BY <1>4, <2>4, <2>5, <3>1, <3>2 DEF Stashing
  <2>7. Restoring(q)'
    <3>1. Restoring(q)
      BY <1>1 DEF ProcInv
    <3>2. pc'[q] = "drop" => InTree(my[q].stash)'
      BY <2>4, <2>5, <3>1 DEF Restoring
    <3>3. pc'[q] = "restore" =>
            /\ my[q].todo \subseteq Files /\ saved[my[q].stash].files \subseteq Files
            /\ my[q].stash \in refs
      BY <2>1, <2>5, <3>1 DEF Restoring
    <3>4. QED
      BY <1>4, <2>2, <2>3, <3>1, <3>2, <3>3 DEF Restoring
  <2>8. BringingBack(q)'
    <3>1. BringingBack(q)
      BY <1>1 DEF ProcInv
    <3>2. my[q].intents # None => my[q].intents \in Entries
      BY DEF Inv, TypeOK, Memories, Entries, Kinds
    <3>3. my[q].intents # None => saved[my[q].intents].files \subseteq Files
      BY <2>1, <3>2
    <3>5. QED
      BY <1>4, <2>2, <2>3, <3>1, <3>3 DEF BringingBack
  <2>9. QED
    BY <1>2, <2>6, <2>7, <2>8 DEF ProcInv
<1>5. QED
  BY <1>3, <1>4

(* Steps that add to the files, or change none, lose nothing.               *)
LEMMA Growing ==
  ASSUME Inv, TreeInv', UNCHANGED <<refs, saved>>, reborn \subseteq reborn',
         \A f \in Files : /\ Has(tree'[f], tree[f]) /\ Has(index'[f], index[f])
                          /\ made'[f] \subseteq made[f] \cup Users(tree'[f])
  PROVE  FilesInv'
<1>1. ASSUME NEW c \in Entries PROVE EntryInv(c)'
  BY <1>1 DEF Inv, EntryInv, Has
<1>2. ASSUME NEW f \in Files \ reborn', NEW e \in made'[f] PROVE Kept(f, e)'
  <2>1. CASE e \in made[f]
    <3>1. Kept(f, e) /\ e \in {"old", "new"}
      BY <2>1, <1>2 DEF Inv, TypeOK, NothingLost
    <3>2. QED
      BY <3>1, <1>2 DEF Kept, InPlace, Has, Users
  <2>2. CASE e \in Users(tree'[f])
    BY <2>2 DEF Kept, InPlace, Users
  <2>3. QED
    BY <1>2, <2>1, <2>2
<1>3. QED
  BY <1>1, <1>2 DEF NothingLost, FilesInv

(* A step that writes no file and no entry loses nothing.                  *)
LEMMA Unwritten ==
  ASSUME Inv, UNCHANGED <<tree, index, refs, saved, made>>, reborn \subseteq reborn'
  PROVE  FilesInv'
<1>1. TreeInv'
  BY DEF Inv, TreeInv
<1>2. QED
  BY <1>1, Growing DEF Has

(* Nor does removing or resetting a file of which an entry has the edits.   *)
LEMMA Removing ==
  ASSUME Inv, NEW f \in Files, NEW E, tree' = [tree EXCEPT ![f] = E], Has(E, index[f]),
         NEW c \in refs, Has(saved[c].work[f], tree[f]),
         UNCHANGED <<index, refs, saved, made, reborn>>
  PROVE  FilesInv'
<1>1. TreeInv'
  BY DEF Inv, TypeOK, TreeInv
<1>2. \A d \in Entries : EntryInv(d)'
  BY DEF Inv, EntryInv
<1>3. ASSUME NEW g \in Files \ reborn, NEW e \in made[g] PROVE Kept(g, e)'
  <2>1. Kept(g, e) /\ e \in {"old", "new"}
    BY <1>3 DEF Inv, TypeOK, NothingLost
  <2>2. CASE g = f /\ e \in tree[f]
    BY <2>1, <2>2 DEF Kept, Has, Users
  <2>3. CASE ~(g = f /\ e \in tree[f])
    BY <2>1, <2>3 DEF Kept, InPlace, Inv, TypeOK
  <2>4. QED
    BY <2>2, <2>3
<1>4. QED
  BY <1>1, <1>2, <1>3 DEF NothingLost, FilesInv

(* Nor dropping an entry of which the files have the edits.                 *)
LEMMA Dropping ==
  ASSUME Inv, NEW c \in Entries, DropEntry(c),
         UNCHANGED <<tree, index, made, reborn>>,
         \A f \in saved[c].files : Has(tree[f], saved[c].work[f]) \/ f \in reborn
  PROVE  FilesInv'
<1>1. TreeInv'
  BY DEF Inv, TreeInv
<1>2. \/ refs' = refs /\ saved' = saved
      \/ refs' = refs \ {c} /\ saved' = [saved EXCEPT ![c] = NoSave]
  BY DEF DropEntry, refVars
<1>3. ASSUME NEW d \in Entries PROVE EntryInv(d)'
  <2>1. EntryInv(d) /\ (saved'[d] = saved[d] \/ (d \notin refs' /\ saved'[d] = NoSave))
    BY <1>2 DEF Inv, TypeOK
  <2>2. CASE saved'[d] = saved[d]
    <3>1. d \notin refs' => saved[d] = NoSave
      BY <1>2, <2>1, <2>2 DEF EntryInv, Inv, TypeOK
    <3>2. QED
      BY <2>1, <2>2, <3>1 DEF EntryInv
  <2>3. CASE saved'[d] = NoSave
    BY <2>3 DEF EntryInv, NoSave, Has, Users
  <2>4. QED
    BY <2>1, <2>2, <2>3
<1>4. ASSUME NEW f \in Files \ reborn, NEW e \in made[f] PROVE Kept(f, e)'
  <2>1. Kept(f, e) /\ e \in {"old", "new"}
    BY <1>4 DEF Inv, TypeOK, NothingLost
  <2>2. CASE InPlace(f, e)
    BY <2>2 DEF Kept, InPlace
  <2>3. CASE ~InPlace(f, e)
    <3>1. PICK d \in refs : e \in saved[d].work[f]
      BY <2>1, <2>3 DEF Kept
    <3>2. d # c
      <4>1. SUFFICES ASSUME d = c PROVE FALSE
        OBVIOUS
      <4>2. f \in saved[c].files
        BY <3>1, <4>1 DEF Inv, EntryInv
      <4>3. QED
        BY <1>4, <2>1, <2>3, <3>1, <4>1, <4>2 DEF Has, Users, InPlace
    <3>3. d \in refs' /\ saved'[d] = saved[d]
      BY <1>2, <3>1, <3>2 DEF Inv, TypeOK
    <3>4. QED
      BY <3>1, <3>3 DEF Kept
  <2>4. QED
    BY <2>2, <2>3
<1>5. QED
  BY <1>1, <1>3, <1>4 DEF NothingLost, FilesInv

(* Nor making an entry.                                                    *)
LEMMA Storing ==
  ASSUME Inv, NEW c \in Entries, c \notin refs, NEW S \in SUBSET Files, StoreEntry(c, S),
         c[2] = "intent" => S \subseteq NewFiles,
         UNCHANGED <<tree, index, made, reborn>>
  PROVE  /\ FilesInv'
         /\ refs' = refs \cup {c} /\ saved'[c].files = S /\ InEntry(c)'
         /\ \A d \in Entries \ {c} : saved'[d] = saved[d]
<1>1. TreeInv'
  BY DEF Inv, TreeInv
<1>2. /\ refs' = refs \cup {c} /\ saved'[c].files = S
      /\ \A f \in Files : /\ saved'[c].base[f] = IF f \in S THEN index[f] ELSE {}
                          /\ saved'[c].work[f] = IF f \in S THEN tree[f] ELSE {}
      /\ \A d \in Entries \ {c} : saved'[d] = saved[d]
  BY DEF StoreEntry, Inv, TypeOK
<1>3. EntryInv(c)'
  BY <1>2 DEF Inv, TreeInv, EntryInv, Has, Users
<1>4. ASSUME NEW d \in Entries \ {c} PROVE EntryInv(d)'
  BY <1>2, <1>4 DEF Inv, EntryInv
<1>5. ASSUME NEW f \in Files \ reborn, NEW e \in made[f] PROVE Kept(f, e)'
  <2>1. Kept(f, e)
    BY <1>5 DEF Inv, NothingLost
  <2>2. \A d \in refs : d \in refs' /\ saved'[d] = saved[d]
    BY <1>2 DEF Inv, TypeOK
  <2>3. QED
    BY <2>1, <2>2 DEF Kept, InPlace
<1>6. InEntry(c)'
  BY <1>2 DEF InEntry, Has
<1>7. QED
  BY <1>1, <1>2, <1>3, <1>4, <1>5, <1>6 DEF NothingLost, FilesInv

-----------------------------------------------------------------------------
(* Steps that write neither files nor entries.                              *)
LEMMA QuietSteps ==
  ASSUME Inv, NEW p \in Procs
  PROVE  (Look(p) \/ Leave(p) \/ Exit(p) \/ Status(p) \/ Stash(p) \/ ForgetIntents(p)
          \/ RecordIntents(p) \/ Push(p) \/ Record(p) \/ RollForget(p) \/ Stashed(p)
          \/ StepsEnd(p) \/ Crash(p) \/ Await(p) \/ Reread(p) \/ Queue(p))
           => ProcInv(p)'
<1>0. ProcInv(p)
  BY DEF Inv
<1>1. CASE Look(p)
  BY <1>0, <1>1 DEF Look, Inv, TypeOK, Goto, Know, treeVars, refVars, runVars, ProcInv, First,
    Running, Before, Popping, Stashing, Restoring, BringingBack, InEntry, InTree
<1>2. CASE Leave(p)
  BY <1>0, <1>2 DEF Leave, Inv, TypeOK, Goto, Know, treeVars, refVars, runVars, ProcInv, First,
    Running, Before, Popping, Stashing, Restoring, BringingBack, InEntry, InTree, Fresh
<1>3. CASE Exit(p)
  BY <1>0, <1>3 DEF Exit, Inv, TypeOK, Goto, Know, treeVars, refVars, runVars, ProcInv, First,
    Running, Before, Popping, Stashing, Restoring, BringingBack, InEntry, InTree, Fresh
<1>4. CASE Status(p)
  BY <1>0, <1>4 DEF Status, Inv, TypeOK, Goto, Know, treeVars, refVars, runVars, ProcInv, First,
    Running, Before, Popping, Stashing, Restoring, BringingBack, InEntry, InTree, Fresh
<1>5. CASE Stash(p)
  BY <1>0, <1>5 DEF Stash, Inv, TypeOK, Goto, Know, treeVars, refVars, runVars, ProcInv, First,
    Running, Before, Popping, Stashing, Restoring, BringingBack, InEntry, InTree
<1>6. CASE ForgetIntents(p)
  BY <1>0, <1>6 DEF ForgetIntents, Inv, TypeOK, Goto, Know, treeVars, refVars, runVars, ProcInv,
    First, Running, Before, Popping, Stashing, Restoring, BringingBack, InEntry, InTree
<1>7. CASE RecordIntents(p)
  BY <1>0, <1>7 DEF RecordIntents, Inv, TypeOK, Goto, Know, treeVars, refVars, runVars, ProcInv,
    First, Running, Before, Popping, Stashing, Restoring, BringingBack, InEntry, InTree
<1>8. CASE Push(p)
  BY <1>0, <1>8 DEF Push, Inv, TypeOK, Goto, Know, treeVars, refVars, runVars, ProcInv, First,
    Running, Before, Popping, Stashing, Restoring, BringingBack, InEntry, InTree
<1>9. CASE Record(p)
  BY <1>0, <1>9 DEF Record, Inv, TypeOK, Goto, Know, treeVars, refVars, runVars, ProcInv, First,
    Running, Before, Popping, Stashing, Restoring, BringingBack, InEntry, InTree
<1>10. CASE RollForget(p)
  BY <1>0, <1>10 DEF RollForget, Inv, TypeOK, Goto, Know, treeVars, refVars, runVars, ProcInv,
    First, Running, Before, Popping, Stashing, Restoring, BringingBack, InEntry, InTree, GiveUp,
    Bad, Memories
<1>11. CASE Stashed(p)
  BY <1>0, <1>11 DEF Stashed, Inv, TypeOK, Goto, Know, treeVars, refVars, runVars, ProcInv,
    First, Running, Before, Popping, Stashing, Restoring, BringingBack, InEntry, InTree
<1>12. CASE StepsEnd(p)
  BY <1>0, <1>12 DEF StepsEnd, Inv, TypeOK, Goto, Know, treeVars, refVars, runVars, ProcInv,
    First, Running, Before, Popping, Stashing, Restoring, BringingBack, InEntry, InTree
<1>13. CASE Crash(p)
  BY <1>0, <1>13 DEF Crash, Inv, TypeOK, Goto, Know, treeVars, refVars, runVars, ProcInv, First,
    Running, Before, Popping, Stashing, Restoring, BringingBack, InEntry, InTree, Fresh, Alive
<1>14. CASE Await(p)
  <2>1. /\ pc'[p] \in First => my'[p].task = "recover"
        /\ pc'[p] \in Running => my'[p].task = "run"
        /\ \A k \in Kinds : Before(p, k)' => <<p, k>> \notin refs'
    BY <1>0, <1>14 DEF Await, Inv, TypeOK, Goto, Know, treeVars, refVars, runVars, ProcInv,
      First, Running, Before, Popping
  <2>2. Stashing(p)' /\ Restoring(p)' /\ BringingBack(p)'
    BY <1>0, <1>14 DEF Await, Inv, TypeOK, Goto, Know, treeVars, refVars, runVars, ProcInv,
      Stashing, Restoring, BringingBack, InEntry, InTree
  <2>3. QED
    BY <2>1, <2>2 DEF ProcInv
<1>15. CASE Reread(p)
  <2>1. /\ pc'[p] \in First => my'[p].task = "recover"
        /\ pc'[p] \in Running => my'[p].task = "run"
        /\ \A k \in Kinds : Before(p, k)' => <<p, k>> \notin refs'
    BY <1>0, <1>15 DEF Reread, Inv, TypeOK, Goto, Know, treeVars, refVars, runVars, DecideGone,
      DecideUnknown, ProcInv, First, Running, Before, Popping
  <2>2. Stashing(p)' /\ Restoring(p)' /\ BringingBack(p)'
    BY <1>0, <1>15 DEF Reread, Inv, TypeOK, Goto, Know, treeVars, refVars, runVars, DecideGone,
      DecideUnknown, ProcInv, Stashing, Restoring, BringingBack, InEntry, InTree
  <2>3. QED
    BY <2>1, <2>2 DEF ProcInv
<1>16. CASE Queue(p)
  <2>1. /\ pc'[p] \in First => my'[p].task = "recover"
        /\ pc'[p] \in Running => my'[p].task = "run"
        /\ \A k \in Kinds : Before(p, k)' => <<p, k>> \notin refs'
    BY <1>0, <1>16 DEF Queue, Inv, TypeOK, Goto, Know, treeVars, refVars, runVars, ProcInv,
      First, Running, Before, Popping
  <2>2. Stashing(p)' /\ Restoring(p)' /\ BringingBack(p)'
    BY <1>0, <1>16 DEF Queue, Inv, TypeOK, Goto, Know, treeVars, refVars, runVars, ProcInv,
      Stashing, Restoring, BringingBack, InEntry, InTree
  <2>3. QED
    BY <2>1, <2>2 DEF ProcInv
<1>17. QED
  BY <1>1, <1>2, <1>3, <1>4, <1>5, <1>6, <1>7, <1>8, <1>9, <1>10, <1>11, <1>12,
     <1>13, <1>14, <1>15, <1>16

(* The files to remove are those of the entry.                              *)
LEMMA UnmarkStays == ASSUME Inv, NEW p \in Procs, Unmark(p) PROVE ProcInv(p)'
<1>1. ProcInv(p) /\ my[p] \in Memories /\ my \in [Procs -> Memories] /\ pc \in [Procs -> PCs]
  BY DEF Inv, TypeOK
<1>2. pc[p] = "unmark" /\ UNCHANGED <<tree, refs, saved>>
  BY DEF Unmark, refVars
<1>3. CASE GiveUp(p, [my[p] EXCEPT !.set_aside = FALSE])
  <2>1. [my[p] EXCEPT !.set_aside = FALSE] \in Memories
    BY <1>1 DEF Memories
  <2>2. pc'[p] = "back" /\ my'[p].task = "abort"
    BY <1>1, <1>3, <2>1, GivesUp
  <2>3. QED
    BY <2>2 DEF ProcInv, Stashing, Restoring, BringingBack, First, Running, Before, Popping
<1>4. CASE Goto(p, "remove") /\ Know(p, [my[p] EXCEPT !.todo = my[p].intent])
  <2>1. /\ pc'[p] = "remove" /\ my'[p].todo = my[p].intent
        /\ my'[p].task = my[p].task /\ my'[p].intents = my[p].intents /\ my'[p].intent = my[p].intent
    BY <1>1, <1>4 DEF Goto, Know, Memories
  <2>2. Stashing(p)'
    BY <1>1, <1>2, <2>1 DEF ProcInv, Stashing, InEntry
  <2>3. QED
    BY <1>1, <1>2, <2>1, <2>2 DEF ProcInv, Restoring, BringingBack, First, Running, Before,
       Popping
<1>5. QED
  BY <1>3, <1>4 DEF Unmark

(* The plan: what neither a step nor the user changed is there already.     *)
LEMMA PopStays ==
  ASSUME Inv, NEW p \in Procs, Pop(p)
  PROVE  ProcInv(p)' /\ Same(p)
<1>1. ProcInv(p) /\ my[p] \in Memories /\ my \in [Procs -> Memories] /\ pc \in [Procs -> PCs]
  BY DEF Inv, TypeOK
<1>2. pc[p] = "pop" /\ UNCHANGED <<tree, refs, saved>>
  BY DEF Pop, treeVars, refVars
<1>3. pc'[p] \in {"back", "restore"} /\ Same(p)
  <2>1. pc'[p] \in {"back", "restore"}
    BY <1>1 DEF Pop, Goto
  <2>2. Same(p)
    <3> DEFINE c == my[p].stash
               differs == {f \in saved[c].files : tree[f] # saved[c].work[f]}
               touched == {f \in differs : tree[f] # saved[c].base[f]}
               r == [my[p] EXCEPT !.todo = differs \ (touched \cap NewFiles),
                                  !.wrote = differs \ touched, !.touched = touched \ NewFiles,
                                  !.bad = @ \/ touched \cap NewFiles # {}]
    <3>1. my' = my \/ my' = [my EXCEPT ![p] = Bad(my[p])] \/ my' = [my EXCEPT ![p] = r]
      BY DEF Pop, Know
    <3>2. \A x \in {r, Bad(my[p]), my[p]} :
            /\ x.task = my[p].task /\ x.stash = my[p].stash /\ x.intents = my[p].intents
            /\ my[p].bad => x.bad
      BY <1>1 DEF Memories, Bad
    <3> HIDE DEF r
    <3>3. QED
      BY <1>1, <3>1, <3>2 DEF Same
  <2>3. QED
    BY <2>1, <2>2
<1>4. \A k \in Kinds : Before(p, k)' => <<p, k>> \notin refs'
  BY <1>1, <1>2, <1>3 DEF Same, ProcInv, Before, Popping, First
<1>5. Restoring(p)'
  <2>1. CASE pc'[p] = "back"
    BY <2>1 DEF Restoring
  <2>2. CASE pc'[p] = "restore"
    <3> DEFINE c == my[p].stash
               differs == {f \in saved[c].files : tree[f] # saved[c].work[f]}
               touched == {f \in differs : tree[f] # saved[c].base[f]}
    <3>1. c \in refs /\ my' = [my EXCEPT ![p] = [my[p] EXCEPT
                !.todo = differs \ (touched \cap NewFiles), !.wrote = differs \ touched,
                !.touched = touched \ NewFiles, !.bad = @ \/ touched \cap NewFiles # {}]]
      BY <1>1, <2>2 DEF Pop, Know, Goto
    <3>2. /\ my'[p].stash = c /\ my'[p].todo = differs \ (touched \cap NewFiles)
          /\ my'[p].wrote = differs \ touched /\ my'[p].touched = touched \ NewFiles
          /\ ~my'[p].bad => touched \cap NewFiles = {}
      BY <1>1, <3>1 DEF Memories
    <3>3. c \in Entries /\ saved[c].files \subseteq Files
      BY <3>1 DEF Inv, TypeOK, Saves
    <3>4. \A f \in differs \ touched : Has(saved[c].work[f], tree[f])
      BY <3>3 DEF Inv, EntryInv
    <3>5. \A f \in saved[c].files \ differs : Has(tree[f], saved[c].work[f])
      BY DEF Has
    <3> HIDE DEF c
    <3>6. QED
      BY <1>2, <2>2, <3>1, <3>2, <3>4, <3>5 DEF Restoring
  <2>3. QED
    BY <1>3, <2>1, <2>2
<1>6. QED
  BY <1>3, <1>4, <1>5 DEF Same, ProcInv, Stashing, BringingBack, First, Running

(* The entry goes only when everything is in its place.                     *)
LEMMA VerifyStays == ASSUME Inv, NEW p \in Procs, Verify(p) PROVE ProcInv(p)'
<1>1. ProcInv(p) /\ my[p] \in Memories /\ my \in [Procs -> Memories] /\ pc \in [Procs -> PCs]
  BY DEF Inv, TypeOK
<1>2. pc[p] = "restore" /\ UNCHANGED <<tree, refs, saved>> /\ my[p].todo = {}
  BY DEF Verify, treeVars, refVars
<1>3. pc'[p] \in {"back", "drop"} /\ my'[p].task = my[p].task /\ my'[p].stash = my[p].stash
  BY <1>1 DEF Verify, Goto, Know, Memories
<1>4. \A k \in Kinds : Before(p, k)' => <<p, k>> \notin refs'
  BY <1>1, <1>2, <1>3 DEF ProcInv, Before, Popping, First
<1>5. pc'[p] = "drop" => InTree(my[p].stash)
  <2>1. pc'[p] = "drop" => ~my[p].bad /\ \A f \in my[p].wrote : tree[f] = saved[my[p].stash].work[f]
    BY <1>1 DEF Verify, Goto
  <2>2. QED
    BY <1>1, <1>2, <2>1 DEF ProcInv, Restoring, InTree, Has
<1>6. Restoring(p)'
  BY <1>1, <1>2, <1>3, <1>5 DEF ProcInv, Restoring, InTree
<1>7. QED
  BY <1>3, <1>4, <1>6 DEF ProcInv, Stashing, BringingBack, First, Running

(* An entry that is kept is not dropped.                                    *)
LEMMA MarkStays == ASSUME Inv, NEW p \in Procs, Mark(p) PROVE ProcInv(p)'
<1>1. ProcInv(p) /\ my[p] \in Memories /\ my \in [Procs -> Memories] /\ pc \in [Procs -> PCs]
  BY DEF Inv, TypeOK
<1>2. pc[p] = "mark" /\ UNCHANGED <<tree, refs, saved, reborn>>
  BY DEF Mark, refVars, runVars
<1> DEFINE keep == my[p].set_aside /\ my[p].touched # {}
<1>3. /\ pc'[p] \in {"popped", "drop_intents"}
      /\ pc'[p] = "drop_intents" => ~keep
      /\ \E b, T : my' = [my EXCEPT ![p] = [my[p] EXCEPT !.bad = b, !.touched = T]]
  <2>1. CASE Know(p, Bad(my[p])) /\ Goto(p, "popped")
    <3>1. Bad(my[p]) = [my[p] EXCEPT !.bad = TRUE, !.touched = my[p].touched]
      BY <1>1 DEF Bad, Memories
    <3>2. QED
      BY <1>1, <2>1, <3>1 DEF Know, Goto
  <2>2. CASE /\ Know(p, [my[p] EXCEPT !.bad = @ \/ keep, !.touched = {}])
             /\ Goto(p, IF keep THEN "popped" ELSE "drop_intents")
    BY <1>1, <2>2 DEF Know, Goto
  <2>3. QED
    BY <2>1, <2>2 DEF Mark
<1>4. my'[p].task = my[p].task /\ my'[p].intents = my[p].intents
  BY <1>1, <1>3 DEF Memories
<1>5. \A k \in Kinds : Before(p, k)' => <<p, k>> \notin refs'
  BY <1>1, <1>2, <1>3, <1>4 DEF ProcInv, Before, Popping, First
<1>6. BringingBack(p)'
  BY <1>1, <1>2, <1>3, <1>4 DEF ProcInv, BringingBack
<1>7. QED
  BY <1>3, <1>4, <1>5, <1>6 DEF ProcInv, Stashing, Restoring, First, Running

(* A process that recovered has no entries yet.                             *)
LEMMA PoppedStays == ASSUME Inv, NEW p \in Procs, Popped(p) PROVE ProcInv(p)'
<1>1. ProcInv(p)
  BY DEF Inv
<1>2. UNCHANGED <<refs, my>> /\ pc[p] = "popped"
  BY DEF Popped, refVars
<1>3. my[p].task \in {"recover", "run", "abort"}
  BY DEF Inv, TypeOK, Memories
<1>4. \/ pc'[p] = "leave" /\ my[p].task = "recover"
      \/ pc'[p] = "exiting"
  <2>1. CASE my[p].task = "recover"
    BY <2>1 DEF Popped, Goto, Inv, TypeOK
  <2>2. CASE my[p].task = "run"
    BY <2>2 DEF Popped, Goto, Inv, TypeOK
  <2>3. CASE my[p].task = "abort"
    BY <2>3 DEF Popped, Goto, Inv, TypeOK
  <2>4. QED
    BY <1>3, <2>1, <2>2, <2>3
<1>5. \A k \in Kinds : Before(p, k)' => <<p, k>> \notin refs'
  BY <1>1, <1>2, <1>4 DEF ProcInv, Before, Popping, First
<1>6. QED
  BY <1>4, <1>5 DEF ProcInv, Stashing, Restoring, BringingBack, First, Running

-----------------------------------------------------------------------------
(* Steps that write files or entries.                                      *)
(* The entry has the files with intent to add.                              *)
LEMMA StoreIntentsStays ==
  ASSUME Inv, NEW p \in Procs, StoreIntents(p)
 
  PROVE  FilesInv' /\ ProcInv(p)'
         /\ \A q \in Procs \ {p}, k \in Kinds : <<q, k>> \notin refs => <<q, k>> \notin refs'
<1> DEFINE c == <<p, "intent">>
<1>1. /\ ProcInv(p) /\ my[p] \in Memories /\ my \in [Procs -> Memories] /\ pc \in [Procs -> PCs]
      /\ pc[p] = "store_intents" /\ c \in Entries /\ c \notin refs /\ <<p, "unstaged">> \notin refs
      /\ UNCHANGED <<tree, index, made, reborn>>
  BY DEF Inv, TypeOK, StoreIntents, treeVars, runVars, ProcInv, Before, Entries, Kinds
<1>2. CASE GiveUp(p, my[p]) /\ UNCHANGED refVars
  <2>1. FilesInv'
    BY <1>1, <1>2, Unwritten DEF refVars
  <2>2. pc'[p] = "back" /\ my'[p].task = "abort"
    BY <1>1, <1>2, GivesUp
  <2>3. QED
    BY <1>2, <2>1, <2>2 DEF refVars, ProcInv, Stashing, Restoring, BringingBack, First,
       Running, Before, Popping
<1>3. CASE StoreEntry(c, my[p].intent) /\ Goto(p, "record_intents") /\ UNCHANGED my
  <2>1. my[p].intent \in SUBSET Files /\ my[p].intent \subseteq NewFiles
    BY <1>1, StashOK DEF Memories
  <2>2. /\ FilesInv'
        /\ refs' = refs \cup {c} /\ saved'[c].files = my[p].intent /\ InEntry(c)'
    BY <1>1, <1>3, <2>1, Storing
  <2>3. pc'[p] = "record_intents"
    BY <1>1, <1>3 DEF Goto
  <2>4. QED
    BY <1>1, <1>3, <2>2, <2>3 DEF ProcInv, Stashing, Restoring, BringingBack, First, Running,
       Before, Popping, Kinds
<1>4. QED
  BY <1>2, <1>3 DEF StoreIntents

(* A file is removed that its entry has.                                    *)
LEMMA RemoveStays ==
  ASSUME Inv, NEW p \in Procs, Remove(p)
  PROVE  FilesInv' /\ ProcInv(p)'
<1> DEFINE c == <<p, "intent">>
<1>1. /\ ProcInv(p) /\ my[p] \in Memories /\ my \in [Procs -> Memories] /\ pc \in [Procs -> PCs]
      /\ pc[p] = "remove" /\ UNCHANGED <<index, made, reborn, refs, saved>>
      /\ c \in refs /\ saved[c].files = my[p].intent /\ InEntry(c) /\ my[p].intents = c
      /\ my[p].todo \subseteq my[p].intent /\ <<p, "unstaged">> \notin refs
  BY DEF Inv, TypeOK, Remove, ProcInv, Stashing, Before, Kinds, refVars, runVars
<1>2. CASE UNCHANGED tree
  <2>1. FilesInv'
    BY <1>1, <1>2, Unwritten
  <2>2. \/ pc'[p] = "back" /\ my'[p].task = "abort"
        \/ pc'[p] \in {"stashed", "push"} /\ my' = my
        \/ pc'[p] = "remove" /\ \E f \in my[p].todo : my' = [my EXCEPT ![p] = [my[p] EXCEPT !.todo = my[p].todo \ {f}]]
    <3>1. [my[p] EXCEPT !.set_aside = FALSE] \in Memories
      BY <1>1 DEF Memories
    <3>2. QED
      BY <1>1, <3>1, GivesUp DEF Remove, Goto, Know
  <2>3. CASE pc'[p] = "remove"
    <3>1. PICK f \in my[p].todo : my' = [my EXCEPT ![p] = [my[p] EXCEPT !.todo = my[p].todo \ {f}]]
      BY <2>2, <2>3
    <3>2. my'[p].todo \subseteq my[p].todo /\ my'[p].intent = my[p].intent /\ my'[p].intents = c /\ my'[p].task = my[p].task
      BY <1>1, <3>1 DEF Memories
    <3>3. QED
      BY <1>1, <1>2, <2>1, <2>3, <3>2 DEF ProcInv, Stashing, Restoring, BringingBack, Before,
         Popping, First, Running, InEntry
  <2>4. CASE pc'[p] # "remove"
    BY <1>1, <1>2, <2>1, <2>2, <2>4 DEF ProcInv, Stashing, Restoring, BringingBack, Before,
       Popping, First, Running
  <2>5. QED
    BY <2>3, <2>4
<1>3. CASE \E f \in my[p].todo : /\ tree' = [tree EXCEPT ![f] = {}] /\ pc' = pc
                                 /\ my' = [my EXCEPT ![p] = [my[p] EXCEPT !.todo = my[p].todo \ {f}]]
  <2>1. PICK f \in my[p].todo : /\ tree' = [tree EXCEPT ![f] = {}] /\ pc' = pc
                                 /\ my' = [my EXCEPT ![p] = [my[p] EXCEPT !.todo = my[p].todo \ {f}]]
    BY <1>3
  <2>2. f \in Files /\ f \in NewFiles /\ f \in saved[c].files
    BY <1>1, <2>1, StashOK DEF Memories
  <2>3. Has({}, index[f]) /\ Has(saved[c].work[f], tree[f])
    BY <1>1, <2>2 DEF Inv, TreeInv, Has, Users, InEntry
  <2>4. FilesInv'
    BY <1>1, <2>1, <2>2, <2>3, Removing
  <2>5. InEntry(c)'
    BY <1>1, <2>1, <2>2 DEF InEntry, Has, Users, Inv, TypeOK
  <2>6. my'[p].todo \subseteq my[p].todo /\ my'[p].intent = my[p].intent /\ my'[p].intents = c /\ my'[p].task = my[p].task
    BY <1>1, <2>1 DEF Memories
  <2>7. QED
    BY <1>1, <2>1, <2>4, <2>5, <2>6 DEF ProcInv, Stashing, Restoring, BringingBack, Before,
       Popping, First, Running
<1>4. QED
  BY <1>2, <1>3 DEF Remove, Write, Know

(* The entry has what is not staged.                                       *)
LEMMA StoreStays ==
  ASSUME Inv, NEW p \in Procs, Store(p)
 
  PROVE  FilesInv' /\ ProcInv(p)'
         /\ \A q \in Procs \ {p}, k \in Kinds : <<q, k>> \notin refs => <<q, k>> \notin refs'
<1> DEFINE c == <<p, "unstaged">>
<1>1. /\ ProcInv(p) /\ my[p] \in Memories /\ my \in [Procs -> Memories] /\ pc \in [Procs -> PCs]
      /\ pc[p] = "store" /\ c \in Entries /\ c \notin refs
      /\ UNCHANGED <<tree, index, made, reborn>>
  BY DEF Inv, TypeOK, Store, treeVars, runVars, ProcInv, Before, Entries, Kinds
<1>2. CASE GiveUp(p, my[p]) /\ UNCHANGED refVars
  <2>1. FilesInv'
    BY <1>1, <1>2, Unwritten DEF refVars
  <2>2. pc'[p] = "back" /\ my'[p].task = "abort"
    BY <1>1, <1>2, GivesUp
  <2>3. QED
    BY <1>2, <2>1, <2>2 DEF refVars, ProcInv, Stashing, Restoring, BringingBack, First,
       Running, Before, Popping
<1>3. CASE Goto(p, "stashed") /\ UNCHANGED <<refVars, my>>
  <2>1. FilesInv'
    BY <1>1, <1>3, Unwritten DEF refVars
  <2>2. pc'[p] = "stashed"
    BY <1>1, <1>3 DEF Goto
  <2>3. QED
    BY <1>1, <1>3, <2>1, <2>2 DEF refVars, ProcInv, Stashing, Restoring, BringingBack, First,
       Running, Before, Popping
<1>4. CASE StoreEntry(c, ToStash(p)) /\ Goto(p, "record") /\ UNCHANGED my
  <2>1. ToStash(p) \in SUBSET Files
    BY DEF ToStash, Dirty
  <2>2. /\ FilesInv'
        /\ refs' = refs \cup {c} /\ InEntry(c)'
    BY <1>1, <1>4, <2>1, Storing
  <2>3. pc'[p] = "record"
    BY <1>1, <1>4 DEF Goto
  <2>4. QED
    BY <1>1, <1>4, <2>2, <2>3 DEF ProcInv, Stashing, Restoring, BringingBack, First, Running,
       Before, Popping, Kinds
<1>5. QED
  BY <1>2, <1>3, <1>4 DEF Store

(* A file is reset whose edits its entry has.                               *)
LEMMA ResetStays ==
  ASSUME Inv, NEW p \in Procs, Reset(p)
  PROVE  FilesInv' /\ ProcInv(p)'
<1> DEFINE c == <<p, "unstaged">>
<1>1. /\ ProcInv(p) /\ my[p] \in Memories /\ my \in [Procs -> Memories] /\ pc \in [Procs -> PCs]
      /\ pc[p] = "reset" /\ UNCHANGED <<index, made, reborn, refs, saved>>
      /\ c \in refs /\ InEntry(c) /\ my[p].stash = c /\ my[p].todo \subseteq saved[c].files
  BY DEF Inv, TypeOK, Reset, ProcInv, Stashing, refVars, runVars
<1>2. CASE UNCHANGED tree /\ \E d : (my' = my /\ Goto(p, d) /\ d \in {"rollback", "stashed"})
  <2>1. FilesInv'
    BY <1>1, <1>2, Unwritten
  <2>2. pc'[p] \in {"rollback", "stashed"}
    BY <1>1, <1>2 DEF Goto
  <2>3. QED
    BY <1>1, <1>2, <2>1, <2>2 DEF ProcInv, Stashing, Restoring, BringingBack, Before, Popping,
       First, Running, InEntry
<1>3. CASE UNCHANGED tree /\ GiveUp(p, [my[p] EXCEPT !.stash = None])
  <2>1. FilesInv'
    BY <1>1, <1>3, Unwritten
  <2>2. [my[p] EXCEPT !.stash = None] \in Memories
    BY <1>1 DEF Memories
  <2>3. pc'[p] = "back" /\ my'[p].task = "abort"
    BY <1>1, <1>3, <2>2, GivesUp
  <2>4. QED
    BY <1>1, <2>1, <2>3 DEF ProcInv, Stashing, Restoring, BringingBack, Before, Popping, First,
       Running
<1>4. CASE \E f \in my[p].todo : /\ tree' = [tree EXCEPT ![f] = CheckedOut(f)] /\ pc' = pc
                                 /\ my' = [my EXCEPT ![p] = [my[p] EXCEPT !.todo = my[p].todo \ {f}]]
  <2>1. PICK f \in my[p].todo : /\ tree' = [tree EXCEPT ![f] = CheckedOut(f)] /\ pc' = pc
                                 /\ my' = [my EXCEPT ![p] = [my[p] EXCEPT !.todo = my[p].todo \ {f}]]
    BY <1>4
  <2>2. f \in Files /\ f \in saved[c].files /\ marked \subseteq NewFiles
    BY <1>1, <2>1 DEF Inv, TypeOK, Saves
  <2>3. Has(CheckedOut(f), index[f]) /\ Has(saved[c].work[f], tree[f])
    BY <1>1, <2>2 DEF Inv, TreeInv, Has, Users, InEntry, CheckedOut
  <2>4. FilesInv'
    BY <1>1, <2>1, <2>2, <2>3, Removing
  <2>5. Has(saved[c].work[f], CheckedOut(f))
    <3>1. CASE f \in marked
      BY <3>1 DEF CheckedOut, Has, Users
    <3>2. CASE f \notin marked
      <4>1. Has(tree[f], index[f])
        BY <2>2 DEF Inv, TreeInv
      <4>2. QED
        BY <2>3, <3>2, <4>1 DEF CheckedOut, Has
    <3>3. QED
      BY <3>1, <3>2
  <2>6. InEntry(c)'
    BY <1>1, <2>1, <2>2, <2>5 DEF InEntry, Inv, TypeOK, Saves
  <2>7. my'[p].todo \subseteq my[p].todo /\ my'[p].stash = c /\ my'[p].task = my[p].task
    BY <1>1, <2>1 DEF Memories
  <2>8. QED
    BY <1>1, <2>1, <2>4, <2>6, <2>7 DEF ProcInv, Stashing, Restoring, BringingBack, Before,
       Popping, First, Running
<1>5. QED
  BY <1>2, <1>3, <1>4 DEF Reset, Write, Know

(* The files have what they had.                                           *)
LEMMA RollbackStays ==
  ASSUME Inv, NEW p \in Procs, Rollback(p)
  PROVE  FilesInv' /\ ProcInv(p)' /\ \A f \in Files : Has(tree'[f], tree[f])
<1> DEFINE c == <<p, "unstaged">>
<1>1. /\ ProcInv(p) /\ my[p] \in Memories /\ my \in [Procs -> Memories] /\ pc \in [Procs -> PCs]
      /\ pc[p] = "rollback" /\ UNCHANGED <<index, made, reborn, refs, saved>>
      /\ c \in refs /\ InEntry(c) /\ my[p].stash = c
  BY DEF Inv, TypeOK, Rollback, ProcInv, Stashing, refVars, runVars
<1>2. CASE UNCHANGED tree /\ GiveUp(p, [my[p] EXCEPT !.stash = None])
  <2>1. FilesInv'
    BY <1>1, <1>2, Unwritten
  <2>2. [my[p] EXCEPT !.stash = None] \in Memories
    BY <1>1 DEF Memories
  <2>3. pc'[p] = "back" /\ my'[p].task = "abort"
    BY <1>1, <1>2, <2>2, GivesUp
  <2>4. QED
    BY <1>1, <1>2, <2>1, <2>3 DEF ProcInv, Stashing, Restoring, BringingBack, Before, Popping,
       First, Running, Has
<1>3. CASE /\ tree' = [f \in Files |-> IF f \in saved[c].files THEN saved[c].work[f] ELSE tree[f]]
           /\ Goto(p, "roll_drop") /\ UNCHANGED my
  <2>1. pc'[p] = "roll_drop" /\ \A f \in Files : tree'[f] = IF f \in saved[c].files THEN saved[c].work[f] ELSE tree[f]
    BY <1>1, <1>3 DEF Goto
  <2>2. \A f \in Files : Has(tree'[f], tree[f])
    BY <1>1, <2>1 DEF Has, InEntry
  <2>3. TreeInv'
    BY <1>1, <2>2 DEF Inv, TreeInv, Has
  <2>4. FilesInv'
    BY <1>1, <2>2, <2>3, Growing DEF Has
  <2>5. InTree(c)'
    BY <1>1, <2>1 DEF InTree, Has, Inv, TypeOK, Saves
  <2>6. QED
    BY <1>1, <1>3, <2>1, <2>2, <2>3, <2>4, <2>5
       DEF ProcInv, Stashing, Restoring, BringingBack, Before, Popping, First, Running
<1>4. QED
  BY <1>1, <1>2, <1>3 DEF Rollback

(* They were put back.                                                     *)
LEMMA RollDropStays ==
  ASSUME Inv, NEW p \in Procs, RollDrop(p)
 
  PROVE  FilesInv' /\ ProcInv(p)' /\ refs' \subseteq refs
<1>1. /\ ProcInv(p) /\ my[p] \in Memories /\ my \in [Procs -> Memories] /\ pc \in [Procs -> PCs]
      /\ pc[p] = "roll_drop" /\ UNCHANGED <<tree, index, made, reborn>>
      /\ DropEntry(my[p].stash)
  BY DEF Inv, TypeOK, RollDrop, treeVars, runVars
<1>2. my[p].stash \in Entries /\ InTree(my[p].stash)
  BY <1>1 DEF ProcInv, Stashing, Entries, Kinds
<1>3. FilesInv'
  BY <1>1, <1>2, Dropping DEF InTree
<1>4. refs' \subseteq refs
  BY <1>1 DEF DropEntry, refVars
<1>5. (pc'[p] = "back" /\ my'[p].task = "abort") \/ (pc'[p] = "roll_forget" /\ my' = my)
  <2>1. [my[p] EXCEPT !.stash = None] \in Memories
    BY <1>1 DEF Memories
  <2>2. QED
    BY <1>1, <2>1, GivesUp DEF RollDrop, Goto
<1>6. QED
  BY <1>1, <1>3, <1>4, <1>5 DEF ProcInv, Stashing, Restoring, BringingBack, Before, Popping,
     First, Running

(* A restored file has its old edits and those of its entry.                *)
LEMMA RestoreStays ==
  ASSUME Inv, NEW p \in Procs, Restore(p)
  PROVE  FilesInv' /\ ProcInv(p)' /\ Same(p) /\ \A f \in Files : Has(tree'[f], tree[f])
<1> DEFINE c == my[p].stash
<1>1. /\ ProcInv(p) /\ my[p] \in Memories /\ my \in [Procs -> Memories] /\ pc[p] = "restore" /\ c \in refs
      /\ UNCHANGED <<index, pc, made, refs, saved, reborn>>
  BY DEF Inv, TypeOK, Restore, refVars, runVars, ProcInv, Restoring
<1>2. Restoring(p) /\ c \in Entries /\ saved[c].files \subseteq Files /\ my[p].todo \subseteq Files
  BY <1>1 DEF Inv, TypeOK, Saves, ProcInv, Memories
<1>3. PICK f \in my[p].todo :
        /\ my'[p].todo = my[p].todo \ {f} /\ my'[p].stash = c /\ my'[p].wrote = my[p].wrote
        /\ my'[p].touched = my[p].touched /\ Same(p)
        /\ my[p].bad => my'[p].bad
        /\ \/ tree' = tree /\ my'[p].bad
           \/ f \notin my[p].touched /\ tree' = [tree EXCEPT ![f] = saved[c].work[f]]
           \/ f \in my[p].touched /\ \E T \in {tree[f], tree[f] \ {"fix"}} : tree' = [tree EXCEPT ![f] = T \cup Change(c, f)]
  <2>1. PICK f \in my[p].todo, b \in {TRUE, my[p].bad} :
        /\ my' = [my EXCEPT ![p] = [my[p] EXCEPT !.todo = my[p].todo \ {f}, !.bad = b]]
        /\ \/ tree' = tree /\ b
           \/ f \notin my[p].touched /\ tree' = [tree EXCEPT ![f] = saved[c].work[f]]
           \/ f \in my[p].touched /\ \E T \in {tree[f], tree[f] \ {"fix"}} : tree' = [tree EXCEPT ![f] = T \cup Change(c, f)]
    <3>1. \A T : [my[p] EXCEPT !.todo = T] = [my[p] EXCEPT !.todo = T, !.bad = my[p].bad]
      BY <1>1 DEF Memories
    <3>2. QED
      BY <3>1 DEF Restore, Know, Write, Bad
  <2>2. my'[p] = [my[p] EXCEPT !.todo = my[p].todo \ {f}, !.bad = b]
    BY <1>1, <2>1
  <2>3. QED
    BY <1>1, <2>1, <2>2 DEF Memories, Same
<1>4. f \in Files /\ tree[f] \in SUBSET Edits /\ EntryInv(c)
  BY <1>2 DEF Inv, TypeOK
<1> HIDE DEF c
<1>5. /\ \A g \in Files \ {f} : tree'[g] = tree[g]
      /\ Has(tree'[f], tree[f])
      /\ f \notin my[p].touched => my'[p].bad \/ tree'[f] = saved[c].work[f]
      /\ f \in my[p].touched => my'[p].bad \/ Has(tree'[f], saved[c].work[f])
  <2>1. CASE tree' = tree /\ my'[p].bad
    BY <1>4, <2>1 DEF Has
  <2>2. CASE f \notin my[p].touched /\ tree' = [tree EXCEPT ![f] = saved[c].work[f]]
    BY <1>1, <1>2, <1>4, <2>2 DEF Restoring, Inv, TypeOK, c
  <2>3. CASE f \in my[p].touched /\ \E T \in {tree[f], tree[f] \ {"fix"}} : tree' = [tree EXCEPT ![f] = T \cup Change(c, f)]
    <3>1. Has(tree[f] \cup Change(c, f), saved[c].work[f]) /\ Has((tree[f] \ {"fix"}) \cup Change(c, f), saved[c].work[f])
      BY <1>4 DEF Inv, TreeInv, EntryInv, Has, Users, Change
    <3>2. QED
      BY <1>4, <2>3, <3>1 DEF Has, Users, Inv, TypeOK
  <2>4. QED
    BY <1>3, <2>1, <2>2, <2>3
<1>6. \A g \in Files : Has(tree'[g], tree[g])
  BY <1>5 DEF Has
<1>7. TreeInv'
  BY <1>1, <1>6 DEF Inv, TreeInv, Has
<1>8. FilesInv'
  BY <1>1, <1>6, <1>7, Growing DEF Has
<1>9. Restoring(p)'
  <2>1. my'[p].todo \subseteq my'[p].wrote \cup my'[p].touched /\ my'[p].wrote \cup my'[p].touched \subseteq saved[c].files
    BY <1>1, <1>2, <1>3 DEF Restoring, c
  <2>2. \A g \in my'[p].todo \ my'[p].touched : Has(saved[c].work[g], tree'[g])
    BY <1>1, <1>2, <1>3, <1>5 DEF Restoring, c
  <2>3. ASSUME ~my'[p].bad, NEW g \in saved[c].files \ my'[p].todo
        PROVE g \in my'[p].wrote \/ Has(tree'[g], saved[c].work[g])
    BY <1>1, <1>2, <1>3, <1>5, <2>3 DEF Restoring, Has, c
  <2>4. QED
    BY <1>1, <1>3, <2>1, <2>2, <2>3 DEF Restoring
<1>10. QED
  BY <1>1, <1>3, <1>6, <1>7, <1>8, <1>9 DEF Same, ProcInv, Stashing, BringingBack, Before, Popping,
     First,
     Running

(* The files have what was in the entry.                                    *)
LEMMA DropStays ==
  ASSUME Inv, NEW p \in Procs, Drop(p)
 
  PROVE  FilesInv' /\ ProcInv(p)' /\ refs' \subseteq refs
<1>1. /\ ProcInv(p) /\ pc'[p] = "back" /\ pc[p] = "drop" /\ UNCHANGED <<tree, index, made, reborn, my>>
      /\ DropEntry(my[p].stash)
  BY DEF Inv, TypeOK, Drop, Goto, treeVars, runVars
<1>2. my[p].stash \in Entries /\ InTree(my[p].stash)
  BY <1>1 DEF ProcInv, Restoring, Inv, TypeOK
<1>3. FilesInv'
  BY <1>1, <1>2, Dropping DEF InTree
<1>4. refs' \subseteq refs
  BY <1>1 DEF DropEntry, refVars
<1>5. QED
  BY <1>1, <1>3, <1>4 DEF ProcInv, Stashing, Restoring, BringingBack, Before, Popping, First,
     Running

(* A removed file is made again with its contents, unless it exists.         *)
LEMMA BackStays ==
  ASSUME Inv, NEW p \in Procs, Back(p)
  PROVE  FilesInv' /\ ProcInv(p)' /\ \A f \in Files : Has(tree'[f], tree[f])
<1> DEFINE c == my[p].intents
           occupied == {f \in saved[c].files : tree[f] # {}}
<1>1. /\ ProcInv(p) /\ my[p] \in Memories /\ my \in [Procs -> Memories] /\ pc \in [Procs -> PCs]
      /\ pc[p] = "back" /\ UNCHANGED <<index, made, refs, saved>>
  BY DEF Inv, TypeOK, Back, refVars
<1>2. CASE Goto(p, "popped") /\ UNCHANGED <<tree, reborn>> /\ Know(p, [my[p] EXCEPT !.bad = @ \/ c # None])
  <2>1. FilesInv'
    BY <1>1, <1>2, Unwritten
  <2>2. pc'[p] = "popped" /\ my'[p].task = my[p].task
    BY <1>1, <1>2 DEF Goto, Know, Memories
  <2>3. QED
    BY <1>1, <1>2, <2>1, <2>2 DEF ProcInv, Stashing, Restoring, BringingBack, Before, Popping,
       First, Running, Has
<1>3. CASE /\ c # None
           /\ tree' = [f \in Files |-> IF f \in saved[c].files \ occupied THEN saved[c].work[f] ELSE tree[f]]
           /\ reborn' = reborn \cup {f \in occupied : /\ ~my[p].set_aside
                                                      /\ ~(saved[c].work[f] \subseteq tree[f])}
           /\ Know(p, [my[p] EXCEPT !.touched = occupied]) /\ Goto(p, "mark")
  <2>1. /\ pc'[p] = "mark" /\ my'[p].task = my[p].task /\ my'[p].touched = occupied /\ my'[p].intents = c
        /\ my'[p].set_aside = my[p].set_aside
    BY <1>1, <1>3 DEF Goto, Know, Memories
  <2>2. c \in Entries /\ saved[c].files \subseteq Files
    BY <1>1, <1>3 DEF Memories, Entries, Kinds, Inv, TypeOK, Saves
  <2>3. \A f \in Files : tree'[f] = IF f \in saved[c].files /\ tree[f] = {} THEN saved[c].work[f] ELSE tree[f]
    BY <1>3
  <2>4. \A f \in Files : Has(tree'[f], tree[f])
    BY <2>3 DEF Has, Users
  <2>5. TreeInv'
    BY <1>1, <2>4 DEF Inv, TreeInv, Has
  <2>6. FilesInv'
    BY <1>1, <1>3, <2>4, <2>5, Growing DEF Has
  <2>7. ASSUME NEW f \in saved[c].files
        PROVE  Has(tree'[f], saved[c].work[f]) \/ f \in reborn' \/ (my[p].set_aside /\ f \in occupied)
    <3>1. CASE tree[f] = {}
      BY <2>2, <2>3, <3>1 DEF Has
    <3>2. CASE tree[f] # {} /\ ~my[p].set_aside
      BY <1>3, <2>2, <2>3, <3>2 DEF Has, Users
    <3>3. CASE tree[f] # {} /\ my[p].set_aside
      BY <3>3
    <3>4. QED
      BY <3>1, <3>2, <3>3
  <2> HIDE DEF c, occupied
  <2>8. BringingBack(p)'
    BY <1>1, <1>3, <2>1, <2>7 DEF BringingBack
  <2>9. QED
    BY <1>1, <2>1, <2>4, <2>5, <2>6, <2>8 DEF ProcInv, Stashing, Restoring, Before, Popping, First,
       Running
<1>4. QED
  BY <1>2, <1>3 DEF Back

(* They exist by now, or are taken for never removed.                       *)
LEMMA DropIntentsStays ==
  ASSUME Inv, NEW p \in Procs, DropIntents(p)
 
  PROVE  FilesInv' /\ ProcInv(p)' /\ refs' \subseteq refs
<1>1. /\ ProcInv(p) /\ pc'[p] \in {"popped", "forget_intents"} /\ pc[p] = "drop_intents"
      /\ UNCHANGED <<tree, index, made, reborn, my>>
      /\ DropEntry(my[p].intents)
  BY DEF Inv, TypeOK, DropIntents, Goto, treeVars, runVars
<1>2. /\ my[p].intents \in Entries
      /\ \A f \in saved[my[p].intents].files : Has(tree[f], saved[my[p].intents].work[f]) \/ f \in reborn
  BY <1>1 DEF ProcInv, BringingBack, Inv, TypeOK, Memories, Entries, Kinds
<1>3. FilesInv'
  BY <1>1, <1>2, Dropping
<1>4. refs' \subseteq refs
  BY <1>1 DEF DropEntry, refVars
<1>5. QED
  BY <1>1, <1>3, <1>4 DEF ProcInv, Stashing, Restoring, BringingBack, Before, Popping, First,
     Running

(* A step of p's fixes and stages a file, whoever has the lock.              *)
LEMMA FixStays ==
  ASSUME Inv, NEW p \in Procs, Fix(p)
  PROVE  FilesInv' /\ \A q \in Procs : ProcInv(q)'
<1>1. PICK f \in Files : /\ tree' = [tree EXCEPT ![f] = tree[f] \cup {"fix"}]
                         /\ UNCHANGED index \/ (f \notin NewFiles /\ index' = [index EXCEPT ![f] = tree'[f]])
  BY DEF Fix, Write
<1>2. \A g \in Files : Users(tree'[g]) = Users(tree[g])
  BY <1>1 DEF Users, Inv, TypeOK
<1>3. TreeInv'
  <2>1. ASSUME NEW g \in Files PROVE index'[g] = index[g] \/ (g \notin NewFiles /\ index'[g] = tree'[g])
    BY <1>1 DEF Inv, TypeOK
  <2>2. QED
    <3>1. \A g \in Files : Has(tree'[g], index'[g])
      BY <1>2, <2>1 DEF Inv, TreeInv, Has
    <3>2. \A g \in NewFiles : index'[g] = {}
      BY <2>1, StashOK DEF Inv, TreeInv
    <3>3. QED
      BY <3>1, <3>2 DEF TreeInv
<1>4. \A g \in Files : Has(index'[g], index[g])
  BY <1>1, <1>2 DEF Inv, TypeOK, TreeInv, Has, Users
<1>5. FilesInv'
  <2>1. UNCHANGED <<refs, saved, made, reborn>>
    BY DEF Fix, refVars, runVars
  <2>2. QED
    BY <1>2, <1>3, <1>4, <2>1, Growing DEF Has
<1>6. ASSUME NEW q \in Procs PROVE ProcInv(q)'
  <2>1. UNCHANGED <<pc, my, refs, saved, reborn>> /\ pc[p] = "steps"
    BY DEF Fix, refVars, runVars
  <2>2. CASE q = p
    BY <2>1, <2>2 DEF Inv, ProcInv, Stashing, Restoring, BringingBack, Before, Popping, First,
       Running
  <2>3. CASE q # p
    BY <1>2, <2>1, <2>3, Bystanders
  <2>4. QED
    BY <2>2, <2>3
<1>7. QED
  BY <1>3, <1>5, <1>6

(* The user edits a file while nobody has the lock.                        *)
LEMMA EditStays ==
  ASSUME Inv, Edit
  PROVE  FilesInv' /\ \A q \in Procs : ProcInv(q)'
<1>1. PICK f \in Files : /\ tree' = [tree EXCEPT ![f] = tree[f] \cup {"new"}]
                         /\ made' = [made EXCEPT ![f] = made[f] \cup {"new"}]
  BY DEF Edit, Write
<1>2. /\ UNCHANGED <<index, pc, my, refs, saved, reborn>>
      /\ lock = "none"
  BY DEF Edit, refVars, runVars
<1>3. TreeInv'
  BY <1>1, <1>2 DEF Inv, TypeOK, TreeInv, Has, Users
<1>4. FilesInv'
  <2>1. \A g \in Files : Has(tree'[g], tree[g]) /\ Has(index'[g], index[g]) /\ made'[g] \subseteq made[g] \cup Users(tree'[g])
    BY <1>1, <1>2 DEF Has, Users, Inv, TypeOK
  <2>2. QED
    BY <1>2, <1>3, <2>1, Growing
<1>5. ASSUME NEW q \in Procs PROVE ProcInv(q)'
  <2>1. pc[q] \notin Holding
    BY <1>2, StashOK DEF Inv, LockIsHeld
  <2>2. QED
    BY <1>2, <2>1 DEF Inv, ProcInv, Stashing, Restoring, BringingBack, Before, Holding
<1>6. QED
  BY <1>3, <1>4, <1>5

(* The user stages a file while nobody has the lock.                       *)
LEMMA StageByHandStays ==
  ASSUME Inv, StageByHand
  PROVE  FilesInv' /\ \A q \in Procs : ProcInv(q)'
<1>1. PICK f \in Files \ NewFiles : index' = [index EXCEPT ![f] = tree[f]]
  BY DEF StageByHand, Dirty
<1>2. /\ UNCHANGED <<tree, made, pc, my, refs, saved, reborn>>
      /\ lock = "none"
  BY DEF StageByHand, refVars, runVars
<1>3. TreeInv'
  BY <1>1, <1>2 DEF Inv, TypeOK, TreeInv, Has, Users
<1>4. FilesInv'
  <2>1. \A g \in Files : Has(tree'[g], tree[g]) /\ Has(index'[g], index[g]) /\ made'[g] \subseteq made[g] \cup Users(tree'[g])
    BY <1>1, <1>2 DEF Has, Users, Inv, TypeOK, TreeInv
  <2>2. QED
    BY <1>2, <1>3, <2>1, Growing
<1>5. ASSUME NEW q \in Procs PROVE ProcInv(q)'
  <2>1. pc[q] \notin Holding
    BY <1>2, StashOK DEF Inv, LockIsHeld
  <2>2. QED
    BY <1>2, <2>1 DEF Inv, ProcInv, Stashing, Restoring, BringingBack, Before, Holding
<1>6. QED
  BY <1>3, <1>4, <1>5

-----------------------------------------------------------------------------
(* The inductive invariant.                                                *)
LEMMA Begins == Init => Inv
<1> SUFFICES ASSUME Init PROVE Inv
  OBVIOUS
<1>1. /\ tree \in [Files -> SUBSET Edits] /\ index \in [Files -> SUBSET Edits]
      /\ made \in [Files -> SUBSET {"old", "new"}] /\ made = tree
      /\ \A f \in Files : index[f] = {}
  BY DEF Init, Edits
<1>2. NoSave \in Saves /\ NoJournal \in Journals /\ Fresh \in Memories
  BY DEF NoSave, Saves, NoJournal, Journals, Fresh, Memories
<1>3. TypeOK
  BY <1>1, <1>2, StashOK DEF Init, TypeOK, PCs
<1>4. LockIsHeld
  BY StashOK DEF Init, LockIsHeld, Holding
<1>5. TreeInv /\ NothingLost
  BY <1>1, StashOK DEF TreeInv, NothingLost, Kept, InPlace, Has, Users
<1>6. ASSUME NEW c \in Entries PROVE EntryInv(c)
  BY <1>1, <1>6 DEF Init, EntryInv, NoSave, Has, Users
<1>7. ASSUME NEW p \in Procs PROVE ProcInv(p)
  BY <1>7 DEF Init, Fresh, ProcInv, First, Running, Before, Popping, Stashing, Restoring,
     BringingBack
<1>8. QED
  BY <1>3, <1>4, <1>5, <1>6, <1>7 DEF Inv

(* Whoever steps leaves the others where they are.                          *)
LEMMA OthersStay ==
  ASSUME Inv, NEW p \in Procs
  PROVE  (Look(p) \/ Await(p) \/ Reread(p) \/ Leave(p) \/ Pop(p) \/ Restore(p) \/ Verify(p)
          \/ Drop(p) \/ Back(p) \/ Mark(p) \/ DropIntents(p) \/ ForgetIntents(p)
          \/ Popped(p) \/ Exit(p) \/ Status(p) \/ Queue(p) \/ Stash(p)
          \/ StoreIntents(p) \/ RecordIntents(p) \/ Unmark(p) \/ Remove(p)
          \/ Push(p) \/ Store(p) \/ Record(p) \/ Reset(p) \/ Rollback(p)
          \/ RollDrop(p) \/ RollForget(p) \/ Stashed(p) \/ Fix(p) \/ StepsEnd(p)
          \/ Crash(p)) => Others(p)
<1>1. pc \in [Procs -> PCs] /\ my \in [Procs -> Memories]
  BY DEF Inv, TypeOK
<1>2. CASE Look(p) \/ Await(p) \/ Reread(p) \/ Leave(p) \/ Pop(p) \/ Restore(p)
           \/ Verify(p) \/ Drop(p)
  BY <1>1, <1>2 DEF Look, Await, Reread, Leave, Pop, Restore, Verify, Drop, DecideGone,
    DecideUnknown, Others, Goto, Know
<1>3. CASE Back(p) \/ Mark(p) \/ DropIntents(p) \/ ForgetIntents(p) \/ Exit(p)
           \/ Status(p) \/ Queue(p)
  BY <1>1, <1>3 DEF Back, Mark, DropIntents, ForgetIntents, Exit, Status, Queue, Others, Goto,
    Know
<1>4. CASE Stash(p) \/ StoreIntents(p) \/ RecordIntents(p) \/ Unmark(p) \/ Remove(p)
           \/ Push(p) \/ Store(p) \/ Record(p)
  BY <1>1, <1>4 DEF Stash, StoreIntents, RecordIntents, Unmark, Remove, Push, Store, Record,
    GiveUp, Others, Goto, Know
<1>5. CASE Reset(p) \/ Rollback(p) \/ RollDrop(p) \/ RollForget(p) \/ Stashed(p)
           \/ Fix(p) \/ StepsEnd(p) \/ Crash(p)
  BY <1>1, <1>5 DEF Reset, Rollback, RollDrop, RollForget, Stashed, Fix, StepsEnd, Crash,
    GiveUp, Others, Goto, Know
<1>6. CASE Popped(p)
  <2>1. my[p].task \in {"recover", "run", "abort"}
    BY <1>1 DEF Memories
  <2>2. CASE my[p].task = "recover"
    BY <1>1, <1>6, <2>2 DEF Popped, Others, Goto
  <2>3. CASE my[p].task = "run"
    BY <1>1, <1>6, <2>3 DEF Popped, Others, Goto
  <2>4. CASE my[p].task = "abort"
    BY <1>1, <1>6, <2>4 DEF Popped, Others, Goto
  <2>5. QED
    BY <2>1, <2>2, <2>3, <2>4
<1>7. QED
  BY <1>2, <1>3, <1>4, <1>5, <1>6

(* The inductive invariant holds in every state, after every step and       *)
(* wherever a process is killed.                                           *)
THEOREM StashInvariance == Spec => []Inv
<1>1. ASSUME Inv, [Next]_vars PROVE Inv'
  <2>1. ASSUME NEW p \in Procs, ProcInv(p)', Others(p),
               UNCHANGED <<tree, index, refs, saved, made, reborn>>
        PROVE  Inv'
    <3>1. ASSUME NEW q \in Procs \ {p} PROVE ProcInv(q)'
      BY <1>1, <2>1, <3>1, Bystanders DEF Others
    <3>2. FilesInv'
      BY <1>1, <2>1, Unwritten
    <3>3. QED
      BY <1>1, <2>1, <3>1, <3>2, TypesStay DEF Inv, FilesInv
  <2>2. ASSUME NEW p \in Procs, FilesInv', ProcInv(p)', Others(p), lock = p,
               \A q \in Procs \ {p}, k \in Kinds : <<q, k>> \notin refs => <<q, k>> \notin refs'
        PROVE  Inv'
    <3>1. ASSUME NEW q \in Procs \ {p} PROVE ProcInv(q)'
      BY <1>1, <2>2, <3>1, Bystanders DEF Others
    <3>2. QED
      BY <1>1, <2>2, <3>1, TypesStay DEF Inv, FilesInv
  <2>3. ASSUME NEW p \in Procs, Look(p) \/ Leave(p) \/ Exit(p) \/ Status(p)
           \/ Stash(p) \/ ForgetIntents(p) \/ RecordIntents(p) \/ Push(p) PROVE Inv'
    <3>1. UNCHANGED <<tree, index, refs, saved, made, reborn>>
      BY <2>3 DEF Look, Leave, Exit, Status, Stash, ForgetIntents, RecordIntents, Push,
        treeVars, refVars, runVars
    <3>2. QED
      BY <1>1, <2>1, <2>3, <3>1, QuietSteps, OthersStay
  <2>4. ASSUME NEW p \in Procs, Record(p) \/ RollForget(p) \/ Stashed(p)
           \/ StepsEnd(p) \/ Crash(p) \/ Await(p) \/ Reread(p) \/ Queue(p) PROVE Inv'
    <3>1. UNCHANGED <<tree, index, refs, saved, made, reborn>>
      BY <2>4 DEF Record, RollForget, Stashed, StepsEnd, Crash, Await, Reread, Queue, GiveUp,
        DecideGone, DecideUnknown, treeVars, refVars, runVars
    <3>2. QED
      BY <1>1, <2>1, <2>4, <3>1, QuietSteps, OthersStay
  <2>5. ASSUME NEW p \in Procs, Pop(p) PROVE Inv'
    <3>1. UNCHANGED <<tree, index, refs, saved, made, reborn>>
      BY <2>5 DEF Pop, treeVars, refVars, runVars
    <3>2. QED
      BY <1>1, <2>1, <2>5, <3>1, PopStays, OthersStay
  <2>6. ASSUME NEW p \in Procs, Verify(p) PROVE Inv'
    <3>1. UNCHANGED <<tree, index, refs, saved, made, reborn>>
      BY <2>6 DEF Verify, treeVars, refVars, runVars
    <3>2. QED
      BY <1>1, <2>1, <2>6, <3>1, VerifyStays, OthersStay
  <2>7. ASSUME NEW p \in Procs, Mark(p) PROVE Inv'
    <3>1. UNCHANGED <<tree, index, refs, saved, made, reborn>>
      BY <2>7 DEF Mark, treeVars, refVars, runVars
    <3>2. QED
      BY <1>1, <2>1, <2>7, <3>1, MarkStays, OthersStay
  <2>8. ASSUME NEW p \in Procs, Popped(p) PROVE Inv'
    <3>1. UNCHANGED <<tree, index, refs, saved, made, reborn>>
      BY <2>8 DEF Popped, treeVars, refVars, runVars
    <3>2. QED
      BY <1>1, <2>1, <2>8, <3>1, PoppedStays, OthersStay
  <2>9. ASSUME NEW p \in Procs, Unmark(p) PROVE Inv'
    <3>1. UNCHANGED <<tree, index, refs, saved, made, reborn>>
      BY <2>9 DEF Unmark, treeVars, refVars, runVars
    <3>2. QED
      BY <1>1, <2>1, <2>9, <3>1, UnmarkStays, OthersStay
  <2>10. ASSUME NEW p \in Procs, StoreIntents(p) PROVE Inv'
    <3>1. lock = p
      BY <1>1, <2>10 DEF StoreIntents, Inv, LockIsHeld, Holding
    <3>2. QED
      BY <1>1, <2>2, <2>10, <3>1, StoreIntentsStays, OthersStay
  <2>11. ASSUME NEW p \in Procs, Remove(p) PROVE Inv'
    <3>1. lock = p
      BY <1>1, <2>11 DEF Remove, Inv, LockIsHeld, Holding
    <3>2. QED
      BY <1>1, <2>2, <2>11, <3>1, RemoveStays, OthersStay DEF Remove, refVars
  <2>12. ASSUME NEW p \in Procs, Store(p) PROVE Inv'
    <3>1. lock = p
      BY <1>1, <2>12 DEF Store, Inv, LockIsHeld, Holding
    <3>2. QED
      BY <1>1, <2>2, <2>12, <3>1, StoreStays, OthersStay
  <2>13. ASSUME NEW p \in Procs, Reset(p) PROVE Inv'
    <3>1. lock = p
      BY <1>1, <2>13 DEF Reset, Inv, LockIsHeld, Holding
    <3>2. QED
      BY <1>1, <2>2, <2>13, <3>1, ResetStays, OthersStay DEF Reset, refVars
  <2>14. ASSUME NEW p \in Procs, Rollback(p) PROVE Inv'
    <3>1. lock = p
      BY <1>1, <2>14 DEF Rollback, Inv, LockIsHeld, Holding
    <3>2. QED
      BY <1>1, <2>2, <2>14, <3>1, RollbackStays, OthersStay DEF Rollback, refVars
  <2>15. ASSUME NEW p \in Procs, RollDrop(p) PROVE Inv'
    <3>1. lock = p
      BY <1>1, <2>15 DEF RollDrop, Inv, LockIsHeld, Holding
    <3>2. QED
      BY <1>1, <2>2, <2>15, <3>1, RollDropStays, OthersStay
  <2>16. ASSUME NEW p \in Procs, Restore(p) PROVE Inv'
    <3>1. lock = p
      BY <1>1, <2>16 DEF Restore, Inv, LockIsHeld, Holding
    <3>2. QED
      BY <1>1, <2>2, <2>16, <3>1, RestoreStays, OthersStay DEF Restore, refVars
  <2>17. ASSUME NEW p \in Procs, Drop(p) PROVE Inv'
    <3>1. lock = p
      BY <1>1, <2>17 DEF Drop, Inv, LockIsHeld, Holding
    <3>2. QED
      BY <1>1, <2>2, <2>17, <3>1, DropStays, OthersStay
  <2>18. ASSUME NEW p \in Procs, Back(p) PROVE Inv'
    <3>1. lock = p
      BY <1>1, <2>18 DEF Back, Inv, LockIsHeld, Holding
    <3>2. QED
      BY <1>1, <2>2, <2>18, <3>1, BackStays, OthersStay DEF Back, refVars
  <2>19. ASSUME NEW p \in Procs, DropIntents(p) PROVE Inv'
    <3>1. lock = p
      BY <1>1, <2>19 DEF DropIntents, Inv, LockIsHeld, Holding
    <3>2. QED
      BY <1>1, <2>2, <2>19, <3>1, DropIntentsStays, OthersStay
  <2>20. ASSUME NEW p \in Procs, Fix(p) PROVE Inv'
    BY <1>1, <2>20, FixStays, TypesStay DEF Inv, FilesInv
  <2>21. ASSUME Edit PROVE Inv'
    BY <1>1, <2>21, EditStays, TypesStay DEF Inv, FilesInv
  <2>22. ASSUME StageByHand PROVE Inv'
    BY <1>1, <2>22, StageByHandStays, TypesStay DEF Inv, FilesInv
  <2>23. ASSUME UNCHANGED vars PROVE Inv'
    <3>1. UNCHANGED <<tree, index, refs, saved, made, reborn, pc, my>>
      BY <2>23 DEF vars, treeVars, refVars, runVars
    <3>2. FilesInv'
      BY <1>1, <3>1, Unwritten
    <3>3. ASSUME NEW q \in Procs PROVE ProcInv(q)'
      BY <1>1, <3>1, <3>3 DEF Inv, ProcInv, Before, Stashing, Restoring, BringingBack, InEntry,
         InTree
    <3>4. QED
      BY <1>1, <3>2, <3>3, TypesStay DEF Inv, FilesInv
  <2>24. QED
    BY <1>1, <2>3, <2>4, <2>5, <2>6, <2>7, <2>8, <2>9, <2>10, <2>11, <2>12, <2>13,
       <2>14, <2>15, <2>16, <2>17, <2>18, <2>19, <2>20, <2>21, <2>22, <2>23 DEF Next, AllOver
<1>2. QED
  BY <1>1, Begins, PTL DEF Spec

(* Every variable stays in its range.                                      *)
THEOREM StashTypeCorrect == Spec => []TypeOK
BY StashInvariance, PTL DEF Inv

(* The stash lock is held by exactly the process that recovers, stashes or  *)
(* puts back, so that no two do at once.                                   *)
THEOREM StashersAreAlone == Spec => []LockIsHeld
BY StashInvariance, PTL DEF Inv

(* No edit of the user's is lost, but to a file of `reborn`, however many    *)
(* processes are killed between any two writes and however many writes fail. *)
THEOREM NothingIsLost == Spec => []NothingLost
BY StashInvariance, PTL DEF Inv
-----------------------------------------------------------------------------
(* The journal.  A process that keeps one has made it, and while it has the *)
(* lock the file is its own; one that recovers does so from the journal of  *)
(* a process that is gone.                                                 *)
NoEntry     == First \cup {"leave", "status", "queue"}
Recovers(p) == pc[p] \in Popping /\ my[p].task = "recover"
JournalOf(p) ==
  /\ own[p] # NoJournal => /\ own[p].owner = p /\ ~Recovers(p)
                           /\ pc[p] \notin NoEntry
                           /\ lock = p => disk.owner = p
  /\ Recovers(p) => disk # NoJournal /\ pc[disk.owner] \in {"over", "dead"}
JournalInv ==
  /\ (disk = NoJournal) <=> (disk.owner = "none")
  /\ disk # NoJournal => pc[disk.owner] # "idle"
  /\ \A p \in Procs : JournalOf(p)

(* A step of p's changes the journal with the lock, and only p's memory.   *)
LEMMA JournalSteps ==
  ASSUME Inv, JournalInv, NEW p \in Procs, Others(p),
         pc[p] \notin {"over", "dead"}, pc'[p] # "idle", lock' \in {lock, p, "none"},
         \A q \in Procs \ {p} : own'[q] = own[q],
         disk' = disk \/ lock = p,
         (disk' = NoJournal) <=> (disk'.owner = "none"),
         disk' # NoJournal => disk'.owner = p \/ disk' = disk,
         JournalOf(p)'
  PROVE  JournalInv'
<1>1. disk \in Journals /\ own \in [Procs -> Journals] /\ lock \in Procs \cup {"none"}
  BY DEF Inv, TypeOK
<1>2. disk # NoJournal => disk.owner \in Procs
  BY <1>1 DEF JournalInv, Journals
<1>3. disk' # NoJournal => pc'[disk'.owner] # "idle"
  BY <1>2 DEF JournalInv, Others
<1>4. ASSUME NEW q \in Procs \ {p} PROVE JournalOf(q)'
  <2>1. JournalOf(q) /\ pc'[q] = pc[q] /\ my'[q] = my[q] /\ own'[q] = own[q]
    BY <1>4 DEF JournalInv, Others
  <2>2. Recovers(q)' = Recovers(q)
    BY <2>1 DEF Recovers
  <2>3. lock' = q => lock = q /\ disk' = disk
    BY <1>4, StashOK
  <2>4. Recovers(q) => disk' = disk
    BY <1>4 DEF Recovers, Popping, Holding, Inv, LockIsHeld
  <2>5. Recovers(q) => disk.owner \in Procs \ {p} /\ pc'[disk.owner] = pc[disk.owner]
    BY <1>2, <2>1 DEF JournalOf, Others
  <2>6. QED
    BY <2>1, <2>2, <2>3, <2>4, <2>5 DEF JournalOf
<1>5. QED
  BY <1>3, <1>4 DEF JournalInv

(* Steps that leave the journal.                                           *)
LEMMA JournalKept ==
  ASSUME Inv, JournalInv, NEW p \in Procs, Others(p), UNCHANGED <<disk, own>>,
         pc[p] \notin {"over", "dead"}, pc'[p] # "idle", lock' \in {lock, p, "none"},
         own[p] # NoJournal => pc'[p] \notin NoEntry /\ (lock' = p => lock = p),
         Recovers(p)' => Recovers(p)
  PROVE  JournalInv'
<1>1. disk # NoJournal => disk.owner \in Procs
  BY DEF Inv, TypeOK, Journals, JournalInv
<1>2. JournalOf(p)
  BY DEF JournalInv
<1>3. Recovers(p) => disk.owner # p /\ pc'[disk.owner] = pc[disk.owner]
  BY <1>1, <1>2 DEF JournalOf, Others
<1>4. JournalOf(p)'
  BY <1>2, <1>3 DEF JournalOf
<1>5. QED
  BY <1>4, JournalSteps DEF JournalInv

(* Steps that rewrite it.                                                  *)
LEMMA JournalWritten ==
  ASSUME Inv, JournalInv, NEW p \in Procs, Others(p), NEW S, JournalWrite(p, S),
         lock = p, UNCHANGED lock, pc[p] \notin {"over", "dead"},
         pc'[p] \notin NoEntry, Recovers(p)' => Recovers(p)
  PROVE  JournalInv'
<1>1. pc'[p] # "idle" /\ lock' \in {lock, p, "none"}
  BY DEF NoEntry, First
<1>2. CASE own[p] = NoJournal
  <2>1. UNCHANGED <<disk, own>>
    BY <1>2 DEF JournalWrite
  <2>2. QED
    BY <1>1, <1>2, <2>1, JournalKept
<1>3. CASE own[p] # NoJournal
  <2> DEFINE new == [own[p] EXCEPT !.entries = S]
  <2>1. own \in [Procs -> Journals] /\ JournalOf(p)
    BY DEF Inv, TypeOK, JournalInv
  <2>2. own[p].owner = p /\ ~Recovers(p) /\ disk.owner = p /\ disk # NoJournal
    BY <1>3, <2>1, StashOK DEF JournalOf, NoJournal
  <2>3. new.owner = p /\ new # NoJournal
    BY <2>1, <2>2, StashOK DEF Journals, NoJournal
  <2>4. disk' \in {disk, new} /\ own' \in {own, [own EXCEPT ![p] = new]}
    BY <1>3 DEF JournalWrite
  <2>5. own'[p].owner = p /\ disk'.owner = p /\ disk' # NoJournal
        /\ \A q \in Procs \ {p} : own'[q] = own[q]
    <3> HIDE DEF new
    <3>1. QED
      BY <2>1, <2>2, <2>3, <2>4
  <2>6. JournalOf(p)'
    BY <2>2, <2>5 DEF JournalOf
  <2>7. QED
    BY <1>1, <2>5, <2>6, JournalSteps, StashOK
<1>4. QED
  BY <1>2, <1>3

(* Steps that begin it.                                                    *)
LEMMA JournalBegun ==
  ASSUME Inv, JournalInv, NEW p \in Procs, Others(p), EnsureJournal(p),
         lock = p, UNCHANGED lock, pc[p] \notin {"over", "dead"},
         pc'[p] \notin NoEntry, ~Recovers(p)'
  PROVE  JournalInv'
<1>1. pc'[p] # "idle" /\ lock' \in {lock, p, "none"}
  BY DEF NoEntry, First
<1>2. CASE UNCHANGED <<disk, own>>
  BY <1>1, <1>2, JournalKept
<1>3. CASE ~UNCHANGED <<disk, own>>
  <2> DEFINE begun == [owner |-> p, before |-> refs, entries |-> {}]
  <2>1. own \in [Procs -> Journals]
    BY DEF Inv, TypeOK
  <2>2. disk' = begun /\ own' = [own EXCEPT ![p] = begun]
    BY <1>3 DEF EnsureJournal
  <2>3. begun.owner = p /\ begun # NoJournal
    BY StashOK DEF NoJournal
  <2>4. own'[p].owner = p /\ disk'.owner = p /\ disk' # NoJournal
        /\ \A q \in Procs \ {p} : own'[q] = own[q]
    <3> HIDE DEF begun
    <3>1. QED
      BY <2>1, <2>2, <2>3
  <2>5. JournalOf(p)'
    BY <2>4 DEF JournalOf
  <2>6. QED
    BY <1>1, <2>4, <2>5, JournalSteps, StashOK
<1>4. QED
  BY <1>2, <1>3

(* Steps that finish it.                                                   *)
LEMMA JournalFinished ==
  ASSUME Inv, JournalInv, NEW p \in Procs, Others(p), JournalFinish(p),
         lock = p, lock' \in {lock, p, "none"}, pc[p] \notin {"over", "dead"},
         pc'[p] # "idle", ~Recovers(p)'
  PROVE  JournalInv'
<1>1. own \in [Procs -> Journals]
  BY DEF Inv, TypeOK
<1>2. own' = [own EXCEPT ![p] = NoJournal] /\ disk' \in {disk, NoJournal}
  BY DEF JournalFinish
<1>3. own'[p] = NoJournal /\ \A q \in Procs \ {p} : own'[q] = own[q]
  BY <1>1, <1>2
<1>4. JournalOf(p)'
  BY <1>3 DEF JournalOf
<1>5. ((disk' = NoJournal) <=> (disk'.owner = "none")) /\ (disk' # NoJournal => disk' = disk)
  BY <1>2 DEF JournalInv, NoJournal
<1>6. QED
  BY <1>3, <1>4, <1>5, JournalSteps

(* Putting entries back is for the same end throughout.                    *)
LEMMA TaskStays ==
  ASSUME Inv, NEW p \in Procs
  PROVE  (Pop(p) \/ Restore(p) \/ Verify(p) \/ Drop(p) \/ Back(p) \/ Mark(p) \/ DropIntents(p)
            \/ ForgetIntents(p))
           => Same(p) /\ pc[p] \in Popping /\ pc'[p] \in Popping
<1>0. SUFFICES ASSUME Pop(p) \/ Restore(p) \/ Verify(p) \/ Drop(p) \/ Back(p) \/ Mark(p)
                        \/ DropIntents(p) \/ ForgetIntents(p)
               PROVE  Same(p) /\ pc[p] \in Popping /\ pc'[p] \in Popping
  OBVIOUS
<1>1. my \in [Procs -> Memories] /\ pc \in [Procs -> PCs]
  BY DEF Inv, TypeOK
<1>2. my[p] \in Memories
  BY <1>1
<1>3. CASE Pop(p)
  <2>1. pc[p] = "pop" /\ pc'[p] \in {"back", "restore"}
    BY <1>1, <1>3 DEF Pop, Goto
  <2>2. QED
    BY <1>3, <2>1, PopStays DEF Popping
<1>4. CASE Restore(p)
  BY <1>4, RestoreStays DEF Restore, Popping
<1>5. CASE Verify(p)
  BY <1>1, <1>2, <1>5 DEF Verify, Memories, Same, Know, Goto, Same, Popping
<1>6. CASE Back(p)
  BY <1>1, <1>2, <1>6 DEF Back, Memories, Same, Know, Goto, Same, Popping
<1>7. CASE Mark(p)
  <2>1. pc[p] = "mark" /\ pc'[p] \in {"popped", "drop_intents"}
    BY <1>1, <1>7 DEF Mark, Goto
  <2>2. PICK r \in {Bad(my[p]), [my[p] EXCEPT !.bad = @ \/ (my[p].set_aside /\ my[p].touched # {}),
                                           !.touched = {}]} :
          my' = [my EXCEPT ![p] = r]
    BY <1>7 DEF Mark, Know
  <2>3. /\ r.task = my[p].task /\ r.stash = my[p].stash /\ r.intents = my[p].intents
        /\ my[p].bad => r.bad
    BY <1>2, <2>2 DEF Memories, Bad
  <2>4. QED
    BY <1>1, <2>1, <2>2, <2>3 DEF Popping, Same
<1>8. CASE Drop(p) \/ DropIntents(p) \/ ForgetIntents(p)
  BY <1>1, <1>2, <1>8 DEF Drop, DropIntents, ForgetIntents, Goto, Same, Popping
<1>9. QED
  BY <1>0, <1>3, <1>4, <1>5, <1>6, <1>7, <1>8

(* Stashing and the steps are for a run, or end in giving it up.           *)
LEMMA RunsGoOn ==
  ASSUME Inv, NEW p \in Procs
  PROVE  (   Stash(p) \/ StoreIntents(p) \/ RecordIntents(p) \/ Unmark(p) \/ Remove(p)
              \/ Push(p) \/ Store(p) \/ Record(p) \/ Reset(p) \/ Rollback(p) \/ RollDrop(p)
              \/ RollForget(p) \/ Stashed(p) \/ Fix(p) \/ StepsEnd(p))
           => /\ pc[p] \in Running \ {"queue"} /\ pc'[p] \notin NoEntry
              /\ ~Recovers(p)' /\ UNCHANGED lock
              /\ ~(Fix(p) \/ StepsEnd(p)) => lock = p
<1>0. SUFFICES ASSUME Stash(p) \/ StoreIntents(p) \/ RecordIntents(p) \/ Unmark(p) \/ Remove(p)
                        \/ Push(p) \/ Store(p) \/ Record(p) \/ Reset(p) \/ Rollback(p) \/ RollDrop(p)
                        \/ RollForget(p) \/ Stashed(p) \/ Fix(p) \/ StepsEnd(p)
               PROVE  /\ pc[p] \in Running \ {"queue"} /\ pc'[p] \notin NoEntry
                      /\ ~Recovers(p)' /\ UNCHANGED lock
                      /\ ~(Fix(p) \/ StepsEnd(p)) => lock = p
  OBVIOUS
<1>1. my \in [Procs -> Memories] /\ pc \in [Procs -> PCs] /\ my[p] \in Memories /\ LockIsHeld
  BY DEF Inv, TypeOK
<1>2. pc[p] \in Running \ {"queue"} /\ (~(Fix(p) \/ StepsEnd(p)) => lock = p)
  BY <1>0, <1>1 DEF Running, Stash, StoreIntents, RecordIntents, Unmark, Remove, Push, Store,
     Record,
     Reset, Rollback, RollDrop, RollForget, Stashed, Fix, StepsEnd, LockIsHeld, Holding
<1>3. UNCHANGED lock
  BY <1>0 DEF Stash, StoreIntents, RecordIntents, Unmark, Remove, Push, Store, Record,
     Reset, Rollback, RollDrop, RollForget, Stashed, Fix, StepsEnd
<1>4. my[p].task = "run"
  BY <1>2 DEF Inv, ProcInv
<1>5. ASSUME NEW r \in Memories, GiveUp(p, r)
      PROVE  pc'[p] \notin NoEntry /\ ~Recovers(p)'
  BY <1>1, <1>5, GivesUp DEF NoEntry, First, Recovers
<1>6. ASSUME my'[p].task = "run", pc'[p] \notin NoEntry
      PROVE  pc'[p] \notin NoEntry /\ ~Recovers(p)'
  BY <1>6 DEF Recovers
<1>7. pc'[p] \notin NoEntry /\ ~Recovers(p)'
  <2>1. CASE Stash(p) \/ Push(p) \/ Fix(p) \/ StepsEnd(p)
    BY <1>1, <1>4, <1>6, <2>1 DEF Stash, Push, Fix, StepsEnd, Goto, NoEntry, First
  <2>2. CASE StoreIntents(p) \/ Store(p)
    BY <1>1, <1>4, <1>5, <1>6, <2>2 DEF StoreIntents, Store, Goto, NoEntry, First
  <2>3. CASE RecordIntents(p) \/ Record(p) \/ Stashed(p)
    <3>1. my'[p].task = my[p].task
      <4>1. CASE RecordIntents(p)
        BY <1>1, <4>1 DEF RecordIntents, Know, Memories
      <4>2. CASE Record(p)
        BY <1>1, <4>2 DEF Record, Know, Memories
      <4>3. CASE Stashed(p)
        BY <1>1, <4>3 DEF Stashed, Know, Memories
      <4>4. QED
        BY <2>3, <4>1, <4>2, <4>3
    <3>2. pc'[p] \notin NoEntry
      BY <1>1, <2>3 DEF RecordIntents, Record, Stashed, Goto, NoEntry, First
    <3>3. QED
      BY <1>4, <1>6, <3>1, <3>2
  <2>4. CASE Unmark(p)
    <3>1. CASE GiveUp(p, [my[p] EXCEPT !.set_aside = FALSE])
      BY <1>1, <1>5, <3>1, Forgotten
    <3>2. CASE ~GiveUp(p, [my[p] EXCEPT !.set_aside = FALSE])
      <4>1. my'[p].task = "run" /\ pc'[p] = "remove"
        BY <1>1, <1>4, <2>4, <3>2 DEF Unmark, Know, Goto, Memories
      <4>2. QED
        BY <1>6, <4>1 DEF NoEntry, First
    <3>3. QED
      BY <3>1, <3>2
  <2>5. CASE Remove(p)
    <3>1. CASE GiveUp(p, [my[p] EXCEPT !.set_aside = FALSE])
      BY <1>1, <1>5, <3>1, Forgotten
    <3>2. CASE ~GiveUp(p, [my[p] EXCEPT !.set_aside = FALSE])
      <4>1. my'[p].task = "run" /\ pc'[p] \in {"remove", "stashed", "push"}
        BY <1>1, <1>4, <2>5, <3>2 DEF Remove, Know, Goto, Memories
      <4>2. QED
        BY <1>6, <4>1 DEF NoEntry, First
    <3>3. QED
      BY <3>1, <3>2
  <2>6. CASE Reset(p) \/ Rollback(p) \/ RollDrop(p) \/ RollForget(p)
    <3>1. CASE GiveUp(p, [my[p] EXCEPT !.stash = None])
      BY <1>1, <1>5, <3>1, Forgotten
    <3>2. CASE ~GiveUp(p, [my[p] EXCEPT !.stash = None])
      <4>1. my'[p].task = "run" /\ pc'[p] \in {"reset", "rollback", "stashed", "roll_drop", "roll_forget"}
        BY <1>1, <1>4, <2>6, <3>2 DEF Reset, Rollback, RollDrop, RollForget, Know, Goto,
           Memories
      <4>2. QED
        BY <1>6, <4>1 DEF NoEntry, First
    <3>3. QED
      BY <3>1, <3>2
  <2>7. QED
    BY <1>0, <2>1, <2>2, <2>3, <2>4, <2>5, <2>6
<1>8. QED
  BY <1>2, <1>3, <1>7

(* The invariant about the journal holds at the start.                     *)
LEMMA JournalBegins == Init => JournalInv
<1> SUFFICES ASSUME Init PROVE JournalInv
  OBVIOUS
<1>1. disk = NoJournal /\ \A p \in Procs : own[p] = NoJournal /\ pc[p] \in {"idle", "over"}
  BY DEF Init
<1>2. QED
  BY <1>1 DEF JournalInv, JournalOf, NoJournal, Recovers, Popping

(* Every step keeps it.                                                    *)
LEMMA JournalStays == Inv /\ JournalInv /\ [Next]_vars => JournalInv'
<1> SUFFICES ASSUME Inv, JournalInv, [Next]_vars PROVE JournalInv'
  OBVIOUS
<1>1. my \in [Procs -> Memories] /\ pc \in [Procs -> PCs] /\ LockIsHeld
  BY DEF Inv, TypeOK
<1>2. ASSUME NEW p \in Procs,
             \/ Pop(p) \/ Restore(p) \/ Verify(p) \/ Drop(p) \/ Back(p) \/ Mark(p)
             \/ DropIntents(p)
      PROVE  JournalInv'
  <2>1. /\ Same(p) /\ pc[p] \in Popping /\ pc'[p] \in Popping /\ Others(p)
    BY <1>2, TaskStays, OthersStay
  <2>2. UNCHANGED <<disk, own, lock>>
    <3>1. CASE Pop(p)
      BY <3>1, Zenon DEF Pop
    <3>2. CASE Restore(p) \/ Back(p)
      BY <3>2 DEF Restore, Back
    <3>3. CASE Verify(p)
      BY <3>3 DEF Verify
    <3>4. CASE Drop(p) \/ Mark(p) \/ DropIntents(p)
      BY <3>4 DEF Drop, Mark, DropIntents
    <3>5. QED
      BY <1>2, <3>1, <3>2, <3>3, <3>4
  <2>3. QED
    BY <2>1, <2>2, JournalKept DEF Same, Recovers, Popping, NoEntry, First
<1>3. ASSUME NEW p \in Procs,
             \/ StoreIntents(p) \/ Unmark(p) \/ Remove(p) \/ Store(p) \/ Reset(p)
             \/ Rollback(p) \/ RollDrop(p) \/ Fix(p) \/ StepsEnd(p)
      PROVE  JournalInv'
  <2>1. /\ pc[p] \in Running /\ pc'[p] \notin NoEntry /\ ~Recovers(p)' /\ UNCHANGED lock
        /\ Others(p)
    BY <1>3, RunsGoOn, OthersStay
  <2>2. UNCHANGED <<disk, own>>
    BY <1>3 DEF StoreIntents, Unmark, Remove, Store, Reset, Rollback, RollDrop, Fix, StepsEnd
  <2>3. QED
    BY <2>1, <2>2, JournalKept DEF Running, NoEntry, First
<1>4. ASSUME NEW p \in Procs,
             Look(p) \/ Await(p) \/ Leave(p) \/ Status(p) \/ Queue(p) \/ Exit(p) \/ Crash(p)
      PROVE  JournalInv'
  <2>1. /\ pc'[p] \in {"status", "await", "reread", "steps", "queue", "stash", "over", "dead"}
        /\ pc[p] \notin {"over", "dead"} /\ UNCHANGED <<disk, own>>
        /\ lock' \in {lock, p, "none"}
    BY <1>1, <1>4 DEF Look, Await, Leave, Status, Queue, Exit, Crash, Goto, Alive
  <2>2. pc[p] \in NoEntry \/ (pc'[p] \in {"over", "dead"} /\ lock' \in {lock, "none"})
    BY <1>1, <1>4 DEF Look, Await, Leave, Status, Queue, Exit, Crash, Goto, NoEntry, First
  <2>3. own[p] # NoJournal => pc[p] \notin NoEntry
    BY DEF JournalInv, JournalOf
  <2>4. ~Recovers(p)' /\ Others(p)
    BY <1>4, <2>1, OthersStay DEF Recovers, Popping
  <2>5. lock' = p /\ lock' \in {lock, "none"} => lock = p
    BY StashOK
  <2>6. own[p] # NoJournal => pc'[p] \notin NoEntry /\ (lock' = p => lock = p)
    BY <2>2, <2>3, <2>5 DEF NoEntry, First
  <2>7. pc'[p] # "idle"
    BY <2>1
  <2>8. QED
    BY <2>1, <2>4, <2>6, <2>7, JournalKept
<1>5. ASSUME NEW p \in Procs, Stash(p) \/ Push(p) PROVE JournalInv'
  <2>1. /\ pc[p] \in Running /\ pc'[p] \notin NoEntry /\ ~Recovers(p)' /\ UNCHANGED lock
        /\ lock = p /\ Others(p)
    <3>1. pc[p] \in Holding
      BY <1>5 DEF Stash, Push, Holding
    <3>2. QED
      BY <1>1, <1>5, <3>1, RunsGoOn, OthersStay DEF LockIsHeld
  <2>2. EnsureJournal(p) \/ UNCHANGED <<disk, own>>
    BY <1>5 DEF Stash, Push
  <2>3. CASE EnsureJournal(p)
    BY <2>1, <2>3, JournalBegun DEF Running
  <2>4. CASE UNCHANGED <<disk, own>>
    BY <2>1, <2>4, JournalKept DEF Running, NoEntry, First
  <2>5. QED
    BY <2>2, <2>3, <2>4
<1>6. ASSUME NEW p \in Procs, RecordIntents(p) \/ Record(p) \/ RollForget(p) PROVE JournalInv'
  <2>1. /\ pc[p] \in Running /\ pc'[p] \notin NoEntry /\ ~Recovers(p)' /\ UNCHANGED lock
        /\ lock = p /\ Others(p)
    <3>1. pc[p] \in Holding
      BY <1>6 DEF RecordIntents, Record, RollForget, Holding
    <3>2. QED
      BY <1>1, <1>6, <3>1, RunsGoOn, OthersStay DEF LockIsHeld
  <2>2. \E S : JournalWrite(p, S)
    BY <1>6 DEF RecordIntents, Record, RollForget, JournalRecord, JournalForget
  <2>3. QED
    BY <2>1, <2>2, JournalWritten DEF Running
<1>7. ASSUME NEW p \in Procs, ForgetIntents(p) PROVE JournalInv'
  <2>1. /\ Same(p) /\ pc[p] \in Popping /\ pc'[p] \in Popping /\ Others(p)
    BY <1>7, TaskStays, OthersStay
  <2>2. lock = p /\ UNCHANGED lock /\ \E S : JournalWrite(p, S)
    BY <1>1, <1>7 DEF ForgetIntents, JournalForget, LockIsHeld, Holding
  <2>3. QED
    BY <2>1, <2>2, JournalWritten DEF Same, Recovers, Popping, NoEntry, First
<1>8. ASSUME NEW p \in Procs, Stashed(p) PROVE JournalInv'
  <2>1. /\ pc[p] \in Running /\ pc'[p] \notin NoEntry /\ ~Recovers(p)' /\ UNCHANGED lock
        /\ lock = p /\ Others(p)
    <3>1. pc[p] \in Holding
      BY <1>8 DEF Stashed, Holding
    <3>2. QED
      BY <1>1, <1>8, <3>1, RunsGoOn, OthersStay DEF LockIsHeld
  <2>2. JournalFinish(p) \/ UNCHANGED <<disk, own>>
    BY <1>8 DEF Stashed
  <2>3. CASE JournalFinish(p)
    BY <2>1, <2>3, JournalFinished DEF Running, NoEntry, First
  <2>4. CASE UNCHANGED <<disk, own>>
    BY <2>1, <2>4, JournalKept DEF Running, NoEntry, First
  <2>5. QED
    BY <2>2, <2>3, <2>4
<1>9. ASSUME NEW p \in Procs, Popped(p) PROVE JournalInv'
  <2>1. pc[p] = "popped" /\ lock = p /\ Others(p)
    BY <1>1, <1>9, OthersStay DEF Popped, LockIsHeld, Holding
  <2>2. my[p].task \in {"recover", "run", "abort"}
    BY <1>1 DEF Memories
  <2>3. CASE my[p].task = "recover"
    <3>1. own[p] = NoJournal
      BY <2>1, <2>3 DEF JournalInv, JournalOf, Recovers, Popping
    <3>2. UNCHANGED <<lock, own>> /\ disk' \in {disk, NoJournal} /\ pc'[p] = "leave"
      BY <1>1, <1>9, <2>3 DEF Popped, Goto
    <3>3. JournalOf(p)'
      BY <3>1, <3>2 DEF JournalOf, Recovers, Popping
    <3>4. ((disk' = NoJournal) <=> (disk'.owner = "none")) /\ (disk' # NoJournal => disk' = disk)
      BY <3>2 DEF JournalInv, NoJournal
    <3>5. QED
      BY <2>1, <3>2, <3>3, <3>4, JournalSteps
  <2>4. CASE my[p].task = "run"
    <3>1. lock' = "none" /\ pc'[p] = "exiting"
      BY <1>1, <1>9, <2>4 DEF Popped, Goto
    <3>2. JournalFinish(p) \/ UNCHANGED <<disk, own>>
      BY <1>9, <2>4 DEF Popped
    <3>3. ~Recovers(p)' /\ pc'[p] \notin NoEntry
      BY <3>1 DEF Recovers, Popping, NoEntry, First
    <3>4. CASE JournalFinish(p)
      BY <2>1, <3>1, <3>3, <3>4, JournalFinished
    <3>5. CASE UNCHANGED <<disk, own>>
      BY <2>1, <3>1, <3>3, <3>5, JournalKept
    <3>6. QED
      BY <3>2, <3>4, <3>5
  <2>5. CASE my[p].task = "abort"
    <3>1. lock' = "none" /\ pc'[p] = "exiting" /\ UNCHANGED <<disk, own>>
      BY <1>1, <1>9, <2>5 DEF Popped, Goto
    <3>2. ~Recovers(p)' /\ pc'[p] \notin NoEntry
      BY <3>1 DEF Recovers, Popping, NoEntry, First
    <3>3. QED
      BY <2>1, <3>1, <3>2, JournalKept
  <2>6. QED
    BY <2>2, <2>3, <2>4, <2>5
<1>10. ASSUME NEW p \in Procs, Reread(p) PROVE JournalInv'
  <2>1. /\ pc[p] = "reread" /\ lock = p /\ UNCHANGED <<lock, own>> /\ Others(p)
        /\ own[p] = NoJournal /\ pc'[p] \in {"leave", "pop"} /\ disk' \in {disk, NoJournal}
    <3>1. /\ pc[p] = "reread" /\ UNCHANGED <<lock, own>>
          /\ pc'[p] \in {"leave", "pop"} /\ disk' \in {disk, NoJournal}
      BY <1>1, <1>10 DEF Reread, DecideGone, DecideUnknown, Goto
    <3>2. QED
      BY <1>1, <1>10, <3>1, OthersStay DEF LockIsHeld, Holding, JournalInv, JournalOf, NoEntry,
         First
  <2>2. pc'[p] = "pop" => Owner(p) = "gone" /\ disk' = disk
    BY <1>1, <1>10 DEF Reread, DecideGone, DecideUnknown, Goto
  <2>3. Owner(p) = "gone" => disk # NoJournal /\ ~Alive(disk.owner)
    BY DEF Owner
  <2>4. disk # NoJournal => disk.owner \in Procs
    BY DEF Inv, TypeOK, Journals, JournalInv
  <2>5. pc'[p] = "pop" => disk' # NoJournal /\ pc'[disk'.owner] \in {"over", "dead"}
    BY <2>1, <2>2, <2>3, <2>4 DEF Alive, JournalInv, Others
  <2>6. JournalOf(p)'
    BY <2>1, <2>5 DEF JournalOf, Recovers, Popping
  <2>7. ((disk' = NoJournal) <=> (disk'.owner = "none")) /\ (disk' # NoJournal => disk' = disk)
    BY <2>1 DEF JournalInv, NoJournal
  <2>8. QED
    BY <2>1, <2>6, <2>7, JournalSteps
<1>11. ASSUME Edit \/ StageByHand \/ UNCHANGED vars PROVE JournalInv'
  <2>1. UNCHANGED <<disk, own, lock, pc, my>>
    BY <1>11 DEF Edit, StageByHand, vars
  <2>2. QED
    BY <2>1 DEF JournalInv, JournalOf, Recovers
<1>12. QED
  BY <1>2, <1>3, <1>4, <1>5, <1>6, <1>7, <1>8, <1>9, <1>10, <1>11 DEF Next, AllOver

(* The inductive invariant about the journal.                              *)
THEOREM JournalInvariance == Spec => []JournalInv
BY JournalBegins, JournalStays, StashInvariance, PTL DEF Spec

(* Nobody touches the journal of a process that it can see running.        *)
LEMMA OwnJournal ==
  ASSUME Inv, JournalInv, NEW p \in Procs,
         disk # NoJournal, disk' # disk, lock = p, pc'[p] # pc[p],
         own[p] # NoJournal \/ disk.owner = p
  PROVE  pc'[disk.owner] # pc[disk.owner]
BY DEF JournalInv, JournalOf

(* A step changes the journal of a process that runs if it is that          *)
(* process's own, or if it cannot see the process.                         *)
THEOREM LiveJournalsStay == Spec => LiveJournalUntouched
<1> DEFINE Ok == (disk # NoJournal /\ disk' # disk /\ Alive(disk.owner)) =>
                   \/ pc'[disk.owner] # pc[disk.owner]
                   \/ lock # "none" /\ scene.place[lock] # scene.place[disk.owner]
<1>1. ASSUME Inv, JournalInv, [Next]_vars PROVE Ok
  <2> SUFFICES ASSUME disk # NoJournal, disk' # disk, Alive(disk.owner)
               PROVE  \/ pc'[disk.owner] # pc[disk.owner]
                      \/ lock # "none" /\ scene.place[lock] # scene.place[disk.owner]
    OBVIOUS
  <2>1. my \in [Procs -> Memories] /\ pc \in [Procs -> PCs] /\ LockIsHeld
    BY <1>1 DEF Inv, TypeOK
  <2>2. PICK p \in Procs :
             \/ Reread(p) \/ ForgetIntents(p) \/ Popped(p) \/ Stash(p) \/ RecordIntents(p)
             \/ Push(p) \/ Record(p) \/ RollForget(p) \/ Stashed(p)
    <3>1. ASSUME NEW p \in Procs,
                 \/ Look(p) \/ Await(p) \/ Leave(p) \/ Pop(p) \/ Restore(p) \/ Verify(p)
                 \/ Drop(p) \/ Back(p) \/ Mark(p) \/ DropIntents(p) \/ Exit(p)
          PROVE  FALSE
      <4>1. CASE Pop(p)
        BY <4>1, Zenon DEF Pop
      <4>2. CASE Restore(p) \/ Back(p)
        BY <4>2 DEF Restore, Back
      <4>3. CASE Verify(p)
        BY <4>3 DEF Verify
      <4>4. CASE Look(p) \/ Await(p) \/ Leave(p) \/ Drop(p) \/ Mark(p) \/ DropIntents(p) \/ Exit(p)
        BY <4>4 DEF Look, Await, Leave, Drop, Mark, DropIntents, Exit
      <4>5. QED
        BY <3>1, <4>1, <4>2, <4>3, <4>4
    <3>2. ASSUME NEW p \in Procs,
                 \/ Status(p) \/ Queue(p) \/ StoreIntents(p) \/ Unmark(p) \/ Remove(p)
                 \/ Store(p) \/ Reset(p) \/ Rollback(p) \/ RollDrop(p) \/ Fix(p)
                 \/ StepsEnd(p) \/ Crash(p)
          PROVE  FALSE
      BY <3>2 DEF Status, Queue, StoreIntents, Unmark, Remove, Store, Reset, Rollback, RollDrop,
         Fix, StepsEnd, Crash
    <3>3. ~(Edit \/ StageByHand \/ UNCHANGED vars)
      BY DEF Edit, StageByHand, vars
    <3>4. QED
      BY <1>1, <3>1, <3>2, <3>3 DEF Next, AllOver
  <2>3. pc[p] \in Holding /\ lock = p
    <3>1. pc[p] \in Holding
      BY <2>2 DEF Reread, ForgetIntents, Popped, Stash, RecordIntents, Push, Record, RollForget,
         Stashed, Holding
    <3>2. QED
      BY <2>1, <3>1 DEF LockIsHeld
  <2>4. ASSUME NEW S, JournalWrite(p, S), pc'[p] # pc[p] PROVE pc'[disk.owner] # pc[disk.owner]
    BY <1>1, <2>3, <2>4, OwnJournal DEF JournalWrite
  <2>5. ASSUME JournalFinish(p), pc'[p] # pc[p] PROVE pc'[disk.owner] # pc[disk.owner]
    BY <1>1, <2>3, <2>5, OwnJournal DEF JournalFinish
  <2>6. CASE Stash(p) \/ Push(p)
    BY <2>6 DEF Stash, Push, EnsureJournal
  <2>7. CASE ForgetIntents(p) \/ RecordIntents(p) \/ Record(p) \/ RollForget(p)
    <3>1. \E S : JournalWrite(p, S)
      BY <2>7 DEF ForgetIntents, RecordIntents, Record, RollForget, JournalRecord, JournalForget
    <3>2. pc'[p] # pc[p]
      BY <2>1, <2>7 DEF ForgetIntents, RecordIntents, Record, RollForget, GiveUp, Goto
    <3>3. QED
      BY <2>4, <3>1, <3>2
  <2>8. CASE Stashed(p)
    <3>1. JournalFinish(p) /\ pc'[p] # pc[p]
      BY <2>1, <2>8 DEF Stashed, Goto
    <3>2. QED
      BY <2>5, <3>1
  <2>9. CASE Popped(p)
    <3>1. pc[p] = "popped" /\ pc'[p] # pc[p]
      BY <2>1, <2>9 DEF Popped, Goto, Memories
    <3>2. my[p].task # "recover"
      <4>1. my[p].task = "recover" => ~Alive(disk.owner)
        BY <1>1, <3>1 DEF JournalInv, JournalOf, Recovers, Popping, Alive
      <4>2. QED
        BY <4>1
    <3>3. my[p].task = "run" /\ JournalFinish(p)
      BY <2>1, <2>9, <3>2 DEF Popped, Memories
    <3>4. QED
      BY <2>5, <3>1, <3>3
  <2>10. CASE Reread(p)
    <3>1. Owner(p) # "gone" /\ Owner(p) # "nobody"
      BY DEF Owner
    <3>2. Owner(p) = "unknown"
      BY <2>10, <3>1 DEF Reread
    <3>3. scene.place[p] # scene.place[disk.owner]
      BY <3>2 DEF Owner
    <3>4. QED
      BY <2>3, <3>3, StashOK
  <2>11. QED
    BY <2>2, <2>6, <2>7, <2>8, <2>9, <2>10
<1>2. QED
  BY <1>1, StashInvariance, JournalInvariance, PTL DEF Spec, LiveJournalUntouched
-----------------------------------------------------------------------------
(* When no write fails: what p has in refs/hk/stash it remembers, and has   *)
(* put back when it says so; its journal goes with its run.                *)
NoneOf(p)      == <<p, "intent">> \notin refs /\ <<p, "unstaged">> \notin refs
HasIntents(p)  == <<p, "intent">> \in refs => my[p].intents = <<p, "intent">>
HasUnstaged(p) == <<p, "unstaged">> \in refs => my[p].stash = <<p, "unstaged">>
StepsWithLock(p)       == pc[p] = "steps" /\ lock = p
Owns(p)        == disk.owner = p => own[p] # NoJournal \/ pc[p] = "dead"
CleanOf(p) ==
  /\ Owns(p)
  /\ pc[p] = "steps" /\ lock # p => NoneOf(p) /\ own[p] = NoJournal
  /\ pc[p] \in {"unmark", "remove", "push", "store", "record", "reset", "stashed"} \/ StepsWithLock(p)
       => HasIntents(p)
  /\ pc[p] \in {"reset", "stashed"} \/ StepsWithLock(p) => HasUnstaged(p)
  /\ pc[p] \in Popping /\ my[p].task = "run" /\ ~my[p].bad =>
       /\ HasIntents(p)
       /\ pc[p] \in {"pop", "restore", "drop"} => HasUnstaged(p)
       /\ pc[p] \notin {"pop", "restore", "drop"} => <<p, "unstaged">> \notin refs
       /\ pc[p] \in {"forget_intents", "popped"} => <<p, "intent">> \notin refs
  /\ pc[p] \in {"exiting", "over"} /\ ~my[p].bad => NoneOf(p) /\ own[p] = NoJournal
  /\ pc[p] \in Popping /\ my[p].task = "abort" => my[p].bad
CleanInv == faults \in Nat /\ (faults = 0 => \A p \in Procs : CleanOf(p))

(* The journal is the process's own until it has finished it.              *)
LEMMA OwnsStay ==
  ASSUME Inv, JournalInv, NEW p \in Procs, Owns(p), pc[p] # "dead", NoFault,
         \/ UNCHANGED <<disk, own>> \/ EnsureJournal(p) \/ JournalFinish(p)
         \/ \E S : JournalWrite(p, S),
         faults = 0
  PROVE  Owns(p)'
<1>1. own \in [Procs -> Journals] /\ disk \in Journals /\ ~Fault
  BY DEF Inv, TypeOK, NoFault, Fault
<1>2. CASE UNCHANGED <<disk, own>>
  BY <1>2 DEF Owns
<1>3. CASE EnsureJournal(p)
  <2> DEFINE begun == [owner |-> p, before |-> refs, entries |-> {}]
  <2>1. begun # NoJournal
    BY StashOK DEF NoJournal
  <2>2. UNCHANGED <<disk, own>> \/ own' = [own EXCEPT ![p] = begun]
    BY <1>1, <1>3 DEF EnsureJournal
  <2> HIDE DEF begun
  <2>3. QED
    BY <1>1, <2>1, <2>2 DEF Owns
<1>4. CASE JournalFinish(p)
  <2>1. disk' = NoJournal \/ (disk' = disk /\ ~(own[p] # NoJournal /\ disk.owner = p))
    BY <1>1, <1>4 DEF JournalFinish
  <2>2. QED
    BY <2>1, StashOK DEF Owns, NoJournal
<1>5. ASSUME NEW S, JournalWrite(p, S) PROVE Owns(p)'
  <2> DEFINE new == [own[p] EXCEPT !.entries = S]
  <2>1. CASE own[p] = NoJournal
    BY <1>5, <2>1 DEF JournalWrite, Owns
  <2>2. CASE own[p] # NoJournal
    <3>1. own[p].owner = p
      BY <2>2 DEF JournalInv, JournalOf
    <3>2. new # NoJournal
      BY <1>1, <3>1, StashOK DEF Journals, NoJournal
    <3>3. own' = [own EXCEPT ![p] = new]
      BY <1>1, <1>5, <2>2 DEF JournalWrite
    <3> HIDE DEF new
    <3>4. QED
      BY <1>1, <3>2, <3>3 DEF Owns
  <2>3. QED
    BY <2>1, <2>2
<1>6. QED
  BY <1>2, <1>3, <1>4, <1>5

(* What a step of p's means for another process q: at most that its entries *)
(* or its journal go.                                                      *)
LEMMA OthersClean ==
  ASSUME NEW p \in Procs, NEW q \in Procs \ {p}, CleanOf(q), Others(p), own'[q] = own[q],
         \A k \in Kinds : <<q, k>> \notin refs => <<q, k>> \notin refs',
         (lock' = q) <=> (lock = q), disk'.owner = q => disk.owner = q
  PROVE  CleanOf(q)'
<1>1. pc'[q] = pc[q] /\ my'[q] = my[q]
  BY DEF Others
<1>2. (NoneOf(q) => NoneOf(q)') /\ (HasIntents(q) => HasIntents(q)')
      /\ (HasUnstaged(q) => HasUnstaged(q)') /\ (StepsWithLock(q)' <=> StepsWithLock(q)) /\ (Owns(q) => Owns(q)')
  BY <1>1 DEF NoneOf, HasIntents, HasUnstaged, StepsWithLock, Owns, Kinds
<1>3. QED
  BY <1>1, <1>2 DEF CleanOf, Kinds, Popping

(* A process that has made no entry.                                       *)
LEMMA NothingYet ==
  ASSUME Inv, JournalInv, NEW p \in Procs
  PROVE  /\ pc[p] \in NoEntry \cup {"stash", "store_intents"} => NoneOf(p)
         /\ pc[p] \in NoEntry => own[p] = NoJournal
         /\ pc[p] \in {"record_intents", "unmark", "remove", "push", "store"} =>
              <<p, "unstaged">> \notin refs
BY DEF Inv, ProcInv, Before, NoEntry, NoneOf, Kinds, JournalInv, JournalOf

(* Steps before a run has the lock, and after it gave it back.             *)
LEMMA CleanOutside ==
  ASSUME Inv, JournalInv, NEW p \in Procs, CleanOf(p), faults = 0, NoFault
  PROVE  (\/ Look(p) \/ Await(p) \/ Reread(p) \/ Leave(p) \/ Status(p) \/ Queue(p)
          \/ StepsEnd(p) \/ Fix(p) \/ Exit(p) \/ Crash(p)) => CleanOf(p)'
<1>1. /\ my \in [Procs -> Memories] /\ pc \in [Procs -> PCs] /\ LockIsHeld /\ my[p] \in Memories
      /\ disk.owner = p => disk # NoJournal
  BY StashOK DEF Inv, TypeOK, NoJournal
<1>2. CASE Look(p) \/ Await(p) \/ Leave(p)
  <2>1. pc'[p] \in {"status", "await", "reread"} /\ UNCHANGED <<disk, own>> /\ pc[p] # "dead"
    BY <1>1, <1>2 DEF Look, Await, Leave, Goto
  <2>2. QED
    BY <2>1 DEF CleanOf, Owns, StepsWithLock, Popping
<1>3. CASE Reread(p)
  <2>1. pc'[p] \in {"leave", "pop"} /\ own' = own /\ disk' \in {disk, NoJournal}
        /\ pc[p] = "reread" /\ my'[p].task = "recover"
    <3>1. pc[p] = "reread" /\ own' = own /\ my[p].task = "recover"
      BY <1>3 DEF Reread, Inv, ProcInv, First
    <3>2. CASE DecideGone(p, disk)
      <4>1. pc'[p] \in {"leave", "pop"} /\ disk' \in {disk, NoJournal}
        BY <1>1, <3>2 DEF DecideGone, Goto
      <4>2. my' = my \/ \E s, i : my' = [my EXCEPT ![p] = [my[p] EXCEPT !.stash = s, !.intents = i]]
        BY <3>2 DEF DecideGone, Know
      <4>3. my'[p].task = "recover"
        <5>1. CASE my' = my
          BY <3>1, <5>1
        <5>2. ASSUME NEW s, NEW i, my' = [my EXCEPT ![p] = [my[p] EXCEPT !.stash = s, !.intents = i]]
              PROVE  my'[p].task = "recover"
          <6>1. my'[p] = [my[p] EXCEPT !.stash = s, !.intents = i]
            BY <1>1, <5>2
          <6>2. QED
            BY <1>1, <3>1, <6>1 DEF Memories
        <5>3. QED
          BY <4>2, <5>1, <5>2
      <4>4. QED
        BY <3>1, <4>1, <4>3
    <3>3. CASE DecideUnknown(p, disk) \/ (Goto(p, "leave") /\ UNCHANGED <<disk, my, told>>)
      BY <1>1, <3>1, <3>3 DEF DecideUnknown, Goto
    <3>4. QED
      BY <1>3, <3>2, <3>3 DEF Reread
  <2>2. QED
    BY <2>1, StashOK DEF CleanOf, Owns, StepsWithLock, Popping, NoJournal
<1>4. CASE Status(p) \/ Queue(p)
  <2>1. pc[p] \in NoEntry /\ pc[p] # "dead" /\ pc[p] \notin Holding \cup {"steps"}
    BY <1>4 DEF Status, Queue, NoEntry, Holding
  <2>2. NoneOf(p) /\ own[p] = NoJournal /\ lock # p
    BY <1>1, <2>1, NothingYet DEF LockIsHeld
  <2>3. UNCHANGED <<disk, own, refs>> /\ pc'[p] \in {"steps", "queue", "stash", "over"}
        /\ (pc'[p] = "steps" => UNCHANGED lock)
    BY <1>1, <1>4 DEF Status, Queue, Goto, refVars
  <2>4. QED
    BY <2>1, <2>2, <2>3 DEF CleanOf, Owns, StepsWithLock, Popping, NoneOf
<1>5. CASE StepsEnd(p)
  <2>1. /\ pc[p] = "steps" /\ UNCHANGED <<disk, own, refs, my, lock>>
        /\ pc'[p] = IF lock = p THEN "pop" ELSE "over"
    BY <1>1, <1>5 DEF StepsEnd, Goto, refVars
  <2>2. my[p].task = "run"
    BY <2>1 DEF Inv, ProcInv, Running
  <2>3. QED
    BY <2>1, <2>2 DEF CleanOf, Owns, StepsWithLock, Popping, NoneOf, HasIntents, HasUnstaged
<1>6. CASE Fix(p)
  <2>1. UNCHANGED <<disk, own, refs, my, lock, pc>>
    BY <1>6 DEF Fix, refVars
  <2>2. QED
    BY <2>1 DEF CleanOf, Owns, StepsWithLock, Popping, NoneOf, HasIntents, HasUnstaged
<1>7. CASE Exit(p)
  <2>1. /\ pc[p] = "exiting" /\ pc'[p] = "over" /\ my'[p].bad = my[p].bad
        /\ UNCHANGED <<disk, own, refs>>
    BY <1>1, <1>7 DEF Exit, Goto, Know, Fresh, refVars
  <2>2. QED
    BY <2>1 DEF CleanOf, Owns, StepsWithLock, Popping, NoneOf
<1>8. CASE Crash(p)
  <2>1. pc'[p] = "dead"
    BY <1>1, <1>8 DEF Crash, Goto
  <2>2. QED
    BY <2>1 DEF CleanOf, Owns, StepsWithLock, Popping
<1>9. QED
  BY <1>2, <1>3, <1>4, <1>5, <1>6, <1>7, <1>8

(* Stashing: what a process sets aside it remembers.                       *)
LEMMA CleanStashing ==
  ASSUME Inv, JournalInv, NEW p \in Procs, CleanOf(p), faults = 0, NoFault
  PROVE  (\/ Stash(p) \/ StoreIntents(p) \/ RecordIntents(p) \/ Unmark(p) \/ Remove(p)
          \/ Push(p) \/ Store(p) \/ Record(p) \/ Reset(p) \/ Rollback(p) \/ RollDrop(p)
          \/ RollForget(p) \/ Stashed(p)) => CleanOf(p)'
<1>1. /\ my \in [Procs -> Memories] /\ pc \in [Procs -> PCs] /\ LockIsHeld /\ my[p] \in Memories
      /\ own \in [Procs -> Journals] /\ ~Fault
  BY DEF Inv, TypeOK, NoFault, Fault
<1>2. ASSUME NEW r \in Memories, GiveUp(p, r), Owns(p)' PROVE CleanOf(p)'
  <2>1. pc'[p] = "back" /\ my'[p].task = "abort"
    BY <1>1, <1>2, GivesUp
  <2>2. my'[p].bad
    BY <1>1, <1>2 DEF GiveUp, Know, Bad, Memories
  <2>3. QED
    BY <1>2, <2>1, <2>2 DEF CleanOf, StepsWithLock, Popping
<1>3. CASE Stash(p)
  <2>1. /\ pc[p] = "stash" /\ pc'[p] \in {"push", "store_intents"} /\ refs' = refs
        /\ UNCHANGED <<disk, own>> \/ EnsureJournal(p)
    BY <1>1, <1>3 DEF Stash, Goto, refVars
  <2>2. Owns(p)'
    BY <2>1, OwnsStay DEF CleanOf
  <2>3. NoneOf(p)
    BY <2>1, NothingYet
  <2>4. QED
    BY <2>1, <2>2, <2>3 DEF CleanOf, StepsWithLock, Popping, NoneOf, HasIntents
<1>4. CASE StoreIntents(p)
  <2>1. pc[p] = "store_intents" /\ UNCHANGED <<disk, own>>
    BY <1>4 DEF StoreIntents
  <2>2. Owns(p)'
    BY <2>1, OwnsStay DEF CleanOf
  <2>3. CASE GiveUp(p, my[p])
    BY <1>1, <1>2, <2>2, <2>3
  <2>4. CASE Goto(p, "record_intents")
    BY <1>1, <2>2, <2>4 DEF Goto, CleanOf, StepsWithLock, Popping
  <2>5. QED
    BY <1>4, <2>3, <2>4 DEF StoreIntents
<1>5. CASE RecordIntents(p)
  <2>1. /\ pc[p] = "record_intents" /\ pc'[p] = "unmark" /\ refs' = refs
        /\ my'[p].intents = <<p, "intent">>
        /\ \E S : JournalWrite(p, S)
    BY <1>1, <1>5 DEF RecordIntents, Goto, Know, Memories, JournalRecord, refVars
  <2>2. Owns(p)'
    BY <2>1, OwnsStay DEF CleanOf
  <2>3. QED
    BY <2>1, <2>2 DEF CleanOf, StepsWithLock, Popping, HasIntents
<1>6. CASE Unmark(p) \/ Remove(p)
  <2>1. /\ pc[p] \in {"unmark", "remove"} /\ UNCHANGED <<disk, own, refs>>
    BY <1>6 DEF Unmark, Remove, refVars
  <2>2. Owns(p)' /\ <<p, "unstaged">> \notin refs
    BY <2>1, OwnsStay, NothingYet DEF CleanOf
  <2>3. CASE GiveUp(p, [my[p] EXCEPT !.set_aside = FALSE])
    BY <1>1, <1>2, <2>2, <2>3, Forgotten
  <2>4. CASE ~GiveUp(p, [my[p] EXCEPT !.set_aside = FALSE])
    <3>1. pc'[p] \in {"remove", "stashed", "push"} /\ my'[p].intents = my[p].intents
      <4>1. CASE Unmark(p)
        BY <1>1, <2>4, <4>1 DEF Unmark, Goto, Know, Memories
      <4>2. CASE Remove(p)
        <5>1. \/ Goto(p, IF my[p].seen = my[p].intent THEN "stashed" ELSE "push") /\ my' = my
              \/ pc' = pc /\ pc[p] = "remove" /\ \E T : Know(p, [my[p] EXCEPT !.todo = T])
          BY <2>4, <4>2, Zenon DEF Remove
        <5>2. QED
          BY <1>1, <5>1 DEF Goto, Know, Memories
      <4>3. QED
        BY <1>6, <4>1, <4>2
    <3>2. QED
      BY <2>1, <2>2, <3>1 DEF CleanOf, StepsWithLock, Popping, HasIntents, HasUnstaged
  <2>5. QED
    BY <2>3, <2>4
<1>7. CASE Push(p)
  <2>1. pc[p] = "push" /\ pc'[p] = "store" /\ UNCHANGED <<refs, my>> /\ EnsureJournal(p)
    BY <1>1, <1>7 DEF Push, Goto, refVars
  <2>2. Owns(p)'
    BY <2>1, OwnsStay DEF CleanOf
  <2>3. QED
    BY <2>1, <2>2 DEF CleanOf, StepsWithLock, Popping, HasIntents
<1>8. CASE Store(p)
  <2>1. pc[p] = "store" /\ UNCHANGED <<disk, own, my>> /\ pc'[p] \in {"record", "stashed"}
    BY <1>1, <1>8 DEF Store, Goto
  <2>2. Owns(p)' /\ <<p, "unstaged">> \notin refs
    BY <2>1, OwnsStay, NothingYet DEF CleanOf
  <2>3. /\ <<p, "intent">> \in refs' => <<p, "intent">> \in refs
        /\ pc'[p] = "stashed" => refs' = refs
    BY <1>1, <1>8 DEF Store, StoreEntry, Goto, refVars
  <2>4. QED
    BY <2>1, <2>2, <2>3 DEF CleanOf, StepsWithLock, Popping, HasIntents, HasUnstaged
<1>9. CASE Record(p)
  <2>1. /\ pc[p] = "record" /\ pc'[p] = "reset" /\ refs' = refs
        /\ my'[p].stash = <<p, "unstaged">> /\ my'[p].intents = my[p].intents
        /\ \E S : JournalWrite(p, S)
    BY <1>1, <1>9 DEF Record, Goto, Know, Memories, JournalRecord, refVars
  <2>2. Owns(p)'
    BY <2>1, OwnsStay DEF CleanOf
  <2>3. QED
    BY <2>1, <2>2 DEF CleanOf, StepsWithLock, Popping, HasIntents, HasUnstaged
<1>10. CASE Reset(p)
  <2>1. /\ pc[p] = "reset" /\ UNCHANGED <<disk, own, refs>> /\ pc'[p] \in {"reset", "stashed"}
        /\ my'[p].stash = my[p].stash /\ my'[p].intents = my[p].intents
    BY <1>1, <1>10 DEF Reset, Goto, Know, Memories, refVars
  <2>2. Owns(p)'
    BY <2>1, OwnsStay DEF CleanOf
  <2>3. QED
    BY <2>1, <2>2 DEF CleanOf, StepsWithLock, Popping, HasIntents, HasUnstaged
<1>11. CASE Rollback(p) \/ RollDrop(p)
  <2>1. pc[p] \in {"rollback", "roll_drop"} /\ UNCHANGED <<disk, own>>
    BY <1>11 DEF Rollback, RollDrop
  <2>2. Owns(p)'
    BY <2>1, OwnsStay DEF CleanOf
  <2>3. CASE GiveUp(p, [my[p] EXCEPT !.stash = None])
    BY <1>1, <1>2, <2>2, <2>3, Forgotten
  <2>4. CASE ~GiveUp(p, [my[p] EXCEPT !.stash = None])
    <3>1. pc'[p] \in {"roll_drop", "roll_forget"}
      BY <1>1, <1>11, <2>4 DEF Rollback, RollDrop, Goto
    <3>2. QED
      BY <2>2, <3>1 DEF CleanOf, StepsWithLock, Popping
  <2>5. QED
    BY <2>3, <2>4
<1>12. CASE RollForget(p)
  <2>1. pc[p] = "roll_forget" /\ (\E S : JournalWrite(p, S))
        /\ GiveUp(p, [my[p] EXCEPT !.stash = None])
    BY <1>12 DEF RollForget, JournalForget
  <2>2. Owns(p)'
    BY <2>1, OwnsStay DEF CleanOf
  <2>3. QED
    BY <1>1, <1>2, <2>1, <2>2, Forgotten
<1>13. CASE Stashed(p)
  <2>1. /\ pc[p] = "stashed" /\ pc'[p] = "steps" /\ UNCHANGED <<refs, lock>>
        /\ my'[p].stash = my[p].stash /\ my'[p].intents = my[p].intents
        /\ UNCHANGED <<disk, own>> \/ JournalFinish(p)
    BY <1>1, <1>13 DEF Stashed, Goto, Know, Memories, refVars
  <2>2. Owns(p)' /\ lock = p
    BY <1>1, <2>1, OwnsStay DEF CleanOf, LockIsHeld, Holding
  <2>3. QED
    BY <2>1, <2>2 DEF CleanOf, StepsWithLock, Popping, HasIntents, HasUnstaged
<1>14. QED
  BY <1>3, <1>4, <1>5, <1>6, <1>7, <1>8, <1>9, <1>10, <1>11, <1>12, <1>13

(* Putting back: what it does not put back is told.                        *)
LEMMA CleanPopping ==
  ASSUME Inv, JournalInv, NEW p \in Procs, CleanOf(p), faults = 0, NoFault
  PROVE  (\/ Pop(p) \/ Restore(p) \/ Verify(p) \/ Drop(p) \/ Back(p) \/ Mark(p)
          \/ DropIntents(p) \/ ForgetIntents(p) \/ Popped(p)) => CleanOf(p)'
<1>1. /\ my \in [Procs -> Memories] /\ pc \in [Procs -> PCs] /\ LockIsHeld /\ my[p] \in Memories
      /\ ~Fault /\ p # "none"
  BY StashOK DEF Inv, TypeOK, NoFault, Fault
<1> DEFINE U == <<p, "unstaged">>
           I == <<p, "intent">>
           Ran == my'[p].task = "run" /\ ~my'[p].bad
<1>2. U # None /\ I # None
  BY <1>1 DEF None
<1> HIDE DEF U, I, Ran
<1>3. ASSUME pc[p] \in Popping, Same(p), pc'[p] \in Popping, Owns(p)', refs' \subseteq refs,
             (Ran /\ I \in refs => my[p].intents = I) =>
               (Ran /\ pc'[p] \in {"forget_intents", "popped"} => I \notin refs'),
             (Ran /\ U \in refs => my[p].stash = U
                  /\ pc[p] \in {"pop", "restore", "drop"}) =>
               (Ran /\ pc'[p] \notin {"pop", "restore", "drop"} => U \notin refs')
      PROVE  CleanOf(p)'
  <2>1. Ran => my[p].task = "run" /\ ~my[p].bad
    BY <1>3 DEF Same, Ran
  <2>2. my'[p].task = "abort" => my'[p].bad
    BY <1>1, <1>3 DEF Same, CleanOf, Memories
  <2>3. Ran => HasIntents(p)'
    BY <1>3, <2>1 DEF CleanOf, HasIntents, Same
  <2>4. Ran /\ I \in refs => my[p].intents = I
    BY <1>3, <2>1 DEF CleanOf, HasIntents, I
  <2>5. Ran /\ U \in refs => my[p].stash = U /\ pc[p] \in {"pop", "restore", "drop"}
    BY <1>3, <2>1 DEF CleanOf, HasUnstaged, U
  <2>6. Ran => HasUnstaged(p)'
    BY <1>3, <2>5 DEF HasUnstaged, Same, U
  <2>7. QED
    BY <1>3, <2>2, <2>3, <2>4, <2>5, <2>6 DEF CleanOf, Ran, U, I, StepsWithLock, Popping
<1>4. ASSUME \/ Pop(p) \/ Restore(p) \/ Verify(p) \/ Drop(p) \/ Back(p) \/ Mark(p)
             \/ DropIntents(p) \/ ForgetIntents(p)
      PROVE  Same(p) /\ pc[p] \in Popping /\ pc'[p] \in Popping /\ pc[p] # "dead"
  BY <1>4, TaskStays DEF Popping
<1>5. ASSUME pc[p] # "dead", UNCHANGED <<disk, own>> PROVE Owns(p)'
  BY <1>5, OwnsStay DEF CleanOf
<1>6. CASE Pop(p)
  <2>1. UNCHANGED <<disk, own, refs>> /\ pc[p] = "pop"
    BY <1>6, Zenon DEF Pop, refVars
  <2>2. /\ pc'[p] = "back" => my[p].stash = None \/ Ran = FALSE
        /\ pc'[p] \in {"back", "restore"}
    <3>1. \/ my[p].stash = None /\ Goto(p, "back")
          \/ Goto(p, "restore")
          \/ Know(p, Bad(my[p])) /\ Goto(p, "back")
      BY <1>6, Zenon DEF Pop
    <3>2. Know(p, Bad(my[p])) => Ran = FALSE
      BY <1>1 DEF Know, Bad, Ran, Memories
    <3>3. QED
      BY <1>1, <3>1, <3>2 DEF Goto
  <2>3. QED
    BY <1>2, <1>3, <1>4, <1>5, <1>6, <2>1, <2>2
<1>7. CASE Restore(p)
  <2>1. UNCHANGED <<disk, own, refs, pc>> /\ pc[p] = "restore"
    BY <1>7 DEF Restore, refVars
  <2>2. QED
    BY <1>3, <1>4, <1>5, <1>7, <2>1
<1>8. CASE Verify(p)
  <2>1. UNCHANGED <<disk, own, refs>> /\ pc[p] = "restore"
    BY <1>8 DEF Verify, refVars
  <2>2. pc'[p] = "drop" \/ (pc'[p] = "back" /\ ~Ran)
    BY <1>1, <1>8 DEF Verify, Goto, Know, Ran, Memories
  <2>3. QED
    BY <1>3, <1>4, <1>5, <1>8, <2>1, <2>2
<1>9. CASE Drop(p)
  <2>1. UNCHANGED <<disk, own>> /\ pc[p] = "drop" /\ pc'[p] = "back" /\ refs' = refs \ {my[p].stash}
    BY <1>1, <1>9 DEF Drop, Goto, DropEntry
  <2>2. QED
    BY <1>3, <1>4, <1>5, <1>9, <2>1
<1>10. CASE Back(p)
  <2>1. /\ UNCHANGED <<disk, own, refs>> /\ pc[p] = "back"
        /\ pc'[p] = "mark" \/ (pc'[p] = "popped" /\ my[p].intents = None)
    BY <1>1, <1>10 DEF Back, Goto, refVars
  <2>2. QED
    BY <1>2, <1>3, <1>4, <1>5, <1>10, <2>1
<1>11. CASE Mark(p)
  <2>1. UNCHANGED <<disk, own, refs>> /\ pc[p] = "mark"
    BY <1>11 DEF Mark, refVars
  <2>2. pc'[p] = "drop_intents" \/ (pc'[p] = "popped" /\ ~Ran)
    <3> DEFINE keep == my[p].set_aside /\ my[p].touched # {}
    <3>1. CASE /\ Know(p, [my[p] EXCEPT !.bad = @ \/ keep, !.touched = {}])
               /\ Goto(p, IF keep THEN "popped" ELSE "drop_intents")
      BY <1>1, <3>1 DEF Goto, Know, Ran, Memories
    <3>2. QED
      BY <1>1, <1>11, <3>1 DEF Mark
  <2>3. QED
    BY <1>3, <1>4, <1>5, <1>11, <2>1, <2>2
<1>12. CASE DropIntents(p)
  <2>1. /\ UNCHANGED <<disk, own>> /\ pc[p] = "drop_intents" /\ refs' = refs \ {my[p].intents}
        /\ pc'[p] \in {"popped", "forget_intents"}
    BY <1>1, <1>12 DEF DropIntents, Goto, DropEntry
  <2>2. QED
    BY <1>3, <1>4, <1>5, <1>12, <2>1
<1>13. CASE ForgetIntents(p)
  <2>1. /\ refs' = refs /\ pc[p] = "forget_intents" /\ pc'[p] = "popped"
        /\ \E S : JournalWrite(p, S)
    BY <1>1, <1>13 DEF ForgetIntents, Goto, JournalForget, refVars
  <2>2. Owns(p)'
    BY <2>1, OwnsStay DEF CleanOf
  <2>3. (Ran => my[p].task = "run" /\ ~my[p].bad) /\ (Ran => I \notin refs)
    BY <1>4, <1>13, <2>1 DEF Same, Ran, CleanOf, I
  <2>4. QED
    BY <1>3, <1>4, <1>13, <2>1, <2>2, <2>3
<1>14. CASE Popped(p)
  <2>1. pc[p] = "popped" /\ refs' = refs /\ my' = my /\ my[p].task \in {"recover", "run", "abort"}
    BY <1>1, <1>14 DEF Popped, refVars, Memories
  <2>2. CASE my[p].task = "recover"
    <3>1. own' = own /\ disk' \in {disk, NoJournal} /\ pc'[p] = "leave"
      BY <1>1, <1>14, <2>2 DEF Popped, Goto
    <3>2. QED
      BY <1>1, <2>1, <3>1 DEF CleanOf, Owns, StepsWithLock, Popping, NoJournal
  <2>3. CASE my[p].task = "run"
    <3>1. /\ pc'[p] = "exiting" /\ (UNCHANGED <<disk, own>> \/ JournalFinish(p))
          /\ ~my[p].bad => JournalFinish(p)
      BY <1>1, <1>14, <2>3 DEF Popped, Goto
    <3>2. Owns(p)'
      BY <2>1, <3>1, OwnsStay DEF CleanOf
    <3>3. JournalFinish(p) => own'[p] = NoJournal
      BY DEF Inv, TypeOK, JournalFinish
    <3>4. ~my[p].bad => NoneOf(p)
      BY <2>1, <2>3 DEF CleanOf, Popping, NoneOf
    <3>5. QED
      BY <2>1, <3>1, <3>2, <3>3, <3>4 DEF CleanOf, StepsWithLock, Popping, NoneOf
  <2>4. CASE my[p].task = "abort"
    <3>1. pc'[p] = "exiting" /\ UNCHANGED <<disk, own>> /\ my[p].bad
      BY <1>1, <1>14, <2>1, <2>4 DEF Popped, Goto, CleanOf, Popping
    <3>2. Owns(p)'
      BY <1>5, <2>1, <3>1
    <3>3. QED
      BY <2>1, <3>1, <3>2 DEF CleanOf, StepsWithLock, Popping
  <2>5. QED
    BY <2>1, <2>2, <2>3, <2>4
<1>15. QED
  BY <1>6, <1>7, <1>8, <1>9, <1>10, <1>11, <1>12, <1>13, <1>14

(* The invariant about runs without faults holds at the start.              *)
LEMMA CleanBegins == Init => CleanInv
<1> SUFFICES ASSUME Init, NEW p \in Procs PROVE CleanOf(p)
  BY DEF Init, CleanInv
<1>1. disk = NoJournal /\ own[p] = NoJournal /\ pc[p] \in {"idle", "over"} /\ refs = {}
  BY DEF Init
<1>2. QED
  BY <1>1, StashOK DEF CleanOf, Owns, StepsWithLock, Popping, NoneOf, NoJournal

(* A step of a process's leaves the lock, the journals and the entries of   *)
(* the others, but for an entry that it puts back.                         *)
LEMMA OthersKeep ==
  ASSUME Inv, JournalInv, NEW p \in Procs, NEW q \in Procs \ {p}
  PROVE  (\/ Look(p) \/ Await(p) \/ Reread(p) \/ Leave(p) \/ Pop(p) \/ Restore(p) \/ Verify(p)
          \/ Drop(p) \/ Back(p) \/ Mark(p) \/ DropIntents(p) \/ ForgetIntents(p)
          \/ Popped(p) \/ Exit(p) \/ Status(p) \/ Queue(p) \/ Stash(p)
          \/ StoreIntents(p) \/ RecordIntents(p) \/ Unmark(p) \/ Remove(p)
          \/ Push(p) \/ Store(p) \/ Record(p) \/ Reset(p) \/ Rollback(p)
          \/ RollDrop(p) \/ RollForget(p) \/ Stashed(p) \/ Fix(p) \/ StepsEnd(p)
          \/ Crash(p)) =>
           /\ own'[q] = own[q] /\ (disk'.owner = q => disk.owner = q)
           /\ (lock' = q) <=> (lock = q)
           /\ \A k \in Kinds : <<q, k>> \notin refs => <<q, k>> \notin refs'
<1>1. /\ own \in [Procs -> Journals] /\ LockIsHeld /\ my \in [Procs -> Memories]
      /\ q # "none" /\ p # q /\ NoJournal.owner # q
      /\ own[p] # NoJournal => own[p].owner = p
  BY StashOK DEF Inv, TypeOK, NoJournal, JournalInv, JournalOf
<1> DEFINE Good == /\ own'[q] = own[q] /\ (disk'.owner = q => disk.owner = q)
                   /\ (lock' = q) <=> (lock = q)
                   /\ \A k \in Kinds : <<q, k>> \notin refs => <<q, k>> \notin refs'
<1>2. ASSUME NEW S, JournalWrite(p, S) PROVE own'[q] = own[q] /\ (disk'.owner = q => disk.owner = q)
  <2> DEFINE new == [own[p] EXCEPT !.entries = S]
  <2>1. CASE own[p] = NoJournal
    BY <1>2, <2>1 DEF JournalWrite
  <2>2. CASE own[p] # NoJournal
    <3>1. new.owner = p
      BY <1>1, <2>2 DEF Journals
    <3>2. disk' \in {disk, new} /\ own' \in {own, [own EXCEPT ![p] = new]}
      BY <1>2, <2>2 DEF JournalWrite
    <3> HIDE DEF new
    <3>3. QED
      BY <1>1, <3>1, <3>2
  <2>3. QED
    BY <2>1, <2>2
<1>3. ASSUME EnsureJournal(p) PROVE own'[q] = own[q] /\ (disk'.owner = q => disk.owner = q)
  <2> DEFINE begun == [owner |-> p, before |-> refs, entries |-> {}]
  <2>1. disk' \in {disk, begun} /\ own' \in {own, [own EXCEPT ![p] = begun]}
    BY <1>3 DEF EnsureJournal
  <2>2. begun.owner = p
    OBVIOUS
  <2> HIDE DEF begun
  <2>3. QED
    BY <1>1, <2>1, <2>2
<1>4. ASSUME JournalFinish(p) PROVE own'[q] = own[q] /\ (disk'.owner = q => disk.owner = q)
  BY <1>1, <1>4 DEF JournalFinish
<1>5. ASSUME Look(p) \/ Leave(p) \/ Exit(p) \/ Status(p) \/ Fix(p) \/ StepsEnd(p) \/ Crash(p)
             \/ Await(p) \/ Queue(p)
      PROVE  Good
  BY <1>1, <1>5 DEF Look, Leave, Exit, Status, Fix, StepsEnd, Crash, Await, Queue, refVars,
     LockIsHeld, Holding
<1>6. ASSUME Pop(p) PROVE Good
  <2>1. UNCHANGED <<disk, own, lock, refs>>
    BY <1>6, Zenon DEF Pop, refVars
  <2>2. QED
    BY <2>1
<1>7. ASSUME Restore(p) \/ Verify(p) \/ Back(p) \/ Mark(p) PROVE Good
  <2>1. UNCHANGED <<disk, own, lock, refs>>
    <3>1. CASE Restore(p) \/ Back(p)
      BY <3>1 DEF Restore, Back, refVars
    <3>2. CASE Verify(p) \/ Mark(p)
      BY <3>2 DEF Verify, Mark, refVars
    <3>3. QED
      BY <1>7, <3>1, <3>2
  <2>2. QED
    BY <2>1
<1>8. ASSUME Drop(p) \/ DropIntents(p) \/ RollDrop(p) PROVE Good
  BY <1>8 DEF Drop, DropIntents, RollDrop, DropEntry, refVars
<1>9. ASSUME Unmark(p) \/ Remove(p) \/ Reset(p) \/ Rollback(p) PROVE Good
  BY <1>9 DEF Unmark, Remove, Reset, Rollback, refVars
<1>10. ASSUME StoreIntents(p) \/ Store(p) PROVE Good
  <2>1. UNCHANGED <<disk, own, lock>>
    BY <1>10 DEF StoreIntents, Store
  <2>2. refs' = refs \/ \E k : refs' = refs \cup {<<p, k>>}
    BY <1>10 DEF StoreIntents, Store, StoreEntry, refVars
  <2>3. QED
    BY <1>1, <2>1, <2>2
<1>11. ASSUME ForgetIntents(p) \/ RecordIntents(p) \/ Record(p) \/ RollForget(p) PROVE Good
  <2>1. UNCHANGED <<refs, lock>> /\ \E S : JournalWrite(p, S)
    BY <1>11 DEF ForgetIntents, RecordIntents, Record, RollForget, JournalRecord, JournalForget,
       refVars
  <2>2. QED
    BY <1>2, <2>1
<1>12. ASSUME Stash(p) \/ Push(p) \/ Stashed(p) PROVE Good
  <2>1. UNCHANGED <<refs, lock>>
        /\ (EnsureJournal(p) \/ JournalFinish(p) \/ UNCHANGED <<disk, own>>)
    BY <1>12 DEF Stash, Push, Stashed, refVars
  <2>2. QED
    BY <1>3, <1>4, <2>1
<1>13. ASSUME Reread(p) PROVE Good
  <2>1. UNCHANGED <<refs, lock, own>> /\ disk' \in {disk, NoJournal}
    BY <1>13 DEF Reread, DecideGone, DecideUnknown, refVars
  <2>2. QED
    BY <1>1, <2>1
<1>14. ASSUME Popped(p) PROVE Good
  <2>1. refs' = refs /\ lock = p /\ my[p].task \in {"recover", "run", "abort"}
    BY <1>1, <1>14 DEF Popped, refVars, LockIsHeld, Holding, Memories
  <2>2. lock' \in {lock, "none"}
    BY <1>14, <2>1 DEF Popped
  <2>3. JournalFinish(p) \/ (own' = own /\ disk' \in {disk, NoJournal})
    BY <1>14, <2>1 DEF Popped
  <2>4. QED
    BY <1>1, <1>4, <2>1, <2>2, <2>3
<1>15. QED
  BY <1>5, <1>6, <1>7, <1>8, <1>9, <1>10, <1>11, <1>12, <1>13, <1>14

(* A step has a fault or none.                                             *)
LEMMA FaultsAreCounted ==
  ASSUME Inv, [Next]_vars
  PROVE  NoFault \/ Fault
<1>1. my \in [Procs -> Memories]
  BY DEF Inv, TypeOK
<1>2. CASE Edit \/ StageByHand \/ UNCHANGED vars
  BY <1>2 DEF Edit, StageByHand, vars, NoFault
<1>3. ASSUME NEW p \in Procs,
             \/ Look(p) \/ Await(p) \/ Reread(p) \/ Leave(p) \/ Verify(p) \/ Exit(p)
             \/ Status(p) \/ Queue(p) \/ Fix(p) \/ StepsEnd(p) \/ Crash(p)
      PROVE  NoFault
  BY <1>3 DEF Look, Await, Reread, Leave, Verify, Exit, Status, Queue, Fix, StepsEnd, Crash,
     NoFault
<1>4. ASSUME NEW p \in Procs, Pop(p) PROVE NoFault \/ Fault
  BY <1>4, Zenon DEF Pop
<1>5. ASSUME NEW p \in Procs, Restore(p) \/ Back(p) \/ Mark(p) PROVE NoFault \/ Fault
  <2>1. CASE Restore(p)
    BY <2>1, Zenon DEF Restore
  <2>2. CASE Back(p)
    BY <2>2, Zenon DEF Back
  <2>3. CASE Mark(p)
    BY <2>3, Zenon DEF Mark
  <2>4. QED
    BY <1>5, <2>1, <2>2, <2>3
<1>6. ASSUME NEW p \in Procs,
             \/ Drop(p) \/ DropIntents(p) \/ RollDrop(p) \/ StoreIntents(p) \/ Store(p)
             \/ Unmark(p) \/ Remove(p) \/ Reset(p) \/ Rollback(p)
      PROVE  NoFault \/ Fault
  <2>1. CASE Drop(p) \/ DropIntents(p) \/ RollDrop(p)
    BY <2>1 DEF Drop, DropIntents, RollDrop, DropEntry
  <2>2. CASE StoreIntents(p) \/ Store(p)
    BY <2>2 DEF StoreIntents, Store
  <2>3. CASE Unmark(p) \/ Remove(p) \/ Reset(p) \/ Rollback(p)
    BY <2>3 DEF Unmark, Remove, Reset, Rollback
  <2>4. QED
    BY <1>6, <2>1, <2>2, <2>3
<1>7. ASSUME NEW p \in Procs,
             \/ Stash(p) \/ Push(p) \/ RecordIntents(p) \/ Record(p) \/ RollForget(p)
             \/ ForgetIntents(p) \/ Stashed(p) \/ Popped(p)
      PROVE  NoFault \/ Fault
  <2>1. EnsureJournal(p) => NoFault \/ Fault
    BY Zenon DEF EnsureJournal
  <2>2. ASSUME NEW S, JournalWrite(p, S) PROVE NoFault \/ Fault
    BY <2>2, Zenon DEF JournalWrite
  <2>3. JournalFinish(p) => NoFault \/ Fault
    BY Zenon DEF JournalFinish
  <2>4. CASE Stash(p) \/ Push(p) \/ Stashed(p)
    BY <2>1, <2>3, <2>4, Zenon DEF Stash, Push, Stashed
  <2>5. CASE RecordIntents(p) \/ Record(p) \/ RollForget(p) \/ ForgetIntents(p)
    BY <2>2, <2>5, Zenon DEF RecordIntents, Record, RollForget, ForgetIntents, JournalRecord,
       JournalForget
  <2>6. CASE Popped(p)
    <3>1. my[p].task \in {"recover", "run", "abort"}
      BY <1>1 DEF Memories
    <3>2. QED
      BY <2>3, <2>6, <3>1 DEF Popped
  <2>7. QED
    BY <1>7, <2>4, <2>5, <2>6
<1>8. QED
  BY <1>2, <1>3, <1>4, <1>5, <1>6, <1>7 DEF Next, AllOver

(* Every step keeps it.                                                    *)
LEMMA CleanStays == Inv /\ JournalInv /\ CleanInv /\ [Next]_vars => CleanInv'
<1> SUFFICES ASSUME Inv, JournalInv, CleanInv, [Next]_vars PROVE CleanInv'
  OBVIOUS
<1>1. NoFault \/ Fault
  BY FaultsAreCounted
<1>2. faults' \in Nat /\ (faults' = 0 => faults = 0 /\ NoFault)
  BY <1>1 DEF CleanInv, NoFault, Fault
<1>3. ASSUME faults' = 0, NEW p \in Procs PROVE CleanOf(p)'
  <2>1. faults = 0 /\ NoFault /\ CleanOf(p)
    BY <1>2, <1>3 DEF CleanInv
  <2>2. ASSUME NEW r \in Procs,
           \/ Look(r) \/ Await(r) \/ Reread(r) \/ Leave(r) \/ Pop(r) \/ Restore(r) \/ Verify(r)
           \/ Drop(r) \/ Back(r) \/ Mark(r) \/ DropIntents(r) \/ ForgetIntents(r)
           \/ Popped(r) \/ Exit(r) \/ Status(r) \/ Queue(r) \/ Stash(r)
           \/ StoreIntents(r) \/ RecordIntents(r) \/ Unmark(r) \/ Remove(r)
           \/ Push(r) \/ Store(r) \/ Record(r) \/ Reset(r) \/ Rollback(r)
           \/ RollDrop(r) \/ RollForget(r) \/ Stashed(r) \/ Fix(r) \/ StepsEnd(r)
           \/ Crash(r)
        PROVE  CleanOf(p)'
    <3>1. CASE r = p
      BY <2>1, <2>2, <3>1, CleanOutside, CleanStashing, CleanPopping
    <3>2. CASE r # p
      <4>1. Others(r)
        BY <2>2, OthersStay
      <4>2. p \in Procs \ {r}
        BY <3>2
      <4>3. /\ own'[p] = own[p] /\ (disk'.owner = p => disk.owner = p)
            /\ (lock' = p) <=> (lock = p)
            /\ \A k \in Kinds : <<p, k>> \notin refs => <<p, k>> \notin refs'
        BY <2>2, <4>2, OthersKeep
      <4>4. QED
        BY <2>1, <4>1, <4>2, <4>3, OthersClean
    <3>3. QED
      BY <3>1, <3>2
  <2>3. ASSUME Edit \/ StageByHand \/ UNCHANGED vars PROVE CleanOf(p)'
    <3>1. UNCHANGED <<disk, own, lock, pc, my, refs>>
      BY <2>3 DEF Edit, StageByHand, vars, refVars
    <3>2. QED
      BY <2>1, <3>1 DEF CleanOf, Owns, StepsWithLock, NoneOf, HasIntents, HasUnstaged
  <2>4. QED
    BY <2>2, <2>3 DEF Next, AllOver
<1>4. QED
  BY <1>2, <1>3 DEF CleanInv

(* A run in which no write failed, and that did not say it put something    *)
(* back badly, leaves no entry and no journal.                              *)
THEOREM CleanRunsLeaveNothing == Spec => []CleanRuns
<1>1. ASSUME Inv, CleanInv PROVE CleanRuns
  <2> SUFFICES ASSUME faults = 0, NEW p \in Procs, pc[p] = "over", ~my[p].bad
               PROVE  disk.owner # p /\ \A c \in refs : c[1] # p
    BY DEF CleanRuns
  <2>1. disk.owner # p /\ NoneOf(p)
    BY <1>1 DEF CleanInv, CleanOf, Owns
  <2>2. \A c \in refs : c[1] = p => c = <<p, "intent">> \/ c = <<p, "unstaged">>
    BY <1>1 DEF Inv, TypeOK, Entries, Kinds
  <2>3. QED
    BY <2>1, <2>2 DEF NoneOf
<1>2. QED
  BY <1>1, CleanBegins, CleanStays, StashInvariance, JournalInvariance, PTL DEF Spec
-----------------------------------------------------------------------------
(* What a recovery leaves.  An entry is accounted for while its process     *)
(* runs, or when it kept no journal, or when the journal in place tells of  *)
(* it: then every edit that is missing from the tree can be found.          *)
Left(c)     == c[1] = disk.owner /\ c \notin disk.before
Named(c)    == Alive(c[1]) \/ ~Journalled(c) \/ Left(c)
Found(f, e) == InPlace(f, e) \/ \E c \in refs : e \in saved[c].work[f] /\ Named(c)
AllFound    == \A f \in Files \ reborn : \A e \in made[f] : Found(f, e)

(* A process has the lock while it keeps a journal, or has given it back    *)
(* and ends: then the journal is in place, or has nothing to tell.          *)
KeepsIt(q) ==
  own[q] # NoJournal =>
    /\ Alive(q) => lock = q \/ pc[q] = "exiting"
    /\ disk.owner = q => disk.before = own[q].before
    /\ pc[q] = "exiting" => \/ disk.owner = q
                            \/ \A c \in refs : c[1] = q => c \in own[q].before

(* A recovery puts back all that its journal tells of; what is then still   *)
(* under refs/hk/stash is in the tree, unless something went wrong.         *)
Recalls(p) ==
  Recovers(p) =>
    /\ \A c \in refs : Left(c) => c \in {my[p].stash, my[p].intents}
    /\ {my[p].stash, my[p].intents} \subseteq disk.entries \cup {None}
    /\ ~my[p].bad =>
         /\ pc[p] \notin {"pop", "restore"} /\ my[p].stash \in refs => InTree(my[p].stash)
         /\ pc[p] \in {"drop_intents", "forget_intents", "popped"} /\ my[p].intents \in refs =>
              \A f \in saved[my[p].intents].files :
                Has(tree[f], saved[my[p].intents].work[f]) \/ f \in reborn

LeftInv == AllFound /\ \A p \in Procs : KeepsIt(p) /\ Recalls(p)

Acts(p) == \/ Look(p) \/ Await(p) \/ Reread(p) \/ Leave(p) \/ Pop(p) \/ Restore(p) \/ Verify(p)
           \/ Drop(p) \/ Back(p) \/ Mark(p) \/ DropIntents(p) \/ ForgetIntents(p)
           \/ Popped(p) \/ Exit(p) \/ Status(p) \/ Queue(p) \/ Stash(p)
           \/ StoreIntents(p) \/ RecordIntents(p) \/ Unmark(p) \/ Remove(p)
           \/ Push(p) \/ Store(p) \/ Record(p) \/ Reset(p) \/ Rollback(p)
           \/ RollDrop(p) \/ RollForget(p) \/ Stashed(p) \/ Fix(p) \/ StepsEnd(p)
           \/ Crash(p)

(* A recovery discards a journal: before it puts anything back, as there is *)
(* nothing to, or after.                                                    *)
Discards(p) == /\ own' = own /\ own[p] = NoJournal
               /\ \/ \A c \in refs : ~Left(c)
                  \/ Popped(p) /\ Recovers(p) /\ pc[p] = "popped" /\ ~my[p].bad

(* What a step means for the others.                                       *)
LEMMA Acting ==
  ASSUME Inv, JournalInv, NEW p \in Procs, Acts(p)
  PROVE  /\ Others(p)
         /\ \A q \in Procs \ {p} :
              /\ own'[q] = own[q] /\ ((lock' = q) <=> (lock = q))
              /\ \A k \in Kinds : <<q, k>> \notin refs => <<q, k>> \notin refs'
<1>1. Others(p)
  BY OthersStay DEF Acts
<1>2. ASSUME NEW q \in Procs \ {p}
      PROVE  /\ own'[q] = own[q] /\ ((lock' = q) <=> (lock = q))
             /\ \A k \in Kinds : <<q, k>> \notin refs => <<q, k>> \notin refs'
  BY OthersKeep DEF Acts
<1>3. QED
  BY <1>1, <1>2

(* How a process goes on and ends.                                         *)
LEMMA Ends ==
  ASSUME Inv, NEW p \in Procs, Acts(p)
  PROVE  /\ ~Alive(p)' => Alive(p) /\ UNCHANGED <<disk, own>>
         /\ pc'[p] = "exiting" => pc[p] = "popped" /\ lock = p
         /\ pc[p] = "exiting" => ~Alive(p)'
         /\ pc[p] \in NoEntry \/ lock' = lock \/ pc'[p] \in {"exiting", "dead"}
         /\ pc[p] \notin {"over", "dead"}
<1> DEFINE Good == /\ ~Alive(p)' => Alive(p) /\ UNCHANGED <<disk, own>>
                   /\ pc'[p] = "exiting" => pc[p] = "popped" /\ lock = p
                   /\ pc[p] = "exiting" => ~Alive(p)'
                   /\ pc[p] \in NoEntry \/ lock' = lock \/ pc'[p] \in {"exiting", "dead"}
                   /\ pc[p] \notin {"over", "dead"}
<1>1. my \in [Procs -> Memories] /\ pc \in [Procs -> PCs] /\ LockIsHeld
  BY DEF Inv, TypeOK
<1>2. CASE Look(p) \/ Await(p) \/ Leave(p) \/ Status(p) \/ Queue(p) \/ Exit(p) \/ Crash(p)
  <2>1. CASE Look(p) \/ Await(p) \/ Leave(p)
    BY <1>1, <2>1 DEF Look, Await, Leave, Goto, Alive, NoEntry, First
  <2>2. CASE Status(p) \/ Queue(p)
    BY <1>1, <2>2 DEF Status, Queue, Goto, Alive, NoEntry
  <2>3. CASE Exit(p) \/ Crash(p)
    BY <1>1, <2>3 DEF Exit, Crash, Goto, Alive
  <2>4. QED
    BY <1>2, <2>1, <2>2, <2>3
<1>3. CASE Reread(p)
  BY <1>1, <1>3 DEF Reread, DecideGone, DecideUnknown, Goto, Alive, NoEntry, First
<1>4. CASE \/ Pop(p) \/ Restore(p) \/ Verify(p) \/ Drop(p) \/ Back(p) \/ Mark(p) \/ DropIntents(p)
           \/ ForgetIntents(p)
  <2>1. pc[p] \in Popping /\ pc'[p] \in Popping
    BY <1>4, TaskStays
  <2>2. lock' = lock
    <3>1. CASE Pop(p)
      BY <3>1, Zenon DEF Pop
    <3>2. CASE Restore(p) \/ Back(p)
      BY <3>2 DEF Restore, Back
    <3>3. CASE Verify(p) \/ Drop(p) \/ Mark(p) \/ DropIntents(p) \/ ForgetIntents(p)
      BY <3>3 DEF Verify, Drop, Mark, DropIntents, ForgetIntents
    <3>4. QED
      BY <1>4, <3>1, <3>2, <3>3
  <2>3. QED
    BY <2>1, <2>2 DEF Popping, Alive
<1>5. CASE \/ Stash(p) \/ StoreIntents(p) \/ RecordIntents(p) \/ Unmark(p) \/ Remove(p)
           \/ Push(p) \/ Store(p) \/ Record(p) \/ Reset(p) \/ Rollback(p) \/ RollDrop(p)
           \/ RollForget(p) \/ Stashed(p) \/ Fix(p)
  <2>1. pc[p] \in Running /\ lock' = lock
    BY <1>5, RunsGoOn
  <2>2. pc'[p] \in Running \cup {"back"}
    <3>1. ASSUME NEW r, GiveUp(p, r) PROVE pc'[p] = "back"
      BY <1>1, <3>1 DEF GiveUp, Goto
    <3>2. CASE Stash(p) \/ StoreIntents(p) \/ RecordIntents(p) \/ Unmark(p) \/ Remove(p)
      BY <1>1, <3>1, <3>2 DEF Stash, StoreIntents, RecordIntents, Unmark, Remove, Goto, Running
    <3>3. CASE Push(p) \/ Store(p) \/ Record(p) \/ Reset(p) \/ Rollback(p)
      BY <1>1, <3>1, <3>3 DEF Push, Store, Record, Reset, Rollback, Goto, Running
    <3>4. CASE RollDrop(p) \/ RollForget(p) \/ Stashed(p) \/ Fix(p)
      BY <1>1, <3>1, <3>4 DEF RollDrop, RollForget, Stashed, Fix, Goto, Running
    <3>5. QED
      BY <1>5, <3>2, <3>3, <3>4
  <2>3. QED
    BY <2>1, <2>2 DEF Running, Alive
<1>6. CASE StepsEnd(p)
  BY <1>1, <1>6 DEF StepsEnd, Goto, Alive
<1>7. CASE Popped(p)
  <2>1. pc[p] = "popped" /\ lock = p /\ my[p].task \in {"recover", "run", "abort"}
    BY <1>1, <1>7 DEF Popped, LockIsHeld, Holding, Memories
  <2>2. (pc'[p] = "leave" /\ lock' = lock) \/ pc'[p] = "exiting"
    BY <1>1, <1>7, <2>1 DEF Popped, Goto
  <2>3. QED
    BY <2>1, <2>2 DEF Alive
<1>8. QED
  BY <1>2, <1>3, <1>4, <1>5, <1>6, <1>7 DEF Acts

(* What a step does with the journal.                                      *)
LEMMA JournalMoves ==
  ASSUME Inv, JournalInv, NEW p \in Procs, Acts(p)
  PROVE  \/ UNCHANGED <<disk, own>>
         \/ lock = p /\ pc[p] \notin NoEntry /\ EnsureJournal(p)
         \/ lock = p /\ \E S : JournalWrite(p, S)
         \/ lock = p /\ JournalFinish(p)
         \/ lock = p /\ disk' = NoJournal /\ Discards(p)
<1>1. my \in [Procs -> Memories] /\ pc \in [Procs -> PCs] /\ LockIsHeld
  BY DEF Inv, TypeOK
<1>2. pc[p] \in Holding => lock = p
  BY <1>1 DEF LockIsHeld
<1>3. CASE \/ Look(p) \/ Await(p) \/ Leave(p) \/ Status(p) \/ Queue(p) \/ Exit(p) \/ Crash(p)
           \/ Fix(p) \/ StepsEnd(p)
  BY <1>3 DEF Look, Await, Leave, Status, Queue, Exit, Crash, Fix, StepsEnd
<1>4. CASE Pop(p)
  BY <1>4, Zenon DEF Pop
<1>5. CASE Restore(p) \/ Verify(p) \/ Drop(p) \/ Back(p) \/ Mark(p) \/ DropIntents(p)
  <2>1. CASE Restore(p) \/ Back(p)
    BY <2>1 DEF Restore, Back
  <2>2. CASE Verify(p) \/ Drop(p) \/ Mark(p) \/ DropIntents(p)
    BY <2>2 DEF Verify, Drop, Mark, DropIntents
  <2>3. QED
    BY <1>5, <2>1, <2>2
<1>6. CASE \/ StoreIntents(p) \/ Unmark(p) \/ Remove(p) \/ Store(p) \/ Reset(p) \/ Rollback(p)
           \/ RollDrop(p)
  BY <1>6 DEF StoreIntents, Unmark, Remove, Store, Reset, Rollback, RollDrop
<1>7. CASE Stash(p) \/ Push(p) \/ Stashed(p)
  BY <1>2, <1>7 DEF Stash, Push, Stashed, Holding, NoEntry, First
<1>8. CASE ForgetIntents(p) \/ RecordIntents(p) \/ Record(p) \/ RollForget(p)
  BY <1>2, <1>8 DEF ForgetIntents, RecordIntents, Record, RollForget, JournalForget,
     JournalRecord, Holding
<1>9. CASE Reread(p)
  <2>1. pc[p] = "reread" /\ own' = own
    BY <1>9 DEF Reread
  <2>2. own[p] = NoJournal /\ lock = p
    BY <1>2, <2>1 DEF JournalInv, JournalOf, NoEntry, First, Holding
  <2>3. disk' = disk \/ (disk' = NoJournal /\ Present(disk) = {} /\ Unrecorded(disk) = {})
    BY <1>9 DEF Reread, DecideGone, DecideUnknown
  <2>4. Present(disk) = {} /\ Unrecorded(disk) = {} => \A c \in refs : ~Left(c)
    BY DEF Present, Unrecorded, Left
  <2>5. QED
    BY <2>1, <2>2, <2>3, <2>4 DEF Discards
<1>10. CASE Popped(p)
  <2>1. pc[p] = "popped" /\ lock = p /\ my[p].task \in {"recover", "run", "abort"}
    BY <1>1, <1>10 DEF Popped, LockIsHeld, Holding, Memories
  <2>2. CASE my[p].task = "recover"
    <3>1. Recovers(p) /\ own[p] = NoJournal /\ own' = own
      BY <1>10, <2>1, <2>2 DEF Popped, JournalInv, JournalOf, Recovers, Popping
    <3>2. my[p].bad => disk' = disk
      BY <1>10, <2>2 DEF Popped
    <3>3. ~my[p].bad => disk' = NoJournal
      BY <1>10, <2>2 DEF Popped
    <3>4. QED
      BY <1>10, <2>1, <3>1, <3>2, <3>3 DEF Discards
  <2>3. CASE my[p].task # "recover"
    BY <1>10, <2>1, <2>3 DEF Popped
  <2>4. QED
    BY <2>2, <2>3
<1>11. QED
  BY <1>3, <1>4, <1>5, <1>6, <1>7, <1>8, <1>9, <1>10 DEF Acts
(* Only the one who keeps it writes a journal; another's is at most         *)
(* discarded.                                                              *)
LEMMA JournalChanges ==
  ASSUME Inv, JournalInv, NEW p \in Procs, KeepsIt(p), Acts(p)
  PROVE  /\ \A q \in Procs \ {p} : disk'.owner = q => disk' = disk
         /\ disk.owner \in Procs \ {p} /\ disk' # disk => /\ lock = p /\ disk' = NoJournal
                                                          /\ Discards(p)
         /\ own'[p] # NoJournal => \/ UNCHANGED <<disk, own>>
                                   \/ /\ lock = p /\ disk'.owner = p
                                      /\ disk'.before = own'[p].before
<1>1. /\ own \in [Procs -> Journals] /\ disk \in Journals /\ JournalOf(p)
      /\ NoJournal.owner \notin Procs
      /\ disk = NoJournal <=> disk.owner = "none"
  BY StashOK DEF Inv, TypeOK, JournalInv, NoJournal
<1>2. CASE UNCHANGED <<disk, own>>
  BY <1>2
<1>3. CASE lock = p /\ EnsureJournal(p) /\ ~UNCHANGED <<disk, own>>
  <2>1. PICK begun : begun = [owner |-> p, before |-> refs, entries |-> {}]
    OBVIOUS
  <2>2. disk = NoJournal /\ disk' = begun /\ own' = [own EXCEPT ![p] = begun]
    BY <1>3, <2>1 DEF EnsureJournal
  <2>3. begun.owner = p /\ own'[p] = begun
    BY <1>1, <2>1, <2>2
  <2>4. QED
    BY <1>1, <1>3, <2>2, <2>3
<1>4. ASSUME lock = p, NEW S, JournalWrite(p, S), own[p] # NoJournal
      PROVE  /\ disk.owner = p /\ disk'.owner = p /\ disk'.before = own'[p].before
  <2>1. PICK new : new = [own[p] EXCEPT !.entries = S]
    OBVIOUS
  <2>2. disk' \in {disk, new} /\ own' \in {own, [own EXCEPT ![p] = new]}
    BY <1>4, <2>1 DEF JournalWrite
  <2>3. disk.owner = p /\ disk.before = own[p].before /\ own[p].owner = p
    BY <1>1, <1>4 DEF JournalOf, KeepsIt
  <2>4. new.owner = p /\ new.before = own[p].before
    BY <1>1, <2>1, <2>3 DEF Journals
  <2>5. own'[p] \in {own[p], new}
    BY <1>1, <2>2
  <2>6. QED
    BY <2>2, <2>3, <2>4, <2>5
<1>5. CASE lock = p /\ \E S : JournalWrite(p, S)
  <2>1. CASE own[p] = NoJournal
    <3>1. UNCHANGED <<disk, own>>
      BY <1>5, <2>1 DEF JournalWrite
    <3>2. QED
      BY <1>2, <3>1
  <2>2. CASE own[p] # NoJournal
    BY <1>4, <1>5, <2>2
  <2>3. QED
    BY <2>1, <2>2
<1>6. CASE lock = p /\ JournalFinish(p)
  <2>1. own'[p] = NoJournal /\ disk' \in {disk, NoJournal} /\ (disk' # disk => disk.owner = p)
    BY <1>1, <1>6 DEF JournalFinish
  <2>2. QED
    BY <1>1, <2>1
<1>7. CASE lock = p /\ disk' = NoJournal /\ Discards(p)
  BY <1>1, <1>7 DEF Discards
<1>8. QED
  BY <1>2, <1>3, <1>5, <1>6, <1>7, JournalMoves

(* What each process has to keep it keeps.                                 *)
LEMMA KeepsItStays ==
  ASSUME Inv, JournalInv, LeftInv, NEW p \in Procs, Acts(p), NEW q \in Procs
  PROVE  KeepsIt(q)'
<1>1. KeepsIt(p) /\ KeepsIt(q) /\ refs' \subseteq Entries
  BY DataStays DEF LeftInv, Acts, Next, DataTypes
<1>2. CASE q = p
  <2> SUFFICES ASSUME own'[p] # NoJournal
               PROVE  /\ Alive(p)' => lock' = p \/ pc'[p] = "exiting"
                      /\ disk'.owner = p => disk'.before = own'[p].before
                      /\ pc'[p] = "exiting" =>
                           disk'.owner = p \/ \A c \in refs' : c[1] = p => c \in own'[p].before
    BY <1>2 DEF KeepsIt
  <2>1. \/ UNCHANGED <<disk, own>>
        \/ lock = p /\ disk'.owner = p /\ disk'.before = own'[p].before
    BY <1>1, JournalChanges
  <2>2. CASE UNCHANGED <<disk, own>>
    <3>1. JournalOf(p) /\ own[p] # NoJournal
      BY <2>2 DEF JournalInv
    <3>2. Alive(p)' => lock' = p \/ pc'[p] = "exiting"
      BY <1>1, <3>1, Ends DEF KeepsIt, JournalOf, Alive, NoEntry, First
    <3>3. pc'[p] = "exiting" => disk'.owner = p
      BY <2>2, <3>1, Ends DEF JournalOf
    <3>4. QED
      BY <1>1, <2>2, <3>1, <3>2, <3>3 DEF KeepsIt
  <2>3. CASE lock = p /\ disk'.owner = p /\ disk'.before = own'[p].before
    <3>1. Alive(p)' => lock' = p \/ pc'[p] = "exiting"
      <4>1. CASE own[p] # NoJournal
        BY <2>3, <4>1, Ends DEF JournalInv, JournalOf, Alive
      <4>2. CASE own[p] = NoJournal
        <5>1. own \in [Procs -> Journals] /\ own' # own
          BY <4>2 DEF Inv, TypeOK
        <5>2. ~JournalFinish(p) /\ ~Discards(p) /\ \A S : ~JournalWrite(p, S)
          BY <4>2, <5>1 DEF JournalFinish, Discards, JournalWrite
        <5>3. pc[p] \notin NoEntry
          BY <5>1, <5>2, JournalMoves
        <5>4. QED
          BY <2>3, <5>3, Ends DEF Alive
      <4>3. QED
        BY <4>1, <4>2
    <3>2. QED
      BY <2>3, <3>1
  <2>4. QED
    BY <2>1, <2>2, <2>3
<1>3. CASE q # p
  <2>1. /\ pc'[q] = pc[q] /\ own'[q] = own[q] /\ ((lock' = q) <=> (lock = q))
        /\ \A k \in Kinds : <<q, k>> \notin refs => <<q, k>> \notin refs'
    BY <1>3, Acting DEF Others
  <2>2. \A c \in refs' : c[1] = q => c \in refs
    BY <1>1, <2>1 DEF Entries
  <2>3. disk'.owner = q => disk' = disk
    BY <1>1, <1>3, JournalChanges
  <2>4. ASSUME own[q] # NoJournal, pc[q] = "exiting", disk.owner = q, disk' # disk
        PROVE  \A c \in refs : c[1] = q => c \in own[q].before
    <3>1. Discards(p)
      BY <1>1, <1>3, <2>4, JournalChanges
    <3>2. ~Recovers(p)
      BY <2>4 DEF JournalInv, JournalOf
    <3>3. \A c \in refs : ~Left(c)
      BY <3>1, <3>2 DEF Discards
    <3>4. QED
      BY <1>1, <2>4, <3>3 DEF KeepsIt, Left
  <2>5. QED
    BY <1>1, <2>1, <2>2, <2>3, <2>4 DEF KeepsIt, Alive
<1>4. QED
  BY <1>2, <1>3

(* An entry stays accounted for until a recovery that is through discards   *)
(* the journal that tells of it.                                           *)
LEMMA NamesStay ==
  ASSUME Inv, JournalInv, LeftInv, NEW p \in Procs, Acts(p), NEW c \in refs, Named(c)
  PROVE  \/ Named(c)'
         \/ Left(c) /\ Popped(p) /\ Recovers(p) /\ pc[p] = "popped" /\ ~my[p].bad
<1>1. c \in Entries /\ c[1] \in Procs /\ KeepsIt(p) /\ KeepsIt(c[1])
  BY DEF Inv, TypeOK, Entries, LeftInv
<1>2. CASE c[1] = p
  <2>1. SUFFICES ASSUME ~Alive(p)' PROVE Named(c)'
    BY <1>2 DEF Named, Alive
  <2>2. Alive(p) /\ UNCHANGED <<disk, own>>
    BY <2>1, Ends
  <2>3. CASE own[p] = NoJournal
    BY <1>2, <2>2, <2>3 DEF Named, Journalled
  <2>4. CASE c \in own[p].before
    BY <1>2, <2>2, <2>4 DEF Named, Journalled
  <2>5. CASE own[p] # NoJournal /\ c \notin own[p].before
    <3>1. disk.owner = p
      BY <1>1, <1>2, <2>2, <2>5 DEF KeepsIt, JournalInv, JournalOf
    <3>2. Left(c)
      BY <1>1, <1>2, <2>5, <3>1 DEF KeepsIt, Left
    <3>3. QED
      BY <2>2, <3>2 DEF Named, Left
  <2>6. QED
    BY <2>3, <2>4, <2>5
<1>3. CASE c[1] # p
  <2>1. pc'[c[1]] = pc[c[1]] /\ own'[c[1]] = own[c[1]]
    BY <1>1, <1>3, Acting DEF Others
  <2>2. CASE Alive(c[1]) \/ ~Journalled(c) \/ disk' = disk
    BY <2>1, <2>2 DEF Named, Alive, Journalled, Left
  <2>3. CASE Left(c) /\ disk' # disk
    <3>1. Discards(p)
      BY <1>1, <1>3, <2>3, JournalChanges DEF Left
    <3>2. QED
      BY <2>3, <3>1 DEF Discards
  <2>4. QED
    BY <2>2, <2>3 DEF Named
<1>4. QED
  BY <1>2, <1>3
(* Without the lock a process writes no entry, no journal and no edit.      *)
LEMMA Outside ==
  ASSUME Inv, NEW p \in Procs, Acts(p), lock # p
  PROVE  /\ UNCHANGED <<disk, refs, saved, made, reborn>>
         /\ \A f \in Files : Users(tree'[f]) = Users(tree[f])
         /\ ~Recovers(p)'
<1>1. pc \in [Procs -> PCs] /\ pc[p] \notin Holding
  BY DEF Inv, TypeOK, LockIsHeld
<1>2. \/ Look(p) \/ Await(p) \/ Exit(p) \/ Status(p) \/ Queue(p) \/ Fix(p) \/ StepsEnd(p)
      \/ Crash(p)
  <2>1. ~(Reread(p) \/ Leave(p) \/ Restore(p) \/ Verify(p) \/ Drop(p) \/ Back(p) \/ Mark(p))
    BY <1>1 DEF Reread, Leave, Restore, Verify, Drop, Back, Mark, Holding
  <2>2. ~(DropIntents(p) \/ ForgetIntents(p) \/ Popped(p) \/ Stash(p) \/ StoreIntents(p))
    BY <1>1 DEF DropIntents, ForgetIntents, Popped, Stash, StoreIntents, Holding
  <2>3. ~(RecordIntents(p) \/ Unmark(p) \/ Remove(p) \/ Push(p) \/ Store(p) \/ Record(p))
    BY <1>1 DEF RecordIntents, Unmark, Remove, Push, Store, Record, Holding
  <2>4. ~(Reset(p) \/ Rollback(p) \/ RollDrop(p) \/ RollForget(p) \/ Stashed(p))
    BY <1>1 DEF Reset, Rollback, RollDrop, RollForget, Stashed, Holding
  <2>5. ~Pop(p)
    BY <1>1, Zenon DEF Pop, Holding
  <2>6. QED
    BY <2>1, <2>2, <2>3, <2>4, <2>5 DEF Acts
<1>3. UNCHANGED <<disk, refs, saved, made, reborn>>
  BY <1>2 DEF Look, Await, Exit, Status, Queue, Fix, StepsEnd, Crash, refVars, runVars
<1>4. ASSUME NEW f \in Files PROVE Users(tree'[f]) = Users(tree[f])
  <2>1. tree' = tree \/ \E g \in Files : tree' = [tree EXCEPT ![g] = tree[g] \cup {"fix"}]
    BY <1>2 DEF Look, Await, Exit, Status, Queue, Fix, StepsEnd, Crash, Write, treeVars
  <2>2. QED
    BY <2>1 DEF Users, Inv, TypeOK
<1>5. ~Recovers(p)'
  <2>1. CASE Look(p) \/ Await(p) \/ Exit(p) \/ Status(p) \/ Queue(p) \/ Crash(p)
    BY <1>1, <2>1 DEF Look, Await, Exit, Status, Queue, Crash, Goto, Recovers, Popping
  <2>2. CASE Fix(p) \/ StepsEnd(p)
    BY <2>2, RunsGoOn
  <2>3. QED
    BY <1>2, <2>1, <2>2
<1>6. QED
  BY <1>3, <1>4, <1>5

(* Putting back only adds to the files; entries go, and none changes.       *)
LEMMA PutsBack ==
  ASSUME Inv, JournalInv, NEW p \in Procs,
         \/ Pop(p) \/ Restore(p) \/ Verify(p) \/ Drop(p) \/ Back(p) \/ Mark(p) \/ DropIntents(p)
         \/ ForgetIntents(p)
  PROVE  /\ refs' \subseteq refs /\ \A c \in refs' : saved'[c] = saved[c]
         /\ reborn \subseteq reborn' /\ UNCHANGED <<index, made>>
         /\ \A f \in Files : Has(tree'[f], tree[f])
         /\ Recovers(p) => disk' = disk
<1> DEFINE Good == /\ refs' \subseteq refs /\ \A c \in refs' : saved'[c] = saved[c]
                   /\ reborn \subseteq reborn' /\ UNCHANGED <<index, made>>
                   /\ \A f \in Files : Has(tree'[f], tree[f])
                   /\ Recovers(p) => disk' = disk
<1>1. saved \in [Entries -> Saves] /\ refs \subseteq Entries
  BY DEF Inv, TypeOK
<1>2. CASE Pop(p)
  <2>1. UNCHANGED <<tree, index, refs, saved, disk, made, reborn>>
    BY <1>2, Zenon DEF Pop, treeVars, refVars, runVars
  <2>2. QED
    BY <2>1 DEF Has
<1>3. CASE Restore(p)
  <2>1. UNCHANGED <<index, refs, saved, disk, made, reborn>>
    BY <1>3 DEF Restore, refVars, runVars
  <2>2. QED
    BY <1>3, <2>1, RestoreStays
<1>4. CASE Back(p)
  <2>1. UNCHANGED <<index, refs, saved, disk, made>> /\ reborn \subseteq reborn'
    BY <1>4 DEF Back, refVars
  <2>2. QED
    BY <1>4, <2>1, BackStays
<1>5. CASE Verify(p) \/ Mark(p)
  <2>1. UNCHANGED <<tree, index, refs, saved, disk, made, reborn>>
    <3>1. CASE Verify(p)
      BY <3>1 DEF Verify, treeVars, refVars, runVars
    <3>2. CASE Mark(p)
      BY <3>2 DEF Mark, refVars, runVars
    <3>3. QED
      BY <1>5, <3>1, <3>2
  <2>2. QED
    BY <2>1 DEF Has
<1>6. CASE Drop(p) \/ DropIntents(p)
  <2>1. UNCHANGED <<tree, index, disk, made, reborn>> /\ \E c : DropEntry(c)
    BY <1>6 DEF Drop, DropIntents, treeVars, runVars
  <2>2. refs' \subseteq refs /\ \A c \in refs' : saved'[c] = saved[c]
    BY <1>1, <2>1 DEF DropEntry, refVars
  <2>3. QED
    BY <2>1, <2>2 DEF Has
<1>7. CASE ForgetIntents(p)
  <2>1. UNCHANGED <<tree, index, refs, saved, made, reborn>> /\ \E S : JournalWrite(p, S)
    BY <1>7 DEF ForgetIntents, JournalForget, treeVars, refVars, runVars
  <2>2. Recovers(p) => disk' = disk
    BY <2>1 DEF JournalInv, JournalOf, JournalWrite
  <2>3. QED
    BY <2>1, <2>2 DEF Has
<1>8. QED
  BY <1>2, <1>3, <1>4, <1>5, <1>6, <1>7

(* How putting back goes on while nothing goes wrong.                       *)
LEMMA PutsOn ==
  ASSUME Inv, NEW p \in Procs,
         \/ Pop(p) \/ Restore(p) \/ Verify(p) \/ Drop(p) \/ Back(p) \/ Mark(p) \/ DropIntents(p)
         \/ ForgetIntents(p),
         ~my'[p].bad
  PROVE  /\ pc[p] \in {"pop", "restore"} =>
              pc'[p] \in {"restore", "drop"} \/ (pc'[p] = "back" /\ my[p].stash = None)
         /\ pc'[p] \in {"forget_intents", "popped"} =>
              pc[p] \in {"drop_intents", "forget_intents"} \/ my[p].intents = None
<1> DEFINE Good == /\ pc[p] \in {"pop", "restore"} =>
                        \/ pc'[p] \in {"restore", "drop"}
                        \/ pc'[p] = "back" /\ my[p].stash = None
                   /\ pc'[p] \in {"forget_intents", "popped"} =>
                        pc[p] \in {"drop_intents", "forget_intents"} \/ my[p].intents = None
<1>1. my \in [Procs -> Memories] /\ pc \in [Procs -> PCs] /\ my[p] \in Memories
  BY DEF Inv, TypeOK
<1>2. CASE Pop(p)
  <2>1. pc[p] = "pop"
    BY <1>2, Zenon DEF Pop
  <2>2. \/ my[p].stash = None /\ pc'[p] = "back"
        \/ my' = [my EXCEPT ![p] = Bad(my[p])]
        \/ pc'[p] = "restore"
    <3>1. \/ my[p].stash = None /\ Goto(p, "back")
          \/ Know(p, Bad(my[p]))
          \/ Goto(p, "restore")
      BY <1>2, Zenon DEF Pop
    <3>2. QED
      BY <1>1, <3>1 DEF Goto, Know
  <2>3. my' # [my EXCEPT ![p] = Bad(my[p])]
    BY <1>1 DEF Bad, Memories
  <2>4. QED
    BY <2>1, <2>2, <2>3
<1>3. CASE Restore(p)
  BY <1>3 DEF Restore
<1>4. CASE Verify(p)
  <2>1. PICK b : b = (my[p].bad \/ \E f \in my[p].wrote : tree[f] # saved[my[p].stash].work[f])
    OBVIOUS
  <2>2. /\ my' = [my EXCEPT ![p] = [my[p] EXCEPT !.bad = b, !.wrote = {}, !.touched = {}]]
        /\ pc[p] = "restore" /\ pc' = [pc EXCEPT ![p] = IF b THEN "back" ELSE "drop"]
    BY <1>4, <2>1 DEF Verify, Know, Goto
  <2>3. my'[p].bad = b
    BY <1>1, <2>2 DEF Memories
  <2>4. QED
    BY <1>1, <2>2, <2>3
<1>5. CASE Drop(p)
  BY <1>1, <1>5 DEF Drop, Goto
<1>6. CASE Back(p)
  <2>1. pc[p] = "back"
    BY <1>6 DEF Back
  <2>2. PICK b : b = (my[p].bad \/ my[p].intents # None)
    OBVIOUS
  <2>3. \/ pc'[p] = "mark"
        \/ pc'[p] = "popped" /\ my' = [my EXCEPT ![p] = [my[p] EXCEPT !.bad = b]]
    BY <1>1, <1>6, <2>2 DEF Back, Know, Goto
  <2>4. pc'[p] = "popped" => my'[p].bad = b
    BY <1>1, <2>3 DEF Memories
  <2>5. QED
    BY <2>1, <2>2, <2>3, <2>4
<1>7. CASE Mark(p)
  <2>1. PICK keep, b : /\ keep = (my[p].set_aside /\ my[p].touched # {})
                       /\ b = (my[p].bad \/ keep)
    OBVIOUS
  <2>2. pc[p] = "mark"
    BY <1>7 DEF Mark
  <2>3. \/ /\ my' = [my EXCEPT ![p] = [my[p] EXCEPT !.bad = b, !.touched = {}]]
           /\ pc' = [pc EXCEPT ![p] = IF keep THEN "popped" ELSE "drop_intents"]
        \/ my' = [my EXCEPT ![p] = Bad(my[p])]
    BY <1>7, <2>1 DEF Mark, Know, Goto
  <2>4. my' # [my EXCEPT ![p] = Bad(my[p])]
    BY <1>1 DEF Bad, Memories
  <2>5. my'[p].bad = b
    <3>1. my' = [my EXCEPT ![p] = [my[p] EXCEPT !.bad = b, !.touched = {}]]
      BY <2>3, <2>4
    <3>2. QED
      BY <1>1, <3>1 DEF Memories
  <2>6. ~keep
    BY <2>1, <2>5
  <2>7. QED
    BY <1>1, <2>2, <2>3, <2>4, <2>6
<1>8. CASE DropIntents(p) \/ ForgetIntents(p)
  BY <1>8 DEF DropIntents, ForgetIntents
<1>9. QED
  BY <1>2, <1>3, <1>4, <1>5, <1>6, <1>7, <1>8
(* What a recovery remembers stays true: of its own steps, ...             *)
LEMMA OwnRecalls ==
  ASSUME Inv, Inv', JournalInv, LeftInv, NEW p \in Procs, Acts(p)
  PROVE  Recalls(p)'
<1>0. SUFFICES ASSUME Recovers(p)' PROVE Recalls(p)'
  BY DEF Recalls
<1>1. /\ my \in [Procs -> Memories] /\ pc \in [Procs -> PCs] /\ my[p] \in Memories
      /\ refs \subseteq Entries /\ refs' \subseteq Entries
      /\ pc'[p] \in Popping /\ my'[p].task = "recover"
      /\ saved \in [Entries -> Saves]
      /\ None \notin Entries
  BY <1>0, StashOK DEF Inv, TypeOK, Recovers, Entries, None
<1>2. CASE Reread(p)
  <2>1. pc'[p] = "pop" /\ UNCHANGED refs
    BY <1>1, <1>2 DEF Reread, DecideGone, DecideUnknown, Goto, Popping, refVars
  <2>2. PICK entry : entry = [k \in Kinds |-> IF <<disk.owner, k>> \in Present(disk)
                                             THEN <<disk.owner, k>> ELSE None]
    OBVIOUS
  <2>3. /\ Unrecorded(disk) = {} /\ disk' = disk
        /\ my' = [my EXCEPT ![p] = [my[p] EXCEPT !.stash = entry["unstaged"],
                                                !.intents = entry["intent"]]]
    BY <1>1, <1>2, <2>1, <2>2 DEF Reread, DecideGone, DecideUnknown, Goto, Know, Kinds
  <2>4. my'[p].stash = entry["unstaged"] /\ my'[p].intents = entry["intent"]
    BY <1>1, <2>3 DEF Memories
  <2>5. ASSUME NEW c \in refs, Left(c) PROVE c \in {my'[p].stash, my'[p].intents}
    <3>1. c \in Present(disk)
      BY <2>3, <2>5 DEF Left, Present, Unrecorded
    <3>2. PICK k \in Kinds : c = <<disk.owner, k>>
      BY <1>1, <2>5 DEF Left, Entries
    <3>3. entry[k] = c
      BY <2>2, <3>1, <3>2
    <3>4. QED
      BY <2>4, <3>2, <3>3 DEF Kinds
  <2>6. {my'[p].stash, my'[p].intents} \subseteq disk.entries \cup {None}
    BY <2>2, <2>4 DEF Present, Kinds
  <2>7. QED
    BY <2>1, <2>3, <2>5, <2>6 DEF Recalls, Left
<1>3. CASE \/ Pop(p) \/ Restore(p) \/ Verify(p) \/ Drop(p) \/ Back(p) \/ Mark(p) \/ DropIntents(p)
           \/ ForgetIntents(p)
  <2>1. /\ Recovers(p) /\ my'[p].stash = my[p].stash /\ my'[p].intents = my[p].intents
        /\ my[p].bad => my'[p].bad
    BY <1>1, <1>3, TaskStays DEF Same, Recovers
  <2>2. /\ refs' \subseteq refs /\ \A c \in refs' : saved'[c] = saved[c]
        /\ reborn \subseteq reborn' /\ disk' = disk
        /\ \A f \in Files : Has(tree'[f], tree[f])
    BY <1>3, <2>1, PutsBack
  <2>3. Recalls(p) /\ ProcInv(p)' /\ ProcInv(p)
    BY DEF LeftInv, Inv
  <2>4. \A c \in refs : saved[c].files \subseteq Files
    BY <1>1 DEF Saves
  <2>5. ASSUME ~my'[p].bad, pc'[p] \notin {"pop", "restore"}, my[p].stash \in refs'
        PROVE  InTree(my[p].stash)'
    <3>1. CASE pc'[p] = "drop"
      BY <2>1, <2>3, <3>1 DEF ProcInv, Restoring
    <3>2. CASE pc'[p] # "drop"
      <4>1. pc[p] \notin {"pop", "restore"}
        BY <1>1, <1>3, <2>5, <3>2, PutsOn
      <4>2. InTree(my[p].stash)
        BY <2>1, <2>2, <2>3, <2>5, <4>1 DEF Recalls
      <4>3. QED
        BY <2>1, <2>2, <2>4, <2>5, <4>2 DEF InTree, Has
    <3>3. QED
      BY <3>1, <3>2
  <2>6. ASSUME ~my'[p].bad, pc'[p] \in {"drop_intents", "forget_intents", "popped"},
               my[p].intents \in refs', NEW f \in saved'[my[p].intents].files
        PROVE  Has(tree'[f], saved'[my[p].intents].work[f]) \/ f \in reborn'
    <3>1. CASE pc'[p] = "drop_intents"
      BY <2>1, <2>3, <2>6, <3>1 DEF ProcInv, BringingBack
    <3>2. CASE pc'[p] # "drop_intents"
      <4>1. pc[p] \in {"drop_intents", "forget_intents"}
        BY <1>1, <1>3, <2>6, <3>2, PutsOn
      <4>2. my[p].intents \in refs /\ saved'[my[p].intents] = saved[my[p].intents]
            /\ f \in Files
        BY <2>2, <2>4, <2>6
      <4>3. Has(tree[f], saved[my[p].intents].work[f]) \/ f \in reborn
        BY <2>1, <2>3, <2>6, <4>1, <4>2 DEF Recalls
      <4>4. QED
        BY <2>2, <4>2, <4>3 DEF Has
    <3>3. QED
      BY <3>1, <3>2
  <2>7. /\ \A c \in refs' : Left(c)' => c \in {my'[p].stash, my'[p].intents}
        /\ {my'[p].stash, my'[p].intents} \subseteq disk'.entries \cup {None}
    BY <2>1, <2>2, <2>3 DEF Recalls, Left
  <2>8. QED
    BY <2>1, <2>5, <2>6, <2>7 DEF Recalls
<1>4. CASE Look(p) \/ Await(p) \/ Exit(p) \/ Status(p) \/ Queue(p) \/ Leave(p) \/ Crash(p)
  BY <1>1, <1>4 DEF Look, Await, Exit, Status, Queue, Leave, Crash, Goto, Popping
<1>5. CASE Popped(p)
  <2>1. pc'[p] \in {"leave", "exiting"}
    BY <1>1, <1>5 DEF Popped, Goto, Memories
  <2>2. QED
    BY <1>1, <2>1 DEF Popping
<1>6. CASE ~(\/ Reread(p) \/ Pop(p) \/ Restore(p) \/ Verify(p) \/ Drop(p) \/ Back(p) \/ Mark(p)
             \/ DropIntents(p) \/ ForgetIntents(p) \/ Popped(p) \/ Look(p) \/ Await(p) \/ Exit(p)
             \/ Status(p) \/ Queue(p) \/ Leave(p) \/ Crash(p))
  BY <1>0, <1>6, RunsGoOn DEF Acts
<1>7. QED
  BY <1>2, <1>3, <1>4, <1>5, <1>6

(* ... and of the others'.                                                 *)
LEMMA RecallsStay ==
  ASSUME Inv, Inv', JournalInv, LeftInv, NEW p \in Procs, Acts(p), NEW q \in Procs
  PROVE  Recalls(q)'
<1>1. CASE q = p
  BY <1>1, OwnRecalls
<1>2. CASE q # p
  <2> SUFFICES ASSUME Recovers(q)' PROVE Recalls(q)'
    BY DEF Recalls
  <2>1. pc'[q] = pc[q] /\ my'[q] = my[q]
    BY <1>2, Acting DEF Others
  <2>2. Recovers(q) /\ lock # p
    BY <1>2, <2>1 DEF Recovers, Popping, Holding, Inv, LockIsHeld
  <2>3. UNCHANGED <<disk, refs, saved, reborn>> /\ \A f \in Files : Has(tree'[f], tree[f])
    BY <2>2, Outside DEF Has
  <2>4. Recalls(q) /\ \A c \in refs : saved[c].files \subseteq Files
    BY DEF LeftInv, Inv, TypeOK, Saves
  <2>5. ASSUME ~my[q].bad, pc[q] \notin {"pop", "restore"}, my[q].stash \in refs
        PROVE  InTree(my[q].stash)'
    <3>1. InTree(my[q].stash)
      BY <2>2, <2>4, <2>5 DEF Recalls
    <3>2. QED
      BY <2>1, <2>3, <2>4, <2>5, <3>1 DEF InTree, Has
  <2>6. ASSUME ~my[q].bad, pc[q] \in {"drop_intents", "forget_intents", "popped"},
               my[q].intents \in refs, NEW f \in saved[my[q].intents].files
        PROVE  Has(tree'[f], saved[my[q].intents].work[f]) \/ f \in reborn
    <3>1. Has(tree[f], saved[my[q].intents].work[f]) \/ f \in reborn
      BY <2>2, <2>4, <2>6 DEF Recalls
    <3>2. QED
      BY <2>3, <2>4, <2>6, <3>1 DEF Has
  <2>7. /\ \A c \in refs : Left(c) => c \in {my[q].stash, my[q].intents}
        /\ {my[q].stash, my[q].intents} \subseteq disk.entries \cup {None}
    BY <2>2, <2>4 DEF Recalls
  <2>8. QED
    BY <2>1, <2>3, <2>5, <2>6, <2>7 DEF Recalls, Left
<1>3. QED
  BY <1>1, <1>2
(* When no file loses edits, it is enough that what an entry has, and that  *)
(* is accounted for, stays so or is in the files.                           *)
LEMMA FindsOn ==
  ASSUME Inv, Inv', AllFound, reborn \subseteq reborn',
         \A f \in Files : Has(tree'[f], tree[f]) /\ made'[f] \subseteq made[f] \cup Users(tree'[f]),
         \A c \in refs : Named(c) =>
            \/ c \in refs' /\ saved'[c] = saved[c] /\ Named(c)'
            \/ \A f \in saved[c].files : Has(tree'[f], saved[c].work[f]) \/ f \in reborn'
  PROVE  AllFound'
<1> SUFFICES ASSUME NEW f \in Files \ reborn', NEW e \in made'[f] PROVE Found(f, e)'
  BY DEF AllFound
<1>1. CASE e \in tree'[f]
  BY <1>1 DEF Found, InPlace
<1>2. CASE e \notin tree'[f]
  <2>1. e \in made[f] /\ e \in {"old", "new"} /\ f \notin reborn
    BY <1>2 DEF Inv, TypeOK, Users
  <2>2. e \notin tree[f] /\ e \notin index[f]
    BY <1>2, <2>1 DEF Has, Users, Inv, TreeInv
  <2>3. PICK c \in refs : e \in saved[c].work[f] /\ Named(c)
    BY <2>1, <2>2 DEF AllFound, Found, InPlace
  <2>4. f \in saved[c].files
    BY <2>3 DEF Inv, TypeOK, EntryInv
  <2>5. ~Has(tree'[f], saved[c].work[f])
    BY <1>2, <2>1, <2>3 DEF Has, Users
  <2>6. c \in refs' /\ saved'[c] = saved[c] /\ Named(c)'
    BY <2>3, <2>4, <2>5
  <2>7. QED
    BY <2>3, <2>6 DEF Found
<1>3. QED
  BY <1>1, <1>2

(* A file that is removed or reset has its edits in an entry of a process   *)
(* that goes on.                                                           *)
LEMMA FindsSetAside ==
  ASSUME Inv, Inv', AllFound, NEW g \in Files, NEW E, tree' = [tree EXCEPT ![g] = E],
         UNCHANGED <<refs, saved, made, reborn>>,
         NEW d \in refs, Has(saved[d].work[g], tree[g]), Named(d)',
         \A c \in refs : Named(c) => Named(c)'
  PROVE  AllFound'
<1> SUFFICES ASSUME NEW f \in Files \ reborn, NEW e \in made[f] PROVE Found(f, e)'
  BY DEF AllFound
<1>1. e \in {"old", "new"} /\ Found(f, e) /\ Has(tree[f], index[f])
  BY DEF Inv, TypeOK, AllFound, TreeInv
<1>2. CASE e \in tree[f] /\ f # g
  BY <1>2 DEF Found, InPlace, Inv, TypeOK
<1>3. CASE e \in tree[f] /\ f = g
  BY <1>1, <1>3 DEF Found, Has, Users
<1>4. CASE e \notin tree[f]
  BY <1>1, <1>4 DEF Found, InPlace, Has, Users
<1>5. QED
  BY <1>2, <1>3, <1>4

(* Removing and resetting is all that takes edits out of the tree.          *)
LEMMA SetsAside ==
  ASSUME Inv, NEW p \in Procs, Remove(p) \/ Reset(p)
  PROVE  /\ UNCHANGED <<refs, saved, made, reborn>>
         /\ \/ tree' = tree
            \/ \E f \in Files, d \in refs : /\ \E E : tree' = [tree EXCEPT ![f] = E]
                                            /\ Has(saved[d].work[f], tree[f]) /\ d[1] = p
         /\ Alive(p)'
<1>1. /\ ProcInv(p) /\ my[p] \in Memories /\ pc \in [Procs -> PCs] /\ saved \in [Entries -> Saves]
      /\ refs \subseteq Entries
  BY DEF Inv, TypeOK
<1>2. UNCHANGED <<refs, saved, made, reborn>>
  BY DEF Remove, Reset, refVars, runVars
<1>3. Alive(p)'
  <2>1. pc'[p] \in {"remove", "stashed", "push", "reset", "rollback", "back"}
    BY <1>1 DEF Remove, Reset, GiveUp, Goto
  <2>2. QED
    BY <2>1 DEF Alive
<1>4. CASE Remove(p)
  <2>1. PICK d : d = <<p, "intent">>
    OBVIOUS
  <2>2. d \in refs /\ d[1] = p /\ InEntry(d) /\ my[p].todo \subseteq saved[d].files
    BY <1>1, <1>4, <2>1 DEF Remove, ProcInv, Stashing
  <2>3. tree' = tree \/ \E f \in my[p].todo : \E E : tree' = [tree EXCEPT ![f] = E]
    BY <1>4 DEF Remove, Write
  <2>4. saved[d].files \subseteq Files
    BY <1>1, <2>2 DEF Saves
  <2>5. ASSUME NEW f \in my[p].todo, NEW E, tree' = [tree EXCEPT ![f] = E]
        PROVE  f \in Files /\ Has(saved[d].work[f], tree[f])
    BY <2>2, <2>4 DEF InEntry
  <2>6. QED
    BY <1>2, <1>3, <2>2, <2>3, <2>5
<1>5. CASE Reset(p)
  <2>1. PICK d : d = <<p, "unstaged">>
    OBVIOUS
  <2>2. d \in refs /\ d[1] = p /\ InEntry(d) /\ my[p].todo \subseteq saved[d].files
    BY <1>1, <1>5, <2>1 DEF Reset, ProcInv, Stashing
  <2>3. tree' = tree \/ \E f \in my[p].todo : \E E : tree' = [tree EXCEPT ![f] = E]
    BY <1>5 DEF Reset, Write
  <2>4. saved[d].files \subseteq Files
    BY <1>1, <2>2 DEF Saves
  <2>5. ASSUME NEW f \in my[p].todo, NEW E, tree' = [tree EXCEPT ![f] = E]
        PROVE  f \in Files /\ Has(saved[d].work[f], tree[f])
    BY <2>2, <2>4 DEF InEntry
  <2>6. QED
    BY <1>2, <1>3, <2>2, <2>3, <2>5
<1>6. QED
  BY <1>4, <1>5

(* An entry is made beside the others.                                      *)
LEMMA StoresBeside ==
  ASSUME Inv, NEW p \in Procs, StoreIntents(p) \/ Store(p)
  PROVE  refs \subseteq refs' /\ \A c \in refs : saved'[c] = saved[c]
<1>1. ProcInv(p) /\ saved \in [Entries -> Saves]
  BY DEF Inv, TypeOK
<1>2. PICK k \in Kinds : /\ <<p, k>> \notin refs
                         /\ (\E S : StoreEntry(<<p, k>>, S)) \/ UNCHANGED refVars
  <2>1. CASE StoreIntents(p)
    <3>1. <<p, "intent">> \notin refs
      BY <1>1, <2>1 DEF StoreIntents, ProcInv, Before, Kinds
    <3>2. QED
      BY <2>1, <3>1 DEF StoreIntents, Kinds
  <2>2. CASE Store(p)
    <3>1. <<p, "unstaged">> \notin refs
      BY <1>1, <2>2 DEF Store, ProcInv, Before, Kinds
    <3>2. QED
      BY <2>2, <3>1 DEF Store, Kinds
  <2>3. QED
    BY <2>1, <2>2
<1>3. CASE UNCHANGED refVars
  BY <1>3 DEF refVars
<1>4. CASE \E S : StoreEntry(<<p, k>>, S)
  <2>1. PICK new : refs' = refs \cup {<<p, k>>} /\ saved' = [saved EXCEPT ![<<p, k>>] = new]
    BY <1>4 DEF StoreEntry
  <2>2. QED
    BY <1>1, <1>2, <2>1
<1>5. QED
  BY <1>2, <1>3, <1>4
(* A dropped entry is in the tree.                                         *)
LEMMA DropsFound ==
  ASSUME Inv, NEW p \in Procs, Drop(p) \/ DropIntents(p) \/ RollDrop(p)
  PROVE  /\ UNCHANGED <<tree, made, reborn>>
         /\ \A c \in refs : \/ c \in refs' /\ saved'[c] = saved[c]
                            \/ \A f \in saved[c].files : \/ Has(tree'[f], saved[c].work[f])
                                                         \/ f \in reborn'
<1>1. ProcInv(p) /\ saved \in [Entries -> Saves] /\ refs \subseteq Entries
  BY DEF Inv, TypeOK
<1>2. UNCHANGED <<tree, made, reborn>>
  BY DEF Drop, DropIntents, RollDrop, treeVars, runVars
<1>3. PICK d : /\ DropEntry(d)
               /\ \A f \in saved[d].files : Has(tree[f], saved[d].work[f]) \/ f \in reborn
  <2>1. CASE Drop(p)
    BY <1>1, <2>1 DEF Drop, ProcInv, Restoring, InTree
  <2>2. CASE DropIntents(p)
    BY <1>1, <2>2 DEF DropIntents, ProcInv, BringingBack
  <2>3. CASE RollDrop(p)
    BY <1>1, <2>3 DEF RollDrop, ProcInv, Stashing, InTree
  <2>4. QED
    BY <2>1, <2>2, <2>3
<1>4. \/ refs' = refs /\ saved' = saved
      \/ refs' = refs \ {d} /\ saved' = [saved EXCEPT ![d] = NoSave]
  BY <1>3 DEF DropEntry, refVars
<1>5. ASSUME NEW c \in refs, c # d PROVE c \in refs' /\ saved'[c] = saved[c]
  BY <1>1, <1>4, <1>5
<1>6. QED
  BY <1>2, <1>3, <1>5

(* Every edit that is missing from the tree can still be found.             *)
LEMMA FoundStays ==
  ASSUME Inv, Inv', JournalInv, LeftInv, NEW p \in Procs, Acts(p)
  PROVE  AllFound'
<1>1. AllFound /\ my \in [Procs -> Memories]
  BY DEF LeftInv, Inv, TypeOK
<1>2. ASSUME ~Popped(p), NEW c \in refs, Named(c) PROVE Named(c)'
  BY <1>2, NamesStay
<1>3. ASSUME ~Popped(p), UNCHANGED <<refs, saved, made>>, reborn \subseteq reborn',
             \A f \in Files : Has(tree'[f], tree[f])
      PROVE  AllFound'
  BY <1>1, <1>2, <1>3, FindsOn
<1>4. CASE Popped(p)
  <2>1. UNCHANGED <<tree, refs, saved, made, reborn>> /\ \A f \in Files : Has(tree'[f], tree[f])
    BY <1>4 DEF Popped, treeVars, refVars, runVars, Has
  <2>2. ASSUME NEW c \in refs, Named(c), ~Named(c)'
        PROVE  \A f \in saved[c].files : Has(tree[f], saved[c].work[f]) \/ f \in reborn
    <3>1. Left(c) /\ Recovers(p) /\ pc[p] = "popped" /\ ~my[p].bad /\ Recalls(p)
      BY <2>2, NamesStay DEF LeftInv
    <3>2. c = my[p].stash \/ c = my[p].intents
      BY <3>1 DEF Recalls
    <3>3. QED
      BY <3>1, <3>2 DEF Recalls, InTree
  <2>3. QED
    BY <1>1, <2>1, <2>2, FindsOn
<1>5. CASE ~Popped(p) /\ (Pop(p) \/ Restore(p) \/ Verify(p) \/ Back(p) \/ Mark(p) \/ ForgetIntents(p))
  <2>1. UNCHANGED <<refs, saved>>
    <3>1. CASE Pop(p)
      BY <3>1, Zenon DEF Pop, refVars
    <3>2. CASE Restore(p) \/ Back(p)
      BY <3>2 DEF Restore, Back, refVars
    <3>3. CASE Verify(p) \/ Mark(p) \/ ForgetIntents(p)
      BY <3>3 DEF Verify, Mark, ForgetIntents, refVars
    <3>4. QED
      BY <1>5, <3>1, <3>2, <3>3
  <2>2. UNCHANGED made /\ reborn \subseteq reborn' /\ \A f \in Files : Has(tree'[f], tree[f])
    BY <1>5, PutsBack
  <2>3. QED
    BY <1>3, <1>5, <2>1, <2>2
<1>6. CASE ~Popped(p) /\ (Drop(p) \/ DropIntents(p) \/ RollDrop(p))
  <2>1. /\ UNCHANGED <<tree, made, reborn>>
        /\ \A c \in refs : \/ c \in refs' /\ saved'[c] = saved[c]
                           \/ \A f \in saved[c].files : \/ Has(tree'[f], saved[c].work[f])
                                                        \/ f \in reborn'
    BY <1>6, DropsFound
  <2>2. \A f \in Files : Has(tree'[f], tree[f])
    BY <2>1 DEF Has
  <2>3. QED
    BY <1>1, <1>2, <1>6, <2>1, <2>2, FindsOn
<1>7. CASE ~Popped(p) /\ Rollback(p)
  <2>1. UNCHANGED <<refs, saved, made, reborn>>
    BY <1>7 DEF Rollback, refVars, runVars
  <2>2. QED
    BY <1>3, <1>7, <2>1, RollbackStays
<1>8. CASE ~Popped(p) /\ (Remove(p) \/ Reset(p))
  <2>1. /\ UNCHANGED <<refs, saved, made, reborn>> /\ Alive(p)'
        /\ \/ tree' = tree
           \/ \E f \in Files, d \in refs : /\ \E E : tree' = [tree EXCEPT ![f] = E]
                                           /\ Has(saved[d].work[f], tree[f]) /\ d[1] = p
    BY <1>8, SetsAside
  <2>2. CASE tree' = tree
    BY <1>3, <1>8, <2>1, <2>2 DEF Has
  <2>3. ASSUME NEW f \in Files, NEW d \in refs, NEW E, tree' = [tree EXCEPT ![f] = E],
               Has(saved[d].work[f], tree[f]), d[1] = p
        PROVE  AllFound'
    <3>1. Named(d)'
      BY <2>1, <2>3 DEF Named, Alive
    <3>2. \A c \in refs : Named(c) => Named(c)'
      BY <1>2, <1>8
    <3>3. QED
      BY <1>1, <2>1, <2>3, <3>1, <3>2, FindsSetAside
  <2>4. QED
    BY <2>1, <2>2, <2>3
<1>9. CASE ~Popped(p) /\ (StoreIntents(p) \/ Store(p))
  <2>1. UNCHANGED <<tree, made, reborn>>
    BY <1>9 DEF StoreIntents, Store, treeVars, runVars
  <2>2. refs \subseteq refs' /\ \A c \in refs : saved'[c] = saved[c]
    BY <1>9, StoresBeside
  <2>3. \A f \in Files : Has(tree'[f], tree[f])
    BY <2>1 DEF Has
  <2>4. QED
    BY <1>1, <1>2, <1>9, <2>1, <2>2, <2>3, FindsOn
<1>10. CASE ~Popped(p) /\ Fix(p)
  <2>1. UNCHANGED <<refs, saved, made, reborn>>
        /\ \E f \in Files : tree' = [tree EXCEPT ![f] = tree[f] \cup {"fix"}]
    BY <1>10 DEF Fix, Write, refVars, runVars
  <2>2. \A f \in Files : Has(tree'[f], tree[f])
    BY <2>1 DEF Has, Users, Inv, TypeOK
  <2>3. QED
    BY <1>3, <1>10, <2>1, <2>2
<1>11. CASE /\ ~Popped(p)
            /\ \/ Look(p) \/ Await(p) \/ Reread(p) \/ Leave(p) \/ Exit(p) \/ Status(p) \/ Queue(p)
               \/ Stash(p) \/ RecordIntents(p) \/ Unmark(p) \/ Push(p) \/ Record(p) \/ RollForget(p)
               \/ Stashed(p) \/ StepsEnd(p) \/ Crash(p)
  <2>1. UNCHANGED <<tree, refs, saved, made, reborn>>
    <3>1. CASE Look(p) \/ Await(p) \/ Reread(p) \/ Leave(p) \/ Exit(p) \/ Status(p) \/ Queue(p)
      BY <3>1 DEF Look, Await, Reread, Leave, Exit, Status, Queue, treeVars, refVars, runVars
    <3>2. CASE Stash(p) \/ RecordIntents(p) \/ Unmark(p) \/ Push(p) \/ Record(p)
      BY <3>2 DEF Stash, RecordIntents, Unmark, Push, Record, treeVars, refVars, runVars
    <3>3. CASE RollForget(p) \/ Stashed(p) \/ StepsEnd(p) \/ Crash(p)
      BY <3>3 DEF RollForget, Stashed, StepsEnd, Crash, treeVars, refVars, runVars
    <3>4. QED
      BY <1>11, <3>1, <3>2, <3>3
  <2>2. QED
    BY <1>3, <1>11, <2>1 DEF Has
<1>12. QED
  BY <1>4, <1>5, <1>6, <1>7, <1>8, <1>9, <1>10, <1>11 DEF Acts

(* What a recovery leaves can be found from the start, ...                  *)
LEMMA LeftBegins == Init => LeftInv
<1> SUFFICES ASSUME Init PROVE LeftInv
  OBVIOUS
<1>1. AllFound
  BY DEF Init, AllFound, Found, InPlace
<1>2. ASSUME NEW p \in Procs PROVE KeepsIt(p) /\ Recalls(p)
  BY DEF Init, KeepsIt, Recalls, Recovers, Popping
<1>3. QED
  BY <1>1, <1>2 DEF LeftInv

(* ... and after every step.                                               *)
LEMMA LeftStays == Inv /\ Inv' /\ JournalInv /\ LeftInv /\ [Next]_vars => LeftInv'
<1> SUFFICES ASSUME Inv, Inv', JournalInv, LeftInv, [Next]_vars PROVE LeftInv'
  OBVIOUS
<1>1. ASSUME NEW p \in Procs, Acts(p) PROVE LeftInv'
  BY <1>1, FoundStays, KeepsItStays, RecallsStay DEF LeftInv
<1>2. CASE Edit \/ StageByHand \/ UNCHANGED vars
  <2>1. UNCHANGED <<refs, saved, disk, lock, pc, own, my, reborn>>
    BY <1>2 DEF Edit, StageByHand, vars, refVars, runVars
  <2>2. \A f \in Files : /\ Has(tree'[f], tree[f])
                         /\ made'[f] \subseteq made[f] \cup Users(tree'[f])
    <3>1. CASE Edit
      <4>1. PICK f \in Files : /\ tree' = [tree EXCEPT ![f] = tree[f] \cup {"new"}]
                               /\ made' = [made EXCEPT ![f] = made[f] \cup {"new"}]
        BY <3>1 DEF Edit, Write
      <4>2. QED
        BY <4>1 DEF Has, Users, Inv, TypeOK
    <3>2. CASE StageByHand \/ UNCHANGED vars
      BY <3>2 DEF StageByHand, vars, treeVars, Has
    <3>3. QED
      BY <1>2, <3>1, <3>2
  <2>3. \A c \in refs : Named(c)' = Named(c) /\ Left(c)' = Left(c)
    BY <2>1 DEF Named, Alive, Journalled, Left
  <2>4. AllFound'
    BY <2>1, <2>2, <2>3, FindsOn DEF LeftInv
  <2>5. ASSUME NEW p \in Procs PROVE KeepsIt(p)'
    BY <2>1 DEF LeftInv, KeepsIt, Alive
  <2>6. ASSUME NEW p \in Procs PROVE Recalls(p)'
    <3>1. Recalls(p) /\ \A c \in refs : saved[c].files \subseteq Files
      BY DEF LeftInv, Inv, TypeOK, Saves
    <3>2. my[p].stash \in refs /\ InTree(my[p].stash) => InTree(my[p].stash)'
      BY <2>1, <2>2, <3>1 DEF InTree, Has
    <3>3. my[p].intents \in refs =>
            \A f \in saved[my[p].intents].files :
              Has(tree[f], saved[my[p].intents].work[f]) => Has(tree'[f], saved[my[p].intents].work[f])
      BY <2>2, <3>1 DEF Has
    <3>4. QED
      BY <2>1, <3>1, <3>2, <3>3 DEF Recalls, Recovers, Left
  <2>7. QED
    BY <2>4, <2>5, <2>6 DEF LeftInv
<1>3. QED
  BY <1>1, <1>2 DEF Next, AllOver, Acts

(* The inductive invariant about what recoveries leave.                    *)
THEOREM LeftInvariance == Spec => []LeftInv
BY LeftBegins, LeftStays, StashInvariance, JournalInvariance, PTL DEF Spec

(* A process that looked for what an earlier one left, and had the lock,    *)
(* has told the user of every edit that is missing from the tree, or its    *)
(* entry's process runs or kept no journal.                                *)
THEOREM LeftoversAreFound == Spec => LeftoversAreTold
<1> DEFINE Told(p) == (pc[p] # "leave" /\ pc'[p] = "leave") =>
                        \A f \in Files \ reborn : \A e \in made[f] :
                          \/ InPlace(f, e)
                          \/ \E c \in refs : /\ e \in saved[c].work[f]
                                             /\ c \in told'[p] \/ Alive(c[1]) \/ ~Journalled(c)
<1>1. ASSUME Inv, JournalInv, LeftInv, [Next]_vars, NEW p \in Procs PROVE Told(p)
  <2> SUFFICES ASSUME pc[p] # "leave", pc'[p] = "leave",
                      NEW f \in Files \ reborn, NEW e \in made[f], ~InPlace(f, e)
               PROVE  \E c \in refs : /\ e \in saved[c].work[f]
                                      /\ c \in told'[p] \/ Alive(c[1]) \/ ~Journalled(c)
    OBVIOUS
  <2>1. /\ my \in [Procs -> Memories] /\ pc \in [Procs -> PCs] /\ refs \subseteq Entries
        /\ told \in [Procs -> SUBSET Entries] /\ None \notin Entries
    BY <1>1, StashOK DEF Inv, TypeOK, Entries, None
  <2>2. PICK c \in refs : e \in saved[c].work[f] /\ Named(c)
    BY <1>1 DEF LeftInv, AllFound, Found
  <2>3. SUFFICES ASSUME Left(c), ~Alive(c[1]) PROVE c \in told'[p]
    BY <2>2 DEF Named
  <2>4. c \in Present(disk) \cup Unrecorded(disk) /\ disk # NoJournal
    BY <1>1, <2>1, <2>3, StashOK DEF Left, Present, Unrecorded, Entries, JournalInv
  <2>5. Reread(p) \/ Popped(p)
    <3>1. PICK r \in Procs : Acts(r)
      BY <1>1 DEF Next, AllOver, Acts, Edit, StageByHand, vars
    <3>2. r = p
      BY <1>1, <3>1, Acting DEF Others
    <3>3. ~(\/ Stash(p) \/ StoreIntents(p) \/ RecordIntents(p) \/ Unmark(p) \/ Remove(p) \/ Push(p)
            \/ Store(p) \/ Record(p) \/ Reset(p) \/ Rollback(p) \/ RollDrop(p) \/ RollForget(p)
            \/ Stashed(p) \/ Fix(p) \/ StepsEnd(p))
      BY <1>1, RunsGoOn DEF NoEntry
    <3>4. ~(\/ Pop(p) \/ Restore(p) \/ Verify(p) \/ Drop(p) \/ Back(p) \/ Mark(p) \/ DropIntents(p)
            \/ ForgetIntents(p))
      BY <1>1, TaskStays DEF Popping
    <3>5. ~(Look(p) \/ Await(p) \/ Leave(p) \/ Exit(p) \/ Status(p) \/ Queue(p) \/ Crash(p))
      BY <2>1 DEF Look, Await, Leave, Exit, Status, Queue, Crash, Goto
    <3>6. QED
      BY <3>1, <3>2, <3>3, <3>4, <3>5 DEF Acts
  <2>6. CASE Reread(p)
    <3>1. ~Alive(disk.owner) /\ Owner(p) \in {"unknown", "gone"}
      BY <2>3, <2>4 DEF Left, Owner
    <3>2. told'[p] = Present(disk) \cup Unrecorded(disk)
      BY <2>1, <2>4, <2>6, <3>1 DEF Reread, DecideGone, DecideUnknown, Goto
    <3>3. QED
      BY <2>4, <3>2
  <2>7. CASE Popped(p)
    <3>1. pc[p] = "popped" /\ my[p].task = "recover" /\ Recalls(p)
      BY <1>1, <2>1, <2>7 DEF Popped, Goto, Memories, LeftInv
    <3>2. Recovers(p) /\ c \in {my[p].stash, my[p].intents} /\ c \in disk.entries
      BY <2>1, <2>3, <3>1 DEF Recovers, Popping, Recalls
    <3>3. CASE my[p].bad
      BY <2>1, <2>7, <3>1, <3>2, <3>3 DEF Popped
    <3>4. CASE ~my[p].bad
      <4>1. \A g \in saved[c].files : Has(tree[g], saved[c].work[g]) \/ g \in reborn
        BY <3>1, <3>2, <3>4 DEF Recalls, InTree
      <4>2. f \in saved[c].files /\ e \in {"old", "new"}
        BY <1>1, <2>1, <2>2 DEF Inv, TypeOK, EntryInv
      <4>3. QED
        BY <2>2, <4>1, <4>2 DEF Has, Users, InPlace
    <3>5. QED
      BY <3>3, <3>4
  <2>8. QED
    BY <2>5, <2>6, <2>7
<1>2. ASSUME Inv, JournalInv, LeftInv, [Next]_vars PROVE \A p \in Procs : Told(p)
  BY <1>1, <1>2
<1>3. QED
  BY <1>2, StashInvariance, JournalInvariance, LeftInvariance, PTL DEF Spec, LeftoversAreTold
=============================================================================
