---------------------------- MODULE StashJournal -----------------------------
(***************************************************************************)
(* How hk sets the unstaged changes of a working tree aside while its      *)
(* steps run, and puts them back: as entries under refs/hk/stash, named by *)
(* a journal that the next run reads when this one was killed (git.rs,     *)
(* stash_journal.rs, hook.rs).  Several hk processes share the tree, the   *)
(* entries, the journal and the lock on stashing; each may be killed       *)
(* between any two of its writes.                                          *)
(*                                                                         *)
(* The contents of a file are the set of edits it has over HEAD.  A file   *)
(* of NewFiles is not in HEAD: it exists when it has edits, and is         *)
(* untracked or marked with `git add -N`.  The journal's own lock is not   *)
(* modelled: whoever takes it holds the stash lock already.  The user      *)
(* leaves the files alone while a process holds the stash lock.            *)
(***************************************************************************)
EXTENDS Naturals, FiniteSets

CONSTANTS Procs,      (* the hk processes *)
          Files,      (* the files of the working tree *)
          NewFiles,   (* those that are not in HEAD *)
          MaxFixes,   (* how many files have a step's fix at once *)
          Scenarios   (* the runs to consider, each a record of: *)
                      (*   place    process -> its PID namespace, or "nowhere" *)
                      (*   crashes  how many processes are killed *)
                      (*   faults   how many writes and git commands fail *)
                      (*   edits    how many files the user edits *)

Kinds   == {"unstaged", "intent"}
Entries == Procs \X Kinds
Edits   == {"old", "new", "fix", "blank"}
None    == <<"none", "none">>

ASSUME StashOK == /\ IsFiniteSet(Procs) /\ IsFiniteSet(Files)
                  /\ NewFiles \subseteq Files
                  /\ MaxFixes \in Nat
                  /\ Scenarios \subseteq
                       [place : [Procs -> {"here", "there", "nowhere"}],
                        crashes : Nat, faults : Nat, edits : Nat]
                  /\ "none" \notin Procs

VARIABLES
  tree,     (* file -> its edits in the working tree *)
  index,    (* file -> its staged edits *)
  marked,   (* the new files that are in the index with intent to add *)
  refs,     (* the entries under refs/hk/stash *)
  saved,    (* entry -> its files, their staged edits and those in the tree *)
  disk,     (* the journal file *)
  lock,     (* who holds the stash lock *)
  scene,    (* the run that is considered *)
  pc,       (* process -> where it is *)
  own,      (* process -> the journal it keeps, as it remembers it *)
  my,       (* process -> what else it remembers *)
  told,     (* process -> the entries its recovery told the user about *)
  made,     (* file -> the edits the user made to it *)
  crashes, faults, (* how many there were *)
  reborn    (* the files that hk removed, others made again and hk took for *)
            (* never removed: a history that only properties read *)

treeVars == <<tree, index, marked>>
refVars  == <<refs, saved>>
runVars  == <<scene, crashes, reborn>>
vars     == <<treeVars, refVars, disk, lock, pc, own, my, told, made, faults, runVars>>

NoJournal == [owner |-> "none", before |-> {}, entries |-> {}]
NoSave    == [files |-> {}, base |-> [f \in Files |-> {}],
              work |-> [f \in Files |-> {}]]
(* seen, intent: what the status said.  stash, intents: the entries to put  *)
(* back.  todo: the files the operation at hand still has to write, wrote   *)
(* those it restored as they were, touched those a step changed.  bad:      *)
(* something was not put back.  set_aside: every file with intent to add    *)
(* was removed.                                                             *)
Fresh     == [seen |-> {}, intent |-> {}, stash |-> None, intents |-> None,
              todo |-> {}, wrote |-> {}, touched |-> {}, bad |-> FALSE,
              set_aside |-> TRUE, task |-> "recover"]

Holding == {"reread", "pop", "restore", "drop", "back", "mark", "drop_intents",
            "forget_intents", "popped", "leave", "stash", "store_intents",
            "record_intents", "unmark", "remove", "push", "store", "record",
            "reset", "rollback", "roll_drop", "roll_forget", "stashed"}
PCs     == Holding \cup {"idle", "await", "status", "queue", "steps", "exiting",
                         "over", "dead"}

Alive(p)   == pc[p] \notin {"idle", "over", "dead"}
Change(c, f) == saved[c].work[f] \ saved[c].base[f]
Dirty      == {f \in Files : tree[f] # index[f]}
Goto(p, l) == pc' = [pc EXCEPT ![p] = l]
Know(p, r) == my' = [my EXCEPT ![p] = r]
Write(f, e) == tree' = [tree EXCEPT ![f] = e]
(* A write or a git command fails.                                          *)
Fault      == faults < scene.faults /\ faults' = faults + 1
NoFault    == UNCHANGED faults

Init ==
  /\ tree \in [Files -> {{}, {"old"}}]
  /\ index = [f \in Files |-> {}]
  /\ marked \in SUBSET {f \in NewFiles : tree[f] # {}}
  /\ refs = {} /\ saved = [c \in Entries |-> NoSave]
  /\ disk = NoJournal /\ lock = "none"
  /\ scene \in Scenarios
  /\ pc = [p \in Procs |-> IF scene.place[p] = "nowhere" THEN "over" ELSE "idle"]
  /\ own = [p \in Procs |-> NoJournal]
  /\ my = [p \in Procs |-> Fresh]
  /\ told = [p \in Procs |-> {}]
  /\ made = tree
  /\ crashes = 0 /\ faults = 0 /\ reborn = {}

(***************************************************************************)
(* The journal of process p.                                               *)
(***************************************************************************)
(* It is begun, unless p keeps one, another is in place or it cannot be    *)
(* written: then p stashes without one.                                    *)
EnsureJournal(p) ==
  LET begun == [owner |-> p, before |-> refs, entries |-> {}]
  IN IF own[p] = NoJournal /\ disk = NoJournal
     THEN \/ NoFault /\ disk' = begun /\ own' = [own EXCEPT ![p] = begun]
          \/ Fault /\ UNCHANGED <<disk, own>>
     ELSE NoFault /\ UNCHANGED <<disk, own>>

(* It is rewritten to name `entries`; p may remember that although the      *)
(* write failed.                                                            *)
JournalWrite(p, entries) ==
  LET new == [own[p] EXCEPT !.entries = entries]
  IN IF own[p] = NoJournal THEN NoFault /\ UNCHANGED <<disk, own>>
     ELSE \/ NoFault /\ disk' = new /\ own' = [own EXCEPT ![p] = new]
          \/ Fault /\ own' \in {own, [own EXCEPT ![p] = new]} /\ UNCHANGED disk
JournalRecord(p, c) == JournalWrite(p, own[p].entries \cup {c})
JournalForget(p, c) == JournalWrite(p, own[p].entries \ {c})

(* It is deleted, if the file is still p's.                                 *)
JournalFinish(p) ==
  /\ own' = [own EXCEPT ![p] = NoJournal]
  /\ IF own[p] # NoJournal /\ disk.owner = p
     THEN \/ NoFault /\ disk' = NoJournal
          \/ Fault /\ UNCHANGED disk
     ELSE NoFault /\ UNCHANGED disk

(***************************************************************************)
(* Recovery: what a journal says that an earlier process left.             *)
(***************************************************************************)
(* Mutant of Owner: a process that runs here is taken for gone.             *)
OwnerMutant(p) == IF disk = NoJournal THEN "nobody"
                  ELSE IF scene.place[disk.owner] # scene.place[p] THEN "unknown"
                  ELSE "gone"

Owner(p) == IF disk = NoJournal THEN "nobody"
            ELSE IF scene.place[disk.owner] # scene.place[p] THEN "unknown"
            ELSE IF Alive(disk.owner) THEN "running" ELSE "gone"
Present(j)    == j.entries \cap refs
Unrecorded(j) == {c \in refs : c[1] = j.owner /\ c \notin j.before \cup j.entries}

(* The first look takes no lock.                                            *)
Look(p) ==
  /\ pc[p] = "idle"
  /\ Goto(p, IF Owner(p) \in {"nobody", "running"} THEN "status" ELSE "await")
  /\ UNCHANGED <<treeVars, refVars, disk, lock, own, my, told, made, faults, runVars>>

Await(p) ==
  /\ pc[p] = "await"
  /\ \/ lock = "none" /\ lock' = p /\ Goto(p, "reread")
     \/ lock # "none" /\ Goto(p, "status") /\ UNCHANGED lock
  /\ UNCHANGED <<treeVars, refVars, disk, own, my, told, made, faults, runVars>>

(* Mutant of DecideGone: entries that no one recorded are asked about last. *)
DecideGoneMutant(p, j) ==
  \/ /\ Present(j) # {} /\ (Unrecorded(j) # {} \/ Dirty # {})
     /\ told' = [told EXCEPT ![p] = Present(j) \cup Unrecorded(j)]
     /\ Goto(p, "leave") /\ UNCHANGED <<disk, my>>
  \/ /\ Present(j) = {}
     /\ disk' = NoJournal /\ Goto(p, "leave") /\ UNCHANGED <<my, told>>
  \/ /\ Unrecorded(j) = {} /\ Present(j) # {} /\ Dirty = {}
     /\ LET entry(k) == IF <<j.owner, k>> \in Present(j) THEN <<j.owner, k>> ELSE None
        IN Know(p, [my[p] EXCEPT !.stash = entry("unstaged"),
                                 !.intents = entry("intent")])
     /\ Goto(p, "pop") /\ UNCHANGED <<disk, told>>

(* What decide() does with the journal j of a process that is gone.         *)
DecideGone(p, j) ==
  \/ /\ Unrecorded(j) # {} \/ (Present(j) # {} /\ Dirty # {})
     /\ told' = [told EXCEPT ![p] = Present(j) \cup Unrecorded(j)]
     /\ Goto(p, "leave") /\ UNCHANGED <<disk, my>>
  \/ /\ Unrecorded(j) = {} /\ Present(j) = {}
     /\ disk' = NoJournal /\ Goto(p, "leave") /\ UNCHANGED <<my, told>>
  \/ /\ Unrecorded(j) = {} /\ Present(j) # {} /\ Dirty = {}
     /\ LET entry(k) == IF <<j.owner, k>> \in Present(j) THEN <<j.owner, k>> ELSE None
        IN Know(p, [my[p] EXCEPT !.stash = entry("unstaged"),
                                 !.intents = entry("intent")])
     /\ Goto(p, "pop") /\ UNCHANGED <<disk, told>>

DecideUnknown(p, j) ==
  LET commits == Present(j) \cup Unrecorded(j)
  IN /\ told' = [told EXCEPT ![p] = commits]
     /\ disk' = IF commits = {} THEN NoJournal ELSE disk
     /\ Goto(p, "leave") /\ UNCHANGED my

Reread(p) ==
  /\ pc[p] = "reread"
  /\ \/ /\ Owner(p) \in {"nobody", "running"}
        /\ Goto(p, "leave") /\ UNCHANGED <<disk, my, told>>
     \/ Owner(p) = "unknown" /\ DecideUnknown(p, disk)
     \/ Owner(p) = "gone" /\ DecideGone(p, disk)
  /\ UNCHANGED <<treeVars, refVars, lock, own, made, faults, runVars>>

(* The lock goes with the function that took it.                            *)
Leave(p) ==
  /\ pc[p] = "leave"
  /\ lock' = "none"
  /\ Know(p, [Fresh EXCEPT !.task = "run"])
  /\ told' = [told EXCEPT ![p] = {}]
  /\ Goto(p, "status")
  /\ UNCHANGED <<treeVars, refVars, disk, own, made, faults, runVars>>

(***************************************************************************)
(* pop_stash, for a recovery, a run that ends or one that gives up: first  *)
(* the unstaged changes, then the files with intent to add.                *)
(***************************************************************************)
Bad(r) == [r EXCEPT !.bad = TRUE]

(* restore_plan.  A file of the entry that a step changed is merged, and    *)
(* left as it is when it is not in HEAD.                                    *)
Pop(p) ==
  LET c == my[p].stash
      differs == {f \in saved[c].files : tree[f] # saved[c].work[f]}
      touched == {f \in differs : tree[f] # saved[c].base[f]}
  IN /\ pc[p] = "pop"
     /\ \/ c = None /\ Goto(p, "back") /\ UNCHANGED my /\ NoFault
        \/ /\ c # None /\ ((c \notin refs /\ NoFault) \/ Fault)
           /\ Know(p, Bad(my[p])) /\ Goto(p, "back")
        \/ /\ c \in refs
           /\ Know(p, [my[p] EXCEPT !.todo = differs \ (touched \cap NewFiles),
                                    !.wrote = differs \ touched,
                                    !.touched = touched \ NewFiles,
                                    !.bad = @ \/ touched \cap NewFiles # {}])
           /\ Goto(p, "restore") /\ NoFault
     /\ UNCHANGED <<treeVars, refVars, disk, lock, own, told, made, runVars>>

(* Where the step's change and the stashed one overlap, the stashed one     *)
(* wins if hk knows the step's output; otherwise the file is left as it is. *)
Restore(p) ==
  LET c == my[p].stash
      done(f) == [my[p] EXCEPT !.todo = @ \ {f}]
  IN /\ pc[p] = "restore"
     /\ \E f \in my[p].todo :
          \/ /\ f \notin my[p].touched
             /\ Write(f, saved[c].work[f]) /\ Know(p, done(f)) /\ NoFault
          \/ /\ f \in my[p].touched
             /\ \/ Write(f, tree[f] \cup Change(c, f))
                \/ Write(f, (tree[f] \ {"fix"}) \cup Change(c, f))
             /\ Know(p, done(f)) /\ NoFault
          \/ /\ f \in my[p].touched /\ tree[f] # index[f]
             /\ Know(p, Bad(done(f))) /\ UNCHANGED tree /\ NoFault
          \/ Fault /\ Know(p, Bad(done(f))) /\ UNCHANGED tree
     /\ UNCHANGED <<index, marked, refVars, disk, lock, pc, own, told, made, runVars>>

(* Mutant of Verify: only what was written is checked, not what was left.   *)
VerifyMutant(p) ==
  LET c == my[p].stash
      bad == \E f \in my[p].wrote : tree[f] # saved[c].work[f]
  IN /\ pc[p] = "restore" /\ my[p].todo = {}
     /\ Know(p, [my[p] EXCEPT !.bad = @ \/ bad, !.wrote = {}, !.touched = {}])
     /\ Goto(p, IF bad THEN "back" ELSE "drop")
     /\ UNCHANGED <<treeVars, refVars, disk, lock, own, told, made, faults, runVars>>

(* unrestored_paths: the entry goes only if every file it restored as it    *)
(* was is the entry's.                                                      *)
Verify(p) ==
  LET c == my[p].stash
      bad == my[p].bad \/ \E f \in my[p].wrote : tree[f] # saved[c].work[f]
  IN /\ pc[p] = "restore" /\ my[p].todo = {}
     /\ Know(p, [my[p] EXCEPT !.bad = bad, !.wrote = {}, !.touched = {}])
     /\ Goto(p, IF bad THEN "back" ELSE "drop")
     /\ UNCHANGED <<treeVars, refVars, disk, lock, own, told, made, faults, runVars>>

(* drop_stash_commit: failing is only worth a warning.                      *)
DropEntry(c) == \/ NoFault /\ refs' = refs \ {c} /\ saved' = [saved EXCEPT ![c] = NoSave]
                \/ Fault /\ UNCHANGED refVars

Drop(p) ==
  /\ pc[p] = "drop"
  /\ DropEntry(my[p].stash)
  /\ Goto(p, "back")
  /\ UNCHANGED <<treeVars, disk, lock, own, my, told, made, runVars>>

(* restore_intent_to_add: a file that exists by now is kept.  If they were  *)
(* not all removed it is taken for one that was not.                       *)
Back(p) ==
  LET c == my[p].intents
      occupied == {f \in saved[c].files : tree[f] # {}}
  IN /\ pc[p] = "back"
     /\ \/ /\ (c = None /\ NoFault) \/ (c # None /\ Fault)
           /\ Know(p, [my[p] EXCEPT !.bad = @ \/ c # None])
           /\ Goto(p, "popped") /\ UNCHANGED <<tree, reborn>>
        \/ /\ c # None /\ NoFault
           /\ tree' = [f \in Files |-> IF f \in saved[c].files \ occupied
                                       THEN saved[c].work[f] ELSE tree[f]]
           /\ reborn' = reborn \cup {f \in occupied : /\ ~my[p].set_aside
                                                      /\ ~(saved[c].work[f] \subseteq tree[f])}
           /\ Know(p, [my[p] EXCEPT !.touched = occupied]) /\ Goto(p, "mark")
     /\ UNCHANGED <<index, marked, refVars, disk, lock, own, told, made, scene, crashes>>

Mark(p) ==
  LET keep == my[p].set_aside /\ my[p].touched # {}
  IN /\ pc[p] = "mark"
     /\ \/ /\ NoFault /\ marked' = marked \cup saved[my[p].intents].files
           /\ Know(p, [my[p] EXCEPT !.bad = @ \/ keep, !.touched = {}])
           /\ Goto(p, IF keep THEN "popped" ELSE "drop_intents")
        \/ /\ Fault /\ Know(p, Bad(my[p])) /\ Goto(p, "popped") /\ UNCHANGED marked
     /\ UNCHANGED <<tree, index, refVars, disk, lock, own, told, made, runVars>>

(* Mutant of DropIntents: the entry is only forgotten.                      *)
DropIntentsMutant(p) ==
  /\ pc[p] = "drop_intents"
  /\ Goto(p, "forget_intents")
  /\ UNCHANGED <<treeVars, refVars, disk, lock, own, my, told, made, faults, runVars>>

(* The entry of the files with intent to add goes, and then its mention.    *)
DropIntents(p) ==
  /\ pc[p] = "drop_intents"
  /\ DropEntry(my[p].intents)
  /\ Goto(p, IF refs' = refs THEN "popped" ELSE "forget_intents")
  /\ UNCHANGED <<treeVars, disk, lock, own, my, told, made, runVars>>

ForgetIntents(p) ==
  /\ pc[p] = "forget_intents"
  /\ JournalForget(p, my[p].intents)
  /\ Goto(p, "popped")
  /\ UNCHANGED <<treeVars, refVars, lock, my, told, made, runVars>>

(* What follows: a recovery discards the journal or tells of its entries, a *)
(* run that ends finishes its own, one that gave up leaves it.              *)
Popped(p) ==
  /\ pc[p] = "popped"
  /\ CASE my[p].task = "recover" ->
            /\ IF my[p].bad
               THEN told' = [told EXCEPT ![p] = disk.entries] /\ UNCHANGED disk
               ELSE disk' = NoJournal /\ UNCHANGED told
            /\ Goto(p, "leave") /\ NoFault /\ UNCHANGED <<lock, own>>
       [] my[p].task = "run" ->
            /\ IF my[p].bad THEN NoFault /\ UNCHANGED <<disk, own>> ELSE JournalFinish(p)
            /\ lock' = "none" /\ Goto(p, "exiting") /\ UNCHANGED told
       [] my[p].task = "abort" ->
            /\ lock' = "none" /\ Goto(p, "exiting") /\ NoFault
            /\ UNCHANGED <<disk, own, told>>
  /\ UNCHANGED <<treeVars, refVars, my, made, runVars>>

Exit(p) ==
  /\ pc[p] = "exiting" /\ Goto(p, "over")
  /\ Know(p, [Fresh EXCEPT !.bad = my[p].bad])
  /\ UNCHANGED <<treeVars, refVars, disk, lock, own, told, made, faults, runVars>>

(***************************************************************************)
(* A run: its status, the lock, stash_unstaged, the steps.                 *)
(***************************************************************************)
(* The status is read before the lock is asked for, and not again.          *)
Status(p) ==
  /\ pc[p] = "status"
  /\ Know(p, [Fresh EXCEPT !.seen = Dirty, !.intent = Dirty \cap marked, !.task = "run"])
  /\ Goto(p, IF Dirty = {} THEN "steps" ELSE "queue")
  /\ UNCHANGED <<treeVars, refVars, disk, lock, own, told, made, faults, runVars>>

Queue(p) ==
  /\ pc[p] = "queue"
  /\ \/ lock = "none" /\ lock' = p /\ Goto(p, "stash")
     \/ Goto(p, "over") /\ UNCHANGED lock
  /\ UNCHANGED <<treeVars, refVars, disk, own, my, told, made, faults, runVars>>

Stash(p) ==
  /\ pc[p] = "stash"
  /\ IF my[p].intent = {}
     THEN Goto(p, "push") /\ NoFault /\ UNCHANGED <<disk, own>>
     ELSE Goto(p, "store_intents") /\ EnsureJournal(p)
  /\ UNCHANGED <<treeVars, refVars, lock, my, told, made, runVars>>

(* Stashing fails: what is set aside comes back, the journal stays.         *)
GiveUp(p, r) == Know(p, [Bad(r) EXCEPT !.task = "abort", !.todo = {}]) /\ Goto(p, "back")

StoreEntry(c, files) ==
  /\ saved' = [saved EXCEPT ![c] = [files |-> files,
                                    base |-> [f \in Files |-> IF f \in files THEN index[f] ELSE {}],
                                    work |-> [f \in Files |-> IF f \in files THEN tree[f] ELSE {}]]]
  /\ refs' = refs \cup {c}

(* A file that the status had and that is gone makes git fail.              *)
StoreIntents(p) ==
  /\ pc[p] = "store_intents"
  /\ \/ /\ \A f \in my[p].intent : tree[f] # {}
        /\ StoreEntry(<<p, "intent">>, my[p].intent)
        /\ Goto(p, "record_intents") /\ NoFault /\ UNCHANGED my
     \/ /\ ((\E f \in my[p].intent : tree[f] = {}) /\ NoFault) \/ Fault
        /\ GiveUp(p, my[p]) /\ UNCHANGED refVars
  /\ UNCHANGED <<treeVars, disk, lock, own, told, made, runVars>>

RecordIntents(p) ==
  /\ pc[p] = "record_intents"
  /\ JournalRecord(p, <<p, "intent">>)
  /\ Know(p, [my[p] EXCEPT !.intents = <<p, "intent">>])
  /\ Goto(p, "unmark")
  /\ UNCHANGED <<treeVars, refVars, lock, told, made, runVars>>

Unmark(p) ==
  /\ pc[p] = "unmark"
  /\ \/ /\ my[p].intent \subseteq marked /\ NoFault
        /\ marked' = marked \ my[p].intent
        /\ Know(p, [my[p] EXCEPT !.todo = my[p].intent]) /\ Goto(p, "remove")
     \/ /\ (~(my[p].intent \subseteq marked) /\ NoFault) \/ Fault
        /\ GiveUp(p, [my[p] EXCEPT !.set_aside = FALSE]) /\ UNCHANGED marked
  /\ UNCHANGED <<tree, index, refVars, disk, lock, own, told, made, runVars>>

Untracked(p) == (my[p].seen \cap NewFiles) \ my[p].intent

Remove(p) ==
  /\ pc[p] = "remove"
  /\ \/ \E f \in my[p].todo :
          \/ /\ tree[f] # {} /\ NoFault /\ Write(f, {})
             /\ Know(p, [my[p] EXCEPT !.todo = @ \ {f}]) /\ UNCHANGED pc
          \/ /\ (tree[f] = {} /\ NoFault) \/ Fault
             /\ GiveUp(p, [my[p] EXCEPT !.set_aside = FALSE]) /\ UNCHANGED tree
     \/ /\ my[p].todo = {}
        /\ Goto(p, IF my[p].seen = my[p].intent THEN "stashed" ELSE "push")
        /\ NoFault /\ UNCHANGED <<tree, my>>
  /\ UNCHANGED <<index, marked, refVars, disk, lock, own, told, made, runVars>>

(* push_private_stash.                                                      *)
Push(p) ==
  /\ pc[p] = "push"
  /\ EnsureJournal(p)
  /\ Goto(p, "store")
  /\ UNCHANGED <<treeVars, refVars, lock, my, told, made, runVars>>

(* With untracked files the whole tree is stashed; otherwise the files the  *)
(* status had.                                                              *)
ToStash(p) == IF Untracked(p) # {} THEN Dirty
              ELSE (my[p].seen \ my[p].intent) \cap Dirty

Store(p) ==
  /\ pc[p] = "store"
  /\ \/ /\ ToStash(p) # {} /\ NoFault
        /\ StoreEntry(<<p, "unstaged">>, ToStash(p))
        /\ Goto(p, "record") /\ UNCHANGED my
     \/ ToStash(p) = {} /\ NoFault /\ Goto(p, "stashed") /\ UNCHANGED <<refVars, my>>
     \/ Fault /\ GiveUp(p, my[p]) /\ UNCHANGED refVars
  /\ UNCHANGED <<treeVars, disk, lock, own, told, made, runVars>>

Record(p) ==
  LET c == <<p, "unstaged">>
  IN /\ pc[p] = "record"
     /\ JournalRecord(p, c)
     /\ Know(p, [my[p] EXCEPT !.stash = c, !.todo = saved[c].files])
     /\ Goto(p, "reset")
     /\ UNCHANGED <<treeVars, refVars, lock, told, made, runVars>>

(* The files are checked out from the index, which leaves a file that is    *)
(* marked by then empty, and the untracked ones are removed.  When that     *)
(* fails they come back; when only putting a merge's state back fails, the  *)
(* entry keeps the changes.                                                 *)
CheckedOut(f) == IF f \in marked THEN {"blank"} ELSE index[f]

Reset(p) ==
  /\ pc[p] = "reset"
  /\ \/ \E f \in my[p].todo : /\ Write(f, CheckedOut(f)) /\ NoFault /\ UNCHANGED pc
                              /\ Know(p, [my[p] EXCEPT !.todo = @ \ {f}])
     \/ /\ my[p].todo # {} /\ Fault
        /\ Goto(p, "rollback") /\ UNCHANGED <<tree, my>>
     \/ /\ my[p].todo = {} /\ NoFault
        /\ Goto(p, "stashed") /\ UNCHANGED <<tree, my>>
     \/ /\ my[p].todo = {} /\ Fault
        /\ GiveUp(p, [my[p] EXCEPT !.stash = None]) /\ UNCHANGED tree
  /\ UNCHANGED <<index, marked, refVars, disk, lock, own, told, made, runVars>>

Rollback(p) ==
  LET c == my[p].stash
  IN /\ pc[p] = "rollback"
     /\ \/ /\ tree' = [f \in Files |-> IF f \in saved[c].files THEN saved[c].work[f]
                                       ELSE tree[f]]
           /\ Goto(p, "roll_drop") /\ NoFault /\ UNCHANGED my
        \/ Fault /\ GiveUp(p, [my[p] EXCEPT !.stash = None]) /\ UNCHANGED tree
     /\ UNCHANGED <<index, marked, refVars, disk, lock, own, told, made, runVars>>

RollDrop(p) ==
  /\ pc[p] = "roll_drop"
  /\ DropEntry(my[p].stash)
  /\ IF refs' = refs THEN GiveUp(p, [my[p] EXCEPT !.stash = None])
     ELSE Goto(p, "roll_forget") /\ UNCHANGED my
  /\ UNCHANGED <<treeVars, disk, lock, own, told, made, runVars>>

RollForget(p) ==
  /\ pc[p] = "roll_forget"
  /\ JournalForget(p, my[p].stash)
  /\ GiveUp(p, [my[p] EXCEPT !.stash = None])
  /\ UNCHANGED <<treeVars, refVars, lock, told, made, runVars>>

(* A journal that names nothing has nothing to protect.                     *)
Stashed(p) ==
  /\ pc[p] = "stashed"
  /\ IF own[p].entries = {} THEN JournalFinish(p) ELSE NoFault /\ UNCHANGED <<disk, own>>
  /\ Know(p, [my[p] EXCEPT !.seen = {}, !.intent = {}])
  /\ Goto(p, "steps")
  /\ UNCHANGED <<treeVars, refVars, lock, told, made, runVars>>

(* A step fixes a file, and hk may stage what it did; a file that is not in *)
(* HEAD is only written to, or created.                                     *)
Fix(p) ==
  /\ pc[p] = "steps"
  /\ Cardinality({f \in Files : "fix" \in tree[f] \cup index[f]}) < MaxFixes
  /\ \E f \in Files : /\ "fix" \notin tree[f]
                      /\ Write(f, tree[f] \cup {"fix"})
                      /\ \/ UNCHANGED index
                         \/ f \notin NewFiles /\ index' = [index EXCEPT ![f] = tree'[f]]
  /\ UNCHANGED <<marked, refVars, disk, lock, pc, own, my, told, made, faults, runVars>>

StepsEnd(p) ==
  /\ pc[p] = "steps"
  /\ Goto(p, IF lock = p THEN "pop" ELSE "over")
  /\ UNCHANGED <<treeVars, refVars, disk, lock, own, my, told, made, faults, runVars>>

(***************************************************************************)
(* Around them: a process is killed, which frees its lock; the user edits  *)
(* and stages files.                                                       *)
(***************************************************************************)
Crash(p) ==
  /\ Alive(p) /\ crashes < scene.crashes
  /\ crashes' = crashes + 1
  /\ Goto(p, "dead") /\ lock' = IF lock = p THEN "none" ELSE lock
  /\ Know(p, Fresh) /\ told' = [told EXCEPT ![p] = {}]
  /\ UNCHANGED <<treeVars, refVars, disk, own, made, faults, scene, reborn>>

Edit ==
  /\ lock = "none"
  /\ Cardinality({f \in Files : "new" \in made[f]}) < scene.edits
  /\ \E f \in Files : /\ "new" \notin made[f]
                      /\ Write(f, tree[f] \cup {"new"})
                      /\ made' = [made EXCEPT ![f] = @ \cup {"new"}]
  /\ UNCHANGED <<index, marked, refVars, disk, lock, pc, own, my, told, faults, runVars>>

StageByHand ==
  /\ lock = "none" /\ scene.edits > 0
  /\ \E f \in Dirty \ NewFiles : index' = [index EXCEPT ![f] = tree[f]]
  /\ UNCHANGED <<tree, marked, refVars, disk, lock, pc, own, my, told, made, faults, runVars>>

AllOver == (\A p \in Procs : ~Alive(p) /\ pc[p] # "idle") /\ UNCHANGED vars

Next == \/ \E p \in Procs :
             \/ Look(p) \/ Await(p) \/ Reread(p) \/ Leave(p)
             \/ Pop(p) \/ Restore(p) \/ Verify(p) \/ Drop(p)
             \/ Back(p) \/ Mark(p) \/ DropIntents(p) \/ ForgetIntents(p)
             \/ Popped(p) \/ Exit(p)
             \/ Status(p) \/ Queue(p) \/ Stash(p)
             \/ StoreIntents(p) \/ RecordIntents(p) \/ Unmark(p) \/ Remove(p)
             \/ Push(p) \/ Store(p) \/ Record(p) \/ Reset(p)
             \/ Rollback(p) \/ RollDrop(p) \/ RollForget(p)
             \/ Stashed(p) \/ Fix(p) \/ StepsEnd(p) \/ Crash(p)
        \/ Edit \/ StageByHand \/ AllOver

Spec == Init /\ [][Next]_vars

-----------------------------------------------------------------------------
Journals == [owner : Procs \cup {"none"}, before : SUBSET Entries, entries : SUBSET Entries]
Saves    == [files : SUBSET Files, base : [Files -> SUBSET Edits],
             work : [Files -> SUBSET Edits]]
Memories == [seen : SUBSET Files, intent : SUBSET NewFiles,
             stash : (Procs \X {"unstaged"}) \cup {None},
             intents : (Procs \X {"intent"}) \cup {None},
             todo : SUBSET Files, wrote : SUBSET Files, touched : SUBSET Files,
             bad : BOOLEAN, set_aside : BOOLEAN, task : {"recover", "run", "abort"}]

(* A process holds the stash lock exactly while it recovers, stashes and    *)
(* puts back, and may while its steps run (stash_lock.rs).                  *)
LockIsHeld == \A p \in Procs : /\ pc[p] \in Holding => lock = p
                               /\ lock = p => pc[p] \in Holding \cup {"steps"}

(* Every variable stays in its range.                                      *)
TypeOK ==
  /\ tree \in [Files -> SUBSET Edits] /\ index \in [Files -> SUBSET Edits]
  /\ made \in [Files -> SUBSET {"old", "new"}]
  /\ marked \subseteq NewFiles /\ reborn \subseteq NewFiles
  /\ refs \subseteq Entries /\ saved \in [Entries -> Saves]
  /\ disk \in Journals /\ own \in [Procs -> Journals]
  /\ scene \in Scenarios
  /\ pc \in [Procs -> PCs] /\ my \in [Procs -> Memories]
  /\ told \in [Procs -> SUBSET Entries]
  /\ lock \in Procs \cup {"none"}

(* An edit of the user's that is in a file, or staged.                      *)
InPlace(f, e) == e \in tree[f] \cup index[f]
Kept(f, e)    == InPlace(f, e) \/ \E c \in refs : e \in saved[c].work[f]

(* No edit of the user's is ever lost: it is in the working tree, staged or *)
(* in an entry that refs/hk/stash keeps, whichever write fails and wherever *)
(* a process is killed (docs/hooks.md:95); but for a file that a step of    *)
(* another hk makes again after this one removed it and then failed to      *)
(* remove the next: that one is taken for never removed (git.rs:2334).      *)
NothingLost == \A f \in Files \ reborn : \A e \in made[f] : Kept(f, e)

(* The process that made the entry kept a journal by then.                  *)
Journalled(c) == own[c[1]] # NoJournal /\ c \notin own[c[1]].before

(* A process that looks for what an earlier one left, and has the lock,     *)
(* leaves only when it has told the user of every edit that is missing from *)
(* the tree: of an entry that holds it, unless the process that made it is  *)
(* running or kept no journal then (docs/hooks.md:95, recover_journal).     *)
(* Files of `reborn` are left out as in NothingLost.                        *)
LeftoversAreTold ==
  [][\A p \in Procs : (pc[p] # "leave" /\ pc'[p] = "leave") =>
       \A f \in Files \ reborn : \A e \in made[f] :
         \/ InPlace(f, e)
         \/ \E c \in refs : /\ e \in saved[c].work[f]
                            /\ c \in told'[p] \/ Alive(c[1]) \/ ~Journalled(c)]_vars

(* "A journal whose process is still running is never touched": where its   *)
(* process can be seen, nobody else changes it (docs/hooks.md:95).          *)
LiveJournalUntouched ==
  [][(disk # NoJournal /\ disk' # disk /\ Alive(disk.owner)) =>
       \/ pc'[disk.owner] # pc[disk.owner]
       \/ lock # "none" /\ scene.place[lock] # scene.place[disk.owner]]_vars

(* A run that ended with nothing put back badly, and in which no write      *)
(* failed, leaves neither an entry nor a journal of its own (pop_stash).    *)
CleanRuns ==
  faults = 0 => \A p \in Procs : (pc[p] = "over" /\ ~my[p].bad) =>
                  disk.owner # p /\ \A c \in refs : c[1] # p

(* "Stash ALL unstaged changes in the repository (not only files under      *)
(* consideration)": the steps of a run that stashed see no unstaged edit of *)
(* the user's (hook.rs:1491).                                               *)
StepsSeeOnlyStaged ==
  \A p \in Procs : (pc[p] = "steps" /\ lock = p) =>
    \A f \in Files : tree[f] \cap made[f] \subseteq index[f]
=============================================================================
