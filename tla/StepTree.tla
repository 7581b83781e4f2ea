------------------------------ MODULE StepTree ------------------------------
(***************************************************************************)
(* How hk on Windows ends what its cancelled steps left behind             *)
(* (step/process_tree.rs).  A process keeps the number of its parent when  *)
(* the parent is gone, numbers are used again, and only the creation time  *)
(* tells two holders of a number apart: hk lists the processes, reads      *)
(* their creation times one by one, follows parent links from its own      *)
(* number, ends what it found and looks again, while processes go on to    *)
(* start and to end.  A process is known here by the time of its creation. *)
(***************************************************************************)
EXTENDS Naturals, Sequences, FiniteSets, FiniteSetsExt

CONSTANTS HkNum,     \* hk's process number
          Nums,      \* the numbers of the other processes
          MaxBorn,   \* bound on the processes that ever start, hk included
          Rescans    \* RESCANS

VARIABLES born,      \* the processes by creation time: number, parent's number,
                     \* parent, image name
          alive,     \* those that run
          phase,     \* where cancel_running_steps is
          entries,   \* a snapshot: the processes it lists
          known,     \* what was listed so far, as (number, creation time)
          pending,   \* what is still to be ended of the last listing
          rescans,   \* loop count of kill
          sighted,   \* history: the processes the last listing had in full
          ended,     \* history: the processes that hk ended
          mistaken   \* history: the processes whose creation time was read for
                     \* the one that had their number before

treeVars == <<born, alive, phase, entries, known, pending, rescans, sighted, ended, mistaken>>

Hk == 1     \* hk is the first process that started

Holder(n)   == {i \in alive : born[i].num = n}

(* A process with those that lead to it from hk, or from the system.       *)
Chain ==
  LET C[i \in DOMAIN born] == {i} \cup IF born[i].parent = 0 THEN {} ELSE C[born[i].parent]
  IN C

(* The processes below hk, apart from its own helpers and their trees.     *)
BelowHk ==
  {i \in DOMAIN born \ {Hk} :
     Hk \in Chain[i] /\ \A a \in Chain[i] : ~(born[a].parent = Hk /\ born[a].exe = "git")}

HkAlone ==
  /\ born = <<[num |-> HkNum, ppid |-> 0, parent |-> 0, exe |-> "hk"]>>
  /\ alive = {Hk}
  /\ entries = {} /\ known = {} /\ pending = {} /\ rescans = 0
  /\ sighted = {} /\ ended = {} /\ mistaken = {}

TreeInit == HkAlone /\ phase = "running"
TreeIdle == HkAlone /\ phase = "done"

(***************************************************************************)
(* The processes.                                                          *)
(***************************************************************************)
Born(n, ppid, parent, exe) ==
  /\ phase # "done" /\ Len(born) < MaxBorn /\ Holder(n) = {}
  /\ born' = Append(born, [num |-> n, ppid |-> ppid, parent |-> parent, exe |-> exe])
  /\ alive' = alive \cup {Len(born) + 1}
  /\ UNCHANGED <<phase, entries, known, pending, rescans, sighted, ended, mistaken>>

(* hk starts its git, or the command of a step (also one that was about to *)
(* begin when the run was cancelled); a process that is no concern of hk's *)
(* starts.                                                                 *)
HkStarts(n)    == \E exe \in {"git", "cmd"} : Born(n, HkNum, Hk, exe)
ChildStarts(n) == \E i \in alive \ {Hk} : Born(n, born[i].num, i, "cmd")
OtherStarts(n) == Born(n, 0, 0, "cmd")

ProcessEnds(i) ==
  /\ i # Hk /\ phase # "done"
  /\ alive' = alive \ {i}
  /\ UNCHANGED <<born, phase, entries, known, pending, rescans, sighted, ended, mistaken>>

(***************************************************************************)
(* collect, descendants and newcomers over one listing: a set of processes *)
(* (number, parent's number, creation time, image name).                   *)
(***************************************************************************)
IsChild(listing, p, parent) ==
  /\ parent.created # 0
  /\ ~ \E q \in listing : q.num = parent.num /\ q.created # parent.created
  /\ p.ppid = parent.num /\ p.num # parent.num
  /\ p.created # 0 /\ p.created >= parent.created

(* What is at any depth below parents; spare: leave out direct children    *)
(* that are hk's helpers.  A number found before is not taken again.       *)
Collect(listing, parents, spare, found) ==
  LET New    == {p \in listing : \A f \in found : f.num # p.num}
      Direct == {p \in New : /\ \E r \in parents : IsChild(listing, p, r)
                             /\ spare => p.exe # "git"}
  IN FoldSet(LAMBDA i, S : S \cup {p \in New : \E r \in S : IsChild(listing, p, r)},
             Direct, 1 .. Cardinality(New))

(* hk as its own listing shows it.                                         *)
Root(listing) == {p \in listing : p.num = HkNum}

DescendantsOfHk(listing) == Collect(listing, Root(listing), TRUE, {})

(* Mutant of Newcomers: hk's own new children are not looked for.          *)
NewcomersMutant(listing) == Collect(listing, known, FALSE, known)

Newcomers(listing) ==
  LET late == Collect(listing, Root(listing), TRUE, known)
  IN late \cup Collect(listing, known, FALSE, known \cup late)

(***************************************************************************)
(* cancel_running_steps.                                                   *)
(***************************************************************************)
(* processes: the snapshot gives numbers and parents ...                   *)
Snapshot ==
  /\ phase \in {"running", "rescan"}
  /\ entries' = alive
  /\ phase' = IF phase = "running" THEN "times" ELSE "retimes"
  /\ UNCHANGED <<born, alive, known, pending, rescans, sighted, ended, mistaken>>

(* ... and then every number is opened for its creation time: that of its  *)
(* present holder, or 0 when it has none.                                  *)
Listing ==
  {[num |-> born[i].num, ppid |-> born[i].ppid, exe |-> born[i].exe,
    created |-> IF Holder(born[i].num) = {} THEN 0
                ELSE CHOOSE h \in Holder(born[i].num) : TRUE] : i \in entries}

ReadTimes ==
  /\ sighted'  = entries \cap alive
  /\ mistaken' = mistaken \cup (UNION {Holder(born[i].num) : i \in entries} \ entries)

(* The first listing: then the token is cancelled and kill starts.         *)
FirstListing ==
  /\ phase = "times"
  /\ ReadTimes
  /\ known' = DescendantsOfHk(Listing) /\ pending' = known'
  /\ phase' = "ending"
  /\ UNCHANGED <<born, alive, entries, rescans, ended>>

(* Mutant of Terminate: the number is opened and its holder ended.         *)
TerminateMutant(v) ==
  /\ phase = "ending" /\ v \in pending
  /\ alive' = alive \ Holder(v.num) /\ ended' = ended \cup Holder(v.num)
  /\ pending' = pending \ {v}
  /\ UNCHANGED <<born, phase, entries, known, rescans, sighted, mistaken>>

(* terminate: only if the number's holder is still the one listed.         *)
Terminate(v) ==
  /\ phase = "ending" /\ v \in pending
  /\ LET victim == Holder(v.num) \cap {v.created}
     IN alive' = alive \ victim /\ ended' = ended \cup victim
  /\ pending' = pending \ {v}
  /\ UNCHANGED <<born, phase, entries, known, rescans, sighted, mistaken>>

LookAgain ==
  /\ phase = "ending" /\ pending = {}
  /\ phase' = "rescan"
  /\ UNCHANGED <<born, alive, entries, known, pending, rescans, sighted, ended, mistaken>>

NextListing ==
  /\ phase = "retimes"
  /\ ReadTimes
  /\ LET late == Newcomers(Listing)
     IN /\ pending' = late /\ known' = known \cup late
        /\ phase' = IF late = {} \/ rescans = Rescans THEN "done" ELSE "ending"
  /\ rescans' = rescans + 1
  /\ UNCHANGED <<born, alive, entries, ended>>

TreeNext ==
  \/ \E n \in Nums : HkStarts(n) \/ ChildStarts(n) \/ OtherStarts(n)
  \/ \E i \in alive : ProcessEnds(i)
  \/ Snapshot \/ FirstListing \/ LookAgain \/ NextListing
  \/ \E v \in pending : Terminate(v)

(* hk ends only what its steps started, never hk's own git nor a process   *)
(* that has the number of one of them by now.  Two ways are left to be     *)
(* taken for one: it, or a process that led to it, got the number between  *)
(* a snapshot and the reading of its creation time; or its parent had the  *)
(* number of a process listed before, and was gone in its turn.            *)
EndsOnlyTheTree ==
  \A i \in ended :
    \/ i \in BelowHk \/ Chain[i] \cap mistaken # {}
    \/ \E a \in Chain[i] \ {i}, v \in known : born[a].num = v.num /\ v.created < a

(* When the last look found nothing new, whatever lives of the steps could *)
(* not be found: it, or a process between hk and it, was not in the last   *)
(* listing nor in one before, or had a number that was used twice.         *)
TreeIsGone ==
  LET Told      == sighted \cup {v.created : v \in known}
      Reused(a) == \E b \in DOMAIN born \ {a} : born[b].num = born[a].num
  IN phase = "done" /\ pending = {} =>
       \A i \in alive \cap BelowHk : \E a \in Chain[i] : a \notin Told \/ Reused(a)

(* What hk ends on Windows is its steps' tree, all of it and nothing else  *)
(* (process_tree.rs 38-47).                                                *)
EndsJustTheTree == EndsOnlyTheTree /\ TreeIsGone
=============================================================================
