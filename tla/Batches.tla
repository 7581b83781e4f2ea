------------------------------- MODULE Batches -------------------------------
(***************************************************************************)
(* How the files of a step become jobs (step/job_builder.rs, batching.rs): *)
(* the groups of files (the workspaces of a step, or the batched steps of  *)
(* a group) share the jobs of the run, one at a time; each group is split  *)
(* evenly into its share; and a batch whose command line would be too long *)
(* is cut further, by a binary search for the most files that fit.         *)
(***************************************************************************)
EXTENDS Integers, Sequences, SequencesExt, FiniteSetsExt, FiniteSets

CONSTANT Tasks         \* the file lists to look at (see TaskType)

VARIABLES task,        \* one of them
          at,          \* sharing, cutting, done or refused
          counts,      \* share_jobs' local: the batches of each group so far
          todo,        \* the batches whose command line has not been sized
          search,      \* the bounds of the binary search, or NoSearch
          batches      \* the batches to run

batchVars == <<task, at, counts, todo, search, batches>>

(* groups: the length each file adds to a command line, group by group;    *)
(* minFiles, jobs: batch_min_files and --jobs; equal: whether the groups   *)
(* are steps; base, names: the command line's own length, and whether it   *)
(* names the files; limit: what fits.                                      *)
TaskType == [groups : Seq(Seq(Nat)), minFiles : Nat, jobs : Nat, equal : BOOLEAN,
             base : Nat, names : BOOLEAN, limit : Nat]

ASSUME TasksOK == Tasks \subseteq TaskType

Larger(a, b)  == IF a > b THEN a ELSE b
Smaller(a, b) == IF a < b THEN a ELSE b

Groups    == DOMAIN task.groups
Size(g)   == Len(task.groups[g])
NonEmpty  == {g \in Groups : Size(g) > 0}
Jobs      == Larger(task.jobs, 1)
Total     == Larger(MapThenSumSet(Size, Groups), 1)

-----------------------------------------------------------------------------
(* Sharing the jobs.                                                       *)

Cap(g) == Larger(Size(g) \div Larger(task.minFiles, 1), IF Size(g) > 0 THEN 1 ELSE 0)

(* What every group with files starts from.                                *)
Floor == IF task.equal THEN Larger(Jobs \div Larger(Cardinality(NonEmpty), 1), 1) ELSE 1
FirstCount(g) == IF Size(g) = 0 THEN 0 ELSE Larger(Smaller(Floor, Cap(g)), 1)

NoSearch  == [low |-> 0, high |-> 0]
NoTask    == [groups |-> <<>>, minFiles |-> 0, jobs |-> 0, equal |-> FALSE,
              base |-> 0, names |-> FALSE, limit |-> 0]
Begin == /\ at = "sharing" /\ todo = <<>> /\ search = NoSearch /\ batches = <<>>
         /\ counts = [g \in Groups |-> FirstCount(g)]
BatchInit == task \in Tasks /\ Begin
BatchIdle == task = NoTask /\ Begin

Given == MapThenSumSet(LAMBDA g : counts[g], Groups)
Left  == Larger(Jobs - Given, 0)

(* How far a group of n files is below its share once it has c batches.    *)
Shortfall(g, c) == Size(g) * Jobs - c * Total

(* Mutant: groups are served in order, whatever they still lack.           *)
IsNextMutant(g) ==
  /\ counts[g] < Cap(g)
  /\ \A h \in Groups : counts[h] < Cap(h) => g >= h

(* The group the next job goes to; of equals, the last one.                *)
IsNext(g) ==
  /\ counts[g] < Cap(g)
  /\ \A h \in Groups : counts[h] < Cap(h) =>
       \/ Shortfall(g, counts[g]) > Shortfall(h, counts[h])
       \/ Shortfall(g, counts[g]) = Shortfall(h, counts[h]) /\ g >= h

GiveJob(g) ==
  /\ at = "sharing" /\ Left > 0 /\ IsNext(g)
  /\ counts' = [counts EXCEPT ![g] = @ + 1]
  /\ UNCHANGED <<task, at, todo, search, batches>>

(* A list in n parts, the first of which may be one longer than the rest.  *)
SplitEvenly(s, n) ==
  LET parts == Smaller(Larger(n, 1), Len(s))
      Before(i) == i * (Len(s) \div parts) + Smaller(i, Len(s) % parts)
  IN IF s = <<>> THEN <<>>
     ELSE [i \in 1..parts |-> SubSeq(s, Before(i - 1) + 1, Before(i))]

(* The files of a task, told apart by their group and place.               *)
FilesOf(g) == [i \in 1..Size(g) |-> <<g, i>>]
AllFiles   == FlattenSeq([g \in Groups |-> FilesOf(g)])

Split ==
  /\ at = "sharing"
  /\ Left = 0 \/ \A g \in Groups : ~ IsNext(g)
  /\ todo' = FlattenSeq([g \in Groups |-> SplitEvenly(FilesOf(g), counts[g])])
  /\ at' = "cutting"
  /\ UNCHANGED <<task, counts, search, batches>>

-----------------------------------------------------------------------------
(* Sizing the command line of a batch.                                     *)

LengthOf(f) == task.groups[f[1]][f[2]]
Sized(s) == task.base + IF task.names THEN FoldSeq(LAMBDA f, n : LengthOf(f) + n, 0, s) ELSE 0
Fits(s)  == Sized(s) <= task.limit

Whole ==
  /\ at = "cutting" /\ todo # <<>> /\ search = NoSearch
  /\ Fits(Head(todo))
  /\ batches' = Append(batches, Head(todo))
  /\ todo' = Tail(todo)
  /\ UNCHANGED <<task, at, counts, search>>

(* Not even one file fits.                                                 *)
TooLong ==
  /\ at = "cutting" /\ todo # <<>> /\ search = NoSearch
  /\ ~ Fits(Head(todo)) /\ ~ Fits(<<Head(Head(todo))>>)
  /\ at' = "refused"
  /\ UNCHANGED <<task, counts, todo, search, batches>>

Seek ==
  /\ at = "cutting" /\ todo # <<>> /\ search = NoSearch
  /\ ~ Fits(Head(todo)) /\ Fits(<<Head(Head(todo))>>)
  /\ search' = [low |-> 1, high |-> Len(Head(todo))]
  /\ UNCHANGED <<task, at, counts, todo, batches>>

(* Mutant: what does not fit stays in the interval.                        *)
ProbeMutant ==
  LET mid == (search.low + search.high + 1) \div 2
  IN /\ at = "cutting" /\ search.low < search.high
     /\ search' = IF Fits(SubSeq(Head(todo), 1, mid)) \/ mid = search.high
                  THEN [search EXCEPT !.low = mid] ELSE [search EXCEPT !.high = mid]
     /\ UNCHANGED <<task, at, counts, todo, batches>>

Probe ==
  LET mid == (search.low + search.high + 1) \div 2
  IN /\ at = "cutting" /\ search.low < search.high
     /\ search' = IF Fits(SubSeq(Head(todo), 1, mid)) THEN [search EXCEPT !.low = mid]
                  ELSE [search EXCEPT !.high = mid - 1]
     /\ UNCHANGED <<task, at, counts, todo, batches>>

(* The rest of the batch is sized on its own.                              *)
Cut ==
  LET most == search.low
      s == Head(todo)
  IN /\ at = "cutting" /\ search # NoSearch /\ search.low = search.high
     /\ batches' = Append(batches, SubSeq(s, 1, most))
     /\ todo' = IF most = Len(s) THEN Tail(todo)
                ELSE <<SubSeq(s, most + 1, Len(s))>> \o Tail(todo)
     /\ search' = NoSearch
     /\ UNCHANGED <<task, at, counts>>

Batched ==
  /\ at = "cutting" /\ todo = <<>>
  /\ at' = "done"
  /\ UNCHANGED <<task, counts, todo, search, batches>>

BatchNext == \/ \E g \in Groups : GiveJob(g)
             \/ Split \/ Whole \/ TooLong \/ Seek \/ Probe \/ Cut \/ Batched

-----------------------------------------------------------------------------
(* Every group with files has a batch and none more than it can fill (a    *)
(* batch has minFiles files or is alone); no job is left over that a group *)
(* could use, nor one too many taken; and no group has a job that another  *)
(* one that could use it lacks more (job_builder.rs:352-356, 371-377).     *)
SharesAreFair ==
  at # "sharing" =>
    /\ \A g \in Groups : counts[g] <= Cap(g) /\ (Size(g) > 0 => counts[g] >= 1)
    /\ Given <= Larger(Jobs, Cardinality(NonEmpty))
    /\ Given < Jobs => \A g \in Groups : counts[g] = Cap(g)
    /\ \A g, h \in Groups :
         counts[g] > FirstCount(g) /\ counts[h] < Cap(h) =>
           Shortfall(g, counts[g] - 1) >= Shortfall(h, counts[h])

(* Every file is in one batch, in the order of the list, and no batch mixes *)
(* groups; every command line fits, and the run is refused only for a file *)
(* that does not fit alone; a batch that was cut could not take one more of *)
(* its group's next files, unless an even split put them elsewhere         *)
(* (batching.rs:291-334).                                                  *)
EveryFileFits ==
  /\ at \in {"cutting", "done"} => FlattenSeq(batches \o todo) = AllFiles
  /\ \A i \in DOMAIN batches :
       LET batch == batches[i]
       IN /\ batch # <<>> /\ Fits(batch)
          /\ \A f \in Range(batch) : f[1] = batch[1][1]
  /\ at = "refused" => \E f \in Range(AllFiles) : ~ Fits(<<f>>)
  /\ at = "done" =>
       Len(batches) <= Given \/ \E i \in 1..(Len(batches) - 1) :
                                   ~ Fits(batches[i] \o <<Head(batches[i + 1])>>)

(* The two together, from the list of files to the command lines.          *)
EveryFileRuns == SharesAreFair /\ EveryFileFits
=============================================================================
