---------------------------- MODULE SharedChecks -----------------------------
(***************************************************************************)
(* How the steps of a group look at their files side by side (par.rs):     *)
(* each step that filters its files (step/filtering.rs, file_type.rs) cuts *)
(* the list into chunks for helper threads, of which the whole process has *)
(* a few, and what was read of a file is kept for the others.              *)
(***************************************************************************)
EXTENDS Integers, Sequences, SequencesExt, FiniteSets, FiniteSetsExt

CONSTANTS Filterers,     \* the steps
          MaxHelpers,    \* MAX_HELPERS
          MinItems,      \* MIN_ITEMS_PER_THREAD
          Filterings     \* what is looked at: the list of each step that filters,
                         \* the files that are there, and how many edits of them
                         \* and how many threads that cannot start there are

(* A step that filters has files, each of which is known to be there or    *)
(* not; of no items map makes no results.                                  *)
ASSUME FilteringsOK ==
  /\ MaxHelpers \in Nat /\ MinItems \in Nat \ {0} /\ IsFiniteSet(Filterers)
  /\ \A F \in Filterings :
       F \in [lists : [Filterers -> Seq(DOMAIN F.files) \ {<<>>}],
             files : [DOMAIN F.files -> Nat], edits : Nat, fails : Nat]

VARIABLES filtering,   \* one of them, with what is left of its bounds
          seenAs,      \* the files' contents: a number, or Gone
          inUse,       \* HELPERS_IN_USE
          mapper,      \* the calls of map, one for each step, with their locals
          helper,      \* the threads of a call: the first is the caller itself
          memo,        \* PathMemo: a file's value, and who holds its init mutex
          readings     \* history: the values that were computed, by file

filterVars == <<filtering, seenAs, inUse, mapper, helper, memo, readings>>

NoContents  == 0
Unowned == <<0, 0>>
Items(p) == filtering.lists[p]

Lower(a, b)  == IF a < b THEN a ELSE b
WantedThreads(p) == Lower(MaxHelpers + 1, Len(Items(p)) \div MinItems)

(* Mutant of ChunkLen: rounded down, with a chunk more than there are slots. *)
ChunkLenMutant(p) == Len(Items(p)) \div (mapper[p].slots + 1)

ChunkLen(p) == (Len(Items(p)) + mapper[p].slots) \div (mapper[p].slots + 1)

Chunks(p)   == (Len(Items(p)) + ChunkLen(p) - 1) \div ChunkLen(p)
Chunk(p, k) == SubSeq(Items(p), (k - 1) * ChunkLen(p) + 1, Lower(k * ChunkLen(p), Len(Items(p))))

Mapping(at) == [at |-> at, read |-> 0, slots |-> 0, results |-> <<>>]

FilterInit ==
  /\ filtering \in Filterings /\ seenAs = filtering.files /\ inUse = 0
  /\ mapper = [p \in Filterers |-> Mapping("begin")]
  /\ helper = [p \in Filterers |-> <<>>]
  /\ memo = [f \in DOMAIN filtering.files |-> [value |-> NoContents, by |-> Unowned]]
  /\ readings = [f \in DOMAIN filtering.files |-> {}]

(* No step filters its files.                                              *)
FilterIdle ==
  /\ filtering = [lists |-> [p \in Filterers |-> <<>>], files |-> <<>>, edits |-> 0, fails |-> 0]
  /\ mapper = [p \in Filterers |-> Mapping("over")]
  /\ helper = [p \in Filterers |-> <<>>]
  /\ seenAs = <<>> /\ inUse = 0 /\ memo = <<>> /\ readings = <<>>

To(p, at) == mapper' = [mapper EXCEPT ![p].at = at]

(***************************************************************************)
(* map: the caller.                                                        *)
(***************************************************************************)
BeginMap(p) ==
  /\ mapper[p].at = "begin"
  /\ mapper' = [mapper EXCEPT ![p].read = inUse,
                              ![p].at = IF WantedThreads(p) <= 1 THEN "spawn" ELSE "reserve"]
  /\ UNCHANGED <<filtering, seenAs, inUse, helper, memo, readings>>

(* reserve: as many as are left of what was read; again when it changed.   *)
Reserve(p) ==
  /\ mapper[p].at = "reserve"
  /\ LET left  == Max({0, MaxHelpers - mapper[p].read})
         taken == Lower(WantedThreads(p) - 1, left)
     IN IF taken > 0 /\ inUse # mapper[p].read
        THEN mapper' = [mapper EXCEPT ![p].read = inUse] /\ UNCHANGED inUse
        ELSE /\ inUse' = inUse + taken
             /\ mapper' = [mapper EXCEPT ![p].slots = taken, ![p].at = "spawn"]
  /\ UNCHANGED <<filtering, seenAs, helper, memo, readings>>

NewThread(at) == [at |-> at, pos |-> 1, out |-> <<>>]

(* The helpers start, or cannot; then the caller takes the first chunk.    *)
StartHelpers(p) ==
  /\ mapper[p].at = "spawn"
  /\ \E failing \in SUBSET (2 .. Chunks(p)) :
       /\ Cardinality(failing) <= filtering.fails
       /\ helper' = [helper EXCEPT ![p] =
                       [k \in 1 .. Chunks(p) |-> NewThread(IF k \in failing THEN "unstarted" ELSE "look")]]
       /\ filtering' = [filtering EXCEPT !.fails = @ - Cardinality(failing)]
  /\ To(p, "join")
  /\ UNCHANGED <<seenAs, inUse, memo, readings>>

Through(p, k) == helper[p][k].at = "done"

(* A chunk without a thread falls to the caller, when its turn comes.      *)
TakeOver(p) ==
  /\ mapper[p].at = "join"
  /\ \E k \in DOMAIN helper[p] :
       /\ helper[p][k].at = "unstarted" /\ \A i \in 1 .. k - 1 : Through(p, i)
       /\ helper' = [helper EXCEPT ![p][k].at = "look"]
  /\ UNCHANGED <<filtering, seenAs, inUse, mapper, memo, readings>>

(* Mutant of Joined: the slots go back before the helpers are through.     *)
JoinedMutant(p) == Through(p, 1)

Joined(p) == \A k \in DOMAIN helper[p] : Through(p, k)

DropSlots(p) ==
  /\ mapper[p].at = "join" /\ Joined(p)
  /\ inUse' = inUse - mapper[p].slots
  /\ mapper' = [mapper EXCEPT ![p].at = "over", ![p].slots = 0,
                  ![p].results = FlattenSeq([k \in DOMAIN helper[p] |-> helper[p][k].out])]
  /\ helper' = [helper EXCEPT ![p] = <<>>]
  /\ UNCHANGED <<filtering, seenAs, memo, readings>>

(***************************************************************************)
(* get_or_try_init: a thread and the next file of its chunk.               *)
(***************************************************************************)
ThreadAt(t, at) == helper[t[1]][t[2]].at = at
FileOf(t)   == Chunk(t[1], t[2])[helper[t[1]][t[2]].pos]

Answers(t, v) ==
  LET h == helper[t[1]][t[2]]
  IN helper' = [helper EXCEPT ![t[1]][t[2]] =
       [at |-> IF h.pos = Len(Chunk(t[1], t[2])) THEN "done" ELSE "look",
        pos |-> h.pos + 1, out |-> Append(h.out, <<FileOf(t), v>>)]]

LookInMemo(t) ==
  /\ ThreadAt(t, "look")
  /\ IF memo[FileOf(t)].value # NoContents
     THEN Answers(t, memo[FileOf(t)].value)
     ELSE helper' = [helper EXCEPT ![t[1]][t[2]].at = "lock"]
  /\ UNCHANGED <<filtering, seenAs, inUse, mapper, memo, readings>>

LockMemo(t) ==
  /\ ThreadAt(t, "lock") /\ memo[FileOf(t)].by = Unowned
  /\ memo' = [memo EXCEPT ![FileOf(t)].by = t]
  /\ helper' = [helper EXCEPT ![t[1]][t[2]].at = "inside"]
  /\ UNCHANGED <<filtering, seenAs, inUse, mapper, readings>>

(* Mutant of Known: the value is not looked for again under the mutex.     *)
KnownMutant(f) == FALSE

Known(f) == memo[f].value # NoContents

(* A file that is not there has no value, and none is kept.                *)
InitMemo(t) ==
  LET f == FileOf(t)
      v == IF Known(f) THEN memo[f].value ELSE seenAs[f]
  IN /\ ThreadAt(t, "inside")
     /\ memo' = [memo EXCEPT ![f] = [value |-> IF v = NoContents THEN @.value ELSE v, by |-> Unowned]]
     /\ readings' = [readings EXCEPT ![f] = IF Known(f) \/ v = NoContents THEN @ ELSE @ \cup {<<t, v>>}]
     /\ Answers(t, v)
     /\ UNCHANGED <<filtering, seenAs, inUse, mapper>>

(* A step or the user writes to a file, or removes it.                     *)
FileChanges(f) ==
  /\ filtering.edits > 0
  /\ filtering' = [filtering EXCEPT !.edits = @ - 1]
  /\ seenAs' = [seenAs EXCEPT ![f] = IF @ = 1 THEN 2 ELSE 1]
  /\ UNCHANGED <<inUse, mapper, helper, memo, readings>>

FileGoes(f) ==
  /\ filtering.edits > 0 /\ seenAs[f] # NoContents
  /\ filtering' = [filtering EXCEPT !.edits = @ - 1]
  /\ seenAs' = [seenAs EXCEPT ![f] = NoContents]
  /\ UNCHANGED <<inUse, mapper, helper, memo, readings>>

HelpersOf(p)  == {<<p, k>> : k \in DOMAIN helper[p]}
ThreadActs(t) == LookInMemo(t) \/ LockMemo(t) \/ InitMemo(t)
MapActs(p)   == \/ BeginMap(p) \/ Reserve(p) \/ StartHelpers(p) \/ TakeOver(p) \/ DropSlots(p)
                \/ \E t \in HelpersOf(p) : ThreadActs(t)

FilterNext == \/ \E p \in Filterers : MapActs(p)
              \/ \E f \in DOMAIN seenAs : FileChanges(f) \/ FileGoes(f)

FilterSpec == FilterInit /\ [][FilterNext]_filterVars

(***************************************************************************)
(* Properties.                                                             *)
(***************************************************************************)
(* The helper threads of all steps together keep to the budget, and the    *)
(* count of them is given back to the last one (par.rs 24-28, 85-86).      *)
SlotsOf(p) == {p} \X (1 .. mapper[p].slots)
BudgetIsKept ==
  LET running == {t \in UNION {HelpersOf(p) : p \in Filterers} :
                    t[2] > 1 /\ helper[t[1]][t[2]].at \notin {"unstarted", "done"}}
  IN /\ Cardinality(running) <= MaxHelpers
     /\ inUse = Cardinality(UNION {SlotsOf(p) : p \in Filterers})

(* Each call returns one result for each of its files, in their order.     *)
ResultsInOrder ==
  \A p \in Filterers : mapper[p].at = "over" =>
    /\ Len(mapper[p].results) = Len(Items(p))
    /\ \A i \in DOMAIN Items(p) : mapper[p].results[i][1] = Items(p)[i]

(* A file's value is computed once, though the file changes and several    *)
(* threads ask at once, and everyone is told the same (par.rs 127-132).    *)
ComputedOnce ==
  \A f \in DOMAIN readings :
    /\ Cardinality(readings[f]) <= 1
    /\ \A p \in Filterers : \A i \in DOMAIN mapper[p].results :
         LET r == mapper[p].results[i]
         IN r[1] = f /\ r[2] # NoContents => \E x \in readings[f] : x[2] = r[2]

(* Nobody waits for a value or a helper for ever: until all steps have     *)
(* filtered, one of their threads can go on.                               *)
FilterGoesOn(p) ==
  \/ mapper[p].at \in {"begin", "reserve", "spawn"}
  \/ mapper[p].at = "join" /\ Joined(p)
  \/ /\ mapper[p].at = "join"
     /\ \E k \in DOMAIN helper[p] :
          \/ helper[p][k].at = "unstarted" /\ \A i \in 1 .. k - 1 : Through(p, i)
          \/ helper[p][k].at \in {"look", "inside"}
          \/ helper[p][k].at = "lock" /\ memo[FileOf(<<p, k>>)].by = Unowned
NoFilterHangs ==
  (\E p \in Filterers : mapper[p].at # "over") =>
    (\E p \in Filterers : FilterGoesOn(p)) /\ ENABLED (\E p \in Filterers : MapActs(p))

ChecksAreShared == BudgetIsKept /\ ResultsInOrder /\ ComputedOnce /\ NoFilterHangs
=============================================================================
