----------------------------- MODULE MCJobLocks ------------------------------
(* What the jobs of a run do to their files: runs to check JobLocks on, and *)
(* lists of files that the built-in fixers (OrderedFix) or the filters of   *)
(* steps (SharedChecks) go over.  One of the three is in play.             *)
EXTENDS JobLocks, OrderedFix, SharedChecks

CONSTANTS f1, f2, a, b, c

Does(kind, input, recheck, first) ==
  [kind |-> kind, input |-> input, recheck |-> recheck, first |-> first]

Runs(n, mayCancel, T) == [jobs : T, slots : {n}, cancels : {mayCancel}]

(* Two jobs over two slots, one of which diffs first.                      *)
Pair(x, y) == [j \in Jobs |-> CASE j = a -> x
                               [] j = b -> y
                               [] j = c -> Does("none", {}, "none", FALSE)]
TwoSetups == Runs(2, TRUE,
  {Pair(Does("diff", {f1}, r, TRUE), Does(k, {f1, f2}, "none", FALSE)) :
     <<k, r>> \in {<<"check", "none">>, <<"fix", "none">>, <<"fix", "read">>,
                   <<"diff", "none">>, <<"wdiff", "none">>}}
  \cup
  {Pair(Does("wdiff", {f1}, "write", FALSE), Does("diff", {f2}, "none", TRUE))})

(* A job that diffs first, a fixer of the same file and a third of any     *)
(* kind, over one slot.                                                    *)
ThreeSetups == Runs(1, FALSE,
  {[j \in Jobs |-> CASE j = a -> Does("diff", {f1}, "none", TRUE)
                     [] j = b -> Does("fix", {f1, f2}, "none", TRUE)
                     [] j = c -> Does(k, {f2}, "none", FALSE)] :
     k \in {"check", "wdiff"}})

(* No job runs.                                                            *)
NoJobs    == Pair(Does("none", {}, "none", FALSE), Does("none", {}, "none", FALSE))
NoSetups  == Runs(1, FALSE, {NoJobs})
AllSetups == TwoSetups \cup ThreeSetups \cup NoSetups

(* OrderedFix.  Files that are named twice and one that is not there; some *)
(* of them odd, not to be written, or a path that cannot be identified.    *)
FixList(fs, u, x, y, w) == [files |-> fs, unknown |-> u, disk |-> <<x, y>>, writable |-> w]
FileLists ==
  {FixList(fs, {}, x, y, w) : fs \in {<<1>>, <<1, 2, 1, 0>>, <<1, 2, 2, 1>>},
     x \in {"dirty", "odd"}, y \in {"dirty", "clean"}, w \in {{1}, {1, 2}}}
  \cup {FixList(<<1, 2, 1, 0>>, {3}, "dirty", y, {1, 2}) : y \in {"dirty", "odd"}}

(* SharedChecks.  Two steps with files in common, and an edit or a thread  *)
(* that does not start.                                                    *)
SomeFilterings ==
  {[lists |-> <<<<1, 2, 1>>, y>>, files |-> <<1, f>>, edits |-> e, fails |-> 1 - e] :
     y \in {<<2>>, <<2, 1>>}, f \in {0, 1}, e \in {0, 1}}

MCInit ==
  \/ Init /\ setup \notin NoSetups /\ FixIdle /\ FilterIdle
  \/ Init /\ setup \in NoSetups /\ FixInit /\ FilterIdle
  \/ Init /\ setup \in NoSetups /\ FixIdle /\ FilterInit

MCVars == <<vars, fixVars, filterVars>>
MCNext == \/ Next /\ UNCHANGED <<fixVars, filterVars>>
          \/ FixNext /\ UNCHANGED <<vars, filterVars>>
          \/ FilterNext /\ UNCHANGED <<vars, fixVars>>

(* A job that can go on does (FairSpec).                                   *)
MCSpec == MCInit /\ [][MCNext]_MCVars /\ WF_vars(\E j \in Jobs : Advance(j))

(* Jobs alone, of which a patch may go stale.                              *)
StraySpec == /\ Init /\ FixIdle /\ FilterIdle
             /\ [][Next /\ UNCHANGED <<fixVars, filterVars>>]_MCVars

(* The files are gone over in order: each fixed where it is first named, as *)
(* a loop would, and each looked at once, within the budget for threads.   *)
ListsInOrder == FixersKeepOrder /\ ChecksAreShared
=============================================================================
