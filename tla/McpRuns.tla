------------------------------ MODULE McpRuns ------------------------------
(***************************************************************************)
(* The runs of the MCP server (cli/mcp.rs): a request starts an hk process *)
(* in one of the allowed roots, a task follows it to its end, readers take *)
(* its events from a pipe, and other requests cancel a run or look at it.  *)
(* The steps hk starts may outlive it, and keep its pipe open and the tree *)
(* changing.                                                               *)
(***************************************************************************)
EXTENDS Naturals, Sequences, FiniteSets

CONSTANTS RunIds,       \* the runs that ever start: 1 .. n
          PipeSize,     \* bound on the events in a pipe
          Settings,     \* the instances looked at: how many roots there are
                        \* (McpState.roots, numbered by their first use), how its
                        \* hk may come out of each run, and how much may interfere
                        \* with it: a cancellation, a snapshot that fails, output
                        \* past the limit, a process left behind
          CompletedLimit

Verdicts == {"passed", "failed", "cancelled"}

ASSUME SettingsAssumption ==
  RunIds \subseteq Nat /\ \A s \in Settings :
    s.roots \in Nat /\ \A i \in RunIds : s.verdicts[i] \subseteq Verdicts

VARIABLES setting,   \* one of them
          runs,      \* McpState.runs: the runs in the list, in the order of
                     \* their numbers, oldest first
          rec,       \* their records, by run
          task,      \* where execute is, by run
          token,     \* the runs whose token is cancelled
          killed,    \* execute's local: the run was stopped by its token
          hk,        \* the hk process of a run
          pipe,      \* the events it wrote that nobody read yet
          said,      \* history: the last event it wrote
          reader,    \* the task that reads them
          holder,    \* a step's process that hk left behind, and that holds the
                     \* pipe: in hk's group, or away in its own
          tree,      \* the runs whose changes are in the working tree
          base,      \* the tree's snapshot before a run
          left       \* history: the runs that left a process behind

runVars  == <<runs, rec>>
procVars == <<hk, pipe, said, holder, tree, left>>
mcpVars  == <<setting, runVars, task, token, killed, procVars, reader, base>>

(* What was taken of the tree: nothing outside of git or after an error.   *)
Nothing == [taken |-> FALSE, of |-> {}]
Of(S)   == [taken |-> TRUE, of |-> S]

NoRun == [root |-> 0, status |-> "none", result |-> "none", completed |-> FALSE,
          truncated |-> FALSE, lost |-> FALSE, error |-> FALSE, diff |-> Nothing]

NoRuns ==
  /\ runs = {}
  /\ rec = [i \in RunIds |-> NoRun]
  /\ task = [i \in RunIds |-> "none"]
  /\ token = {} /\ killed = {}
  /\ hk = [i \in RunIds |-> "none"] /\ pipe = [i \in RunIds |-> <<>>]
  /\ said = [i \in RunIds |-> "nothing"]
  /\ reader = [i \in RunIds |-> "off"] /\ holder = [i \in RunIds |-> "none"]
  /\ tree = {} /\ base = [i \in RunIds |-> Nothing] /\ left = {}

McpInit == NoRuns /\ setting \in Settings

(* The server is not in play: nobody may start a run.                      *)
McpIdle == NoRuns /\ setting = [roots |-> 0, troubles |-> [i \in RunIds |-> 0],
                                verdicts |-> [i \in RunIds |-> {}]]

(* Mutant of Active: a run that is being cancelled is over.                *)
ActiveMutant(R) == R.status \in {"starting", "running"}

Active(R) == R.status \in {"starting", "running", "cancelling"}

Completed(list, R) == {i \in list : ~Active(R[i])}

(* cleanup: what completed longer than COMPLETED_RUN_TTL ago, then the      *)
(* oldest that completed until no more than the limit are left.  A run     *)
(* that is active stays.                                                   *)
Cleaned(list, R, expired) ==
  LET fresh    == list \ expired
      over     == Completed(fresh, R)
      After(i) == {j \in over : j > i}
  IN fresh \ {i \in over : Cardinality(After(i)) >= CompletedLimit}

Troubles(i) ==
  Cardinality({n \in 1 .. 4 :
    CASE n = 1 -> i \in token
      [] n = 2 -> task[i] \notin {"none", "baseline"} /\ ~base[i].taken
      [] n = 3 -> rec[i].truncated
      [] n = 4 -> i \in left})

MayTrouble(i) == Troubles(i) < setting.troubles[i]

(***************************************************************************)
(* Requests.                                                               *)
(***************************************************************************)
(* start: refused while a run of this very root is active.  Roots that     *)
(* contain one another count as different.                                 *)
Start(i, r) ==
  /\ task[i] = "none" /\ \A j \in RunIds : j < i => task[j] # "none"
  /\ r <= i
  /\ \E expired \in SUBSET Completed(runs, rec) :
       LET list == Cleaned(runs, rec, expired)
       IN IF \E j \in list : rec[j].root = r /\ Active(rec[j])
          THEN runs' = list /\ UNCHANGED <<rec, task>>
          ELSE /\ runs' = list \cup {i}
               /\ rec' = [rec EXCEPT ![i] = [NoRun EXCEPT !.root = r, !.status = "starting"]]
               /\ task' = [task EXCEPT ![i] = "baseline"]
  /\ UNCHANGED <<setting, token, killed, procVars, reader, base>>

CancelRun(i) ==
  LET list == Cleaned(runs, rec, {})
  IN /\ i \in list /\ i \notin token
     /\ runs' = list
     /\ MayTrouble(i)
     /\ IF Active(rec[i])
        THEN rec' = [rec EXCEPT ![i].status = "cancelling"] /\ token' = token \cup {i}
        ELSE UNCHANGED <<rec, token>>
     /\ UNCHANGED <<setting, task, killed, procVars, reader, base>>

(***************************************************************************)
(* execute.                                                                *)
(***************************************************************************)
(* The snapshot before anything runs.                                      *)
Baseline(i) ==
  /\ task[i] = "baseline"
  /\ \E b \in {Of(tree)} \cup (IF MayTrouble(i) THEN {Nothing} ELSE {}) : base' = [base EXCEPT ![i] = b]
  /\ task' = [task EXCEPT ![i] = "spawn"]
  /\ UNCHANGED <<setting, runVars, token, killed, procVars, reader>>

(* Update a run's record if it is still in the list.                       *)
Recorded(i, R) == rec' = IF i \in runs THEN [rec EXCEPT ![i] = R] ELSE rec

SpawnFails(i) ==
  /\ task[i] = "spawn"
  /\ Recorded(i, [rec[i] EXCEPT !.status = "failed", !.error = TRUE])
  /\ task' = [task EXCEPT ![i] = "over"]
  /\ UNCHANGED <<setting, runs, token, killed, procVars, reader, base>>

(* A cancellation that came before is on the token, and no longer shows.   *)
Spawn(i) ==
  /\ task[i] = "spawn"
  /\ hk' = [hk EXCEPT ![i] = "up"]
  /\ reader' = [reader EXCEPT ![i] = "on"]
  /\ Recorded(i, [rec[i] EXCEPT !.status = "running"])
  /\ task' = [task EXCEPT ![i] = "waiting"]
  /\ UNCHANGED <<setting, runs, token, killed, pipe, said, holder, tree, left, base>>

(* select: hk exited, or the token was cancelled (SIGINT); either may win  *)
(* when both are true.                                                     *)
HkExited(i) ==
  /\ \/ task[i] = "waiting"
     \/ task[i] = "stopping"
  /\ hk[i] # "up"
  /\ task' = [task EXCEPT ![i] = "draining"]
  /\ UNCHANGED <<setting, runVars, token, killed, procVars, reader, base>>

StopChild(i) ==
  /\ task[i] = "waiting" /\ i \in token
  /\ killed' = killed \cup {i}
  /\ task' = [task EXCEPT ![i] = "stopping"]
  /\ UNCHANGED <<setting, runVars, token, procVars, reader, base>>

Ends(i, code) ==
  /\ hk' = [hk EXCEPT ![i] = code]
  /\ \E h \in IF ~MayTrouble(i) THEN {"none"}
              ELSE IF code = "killed" THEN {"none", "away"} ELSE {"none", "group", "away"} :
       /\ holder' = [holder EXCEPT ![i] = h]
       /\ left' = IF h = "none" THEN left ELSE left \cup {i}

(* Mutant of GraceOver: hk gets the signal again instead of SIGKILL.       *)
GraceOverMutant(i) ==
  /\ task[i] = "stopping" /\ hk[i] = "up"
  /\ UNCHANGED mcpVars

(* CANCEL_GRACE is over: SIGKILL to hk's process group.  Steps lead groups *)
(* of their own, and may live on.                                          *)
GraceOver(i) ==
  /\ task[i] = "stopping" /\ hk[i] = "up"
  /\ Ends(i, "killed")
  /\ task' = [task EXCEPT ![i] = "draining"]
  /\ UNCHANGED <<setting, runVars, token, killed, pipe, said, tree, reader, base>>

(* Mutant of Drained: the run is settled once hk exited.                   *)
DrainedMutant(i) ==
  /\ task[i] = "draining"
  /\ task' = [task EXCEPT ![i] = "finish"]
  /\ UNCHANGED <<setting, runVars, token, killed, procVars, reader, base>>

Drained(i) ==
  /\ task[i] = "draining" /\ reader[i] = "off"
  /\ task' = [task EXCEPT ![i] = "finish"]
  /\ UNCHANGED <<setting, runVars, token, killed, procVars, reader, base>>

(* PIPE_DRAIN_GRACE is over while somebody holds the pipe: the reader is   *)
(* aborted, and what is left of hk's group killed.                         *)
DrainTimeout(i) ==
  /\ task[i] = "draining" /\ reader[i] = "on" /\ holder[i] # "none"
  /\ reader' = [reader EXCEPT ![i] = "aborting"]
  /\ holder' = [holder EXCEPT ![i] = IF @ = "group" THEN "none" ELSE @]
  /\ Recorded(i, [rec[i] EXCEPT !.lost = TRUE])
  /\ task' = [task EXCEPT ![i] = "finish"]
  /\ UNCHANGED <<setting, runs, token, killed, hk, pipe, said, tree, left, base>>

(* Mutant of Captured: the diff is taken against nothing.                  *)
CapturedMutant(i) == IF base[i].taken THEN Of(tree) ELSE Nothing

Captured(i) == IF base[i].taken THEN Of(tree \ base[i].of) ELSE Nothing

(* parse_run_result and final_run_status.                                  *)
Verdict(i, R) ==
  LET valid == R.completed
  IN [R EXCEPT !.status = IF i \in killed \/ (valid /\ R.result = "cancelled") THEN "cancelled"
                          ELSE IF valid /\ hk[i] = "ok" THEN "succeeded" ELSE "failed",
               !.error  = @ \/ ~valid,
               !.result = IF valid \/ i \in killed \/ @ = "none" THEN @ ELSE "failed"]

(* The diff is captured (where that fails it is as without a snapshot), and *)
(* the verdict entered.                                                    *)
Finish(i) ==
  /\ task[i] = "finish"
  /\ Recorded(i, [Verdict(i, rec[i]) EXCEPT !.diff = Captured(i)])
  /\ runs' = Cleaned(runs, rec', {})
  /\ task' = [task EXCEPT ![i] = "over"]
  /\ UNCHANGED <<setting, token, killed, procVars, reader, base>>

(***************************************************************************)
(* read_output and apply_jsonl_event.                                      *)
(***************************************************************************)
(* run_started and the events of steps open a result that says running;    *)
(* run_completed replaces it.                                              *)
Applied(R, event) ==
  IF event = "started" THEN [R EXCEPT !.result = "running"]
                       ELSE [R EXCEPT !.result = event, !.completed = TRUE]

(* Past MAX_RUN_OUTPUT_BYTES nothing is taken any more.  An aborted reader *)
(* may have one last read behind it.                                       *)
ReadOutput(i) ==
  /\ reader[i] # "off" /\ pipe[i] # <<>>
  /\ pipe' = [pipe EXCEPT ![i] = Tail(@)]
  /\ IF rec[i].truncated THEN UNCHANGED rec
     ELSE \/ Recorded(i, Applied(rec[i], Head(pipe[i])))
          \/ MayTrouble(i) /\ Recorded(i, [rec[i] EXCEPT !.truncated = TRUE])
  /\ reader' = IF reader[i] = "aborting" \/ i \notin runs
               THEN [reader EXCEPT ![i] = "off"] ELSE reader
  /\ UNCHANGED <<setting, runs, task, token, killed, hk, said, holder, tree, left, base>>

ReaderStops(i) ==
  /\ \/ reader[i] = "aborting"
     \/ reader[i] = "on" /\ pipe[i] = <<>> /\ hk[i] # "up" /\ holder[i] = "none"
  /\ reader' = [reader EXCEPT ![i] = "off"]
  /\ UNCHANGED <<setting, runVars, task, token, killed, procVars, base>>

(***************************************************************************)
(* hk and what it leaves behind.                                           *)
(***************************************************************************)
(* Its events in their order, all before its verdict as one.               *)
Says(i) ==
  /\ hk[i] = "up" /\ said[i] \notin Verdicts /\ Len(pipe[i]) < PipeSize
  /\ \E e \in IF said[i] = "nothing" THEN {"started"} ELSE setting.verdicts[i] :
       /\ pipe' = [pipe EXCEPT ![i] = Append(@, e)]
       /\ said' = [said EXCEPT ![i] = e]
  /\ UNCHANGED <<setting, runVars, task, token, killed, hk, holder, tree, left, reader, base>>

(* It leaves with success only after it said that it passed; it may fail   *)
(* at any point, also after that.                                          *)
HkEnds(i) ==
  /\ hk[i] = "up"
  /\ \E code \in {"failed"} \cup (IF said[i] = "passed" THEN {"ok"} ELSE {}) : Ends(i, code)
  /\ UNCHANGED <<setting, runVars, task, token, killed, pipe, said, tree, reader, base>>

Changes(i) ==
  /\ hk[i] = "up" \/ holder[i] # "none"
  /\ tree' = tree \cup {i}
  /\ UNCHANGED <<setting, runVars, task, token, killed, hk, pipe, said, holder, left, reader, base>>

HolderEnds(i) ==
  /\ holder[i] # "none"
  /\ holder' = [holder EXCEPT ![i] = "none"]
  /\ UNCHANGED <<setting, runVars, task, token, killed, hk, pipe, said, tree, left, reader, base>>

Executes(i) == \/ Baseline(i) \/ SpawnFails(i) \/ Spawn(i) \/ HkExited(i) \/ GraceOver(i)
               \/ Drained(i) \/ DrainTimeout(i) \/ Finish(i)

Reads(i) == ReadOutput(i) \/ ReaderStops(i)

McpNext ==
  \E i \in RunIds :
    \/ \E r \in 1 .. setting.roots : Start(i, r)
    \/ CancelRun(i) \/ Executes(i) \/ StopChild(i) \/ Reads(i)
    \/ Says(i) \/ HkEnds(i) \/ Changes(i) \/ HolderEnds(i)

McpSpec == McpInit /\ [][McpNext]_mcpVars

(* The tasks and their timers go on; hk and its steps need not end.        *)
McpFairness ==
  \A i \in RunIds : WF_mcpVars(Executes(i) \/ StopChild(i) \/ Reads(i))

(* Two hk processes never run in one root, and the list knows every run    *)
(* whose hk is alive: the client can ask for it and cancel it.             *)
OneHkPerRoot ==
  LET Up == {i \in RunIds : hk[i] = "up"}
  IN /\ Up \subseteq runs
     /\ \A i, j \in Up : i # j => rec[i].root # rec[j].root

(* What a finished run is reported as is what its hk said and how it left: *)
(* "succeeded" only for a hk that passed and exited so, and for every such *)
(* hk that nobody cancelled and whose events were all taken; "cancelled"   *)
(* only if the client or hk's user did; a failure has a reason, either hk's *)
(* own complete result or an error.                                        *)
VerdictIsHks ==
  \A i \in RunIds : task[i] = "over" =>
    LET R == rec[i]
    IN /\ R.status = "succeeded" => said[i] = "passed" /\ hk[i] = "ok" /\ R.result = "passed"
       /\ hk[i] = "ok" /\ i \notin token /\ ~R.truncated /\ ~R.lost => R.status = "succeeded"
       /\ R.status = "cancelled" => i \in token \/ said[i] = "cancelled"
       /\ R.status = "failed" => R.error \/ (R.completed /\ R.result = said[i])

(* The diff of a run has what its hk changed, and nothing that was there   *)
(* before or that another run of this root changed - but for processes     *)
(* that outlived their hk.                                                 *)
DiffTellsAll ==
  \A i \in RunIds : task[i] = "over" /\ rec[i].diff.taken =>
    /\ i \in tree \ left => i \in rec[i].diff.of
    /\ \A j \in rec[i].diff.of \ {i} : j \in left \/ rec[j].root # rec[i].root

(* What the client is told of a run is what happened.                      *)
ReportsAreTrue == VerdictIsHks /\ DiffTellsAll

(* The runs of the server: one hk in a root, and true reports (mcp.rs 380, *)
(* 1208).                                                                  *)
RunsAreTold == OneHkPerRoot /\ ReportsAreTrue

(* What is cancelled and has not come to its end yet.                      *)
CancelsPending == {i \in token : task[i] # "over"}
=============================================================================
