------------------------------ MODULE StopHook ------------------------------
(***************************************************************************)
(* The Stop hook of a coding agent (cli/agent/stop_hook.rs): it reads what *)
(* the agent says, runs `hk run check` in a process group of its own, and  *)
(* answers.  When the check takes too long, or the agent ends the hook, it *)
(* kills the check with everything that descends from it: it lists the     *)
(* processes, plans what to kill, kills group after group and pid after    *)
(* pid, and lists once more, while the processes go on to fork, to change  *)
(* groups and to end.  Process numbers are not reused.                     *)
(***************************************************************************)
EXTENDS Naturals, FiniteSets, FiniteSetsExt

CONSTANTS Agent,    \* the agent that runs the hook
          Hook,     \* the hook's own process
          Other,    \* a process that has nothing to do with the check
          Check,    \* the check, which leads its own group
          Late      \* the numbers of the processes that start after it

InitPid  == 1
AllPids  == {InitPid, Agent, Hook, Other, Check} \cup Late

ASSUME PidsOK == /\ AllPids \subseteq Nat \ {0}
                 /\ IsFiniteSet(Late)
                 /\ Cardinality(AllPids) = 5 + Cardinality(Late)

VARIABLES procs,    \* the process table: parent, group, and whether the check
                    \* or one of its descendants started it
          unused,   \* the numbers that no process had yet
          at,       \* where the hook is
          pass,     \* kill_tree's round
          plan,     \* KillPlan
          seen,     \* the descendants of the earlier round
          exit,     \* the status the check left with
          cause,    \* why run_check returned
          answer,   \* what the hook printed
          traced    \* history: the descendants first listed, less those that
                    \* changed their group since

ownVars == <<at, pass, plan, seen, exit, cause, answer>>
hookVars == <<procs, unused, ownVars, traced>>

NoPlan == [groups |-> {}, pids |-> {}, descendants |-> {}]
Proc   == [ppid : AllPids, pgid : AllPids, ours : BOOLEAN]

Running(p) == p \in DOMAIN procs
Ours       == {p \in DOMAIN procs : procs[p].ours}

(***************************************************************************)
(* plan_kill over one listing.                                             *)
(***************************************************************************)
Excluded(p) == p <= 1 \/ p = Hook \/ p = Agent

(* Everything that parent links lead to from S, level by level.            *)
Below(listing, S) ==
  FoldSet(LAMBDA i, T : T \cup {p \in DOMAIN listing :
                                  ~Excluded(p) /\ listing[p].ppid \in T},
          S, DOMAIN listing)

Descendants(listing) ==
  Below(listing, {Check} \cup {p \in DOMAIN listing :
                                 /\ p \in seen \/ listing[p].pgid = Check
                                 /\ ~Excluded(p)})

(* The same by its definition: the least set that has the check, what is   *)
(* in its group, and the children of what it has.                          *)
Lineage(listing) ==
  LET Mine == {p \in DOMAIN listing : ~Excluded(p)}
      Closed(S) == \A p \in Mine \ S : /\ p # Check /\ listing[p].pgid # Check
                                       /\ listing[p].ppid \notin S
  IN {p \in Mine : \A S \in SUBSET Mine : Closed(S) => p \in S}

(* Mutant of WholeGroup: a group is signalled for one descendant in it.    *)
WholeGroupMutant(listing, g, D) ==
  /\ ~Excluded(g) /\ g # procs[Hook].pgid

(* A group is signalled only if every member listed descends from the check. *)
WholeGroup(listing, g, D) ==
  /\ ~Excluded(g) /\ g # procs[Hook].pgid
  /\ \A m \in DOMAIN listing : listing[m].pgid = g => m \in D

(* The check's own group and number are signalled whatever the list says.  *)
PlanKill(listing) ==
  LET D == Descendants(listing)
      L == D \cap DOMAIN listing
      G == {Check} \cup {g \in {listing[p].pgid : p \in L} : WholeGroup(listing, g, D)}
  IN [groups |-> G,
      pids   |-> {Check} \cup {p \in L : listing[p].pgid \notin G},
      descendants |-> D]

(* The agent, the hook and another of the agent's processes: all in one     *)
(* group, or each in its own.                                              *)
World ==
  /\ \E own \in BOOLEAN :
       procs = [p \in {Agent, Hook, Other} |->
                  [ppid |-> IF p = Agent THEN InitPid ELSE Agent,
                   pgid |-> IF own THEN p ELSE Agent,
                   ours |-> FALSE]]
  /\ unused = Late
  /\ pass = 0 /\ plan = NoPlan /\ seen = {}
  /\ exit = "none" /\ cause = "none" /\ answer = "nothing"
  /\ traced = {}

HookInit == World /\ at = "input"
HookIdle == World /\ procs[Hook].pgid = Hook /\ at = "over"

(***************************************************************************)
(* The processes.  Orphans go to init.                                     *)
(***************************************************************************)
End(K) ==
  procs' = [p \in DOMAIN procs \ K |->
              IF procs[p].ppid \in K THEN [procs[p] EXCEPT !.ppid = InitPid]
                                     ELSE procs[p]]

(* hk starts a step in a group of its own, a step its commands in its own. *)
Fork(p) ==
  /\ p \in Ours /\ unused # {} /\ at # "over"
  /\ LET q == Min(unused)
     IN \E g \in {q, procs[p].pgid} :
          procs' = [r \in DOMAIN procs \cup {q} |->
                      IF r = q THEN [ppid |-> p, pgid |-> g, ours |-> TRUE]
                               ELSE procs[r]]
  /\ unused' = unused \ {Min(unused)}
  /\ UNCHANGED <<ownVars, traced>>

(* setpgid: to a group of its own, or to another one that is there.        *)
Regroup(p) ==
  /\ p \in Ours \ {Check} /\ at # "over"
  /\ \E g \in {p} \cup {procs[r].pgid : r \in DOMAIN procs} :
       g # procs[p].pgid /\ procs' = [procs EXCEPT ![p].pgid = g]
  /\ traced' = traced \ {p}
  /\ UNCHANGED <<unused, ownVars>>

Leave(p) ==
  /\ p \in Ours \ {Check} /\ at # "over"
  /\ End({p})
  /\ UNCHANGED <<unused, ownVars, traced>>

CheckExits(code) ==
  /\ Running(Check) /\ exit = "none"
  /\ exit' = code
  /\ End({Check})
  /\ UNCHANGED <<unused, at, pass, plan, seen, cause, answer, traced>>

(***************************************************************************)
(* run and run_check.                                                      *)
(***************************************************************************)
(* The agent's JSON, its end, or the timeout.  A stop that a Stop hook     *)
(* already continued passes without a check.                               *)
ReadInput(active) ==
  /\ at = "input"
  /\ IF active THEN at' = "over" /\ answer' = "pass"
               ELSE at' = "start" /\ answer' = answer
  /\ UNCHANGED <<procs, unused, pass, plan, seen, exit, cause, traced>>

StartCheck ==
  /\ at = "start"
  /\ \/ /\ at' = "over" /\ answer' = "block"
        /\ UNCHANGED procs
     \/ /\ at' = "checking" /\ answer' = answer
        /\ procs' = [r \in DOMAIN procs \cup {Check} |->
                       IF r = Check THEN [ppid |-> Hook, pgid |-> Check, ours |-> TRUE]
                                    ELSE procs[r]]
  /\ UNCHANGED <<unused, pass, plan, seen, exit, cause, traced>>

(* select: the check's exit, the timeout, or a signal of the agent.        *)
CheckReturns(why) ==
  /\ at = "checking"
  /\ why = "exit" => exit # "none"
  /\ cause' = why
  /\ at' = IF why = "exit" THEN "draining" ELSE "listing"
  /\ UNCHANGED <<procs, unused, pass, plan, seen, exit, answer, traced>>

(* A step that outlives the check may hold its output open: after          *)
(* PIPE_DRAIN_GRACE what was read is taken.                                *)
Drain ==
  /\ at = "draining"
  /\ at' = "reaped"
  /\ UNCHANGED <<procs, unused, pass, plan, seen, exit, cause, answer, traced>>

(***************************************************************************)
(* kill_tree.                                                              *)
(***************************************************************************)
(* list_processes gives the table, or nothing when ps fails; the second    *)
(* round ends when it shows no descendant that the first did not.          *)
List ==
  /\ at = "listing"
  /\ \E listing \in {procs, [p \in {} |-> {}]} :
       LET P == PlanKill(listing)
       IN /\ plan' = P
          /\ at' = IF pass = 1 /\ P.descendants \subseteq seen THEN "reaping" ELSE "killing"
          /\ traced' = IF pass = 1 THEN traced ELSE Lineage(listing)
  /\ UNCHANGED <<procs, unused, pass, seen, exit, cause, answer>>

Signal(K) ==
  /\ End(K)
  /\ exit' = IF Check \in K THEN "signal" ELSE exit

(* Mutant of KillGroup: the plan's groups are taken for their leaders.     *)
KillGroupMutant ==
  /\ at = "killing" /\ plan.groups # {}
  /\ LET g == Min(plan.groups)
     IN /\ Signal({p \in DOMAIN procs : p = g})
        /\ plan' = [plan EXCEPT !.groups = @ \ {g}]
  /\ UNCHANGED <<unused, at, pass, seen, cause, answer, traced>>

KillGroup ==
  /\ at = "killing" /\ plan.groups # {}
  /\ LET g == Min(plan.groups)
     IN /\ Signal({p \in DOMAIN procs : procs[p].pgid = g})
        /\ plan' = [plan EXCEPT !.groups = @ \ {g}]
  /\ UNCHANGED <<unused, at, pass, seen, cause, answer, traced>>

KillPid ==
  /\ at = "killing" /\ plan.groups = {} /\ plan.pids # {}
  /\ LET p == Min(plan.pids)
     IN /\ Signal({p} \cap DOMAIN procs)
        /\ plan' = [plan EXCEPT !.pids = @ \ {p}]
  /\ UNCHANGED <<unused, at, pass, seen, cause, answer, traced>>

NextPass ==
  /\ at = "killing" /\ plan.groups = {} /\ plan.pids = {}
  /\ seen' = seen \cup plan.descendants
  /\ pass' = 1
  /\ at' = IF pass = 0 THEN "listing" ELSE "reaping"
  /\ UNCHANGED <<procs, unused, plan, exit, cause, answer, traced>>

(* child.kill and child.wait: the check is gone in any case.               *)
Reap ==
  /\ at = "reaping"
  /\ IF Running(Check) THEN Signal({Check}) ELSE UNCHANGED <<procs, exit>>
  /\ at' = "reaped"
  /\ UNCHANGED <<unused, pass, plan, seen, cause, answer, traced>>

(* Nothing for an agent that ended the hook, a pass for a check that ended *)
(* well, and the reason of anything else.                                  *)
Answer ==
  /\ at = "reaped"
  /\ at' = "over"
  /\ answer' = CASE cause = "signal" -> "nothing"
               [] cause = "exit" /\ exit = "ok" -> "pass"
               [] OTHER -> "block"
  /\ UNCHANGED <<procs, unused, pass, plan, seen, exit, cause, traced>>

HookActs == \/ \E active \in BOOLEAN : ReadInput(active)
            \/ StartCheck \/ Drain \/ List \/ KillGroup \/ KillPid \/ NextPass
            \/ Reap \/ Answer
            \/ \E why \in {"exit", "timeout"} : CheckReturns(why)

HookNext == \/ HookActs \/ CheckReturns("signal")
        \/ \E p \in Ours : Fork(p) \/ Regroup(p) \/ Leave(p)
        \/ \E code \in {"ok", "failed"} : CheckExits(code)

(* The hook goes on, and its timers fire; the check need not end, nor need *)
(* the agent send a signal.                                                *)
HookFairness == WF_hookVars(HookActs)

(* "A process is signalled only if it is a descendant of the check" (the   *)
(* rule of plan_kill): no other dies, whatever groups the check's          *)
(* processes join and whoever they are orphaned to.                        *)
OnlyDescendantsDie == {Agent, Hook, Other} \subseteq DOMAIN procs

(* "SIGKILLs the check and everything it started": once kill_tree is       *)
(* through, nothing lives that descended from the check when it was first  *)
(* listed, unless it changed its group after that.                         *)
TracedAreDead ==
  at \in {"reaped", "over"} => traced \cap DOMAIN procs = {}

(* kill_tree kills the check with all it started, and nothing else         *)
(* (stop_hook.rs 470-540).                                                 *)
KillsJustTheCheck == OnlyDescendantsDie /\ TracedAreDead
=============================================================================
