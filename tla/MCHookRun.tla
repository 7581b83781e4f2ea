------------------------------ MODULE MCHookRun ------------------------------
(* The runs of a hook to check, the file lists to batch, and the texts to  *)
(* fix.                                                                    *)
EXTENDS HookRun, Batches, MCRestore, TextFix

CONSTANTS a, b, n

(* What a run is when nothing is asked of it.                              *)
Plain == [check |-> "absent", list |-> "absent", diff |-> "absent", fix |-> "absent",
          same |-> FALSE, checkFirst |-> FALSE, afterDiff |-> FALSE, applyDiff |-> TRUE,
          focus |-> FALSE, stage |-> "default", stages |-> {}, cond |-> "none",
          jobCond |-> "none", profile |-> TRUE, envSet |-> TRUE, filters |-> FALSE,
          matches |-> Files, workspace |-> FALSE, owned |-> {}, batch |-> FALSE,
          exclusive |-> FALSE]
Scene == [opts |-> [check |-> FALSE, fix |-> FALSE, stage |-> "unset", files |-> FALSE,
                    glob |-> FALSE, unstaged |-> FALSE, fromRef |-> FALSE, deleteRef |-> FALSE,
                    all |-> FALSE, staged |-> FALSE, fromHook |-> FALSE, stash |-> "unset",
                    step |-> {}, skip |-> {}, safe |-> FALSE],
          hook |-> [preCommit |-> FALSE, fix |-> TRUE, stage |-> "unset", stash |-> "unset",
                    failOnFix |-> FALSE, report |-> "absent", readsUntracked |-> FALSE],
          env |-> [check |-> FALSE, fix |-> TRUE, stage |-> "unset", stash |-> "unset",
                   untracked |-> TRUE, checkFirst |-> TRUE, skipHook |-> FALSE,
                   failFast |-> FALSE],
          repo |-> [tracked |-> {a, b}, staged |-> {a}, unstaged |-> {}, untracked |-> {},
                    named |-> {a}, changed |-> {b}, excluded |-> {}, gone |-> {}],
          steps |-> [s \in {"s"} |-> [Plain EXCEPT !.check = "read"]],
          items |-> <<[group |-> FALSE, steps |-> {"s"}]>>]

(* Every way to select files, stash and stage (the options that exclude    *)
(* each other are not combined), in a tree with files of every kind.       *)
Selectors == {{"files"}, {"glob"}, {"unstaged"}, {"unstaged", "fromRef"}, {"fromRef"},
              {"fromRef", "deleteRef"}, {"all"}, {"staged"}, {}}
ToSelect ==
  \E by \in Selectors, asked \in {"unset", "git"}, fromHook \in BOOLEAN,
     stage \in {"unset", "yes", "no"}, own \in {"unset", "git"}, set \in {"unset", "none"},
     pre, reads, untr \in BOOLEAN, left \in {{}, {b}} :
    /\ by \cap {"staged", "unstaged"} # {} => asked = "unset"
    /\ fromHook => "staged" \in by
    /\ HookInit([Scene EXCEPT
         !.opts = [f \in DOMAIN @ |->
                     IF f = "stash" THEN asked ELSE IF f = "stage" THEN stage
                     ELSE IF f = "fromHook" THEN fromHook
                     ELSE IF f \in UNION Selectors THEN f \in by ELSE @[f]],
         !.hook.stash = own, !.hook.preCommit = pre, !.hook.readsUntracked = reads,
         !.env.untracked = untr, !.env.stash = set,
         !.repo.unstaged = left, !.repo.untracked = {n}, !.repo.named = {a, n}])

(* Every reason to skip a step, alone and together; b is gone.             *)
ToPlan ==
  \E cond, jobCond \in {"none", "true", "false", "error"}, profile, envSet, check \in BOOLEAN,
     filters \in BOOLEAN, split \in {"no", "batch", "workspace"},
     owned \in {{}, {a, b}}, skip \in {{}, {"s"}}, named \in {{}, {a}, {b}} :
    HookInit([Scene EXCEPT
      !.steps["s"] = [@ EXCEPT !.cond = cond, !.jobCond = jobCond, !.profile = profile,
                               !.envSet = envSet, !.filters = filters,
                               !.matches = IF filters THEN {b} ELSE Files,
                               !.workspace = split = "workspace", !.owned = owned,
                               !.batch = split = "batch",
                               !.check = IF check THEN "read" ELSE "absent"],
      !.opts.skip = skip, !.opts.files = TRUE, !.repo.named = named, !.repo.gone = {b}])

(* Every choice of commands, by effect, with what changes which of them    *)
(* run, and a fixer of the same file in the same group or the next.        *)
Fixer == [Plain EXCEPT !.fix = "write", !.check = "read", !.matches = {a}, !.filters = TRUE]
ToGuard ==
  \E check \in {"absent", "read", "unknown"}, list \in {"absent", "unknown"},
     diff \in {"absent", "read", "unknown"}, fix \in {"absent", "write", "unknown"},
     first, again, applied, apart, checking \in BOOLEAN, report \in {"absent", "unknown"} :
    /\ report = "unknown" => first /\ again
    /\ HookInit([Scene EXCEPT
      !.steps = [s \in {"s", "t"} |->
                   IF s = "t" THEN [Fixer EXCEPT !.exclusive = apart]
                   ELSE [Fixer EXCEPT !.check = check, !.list = list, !.diff = diff,
                                      !.fix = fix, !.checkFirst = first,
                                      !.afterDiff = again, !.applyDiff = applied,
                                      !.focus = ~ first, !.same = again]],
      !.items = <<[group |-> FALSE, steps |-> {"s"}], [group |-> FALSE, steps |-> {"t"}]>>,
      !.opts.safe = TRUE, !.opts.check = checking, !.opts.fix = ~ checking,
      !.hook.report = report, !.repo.tracked = Files])

(* A hook that stages, of files with unstaged changes that are stashed or  *)
(* not, with a step that narrows, or not, and then one that does not.      *)
ToStages ==
  \E list, diff \in {"absent", "read"}, applied, same, fast \in BOOLEAN,
     stage \in {"default", "jobs", "globs"}, how \in {"unset", "git"},
     left \in {{}, {a, b}} :
    /\ fast => stage = "default" /\ how = "unset" /\ ~ same
    /\ diff = "absent" => applied
    /\ HookInit([Scene EXCEPT
      !.steps = [s \in {"s", "t"} |->
                   IF s = "t" THEN Fixer
                   ELSE [Plain EXCEPT !.fix = "write", !.list = list, !.diff = diff,
                                      !.applyDiff = applied, !.same = same, !.stage = stage,
                                      !.check = IF same THEN "write" ELSE "absent",
                                      !.stages = {n}]],
      !.items = IF fast THEN <<[group |-> TRUE, steps |-> {"s", "t"}]>>
                ELSE <<[group |-> TRUE, steps |-> {"s"}], [group |-> TRUE, steps |-> {"t"}]>>,
      !.hook.stage = "yes", !.hook.stash = how, !.opts.files = TRUE, !.repo.named = {a, b}, !.repo.unstaged = left,
      !.env.failFast = fast])

(* A hook that stages nothing, and fails when a fixer changed a file.      *)
ToFailOnFix ==
  \E diff \in {"absent", "read"}, left \in {{}, {a}}, how \in {"unset", "git"} :
    HookInit([Scene EXCEPT !.steps["s"] = [Fixer EXCEPT !.diff = diff],
                           !.hook.failOnFix = TRUE, !.hook.stage = "yes",
                           !.hook.stash = how, !.repo.unstaged = left])

(* A hook that is left out, has no steps, or is asked for one it lacks.    *)
ToLeave == \/ HookInit([Scene EXCEPT !.env.skipHook = TRUE])
           \/ HookInit([Scene EXCEPT !.opts.step = {"t"}])
           \/ HookInit([Scene EXCEPT !.items = <<>>, !.steps = <<>>])

(* Two groups of files of different lengths, few and many jobs.            *)
Lists == {<<>>, <<1>>, <<2, 1>>, <<1, 1, 2>>, <<1, 2, 1, 1>>}
AllTasks ==
  {[groups |-> gs, minFiles |-> least, jobs |-> jobs, equal |-> equal, base |-> 1,
    names |-> names, limit |-> limit] :
     gs \in {<<x, y>> : x \in Lists, y \in Lists}, least \in 1..2, jobs \in {0, 2, 3, 5},
     equal \in BOOLEAN, names \in BOOLEAN, limit \in {2, 4}}

(* Short texts, of which at most one character is a carriage return that   *)
(* belongs to no line ending.                                              *)
SomeTexts == {t \in BoundedSeq({a, Blank, Return, NL}, 4) \cup BoundedSeq({a, Return, NL}, 5) :
                Cardinality(Stray(t)) <= 1}

(* A hook runs, or files are batched, or what was stashed is restored, or a *)
(* text is fixed.                                                          *)
Nothing == HookInit([Scene EXCEPT !.env.skipHook = TRUE])
Hooks == ToSelect \/ ToPlan \/ ToGuard \/ ToStages \/ ToFailOnFix \/ ToLeave
Init  == \/ Hooks /\ BatchIdle /\ RestoreIdle /\ TextIdle
         \/ Nothing /\ BatchInit /\ RestoreIdle /\ TextIdle
         \/ Nothing /\ BatchIdle /\ RestoreInit /\ TextIdle
         \/ Nothing /\ BatchIdle /\ RestoreIdle /\ TextInit
MCVars == <<hookVars, batchVars, restoreVars, textVars>>
Next  == \/ /\ task = NoTask /\ Paths = {} /\ hookRuns = 3 /\ HookNext
            /\ UNCHANGED <<batchVars, restoreVars, textVars>>
         \/ BatchNext /\ UNCHANGED <<hookVars, restoreVars, textVars>>
         \/ RestoreNext /\ UNCHANGED <<hookVars, batchVars, textVars>>
         \/ RunFixers /\ UNCHANGED <<hookVars, batchVars, restoreVars>>
Spec  == Init /\ [][Next]_MCVars
StageSpec == ToStages /\ BatchIdle /\ RestoreIdle /\ TextIdle /\ [][Next]_MCVars

(* What a step and the user both changed is put together, and neither is   *)
(* dropped without a word (Merge, Restore).                                *)
BothAreKept == MergesBoth /\ StepChangeKept /\ EditsKept
=============================================================================
