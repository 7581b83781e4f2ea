--------------------------- MODULE HookRunProofs ---------------------------
(***************************************************************************)
(* Proofs about the run of a hook, for any options, settings, hook, steps, *)
(* groups and repository: no file is missed by a status that did not look  *)
(* for it, the plan tells the run, --safe runs nothing it did not vouch    *)
(* for, and a step that names files stages no other of the user's.         *)
(***************************************************************************)
EXTENDS HookRun, Induction

(* The lists of groups that build_all goes through: while a step may join   *)
(* the last group, there is one.                                           *)
GroupLists ==
  {b \in [groups : Seq(SUBSET Steps), fresh : BOOLEAN] : b.fresh \/ b.groups # <<>>}

(* What the groups of the first k items are to be: they hold the chosen     *)
(* steps of these items, each in one group.                                *)
GroupsHold(b, k) ==
  /\ \A n \in DOMAIN b.groups : \A s \in b.groups[n] :
       Chosen(s) /\ \E i \in 1 .. k : s \in scene.items[i].steps
  /\ \A m, n \in DOMAIN b.groups : m # n => b.groups[m] \cap b.groups[n] = {}
  /\ \A i \in 1 .. k : \A s \in ChosenOf(scene.items[i]) :
       \E n \in DOMAIN b.groups : s \in b.groups[n]

(* The items of a hook are a list of sets of steps.                        *)
LEMMA ItemsAreListed ==
  ASSUME SceneOK
  PROVE  /\ scene.items \in Seq([group : BOOLEAN, steps : SUBSET Steps])
         /\ Len(scene.items) \in Nat /\ DOMAIN scene.items = 1 .. Len(scene.items)
         /\ \A i \in DOMAIN scene.items :
              scene.items[i] \in [group : BOOLEAN, steps : SUBSET Steps]
<1>1. scene.items \in Seq([group : BOOLEAN, steps : SUBSET Steps])
  BY DEF SceneOK
<1> DEFINE T == [group : BOOLEAN, steps : SUBSET Steps]
<1> HIDE DEF T
<1>2. scene.items \in Seq(T)
  BY <1>1 DEF T
<1>3. /\ Len(scene.items) \in Nat /\ DOMAIN scene.items = 1 .. Len(scene.items)
      /\ \A i \in DOMAIN scene.items : scene.items[i] \in T
  BY <1>2
<1>4. QED
  BY <1>2, <1>3 DEF T

(* An item of the hook leads from such a list to such a list.              *)
LEMMA GroupedIsList ==
  ASSUME SceneOK, NEW b \in GroupLists, NEW i \in DOMAIN scene.items
  PROVE  Grouped(b, scene.items[i]) \in GroupLists
<1> DEFINE item  == scene.items[i]
           some  == ChosenOf(item)
           alone == \E s \in some : Step(s).exclusive
<1>1. item \in [group : BOOLEAN, steps : SUBSET Steps]
  BY ItemsAreListed
<1>2. some \in SUBSET Steps
  BY <1>1 DEF ChosenOf
<1>3. b \in [groups : Seq(SUBSET Steps), fresh : BOOLEAN] /\ (b.fresh \/ b.groups # <<>>)
  BY DEF GroupLists
<1>4. alone \in BOOLEAN /\ item.group \in BOOLEAN
  BY <1>1
<1> HIDE DEF some, alone, item
<1>5. /\ Append(b.groups, some) \in Seq(SUBSET Steps)
      /\ Append(b.groups, some) # <<>>
  BY <1>2, <1>3
<1>6. ~b.fresh => /\ Joined(b.groups, some) \in Seq(SUBSET Steps)
                  /\ Joined(b.groups, some) # <<>>
  BY <1>2, <1>3 DEF Joined
<1>7. CASE some = {}
  <2>1. Grouped(b, item) = [b EXCEPT !.fresh = @ \/ item.group]
    BY <1>7 DEF Grouped, some, alone
  <2>2. QED
    BY <1>3, <1>4, <2>1 DEF GroupLists, item
<1>8. CASE some # {} /\ item.group
  <2>1. Grouped(b, item) = [groups |-> Append(b.groups, some), fresh |-> FALSE]
    BY <1>8 DEF Grouped, some, alone
  <2>2. QED
    BY <1>5, <2>1 DEF GroupLists, item
<1>9. CASE some # {} /\ ~item.group
  <2>1. Grouped(b, item) = [groups |-> IF b.fresh \/ alone THEN Append(b.groups, some)
                                       ELSE Joined(b.groups, some),
                            fresh  |-> alone]
    BY <1>9 DEF Grouped, some, alone
  <2>2. QED
    BY <1>4, <1>5, <1>6, <2>1 DEF GroupLists, item
<1>10. QED
  BY <1>7, <1>8, <1>9

(* The recursion of build_all is well defined.                             *)
LEMMA BuildingIsDefined ==
  ASSUME SceneOK
  PROVE  /\ Building \in [0 .. Len(scene.items) -> GroupLists]
         /\ Building[0] = [groups |-> <<>>, fresh |-> TRUE]
         /\ \A k \in 1 .. Len(scene.items) : Building[k] = Grouped(Building[k - 1], scene.items[k])
<1> DEFINE N == Len(scene.items)
           first == [groups |-> <<>>, fresh |-> TRUE]
           next == [kb \in (1 .. N) \X GroupLists |-> Grouped(kb[2], scene.items[kb[1]])]
           Whole(f) == f = [k \in 0 .. N |-> IF k = 0 THEN first
                                             ELSE Grouped(f[k - 1], scene.items[k])]
<1>1. N \in Nat /\ DOMAIN scene.items = 1 .. N
  BY ItemsAreListed
<1>2. first \in GroupLists
  BY DEF GroupLists
<1>3. next \in [(1 .. N) \X GroupLists -> GroupLists]
  <2>1. ASSUME NEW k \in 1 .. N, NEW b \in GroupLists PROVE Grouped(b, scene.items[k]) \in GroupLists
    BY <1>1, <2>1, GroupedIsList
  <2>2. QED
    BY <2>1
<1>4. \A k \in 1 .. N : \A b \in GroupLists : next[<<k, b>>] = Grouped(b, scene.items[k])
  OBVIOUS
<1> HIDE DEF N, first, next
<1>5. PICK f : IsPrefixes(f, N, GroupLists, first, next)
  BY <1>1, <1>2, <1>3, PrefixRecursion
<1>6. /\ f \in [0 .. N -> GroupLists] /\ f[0] = first
      /\ \A k \in 1 .. N : f[k] = next[<<k, f[k - 1]>>]
  BY <1>5 DEF IsPrefixes
<1>7. \A k \in 1 .. N : k - 1 \in 0 .. N /\ f[k - 1] \in GroupLists
  BY <1>1, <1>6
<1>8. \A k \in 1 .. N : k - 1 \in 0 .. N /\ f[k] = Grouped(f[k - 1], scene.items[k])
  BY <1>6, <1>4, <1>7
<1>9. f = [k \in 0 .. N |-> IF k = 0 THEN first ELSE Grouped(f[k - 1], scene.items[k])]
  BY <1>1, <1>6, <1>8
<1>10. Whole(f)
  BY <1>9
<1>11. Building = CHOOSE g : Whole(g)
  BY DEF Building, N, first
<1>12. Whole(Building)
  BY <1>10, <1>11
<1>13. /\ Building[0] = first
       /\ \A k \in 1 .. N : k - 1 \in 0 .. N /\ Building[k] = Grouped(Building[k - 1], scene.items[k])
  BY <1>1, <1>12
<1> DEFINE D == {k \in Nat : k <= N => Building[k] \in GroupLists}
<1>14. 0 \in D
  BY <1>2, <1>13
<1>15. ASSUME NEW k \in Nat, k \in D PROVE k + 1 \in D
  <2>1. SUFFICES ASSUME k + 1 <= N PROVE Building[k + 1] \in GroupLists
    OBVIOUS
  <2>2. k + 1 \in 1 .. N /\ (k + 1) - 1 = k /\ Building[k] \in GroupLists
    BY <1>1, <1>15, <2>1
  <2>3. Building[k + 1] = Grouped(Building[k], scene.items[k + 1])
    BY <1>13, <2>2
  <2>4. QED
    BY <1>1, <2>2, <2>3, GroupedIsList
<1>16. Nat \subseteq D
  <2> HIDE DEF D
  <2>1. QED
    BY <1>14, <1>15, SetInduction
<1>17. \A k \in 0 .. N : Building[k] \in GroupLists
  BY <1>1, <1>16
<1>18. Building = [k \in 0 .. N |-> Building[k]]
  BY <1>12
<1>19. QED
  BY <1>13, <1>17, <1>18 DEF N, first

(* An item of the hook adds its chosen steps to the groups.                *)
LEMMA GroupedHolds ==
  ASSUME SceneOK, NEW k \in 1 .. Len(scene.items), NEW b \in GroupLists, GroupsHold(b, k - 1)
  PROVE  GroupsHold(Grouped(b, scene.items[k]), k)
<1> DEFINE item  == scene.items[k]
           some  == ChosenOf(item)
           alone == \E s \in some : Step(s).exclusive
           g     == Grouped(b, item)
           gs    == b.groups
<1>1. Len(scene.items) \in Nat /\ k \in DOMAIN scene.items /\ k \in Nat
  BY DEF SceneOK
<1>2. \A i \in 1 .. k - 1 : i \in DOMAIN scene.items /\ i # k
  BY <1>1 DEF SceneOK
<1>3. gs \in Seq(SUBSET Steps) /\ (b.fresh \/ gs # <<>>)
  BY DEF GroupLists
<1>4. \A s \in some : s \in item.steps /\ Chosen(s)
  BY DEF ChosenOf
<1>5. \A s \in some : \A n \in DOMAIN gs : s \notin gs[n]
  BY <1>1, <1>2, <1>4 DEF GroupsHold, SceneOK
<1>6. \A i \in 1 .. k : i \in 1 .. k - 1 \/ i = k
  BY <1>1
<1>7. \A i \in 1 .. k - 1 : i \in 1 .. k
  BY <1>1
<1>8. k \in 1 .. k
  BY <1>1
<1>9. CASE some = {} /\ g.groups = gs
  BY <1>6, <1>7, <1>9 DEF GroupsHold
<1>10. CASE g.groups = Append(gs, some)
  <2>1. /\ DOMAIN g.groups = DOMAIN gs \cup {Len(gs) + 1} /\ Len(gs) + 1 \notin DOMAIN gs
        /\ \A n \in DOMAIN gs : g.groups[n] = gs[n]
        /\ g.groups[Len(gs) + 1] = some
    <3> HIDE DEF some, g, gs
    <3>1. QED
      BY <1>3, <1>10
  <2> HIDE DEF g
  <2>2. \A n \in DOMAIN g.groups : \A s \in g.groups[n] :
          Chosen(s) /\ \E i \in 1 .. k : s \in scene.items[i].steps
    BY <1>4, <1>7, <1>8, <2>1 DEF GroupsHold
  <2>3. \A m, n \in DOMAIN g.groups : m # n => g.groups[m] \cap g.groups[n] = {}
    BY <1>5, <2>1 DEF GroupsHold
  <2>4. ASSUME NEW i \in 1 .. k, NEW s \in ChosenOf(scene.items[i])
        PROVE  \E n \in DOMAIN g.groups : s \in g.groups[n]
    <3>1. CASE i = k
      BY <2>1, <3>1
    <3>2. CASE i \in 1 .. k - 1
      <4>1. PICK n \in DOMAIN gs : s \in gs[n]
        BY <3>2 DEF GroupsHold
      <4>2. s \in g.groups[n]
        BY <2>1, <4>1
      <4>3. QED
        BY <2>1, <4>1, <4>2
    <3>3. QED
      BY <1>6, <3>1, <3>2
  <2>5. GroupsHold(g, k)
    BY <2>2, <2>3, <2>4 DEF GroupsHold
  <2>6. QED
    BY <2>5 DEF g
<1>11. CASE gs # <<>> /\ g.groups = Joined(gs, some)
  <2>1. /\ DOMAIN g.groups = DOMAIN gs /\ Len(gs) \in DOMAIN gs
        /\ \A n \in DOMAIN gs : n # Len(gs) => g.groups[n] = gs[n]
        /\ g.groups[Len(gs)] = gs[Len(gs)] \cup some
    <3> HIDE DEF some, g, gs
    <3>1. QED
      BY <1>3, <1>11 DEF Joined
  <2> HIDE DEF g
  <2>2. \A n \in DOMAIN g.groups : \A s \in g.groups[n] :
          Chosen(s) /\ \E i \in 1 .. k : s \in scene.items[i].steps
    BY <1>4, <1>7, <1>8, <2>1 DEF GroupsHold
  <2>3. \A m, n \in DOMAIN g.groups : m # n => g.groups[m] \cap g.groups[n] = {}
    BY <1>5, <2>1 DEF GroupsHold
  <2>4. ASSUME NEW i \in 1 .. k, NEW s \in ChosenOf(scene.items[i])
        PROVE  \E n \in DOMAIN g.groups : s \in g.groups[n]
    <3>1. CASE i = k
      BY <2>1, <3>1
    <3>2. CASE i \in 1 .. k - 1
      <4>1. PICK n \in DOMAIN gs : s \in gs[n]
        BY <3>2 DEF GroupsHold
      <4>2. s \in g.groups[n]
        BY <2>1, <4>1
      <4>3. QED
        BY <2>1, <4>1, <4>2
    <3>3. QED
      BY <1>6, <3>1, <3>2
  <2>5. GroupsHold(g, k)
    BY <2>2, <2>3, <2>4 DEF GroupsHold
  <2>6. QED
    BY <2>5 DEF g
<1>12. \/ some = {} /\ g.groups = gs
       \/ g.groups = Append(gs, some)
       \/ gs # <<>> /\ g.groups = Joined(gs, some)
  <2>1. b \in [groups : Seq(SUBSET Steps), fresh : BOOLEAN]
    BY DEF GroupLists
  <2>2. CASE some = {}
    <3>1. g = [b EXCEPT !.fresh = @ \/ item.group]
      BY <2>2 DEF Grouped
    <3>2. QED
      BY <2>1, <2>2, <3>1
  <2>3. CASE some # {} /\ (item.group \/ b.fresh \/ alone)
    <3>1. g.groups = Append(gs, some)
      BY <2>3 DEF Grouped
    <3>2. QED
      BY <3>1
  <2>4. CASE some # {} /\ ~(item.group \/ b.fresh \/ alone)
    <3>1. g.groups = Joined(gs, some)
      BY <2>4 DEF Grouped
    <3>2. QED
      BY <1>3, <2>4, <3>1
  <2>5. QED
    BY <2>2, <2>3, <2>4
<1>13. QED
  BY <1>9, <1>10, <1>11, <1>12

(* The groups of a hook: each chosen step is in one of them.               *)
LEMMA StepsAreGrouped ==
  ASSUME SceneOK
  PROVE  /\ StepGroups \in Seq(SUBSET Steps)
         /\ \A m, n \in DOMAIN StepGroups : m # n => StepGroups[m] \cap StepGroups[n] = {}
         /\ \A s \in Steps : Chosen(s) => \E n \in DOMAIN StepGroups : s \in StepGroups[n]
<1> DEFINE N == Len(scene.items)
           D == {k \in Nat : k <= N => GroupsHold(Building[k], k)}
<1>1. N \in Nat /\ DOMAIN scene.items = 1 .. N
  BY ItemsAreListed
<1>2. 0 \in D
  BY BuildingIsDefined DEF GroupsHold
<1>3. ASSUME NEW k \in Nat, k \in D PROVE k + 1 \in D
  <2>1. SUFFICES ASSUME k + 1 <= N PROVE GroupsHold(Building[k + 1], k + 1)
    OBVIOUS
  <2>2. k + 1 \in 1 .. N /\ (k + 1) - 1 = k /\ k \in 0 .. N /\ GroupsHold(Building[k], k)
    BY <1>1, <1>3, <2>1
  <2>3. Building[k + 1] = Grouped(Building[k], scene.items[k + 1]) /\ Building[k] \in GroupLists
    BY <2>2, BuildingIsDefined
  <2>4. QED
    BY <2>2, <2>3, GroupedHolds
<1>4. Nat \subseteq D
  <2> HIDE DEF D
  <2>1. QED
    BY <1>2, <1>3, SetInduction
<1>5. GroupsHold(Building[N], N)
  BY <1>1, <1>4
<1>6. Building[N] \in GroupLists
  BY <1>1, BuildingIsDefined
<1>7. StepGroups = Building[N].groups /\ StepGroups \in Seq(SUBSET Steps)
  BY <1>6 DEF StepGroups, GroupLists
<1>8. \A s \in Steps : Chosen(s) => \E i \in 1 .. N : s \in ChosenOf(scene.items[i])
  BY <1>1 DEF SceneOK, ChosenOf
<1>9. QED
  BY <1>5, <1>7, <1>8 DEF GroupsHold
-----------------------------------------------------------------------------
(* The invariant.                                                          *)

JobType == [at : {"waiting", "ready", "checking", "patching", "rechecking", "working",
                  "staging", "done"},
            files : SUBSET Files, first : BOOLEAN, named : SUBSET Files,
            heard : {"unasked", "yes", "nothing", "silent"}, touched : SUBSET Files]

(* The steps of the group that runs.                                       *)
Running == IF group = 0 THEN {} ELSE StepGroups[group]

Reasons == {"", "disabled", "no command", "environment", "no files", "profile", "condition"}
Fields  == {"check", "list", "diff", "fix", "report", "none"}

TypeOK ==
  /\ phase \in {"start", "reading", "selected", "running", "ended"}
  /\ picked \in SUBSET Files /\ files \in SUBSET Files /\ unstaged \in SUBSET Files
  /\ untracked \in SUBSET Files /\ exists \in SUBSET Files /\ dirty \in SUBSET Files
  /\ fresh \in SUBSET Files /\ contention \in SUBSET Files
  /\ scanned \in BOOLEAN /\ hashes \in [DOMAIN hashes -> BOOLEAN]
  /\ group = 0 \/ group \in DOMAIN StepGroups
  /\ job \in [Running -> JobType]
  /\ skipped \in [Steps -> Reasons]
  /\ ran \subseteq (Steps \cup {"hook"}) \X Fields /\ staged \subseteq Steps \X Files
  /\ result \in {"ok", "failed"}

(* The files: until the steps start, what the status told; then they only  *)
(* grow, by what a hook that stages has staged.                            *)
FilesInv ==
  /\ picked \subseteq files
  /\ ~ShouldStage \/ group = 0 => files = picked
  /\ phase = "selected" => /\ untracked = UntrackedSeen(NeedsUntrackedScan)
                           /\ picked = FileList(UntrackedSeen(NeedsUntrackedScan))
  /\ phase \in {"start", "reading", "selected"} =>
       exists = (repo.tracked \cup repo.untracked) \ repo.gone /\ dirty = repo.unstaged
  /\ phase = "selected" => unstaged = repo.unstaged
  /\ untracked \subseteq repo.untracked
  /\ repo.tracked \ repo.gone \subseteq exists
  /\ unstaged \subseteq exists

(* Nothing is known of a step yet.                                         *)
Untouched(s) ==
  /\ skipped[s] = ""
  /\ \A c \in ran : c[1] # s
  /\ \A c \in staged : c[1] # s
Later(s) == \A k \in DOMAIN StepGroups : s \in StepGroups[k] => k > group

OrderInv ==
  /\ phase \in {"start", "reading", "selected"} => group = 0 /\ ran = {} /\ result = "ok"
  /\ phase # "ended" => \A s \in Steps : Later(s) => Untouched(s)
  /\ group # 0 /\ ~ShouldStage => contention = FilesInContention(StepGroups[group], files)

(* What --safe relies on.                                                  *)
Trusted(c) == Vouched(IF c[1] = "hook" THEN hook.report ELSE Step(c[1])[c[2]])
SafeInv ==
  opts.safe /\ ~ShouldStage =>
    /\ phase = "running" => Gate
    /\ \A c \in ran : Trusted(c)

(* A step that was built was not to be skipped, as far as was known then.  *)
PlannedIn(s) ==
  /\ Step(s).cond \notin {"false", "error"}
  /\ SkipReason(s, picked) = "" /\ HasJob(s, picked) /\ ~ProfileSkips(s)
BuiltOK(s) ==
  job[s].at \notin {"waiting", "done"} =>
    /\ RunCmd(s) # "none" /\ skipped[s] = ""
    /\ ~ShouldStage => /\ HasJob(s, files) /\ JobSkip(s, files) = ""
                       /\ job[s].first => BuiltFirst(s, files, contention)
    /\ files = picked => PlannedIn(s)

(* Where a job is.                                                         *)
PlaceOK(s) ==
  /\ job[s].at \in {"waiting", "ready"} => Untouched(s)
  /\ job[s].at = "ready" /\ files = picked => job[s].files = JobFiles(s, picked)
  /\ job[s].at \notin {"waiting", "ready", "done"} =>
       Step(s).profile /\ Step(s).jobCond \notin {"error", "false"}
  /\ job[s].at = "checking" => job[s].first
  /\ job[s].at \in {"patching", "rechecking"} =>
       job[s].first /\ Fixing /\ FirstCmd(s) = "diff" /\ AppliesDiff(s)
  /\ job[s].at = "rechecking" => Step(s).afterDiff

(* What a job may yet stage of the user's own changes was named by its     *)
(* check, or the check is no guide.                                        *)
Own(s)     == Step(s).stage = "default" /\ Narrows(s) /\ ShouldStage
Excused(s) == job[s].heard \in {"nothing", "silent"} \/ CheckIsFix(s)
NamedOK(s) ==
  /\ job[s].at = "ready" /\ Own(s) /\ Fixing => job[s].first \/ job[s].files \cap unstaged = {}
  /\ job[s].at \in {"patching", "working"} /\ Own(s) /\ Fixing =>
       Excused(s) \/ job[s].files \cap unstaged \subseteq job[s].named
  /\ job[s].at \in {"patching", "rechecking", "staging"} /\ Own(s) =>
       Excused(s) \/ job[s].touched \cap unstaged \subseteq job[s].named
  /\ \A c \in staged : c[1] = s =>
       /\ job[s].at = "done"
       /\ UsersOwn(s, c[2]) => Excused(s) \/ c[2] \in job[s].named

(* A step that is done was treated as the plan said.                       *)
AsTold(s) ==
  IF Step(s).cond = "error" \/ (Analysis(s, picked) # "condition" /\ Step(s).jobCond = "error")
  THEN skipped[s] \in {"", Analysis(s, picked)}
  ELSE IF Analysis(s, picked) # "included"
  THEN skipped[s] = Analysis(s, picked) /\ \A c \in ran : c[1] # s
  ELSE HasJob(s, picked) /\ JobFiles(s, picked) \subseteq repo.tracked \ repo.gone =>
         skipped[s] = ""
ToldOK(s) ==
  job[s].at = "done" /\ files = picked /\ ~ Stopped /\ ~ NeverHasJob(s) => AsTold(s)

JobsInv == \A s \in Running : BuiltOK(s) /\ PlaceOK(s) /\ NamedOK(s) /\ ToldOK(s)

EarlyInv ==
  phase = "ended" /\ files = {} /\ group = 0 /\ result = "ok" =>
    \A s \in Steps : skipped[s] # "" => skipped[s] = Analysis(s, {}) \/ NeverHasJob(s)

HookInv == /\ SceneOK /\ TypeOK /\ FilesInv /\ OrderInv /\ SafeInv /\ JobsInv /\ EarlyInv
           /\ \A c \in staged : ShouldStage

-----------------------------------------------------------------------------
(* Proof of the invariant.                                                 *)

(* What is computed from the scene stays while the scene does.             *)
LEMMA SceneStays ==
  ASSUME UNCHANGED scene
  PROVE  /\ opts' = opts /\ hook' = hook /\ env' = env /\ repo' = repo
         /\ Steps' = Steps /\ StepGroups' = StepGroups
         /\ Fixing' = Fixing /\ ShouldStage' = ShouldStage
         /\ NeedsUntrackedScan' = NeedsUntrackedScan
         /\ SceneOK' = SceneOK
<1>1. opts' = opts /\ hook' = hook /\ env' = env /\ repo' = repo /\ Steps' = Steps
  BY DEF opts, hook, env, repo, Steps
<1>2. StepGroups' = StepGroups
  BY DEF StepGroups, Building, Grouped, ChosenOf, Chosen, Joined, Step, opts
<1>3. Fixing' = Fixing
  BY <1>1 DEF Fixing, RunType
<1>4. ShouldStage' = ShouldStage
  BY <1>1, <1>3 DEF ShouldStage
<1>5. NeedsUntrackedScan' = NeedsUntrackedScan
  BY <1>1, <1>4 DEF NeedsUntrackedScan, SelectionReadsUntracked, Stashes, StashMethod
<1>6. SceneOK' = SceneOK
  BY <1>1 DEF SceneOK
<1>7. QED
  BY <1>1, <1>2, <1>3, <1>4, <1>5, <1>6

(* The same of what is computed of a step.                                 *)
LEMMA StepStays ==
  ASSUME UNCHANGED scene, NEW s
  PROVE  /\ Step(s)' = Step(s) /\ RunCmd(s)' = RunCmd(s) /\ FirstCmd(s)' = FirstCmd(s)
         /\ CheckIsFix(s)' = CheckIsFix(s) /\ AppliesDiff(s)' = AppliesDiff(s)
         /\ Own(s)' = Own(s) /\ ProfileSkips(s)' = ProfileSkips(s)
         /\ \A fs : /\ HasJob(s, fs)' = HasJob(s, fs) /\ JobFiles(s, fs)' = JobFiles(s, fs)
                    /\ SkipReason(s, fs)' = SkipReason(s, fs) /\ JobSkip(s, fs)' = JobSkip(s, fs)
                    /\ Analysis(s, fs)' = Analysis(s, fs)
                    /\ \A c : BuiltFirst(s, fs, c)' = BuiltFirst(s, fs, c)
<1>1. opts' = opts /\ env' = env /\ Fixing' = Fixing /\ ShouldStage' = ShouldStage
  BY SceneStays
<1>2. Step(s)' = Step(s)
  BY DEF Step
<1>3. /\ RunCmd(s)' = RunCmd(s) /\ FirstCmd(s)' = FirstCmd(s)
      /\ CheckIsFix(s)' = CheckIsFix(s) /\ AppliesDiff(s)' = AppliesDiff(s)
  BY <1>1, <1>2 DEF RunCmd, FirstCmd, CheckCmd, Has, CheckIsFix, AppliesDiff
<1>4. Own(s)' = Own(s) /\ ProfileSkips(s)' = ProfileSkips(s)
  BY <1>1, <1>2 DEF Own, Narrows, Has, ProfileSkips
<1>5. \A fs : HasJob(s, fs)' = HasJob(s, fs) /\ JobFiles(s, fs)' = JobFiles(s, fs)
  BY <1>2 DEF HasJob, JobFiles, Matched
<1>6. \A fs : SkipReason(s, fs)' = SkipReason(s, fs) /\ JobSkip(s, fs)' = JobSkip(s, fs)
  BY <1>1, <1>2, <1>3, <1>4 DEF SkipReason, JobSkip, Matched
<1>7. \A fs : Analysis(s, fs)' = Analysis(s, fs)
  BY <1>2, <1>4, <1>5, <1>6 DEF Analysis
<1>8. \A fs, c : BuiltFirst(s, fs, c)' = BuiltFirst(s, fs, c)
  BY <1>1, <1>2, <1>3, <1>5 DEF BuiltFirst, Narrows, Has, CheckFirst
<1>9. QED
  BY <1>2, <1>3, <1>4, <1>5, <1>6, <1>7, <1>8

(* More of what stays.                                                     *)
LEMMA GateStays ==
  ASSUME UNCHANGED scene, NEW g, NEW fs
  PROVE  /\ FilesInContention(g, fs)' = FilesInContention(g, fs)
         /\ FileList(fs)' = FileList(fs) /\ UntrackedSeen(scanned)' = IF scanned' THEN repo.untracked ELSE {}
         /\ \A c : Trusted(c)' = Trusted(c)
<1>1. hook' = hook /\ repo' = repo /\ opts' = opts /\ env' = env /\ Fixing' = Fixing
  BY SceneStays
<1>2. \A c : Trusted(c)' = Trusted(c)
  BY <1>1 DEF Trusted, Step
<1>3. FilesInContention(g, fs)' = FilesInContention(g, fs)
  BY <1>1 DEF FilesInContention, CheckFirst, CheckIsFix, Has, Matched, Step
<1>4. FileList(fs)' = FileList(fs)
  BY <1>1 DEF FileList, Stashes, StashMethod
<1>5. QED
  BY <1>1, <1>2, <1>3, <1>4 DEF UntrackedSeen

(* The groups hold steps of the hook.                                      *)
LEMMA RunningIsOfHook ==
  ASSUME SceneOK, TypeOK
  PROVE  /\ Running \subseteq Steps /\ group \in Nat /\ DOMAIN job = Running
         /\ \A n \in DOMAIN StepGroups : n \in Nat /\ n > 0 /\ StepGroups[n] \subseteq Steps
<1>1. \A n \in DOMAIN StepGroups : n \in Nat /\ n > 0 /\ StepGroups[n] \subseteq Steps
  <2> DEFINE T == SUBSET Steps
  <2>1. StepGroups \in Seq(T)
    BY StepsAreGrouped
  <2>2. \A n \in DOMAIN StepGroups : n \in Nat /\ n > 0 /\ StepGroups[n] \in T
    <3> HIDE DEF T
    <3>1. QED
      BY <2>1
  <2>3. QED
    BY <2>2
<1>2. QED
  BY <1>1 DEF TypeOK, Running

(* The empty function.                                                     *)
LEMMA EmptyFunction == \A T : DOMAIN <<>> = {} /\ <<>> \in [{} -> T]
OBVIOUS

(* A run begins with nothing known.                                        *)
LEMMA InitHolds == SceneOK /\ HookBegin => HookInv
<1> SUFFICES ASSUME SceneOK, HookBegin PROVE HookInv
  OBVIOUS
<1>1. repo \in RepoType
  BY DEF SceneOK
<1>2. Running = {}
  BY DEF Running, HookBegin
<1>3. TypeOK
  <2>1. job \in [Running -> JobType] /\ hashes \in [DOMAIN hashes -> BOOLEAN]
    <3>1. job = <<>> /\ hashes = <<>>
      BY DEF HookBegin
    <3>2. QED
      BY <1>2, <3>1, EmptyFunction
  <2>2. skipped \in [Steps -> Reasons]
    BY DEF HookBegin, Reasons
  <2>3. QED
    BY <1>1, <2>1, <2>2 DEF TypeOK, RepoType, HookBegin
<1>4. FilesInv
  BY <1>1 DEF FilesInv, RepoType, SceneOK, HookBegin
<1>5. OrderInv
  BY DEF OrderInv, Untouched, HookBegin
<1>6. SafeInv /\ JobsInv /\ EarlyInv
  BY <1>2 DEF SafeInv, JobsInv, EarlyInv, HookBegin
<1>7. QED
  BY <1>3, <1>4, <1>5, <1>6 DEF HookInv, HookBegin

(* Before the steps start nothing is known of a job.                       *)
LEMMA NoGroupNoJob ==
  ASSUME group = 0, UNCHANGED <<group, job>>
  PROVE  JobsInv' /\ (TypeOK => job' \in [Running' -> JobType])
BY DEF JobsInv, Running, TypeOK

(* Setup.                                                                  *)
LEMMA SetupKeeps == HookInv /\ Setup => HookInv'
<1> SUFFICES ASSUME HookInv, Setup PROVE HookInv'
  OBVIOUS
<1>1. UNCHANGED scene /\ group = 0 /\ UNCHANGED <<group, job>> /\ ran = {}
  BY DEF HookInv, OrderInv, Setup, goneBy
<1>2. SceneOK' /\ JobsInv' /\ job' \in [Running' -> JobType]
  BY <1>1, SceneStays, NoGroupNoJob DEF HookInv
<1>3. TypeOK'
  BY <1>1, <1>2, SceneStays DEF HookInv, TypeOK, Setup, goneBy, treeVars
<1>4. FilesInv'
  BY <1>1, SceneStays DEF HookInv, FilesInv, Setup, goneBy, treeVars
<1>5. OrderInv'
  BY <1>1, SceneStays DEF HookInv, OrderInv, Setup, goneBy, treeVars, Untouched, Later
<1>6. SafeInv'
  BY <1>1 DEF HookInv, SafeInv, Setup
<1>7. EarlyInv'
  <2>1. SUFFICES ASSUME NEW s \in Steps PROVE skipped[s] = ""
    BY <1>1, SceneStays DEF EarlyInv, Setup
  <2>2. Later(s)
    BY <1>1, RunningIsOfHook DEF HookInv, Later
  <2>3. QED
    BY <2>2 DEF HookInv, OrderInv, Untouched, Setup
<1>8. QED
  BY <1>1, <1>2, <1>3, <1>4, <1>5, <1>6, <1>7, SceneStays DEF HookInv, Setup

(* ReadStatus.                                                             *)
LEMMA ReadStatusKeeps == HookInv /\ ReadStatus => HookInv'
<1> SUFFICES ASSUME HookInv, ReadStatus PROVE HookInv'
  OBVIOUS
<1> DEFINE others == UntrackedSeen(NeedsUntrackedScan)
<1>1. UNCHANGED scene /\ group = 0 /\ UNCHANGED <<group, job>> /\ ran = {}
  BY DEF HookInv, OrderInv, ReadStatus
<1>2. SceneOK' /\ JobsInv' /\ job' \in [Running' -> JobType]
  BY <1>1, SceneStays, NoGroupNoJob DEF HookInv
<1>3. repo \in RepoType
  BY DEF HookInv, SceneOK
<1>4. others \subseteq repo.untracked /\ FileList(others) \subseteq Files
  BY <1>3 DEF UntrackedSeen, FileList, RepoType
<1>5. others' = others /\ FileList(others)' = FileList(others) /\ NeedsUntrackedScan \in BOOLEAN
  <2>1. NeedsUntrackedScan' = NeedsUntrackedScan /\ repo' = repo
    BY <1>1, SceneStays
  <2>2. others' = others
    BY <2>1 DEF UntrackedSeen
  <2>3. \A fs : FileList(fs)' = FileList(fs)
    BY <1>1, GateStays
  <2>4. NeedsUntrackedScan \in BOOLEAN
    BY DEF NeedsUntrackedScan
  <2>5. QED
    BY <2>2, <2>3, <2>4
<1> HIDE DEF others
<1>6. TypeOK'
  <2>1. picked' = FileList(others) /\ files' = FileList(others) /\ untracked' = others
        /\ unstaged' = repo.unstaged /\ scanned' = NeedsUntrackedScan
    BY DEF ReadStatus, others
  <2>2. untracked' \subseteq Files /\ unstaged' \subseteq Files
    BY <1>3, <1>4, <2>1 DEF RepoType
  <2>3. QED
    BY <1>1, <1>2, <1>4, <1>5, <2>1, <2>2, SceneStays DEF HookInv, TypeOK, ReadStatus, treeVars
<1>7. FilesInv'
  <2>1. picked' = FileList(others) /\ files' = FileList(others) /\ untracked' = others
        /\ unstaged' = repo.unstaged /\ phase = "reading" /\ phase' = "selected"
        /\ UNCHANGED <<exists, dirty>>
    BY DEF ReadStatus, others, treeVars
  <2>2. picked' = FileList(others)' /\ untracked' = others'
    BY <1>5, <2>1
  <2>3. exists = (repo.tracked \cup repo.untracked) \ repo.gone /\ dirty = repo.unstaged
    BY <2>1 DEF HookInv, FilesInv
  <2>4. repo' = repo
    BY <1>1, SceneStays
  <2>5. repo.unstaged \subseteq exists
    BY <2>3 DEF HookInv, SceneOK
  <2>6. QED
    BY <1>4, <2>1, <2>2, <2>3, <2>4, <2>5 DEF FilesInv, others
<1>8. OrderInv'
  BY <1>1, SceneStays DEF HookInv, OrderInv, ReadStatus, Untouched, Later
<1>9. SafeInv' /\ EarlyInv'
  BY <1>1 DEF SafeInv, EarlyInv, ReadStatus
<1>10. QED
  BY <1>1, <1>2, <1>6, <1>7, <1>8, <1>9, SceneStays DEF HookInv, ReadStatus

(* The reasons for which a step is skipped.                                *)
LEMMA ReasonsAreKnown ==
  ASSUME NEW s, NEW fs
  PROVE  SkipReason(s, fs) \in Reasons /\ JobSkip(s, fs) \in Reasons /\ NoopReason(s) \in Reasons
<1>1. \A gs : SkipReason(s, gs) \in Reasons
  BY DEF SkipReason, Reasons
<1>2. \A gs : JobSkip(s, gs) \in Reasons
  BY <1>1 DEF JobSkip, Reasons
<1>3. QED
  BY <1>1, <1>2 DEF NoopReason, Reasons

(* EarlyExit.                                                              *)
LEMMA EarlyExitKeeps == HookInv /\ EarlyExit => HookInv'
<1> SUFFICES ASSUME HookInv, EarlyExit PROVE HookInv'
  OBVIOUS
<1>1. UNCHANGED scene /\ group = 0 /\ UNCHANGED <<group, job>> /\ ran = {}
  BY DEF HookInv, OrderInv, EarlyExit, goneBy
<1>2. SceneOK' /\ JobsInv' /\ job' \in [Running' -> JobType]
  BY <1>1, SceneStays, NoGroupNoJob DEF HookInv
<1>3. skipped' \in [Steps -> Reasons]
  <2>1. \A s : NoopReason(s) \in Reasons
    BY ReasonsAreKnown
  <2>2. QED
    BY <2>1 DEF EarlyExit, Reasons
<1>4. TypeOK'
  BY <1>1, <1>2, <1>3, SceneStays DEF HookInv, TypeOK, EarlyExit, goneBy, treeVars
<1>5. FilesInv'
  BY <1>1, SceneStays DEF HookInv, FilesInv, EarlyExit, goneBy, treeVars
<1>6. OrderInv' /\ SafeInv'
  BY <1>1, SceneStays DEF HookInv, OrderInv, SafeInv, EarlyExit, goneBy
<1>7. EarlyInv'
  <2>1. files = {} /\ picked = {} /\ files' = files /\ picked' = picked
    BY <1>1 DEF HookInv, FilesInv, EarlyExit, NothingToDo, goneBy
  <2>2. ASSUME NEW s \in Steps, skipped'[s] # ""
        PROVE  skipped'[s] = Analysis(s, {}) \/ NeverHasJob(s)
    <3>1. Chosen(s) /\ skipped'[s] = NoopReason(s)
      BY <2>2 DEF EarlyExit
    <3>2. PICK n \in DOMAIN StepGroups : s \in StepGroups[n]
      BY <3>1, StepsAreGrouped DEF HookInv
    <3>3. Step(s).cond = "none" /\ Step(s).jobCond = "none"
          /\ (HasJob(s, {}) => JobSkip(s, {}) # "")
      BY <2>1, <3>2 DEF EarlyExit, NothingToDo
    <3>4. QED
      BY <2>1, <3>1, <3>3 DEF NoopReason, NeverHasJob, JobSkip, Analysis, ProfileSkips
  <2>3. ASSUME NEW s PROVE Analysis(s, {})' = Analysis(s, {}) /\ NeverHasJob(s)' = NeverHasJob(s)
    BY <1>1, <2>1, StepStays DEF NeverHasJob
  <2>4. Steps' = Steps
    BY <1>1, SceneStays
  <2>5. QED
    BY <2>2, <2>3, <2>4 DEF EarlyInv
<1>8. staged' = staged /\ ShouldStage' = ShouldStage
  BY <1>1, SceneStays DEF EarlyExit
<1>9. QED
  BY <1>2, <1>4, <1>5, <1>6, <1>7, <1>8 DEF HookInv

(* Refuse.                                                                 *)
LEMMA RefuseKeeps == HookInv /\ Refuse => HookInv'
<1> SUFFICES ASSUME HookInv, Refuse PROVE HookInv'
  OBVIOUS
<1>1. UNCHANGED scene /\ group = 0 /\ UNCHANGED <<group, job>> /\ ran = {}
  BY DEF HookInv, OrderInv, Refuse, goneBy
<1>2. SceneOK' /\ JobsInv' /\ job' \in [Running' -> JobType]
  BY <1>1, SceneStays, NoGroupNoJob DEF HookInv
<1>3. TypeOK'
  BY <1>1, <1>2, SceneStays DEF HookInv, TypeOK, Refuse, goneBy, treeVars
<1>4. FilesInv'
  BY <1>1, SceneStays DEF HookInv, FilesInv, Refuse, goneBy, treeVars
<1>5. OrderInv' /\ SafeInv' /\ EarlyInv'
  BY <1>1, SceneStays DEF HookInv, OrderInv, SafeInv, EarlyInv, Refuse, goneBy
<1>6. QED
  BY <1>1, <1>2, <1>3, <1>4, <1>5, SceneStays DEF HookInv, Refuse

(* What the gate looked at stays when the scene and the files do.          *)
LEMMA GateKeeps == Gate /\ UNCHANGED <<scene, files>> => Gate'
<1> SUFFICES ASSUME Gate, UNCHANGED <<scene, files>> PROVE Gate'
  OBVIOUS
<1>1. /\ hook' = hook /\ StepGroups' = StepGroups
      /\ \A g : FilesInContention(g, files)' = FilesInContention(g, files)
  BY SceneStays, GateStays
<1>2. \A s : /\ Step(s)' = Step(s)
             /\ HasJob(s, files)' = HasJob(s, files) /\ JobSkip(s, files)' = JobSkip(s, files)
             /\ \A c : BuiltFirst(s, files, c)' = BuiltFirst(s, files, c)
  BY StepStays
<1>3. \A s, b : CommandsFor(s, b)' = CommandsFor(s, b)
  BY <1>2, SceneStays, StepStays DEF CommandsFor, Has
<1>4. Vouched(hook.report)'
  BY <1>1 DEF Gate, Vouched
<1>5. ASSUME NEW i \in DOMAIN StepGroups', NEW s \in (StepGroups')[i],
             HasJob(s, files)', JobSkip(s, files)' = "",
             NEW c \in CommandsFor(s, BuiltFirst(s, files, FilesInContention(StepGroups[i], files)))'
      PROVE  Vouched(Step(s)[c])'
  <2>1. i \in DOMAIN StepGroups /\ s \in StepGroups[i]
    BY <1>1
  <2>2. HasJob(s, files) /\ JobSkip(s, files) = ""
    BY <1>2, <1>5
  <2>3. CommandsFor(s, BuiltFirst(s, files, FilesInContention(StepGroups[i], files)))'
        = CommandsFor(s, BuiltFirst(s, files, FilesInContention(StepGroups[i], files)))
    BY <1>1, <1>2, <1>3
  <2>4. Vouched(Step(s)[c])
    BY <1>5, <2>1, <2>2, <2>3 DEF Gate
  <2>5. QED
    BY <1>2, <2>4 DEF Vouched
<1>6. QED
  BY <1>4, <1>5 DEF Gate

(* StashAndGo.                                                             *)
LEMMA StashAndGoKeeps == HookInv /\ StashAndGo => HookInv'
<1> SUFFICES ASSUME HookInv, StashAndGo PROVE HookInv'
  OBVIOUS
<1>1. /\ UNCHANGED <<scene, files, picked, untracked, group, job, contention, skipped, ran, staged>>
      /\ group = 0 /\ ran = {} /\ phase = "selected" /\ phase' \in {"ended", "running"}
      /\ result' \in {result, "failed"} /\ (phase' = "ended" => result' = "failed")
      /\ opts.safe => Gate
  BY DEF HookInv, OrderInv, StashAndGo, goneBy
<1>2. SceneOK' /\ JobsInv' /\ job' \in [Running' -> JobType]
  BY <1>1, SceneStays, NoGroupNoJob DEF HookInv
<1>3. repo \in RepoType /\ repo.tracked \cap repo.untracked = {} /\ repo' = repo
  BY <1>1, SceneStays DEF HookInv, SceneOK
<1>4. /\ exists' \subseteq exists /\ unstaged' \subseteq unstaged /\ dirty' \subseteq dirty
      /\ fresh' \subseteq fresh /\ exists \ repo.untracked \subseteq exists'
      /\ unstaged' \subseteq exists'
  <2> DEFINE away == IF env.untracked THEN untracked ELSE {}
  <2>1. away \subseteq repo.untracked /\ unstaged = dirty /\ unstaged \subseteq exists
    BY <1>1 DEF HookInv, FilesInv
  <2>2. CASE UNCHANGED <<unstaged, exists, dirty, fresh>>
    BY <2>1, <2>2
  <2>3. CASE unstaged' = unstaged \ (dirty \cup away) /\ dirty' = {}
             /\ exists' = exists \ away /\ fresh' = fresh \ away
    BY <2>1, <2>3
  <2>4. QED
    BY <2>2, <2>3 DEF StashAndGo
<1>5. hashes' \in [DOMAIN hashes' -> BOOLEAN]
  BY DEF StashAndGo
<1>6. scanned' = scanned
  BY DEF StashAndGo, goneBy
<1>7. TypeOK'
  BY <1>1, <1>2, <1>4, <1>5, <1>6, SceneStays DEF HookInv, TypeOK
<1>8. FilesInv'
  BY <1>1, <1>3, <1>4, SceneStays DEF HookInv, FilesInv
<1>9. OrderInv'
  BY <1>1, SceneStays DEF HookInv, OrderInv, Untouched, Later
<1>10. SafeInv'
  BY <1>1, SceneStays, GateKeeps DEF SafeInv
<1>11. EarlyInv'
  BY <1>1 DEF EarlyInv
<1>12. QED
  BY <1>1, <1>2, <1>7, <1>8, <1>9, <1>10, <1>11, SceneStays DEF HookInv

(* StartGroup.                                                             *)
LEMMA StartGroupKeeps == HookInv /\ StartGroup => HookInv'
<1> SUFFICES ASSUME HookInv, StartGroup PROVE HookInv'
  OBVIOUS
<1>1. /\ UNCHANGED <<scene, scanned, picked, untracked, exists, dirty, fresh, hashes, phase,
                     files, unstaged, skipped, ran, staged, result>>
      /\ phase = "running" /\ group' = group + 1 /\ group + 1 \in DOMAIN StepGroups
  BY DEF StartGroup, goneBy, treeVars
<1>2. SceneOK /\ SceneOK' /\ TypeOK
  BY <1>1, SceneStays DEF HookInv
<1>3. group \in Nat /\ group' # 0 /\ Running' = StepGroups[group + 1] /\ Running' \subseteq Steps
  BY <1>1, <1>2, RunningIsOfHook, SceneStays DEF Running
<1>4. NoJob \in JobType
  BY DEF NoJob, JobType
<1>5. job' = [s \in Running' |-> NoJob]
  BY <1>1, <1>3 DEF StartGroup
<1>6. contention' = FilesInContention(StepGroups[group'], files)
  BY DEF StartGroup
<1>7. contention' \subseteq files
  BY <1>6 DEF FilesInContention
<1>8. TypeOK'
  BY <1>1, <1>2, <1>3, <1>4, <1>5, <1>7, SceneStays DEF TypeOK
<1>9. FilesInv'
  BY <1>1, <1>3, SceneStays DEF HookInv, FilesInv
<1>10. \A s \in Steps : Untouched(s)' = Untouched(s)
  BY <1>1 DEF Untouched
<1>11. OrderInv'
  <2>1. \A s : Later(s)' => Later(s)
    BY <1>1, <1>2, <1>3, RunningIsOfHook, SceneStays DEF Later
  <2>2. contention' = FilesInContention(StepGroups[group], files)'
    <3>1. \A g : FilesInContention(g, files)' = FilesInContention(g, files)
      BY <1>1, GateStays
    <3>2. QED
      BY <1>1, <1>6, <3>1, SceneStays
  <2>3. \A s \in Steps : Later(s)' => Untouched(s)'
    BY <1>1, <1>10, <2>1 DEF HookInv, OrderInv
  <2>4. QED
    BY <1>1, <2>2, <2>3, SceneStays DEF OrderInv
<1>12. SafeInv'
  BY <1>1, SceneStays, GateStays, GateKeeps DEF HookInv, SafeInv
<1>13. JobsInv'
  <2>1. SUFFICES ASSUME NEW s \in Running' PROVE (BuiltOK(s) /\ PlaceOK(s) /\ NamedOK(s) /\ ToldOK(s))'
    BY DEF JobsInv
  <2>2. job'[s].at = "waiting"
    BY <1>5 DEF NoJob
  <2>3. Later(s)
    <3>1. \A k \in DOMAIN StepGroups : s \in StepGroups[k] => k = group + 1
      BY <1>1, <1>2, <1>3, StepsAreGrouped
    <3>2. QED
      BY <1>3, <3>1 DEF Later
  <2>4. Untouched(s)'
    BY <1>1, <1>3, <1>10, <2>3 DEF HookInv, OrderInv
  <2>5. QED
    BY <2>2, <2>4 DEF BuiltOK, PlaceOK, NamedOK, ToldOK, Untouched
<1>14. EarlyInv'
  BY <1>1 DEF EarlyInv
<1>15. QED
  BY <1>1, <1>2, <1>8, <1>9, <1>11, <1>12, <1>13, <1>14, SceneStays DEF HookInv

(* Finish.                                                                 *)
LEMMA FinishKeeps == HookInv /\ Finish => HookInv'
<1> SUFFICES ASSUME HookInv, Finish PROVE HookInv'
  OBVIOUS
<1>1. /\ UNCHANGED <<scene, scanned, picked, untracked, exists, dirty, fresh, hashes,
                     files, unstaged, group, contention, job, skipped, staged>>
      /\ phase = "running" /\ phase' = "ended" /\ result' \in {result, "failed"}
  BY DEF Finish, goneBy, treeVars
<1>2. SceneOK /\ SceneOK' /\ TypeOK /\ Running' = Running
  BY <1>1, SceneStays DEF HookInv, Running
<1>3. "hook" \notin Steps /\ Running \subseteq Steps /\ DOMAIN job = Running /\ group \in Nat
  BY <1>2, RunningIsOfHook DEF SceneOK
<1>4. \A c \in ran' : c \in ran \/ c = <<"hook", "report">>
  BY DEF Finish
<1>5. \A s \in Running : job[s].at = "done"
  BY <1>3 DEF Finish, GroupDone
<1>6. TypeOK'
  <2>1. ran' \subseteq (Steps \cup {"hook"}) \X Fields
    BY <1>2, <1>4 DEF TypeOK, Fields
  <2>2. QED
    BY <1>1, <1>2, <2>1, SceneStays DEF TypeOK
<1>7. FilesInv'
  BY <1>1, SceneStays DEF HookInv, FilesInv
<1>8. OrderInv'
  <2>1. \A g : FilesInContention(g, files)' = FilesInContention(g, files)
    BY <1>1, GateStays
  <2>2. QED
    BY <1>1, <2>1, SceneStays DEF HookInv, OrderInv
<1>9. SafeInv'
  <2>1. SUFFICES ASSUME opts.safe, ~ShouldStage, NEW c \in ran' PROVE Trusted(c)
    BY <1>1, SceneStays, GateStays DEF SafeInv
  <2>2. Gate
    BY <1>1, <2>1 DEF HookInv, SafeInv
  <2>3. CASE c \in ran
    BY <2>1, <2>3 DEF HookInv, SafeInv
  <2>4. CASE c = <<"hook", "report">>
    BY <2>2, <2>4 DEF Gate, Trusted
  <2>5. QED
    BY <1>4, <2>3, <2>4
<1>10. JobsInv'
  <2>1. SUFFICES ASSUME NEW s \in Running
                 PROVE  (BuiltOK(s) /\ PlaceOK(s) /\ NamedOK(s) /\ ToldOK(s))'
    BY <1>2 DEF JobsInv
  <2>2. job'[s] = job[s] /\ job[s].at = "done" /\ s # "hook"
    BY <1>1, <1>3, <1>5
  <2>3. BuiltOK(s)' /\ PlaceOK(s)'
    BY <2>2 DEF BuiltOK, PlaceOK
  <2>4. NamedOK(s)'
    <3>1. /\ Excused(s)' = Excused(s) /\ \A f : UsersOwn(s, f)' = UsersOwn(s, f)
      BY <1>1, StepStays DEF Excused, UsersOwn, Narrows, Has
    <3>2. QED
      BY <1>1, <2>2, <3>1 DEF HookInv, JobsInv, NamedOK
  <2>5. ToldOK(s)'
    <3>1. ~Stopped' => ~Stopped
      BY <1>1, SceneStays DEF Stopped
    <3>2. NeverHasJob(s)' = NeverHasJob(s)
      BY <1>1, StepStays DEF NeverHasJob
    <3>3. \A c \in ran' : c[1] = s => c \in ran
      BY <1>4, <2>2
    <3>4. Analysis(s, picked)' = Analysis(s, picked) /\ HasJob(s, picked)' = HasJob(s, picked)
          /\ JobFiles(s, picked)' = JobFiles(s, picked) /\ Step(s)' = Step(s) /\ repo' = repo
      BY <1>1, StepStays, SceneStays
    <3>5. ToldOK(s)
      BY DEF HookInv, JobsInv
    <3>6. AsTold(s) => AsTold(s)'
      BY <1>1, <3>3, <3>4 DEF AsTold
    <3>7. QED
      BY <1>1, <2>2, <3>1, <3>2, <3>5, <3>6 DEF ToldOK
  <2>6. QED
    BY <2>3, <2>4, <2>5
<1>11. EarlyInv'
  <2>1. SUFFICES ASSUME group = 0, NEW s \in Steps PROVE skipped[s] = ""
    BY <1>1, SceneStays DEF EarlyInv
  <2>2. Later(s)
    BY <1>2, <2>1, RunningIsOfHook DEF Later
  <2>3. QED
    BY <1>1, <2>2 DEF HookInv, OrderInv, Untouched
<1>12. QED
  BY <1>1, <1>2, <1>6, <1>7, <1>8, <1>9, <1>10, <1>11, SceneStays DEF HookInv

(* What an action of a step leaves of the others.                          *)
StepFrame(s) ==
  /\ UNCHANGED <<scene, scanned, picked, untracked, phase, unstaged, group, contention>>
  /\ phase = "running" /\ exists \subseteq exists' /\ files \subseteq files'
  /\ ~ShouldStage => UNCHANGED <<files, staged>>
  /\ \A t \in Running \ {s} : job'[t] = job[t]
  /\ \A t \in Steps \ {s} : skipped'[t] = skipped[t]
  /\ ran \subseteq ran' /\ staged \subseteq staged'
  /\ \A c \in ran' : c \in ran \/ c[1] = s
  /\ \A c \in staged' : c \in staged \/ c[1] = s
  /\ result' \in {result, "failed"}

(* What is known of a step.                                                *)
JobOK(s) == BuiltOK(s) /\ PlaceOK(s) /\ NamedOK(s) /\ ToldOK(s)

(* Steps that another one does not concern.                                *)
LEMMA FrameKeepsJobs ==
  ASSUME HookInv, NEW s \in Running, StepFrame(s), NEW t \in Running \ {s}
  PROVE  JobOK(t)'
<1>1. /\ UNCHANGED <<scene, picked, unstaged, contention>> /\ files \subseteq files'
      /\ ~ShouldStage => UNCHANGED <<files, staged>>
      /\ job'[t] = job[t]
      /\ \A c \in ran' : c \in ran \/ c[1] = s
      /\ \A c \in staged' : c \in staged \/ c[1] = s
      /\ result' \in {result, "failed"}
  BY DEF StepFrame
<1>2. t # s /\ t \in Steps /\ skipped'[t] = skipped[t]
  BY RunningIsOfHook DEF HookInv, StepFrame
<1>3. files' = picked' => files' = files /\ files = picked
  BY <1>1 DEF HookInv, FilesInv
<1>4. JobOK(t)
  BY DEF HookInv, JobsInv, JobOK
<1>5. \A c \in ran' : c[1] = t => c \in ran
  BY <1>1, <1>2
<1>6. \A c \in staged' : c[1] = t => c \in staged
  BY <1>1, <1>2
<1>7. /\ Step(t)' = Step(t) /\ RunCmd(t)' = RunCmd(t) /\ FirstCmd(t)' = FirstCmd(t)
      /\ CheckIsFix(t)' = CheckIsFix(t) /\ AppliesDiff(t)' = AppliesDiff(t)
      /\ Own(t)' = Own(t) /\ ProfileSkips(t)' = ProfileSkips(t)
      /\ Fixing' = Fixing /\ ShouldStage' = ShouldStage /\ repo' = repo
  BY <1>1, SceneStays, StepStays
<1>8. \A fs : /\ HasJob(t, fs)' = HasJob(t, fs) /\ JobFiles(t, fs)' = JobFiles(t, fs)
              /\ SkipReason(t, fs)' = SkipReason(t, fs) /\ JobSkip(t, fs)' = JobSkip(t, fs)
              /\ Analysis(t, fs)' = Analysis(t, fs)
              /\ \A c : BuiltFirst(t, fs, c)' = BuiltFirst(t, fs, c)
  BY <1>1, StepStays
<1>9. BuiltOK(t)'
  <2>1. PlannedIn(t) /\ files' = picked' => PlannedIn(t)'
    BY <1>1, <1>7, <1>8 DEF PlannedIn
  <2>2. ~ShouldStage => files' = files /\ contention' = contention
    BY <1>1
  <2>3. BuiltOK(t)
    BY <1>4 DEF JobOK
  <2>4. QED
    BY <1>1, <1>2, <1>3, <1>7, <1>8, <2>1, <2>2, <2>3 DEF BuiltOK
<1>10. PlaceOK(t)'
  <2>1. Untouched(t) => Untouched(t)'
    BY <1>2, <1>5, <1>6 DEF Untouched
  <2>2. QED
    BY <1>1, <1>3, <1>4, <1>7, <1>8, <2>1 DEF JobOK, PlaceOK
<1>11. NamedOK(t)'
  <2>1. /\ Excused(t)' = Excused(t) /\ \A f : UsersOwn(t, f)' = UsersOwn(t, f)
    BY <1>1, <1>7 DEF Excused, UsersOwn, Narrows, Has
  <2>2. QED
    BY <1>1, <1>4, <1>6, <1>7, <2>1 DEF JobOK, NamedOK
<1>12. ToldOK(t)'
  <2>1. ~Stopped' => ~Stopped
    BY <1>1, SceneStays DEF Stopped
  <2>2. NeverHasJob(t)' = NeverHasJob(t)
    <3>1. SkipReason(t, picked)' = SkipReason(t, picked) /\ HasJob(t, picked)' = HasJob(t, picked)
      BY <1>1, <1>8
    <3>2. QED
      BY <3>1 DEF NeverHasJob
  <2>3. ToldOK(t)
    BY <1>4 DEF JobOK
  <2>4. Analysis(t, picked)' = Analysis(t, picked) /\ HasJob(t, picked)' = HasJob(t, picked)
        /\ JobFiles(t, picked)' = JobFiles(t, picked)
    BY <1>1, <1>8
  <2>5. AsTold(t) => AsTold(t)'
    BY <1>2, <1>5, <1>7, <2>4 DEF AsTold
  <2>6. QED
    BY <1>1, <1>3, <2>1, <2>2, <2>3, <2>5 DEF ToldOK
<1>13. QED
  BY <1>9, <1>10, <1>11, <1>12 DEF JobOK

(* With types, the facts of the step itself and the commands it ran, that  *)
(* is the whole invariant.                                                 *)
LEMMA FrameKeeps ==
  ASSUME HookInv, NEW s \in Running, StepFrame(s), TypeOK', JobOK(s)',
         opts.safe /\ ~ShouldStage => \A c \in ran' \ ran : Trusted(c)
  PROVE  HookInv'
<1>1. /\ UNCHANGED <<scene, picked, untracked, phase, unstaged, group, contention>>
      /\ phase = "running" /\ exists \subseteq exists' /\ files \subseteq files'
      /\ ~ShouldStage => UNCHANGED <<files, staged>>
  BY DEF StepFrame
<1>2. SceneOK /\ SceneOK' /\ TypeOK /\ Running' = Running /\ Running \subseteq Steps
  BY <1>1, SceneStays, RunningIsOfHook DEF HookInv, Running
<1>3. group # 0 /\ s \in StepGroups[group] /\ ~Later(s) /\ group \in Nat /\ group \in DOMAIN StepGroups
  BY <1>2, RunningIsOfHook DEF Running, Later, TypeOK
<1>4. FilesInv'
  BY <1>1, <1>3, SceneStays DEF HookInv, FilesInv
<1>5. OrderInv'
  <2>1. ASSUME NEW t \in Steps, Later(t)' PROVE Untouched(t)'
    <3>1. Later(t) /\ t # s
      BY <1>1, <1>3, <2>1, SceneStays DEF Later
    <3>2. Untouched(t)
      BY <1>1, <3>1 DEF HookInv, OrderInv
    <3>3. /\ skipped'[t] = skipped[t]
          /\ \A c \in ran' : c \in ran \/ c[1] = s
          /\ \A c \in staged' : c \in staged \/ c[1] = s
      BY <3>1 DEF StepFrame
    <3>4. \A c \in ran' : c[1] # t
      BY <3>1, <3>2, <3>3 DEF Untouched
    <3>5. \A c \in staged' : c[1] # t
      BY <3>1, <3>2, <3>3 DEF Untouched
    <3>6. QED
      BY <3>2, <3>3, <3>4, <3>5 DEF Untouched
  <2>2. \A g : FilesInContention(g, files)' = FilesInContention(g, files) \/ files' # files
    BY <1>1, GateStays
  <2>3. QED
    BY <1>1, <2>1, <2>2, SceneStays DEF HookInv, OrderInv
<1>6. SafeInv'
  BY <1>1, SceneStays, GateStays, GateKeeps DEF HookInv, SafeInv
<1>7. JobsInv'
  BY <1>2, FrameKeepsJobs DEF JobsInv, JobOK
<1>8. EarlyInv'
  BY <1>1 DEF EarlyInv
<1>9. \A c \in staged' : ShouldStage'
  BY <1>1, SceneStays DEF HookInv
<1>10. QED
  BY <1>2, <1>4, <1>5, <1>6, <1>7, <1>8, <1>9 DEF HookInv

(* The job of a step that acts.                                            *)
LEMMA ActorIsRunning ==
  ASSUME HookInv, NEW s \in DOMAIN job
  PROVE  /\ s \in Running /\ s \in Steps /\ s # "hook" /\ Running \subseteq Steps
         /\ DOMAIN job = Running /\ job \in [Running -> JobType] /\ job[s] \in JobType
         /\ BuiltOK(s) /\ PlaceOK(s) /\ NamedOK(s) /\ ToldOK(s)
<1>1. SceneOK /\ TypeOK /\ JobsInv
  BY DEF HookInv
<1>2. Running \subseteq Steps /\ DOMAIN job = Running /\ "hook" \notin Steps
  BY <1>1, RunningIsOfHook DEF SceneOK
<1>3. job \in [Running -> JobType]
  BY <1>1 DEF TypeOK
<1>4. QED
  BY <1>1, <1>2, <1>3 DEF JobsInv

(* A step in the middle of its job, whose plan still holds, was included.  *)
LEMMA MidJobIsIncluded ==
  ASSUME NEW s, PlannedIn(s), Step(s).profile, Step(s).jobCond \notin {"error", "false"}
  PROVE  Analysis(s, picked) = "included" /\ Step(s).cond # "error"
BY DEF PlannedIn, Analysis

(* Past its conditions, a step keeps what it knows however it goes on.     *)
LEMMA WorkKeeps ==
  ASSUME HookInv, NEW s \in DOMAIN job, StepFrame(s),
         job[s].at \notin {"waiting", "ready", "done"}, job'[s].at \notin {"waiting", "ready"},
         job'[s].first = job[s].first, skipped'[s] = skipped[s]
  PROVE  /\ BuiltOK(s)' /\ ToldOK(s)'
         /\ job'[s].at \notin {"checking", "patching", "rechecking"} => PlaceOK(s)'
         /\ \A c \in staged : c[1] # s
         /\ staged' = staged /\ job'[s].at = "done" => NamedOK(s)'
<1>1. s \in Running /\ BuiltOK(s) /\ PlaceOK(s) /\ NamedOK(s)
  BY ActorIsRunning
<1>2. /\ UNCHANGED <<scene, picked, unstaged, contention>> /\ files \subseteq files'
      /\ ~ShouldStage => UNCHANGED files
  BY DEF StepFrame
<1>3. files' = picked' => files' = files /\ files = picked
  BY <1>2 DEF HookInv, FilesInv
<1>4. /\ Step(s)' = Step(s) /\ RunCmd(s)' = RunCmd(s) /\ ShouldStage' = ShouldStage
      /\ ProfileSkips(s)' = ProfileSkips(s) /\ repo' = repo
  BY <1>2, SceneStays, StepStays
<1>5. \A fs : /\ HasJob(s, fs)' = HasJob(s, fs) /\ JobFiles(s, fs)' = JobFiles(s, fs)
              /\ SkipReason(s, fs)' = SkipReason(s, fs) /\ JobSkip(s, fs)' = JobSkip(s, fs)
              /\ Analysis(s, fs)' = Analysis(s, fs)
              /\ \A c : BuiltFirst(s, fs, c)' = BuiltFirst(s, fs, c)
  BY <1>2, StepStays
<1>6. /\ RunCmd(s) # "none" /\ skipped[s] = ""
      /\ ~ShouldStage => /\ HasJob(s, files) /\ JobSkip(s, files) = ""
                         /\ job[s].first => BuiltFirst(s, files, contention)
      /\ files = picked => PlannedIn(s)
  BY <1>1 DEF BuiltOK
<1>7. Step(s).profile /\ Step(s).jobCond \notin {"error", "false"}
  BY <1>1 DEF PlaceOK
<1>8. BuiltOK(s)'
  <2>1. PlannedIn(s) /\ files' = picked' => PlannedIn(s)'
    BY <1>2, <1>4, <1>5 DEF PlannedIn
  <2>2. QED
    BY <1>2, <1>3, <1>4, <1>5, <1>6, <2>1 DEF BuiltOK
<1>9. ToldOK(s)'
  <2>1. SUFFICES ASSUME files' = picked' PROVE AsTold(s)'
    BY DEF ToldOK
  <2>2. Analysis(s, picked) = "included" /\ Step(s).cond # "error"
    BY <1>3, <1>6, <1>7, <2>1, MidJobIsIncluded
  <2>3. Analysis(s, picked)' = Analysis(s, picked)
    BY <1>2, <1>5
  <2>4. QED
    BY <1>4, <1>6, <1>7, <2>2, <2>3 DEF AsTold
<1>10. job'[s].at \notin {"checking", "patching", "rechecking"} => PlaceOK(s)'
  BY <1>4, <1>7 DEF PlaceOK
<1>11. \A c \in staged : c[1] # s
  BY <1>1 DEF NamedOK
<1>12. QED
  BY <1>8, <1>9, <1>10, <1>11 DEF NamedOK

(* The commands a job may run were vouched for.                            *)
LEMMA RunsAreTrusted ==
  ASSUME HookInv, phase = "running", NEW s \in DOMAIN job, job[s].at \notin {"waiting", "done"},
         opts.safe, ~ShouldStage,
         NEW c, \/ c = RunCmd(s)
                \/ job[s].first /\ c = FirstCmd(s)
                \/ job[s].first /\ Fixing /\ Step(s).afterDiff /\ Has(s, "check") /\ c = "check"
  PROVE  Trusted(<<s, c>>)
<1>1. s \in Running /\ s # "hook" /\ BuiltOK(s)
  BY ActorIsRunning
<1>2. Gate
  BY DEF HookInv, SafeInv
<1>3. group # 0 /\ s \in StepGroups[group] /\ group \in DOMAIN StepGroups
      /\ contention = FilesInContention(StepGroups[group], files)
  BY <1>1 DEF HookInv, Running, TypeOK, OrderInv
<1>4. /\ HasJob(s, files) /\ JobSkip(s, files) = "" /\ RunCmd(s) # "none"
      /\ job[s].first => BuiltFirst(s, files, contention)
  BY <1>1 DEF BuiltOK
<1>5. BuiltFirst(s, files, contention) => FirstCmd(s) # "none"
  BY DEF BuiltFirst, FirstCmd, Narrows, AppliesDiff
<1>6. c \in CommandsFor(s, BuiltFirst(s, files, contention))
  BY <1>4, <1>5 DEF CommandsFor
<1>7. Vouched(Step(s)[c])
  BY <1>2, <1>3, <1>4, <1>6 DEF Gate
<1>8. QED
  BY <1>1, <1>7 DEF Trusted

(* The command of a job is one of its step's.                              *)
LEMMA CommandsAreFields ==
  ASSUME NEW s PROVE RunCmd(s) \in Fields /\ FirstCmd(s) \in Fields /\ CheckCmd(s) \in Fields
BY DEF RunCmd, FirstCmd, CheckCmd, Fields

(* What a command wrote is files.                                          *)
LEMMA WrittenTypes ==
  ASSUME TypeOK, NEW w \in SUBSET Files, Written(w)
  PROVE  /\ exists' \in SUBSET Files /\ dirty' \in SUBSET Files /\ fresh' \in SUBSET Files
         /\ hashes' \in [DOMAIN hashes' -> BOOLEAN] /\ exists \subseteq exists'
BY DEF TypeOK, Written

(* The types after a step acted.                                           *)
LEMMA ActKeepsTypes ==
  ASSUME HookInv, NEW s \in DOMAIN job, StepFrame(s), job' \in [Running -> JobType],
         exists' \in SUBSET Files, dirty' \in SUBSET Files, fresh' \in SUBSET Files,
         hashes' \in [DOMAIN hashes' -> BOOLEAN], files' \in SUBSET Files,
         skipped' \in [Steps -> Reasons], staged' \subseteq Steps \X Files,
         \A c \in ran' : c \in ran \/ c \in {s} \X Fields
  PROVE  TypeOK'
<1>1. UNCHANGED <<scene, scanned, picked, untracked, phase, unstaged, group, contention>>
      /\ result' \in {result, "failed"}
  BY DEF StepFrame
<1>2. Steps' = Steps /\ StepGroups' = StepGroups /\ Running' = Running /\ s \in Steps
  BY <1>1, SceneStays, ActorIsRunning DEF Running
<1>3. ran' \subseteq (Steps \cup {"hook"}) \X Fields
  BY <1>2 DEF HookInv, TypeOK
<1>4. QED
  BY <1>1, <1>2, <1>3 DEF HookInv, TypeOK

(* A step that does not write, run or stage.                               *)
LEMMA QuietFrame ==
  ASSUME HookInv, NEW s \in DOMAIN job, phase = "running",
         UNCHANGED <<aside, treeVars, files, ran, staged>>,
         job' \in [Running -> JobType], \A t \in Running \ {s} : job'[t] = job[t],
         skipped' \in [Steps -> Reasons], \A t \in Steps \ {s} : skipped'[t] = skipped[t],
         result' \in {result, "failed"}
  PROVE  StepFrame(s) /\ TypeOK' /\ (JobOK(s)' => HookInv')
<1>1. StepFrame(s)
  BY DEF StepFrame, aside, goneBy, treeVars
<1>2. TypeOK'
  BY <1>1, ActKeepsTypes DEF HookInv, TypeOK, treeVars
<1>3. QED
  BY <1>1, <1>2, FrameKeeps, ActorIsRunning

(* Build: a step that fails.                                               *)
LEMMA BuildFails ==
  ASSUME HookInv, NEW s \in DOMAIN job, At(s, "waiting"), Step(s).cond = "error",
         Fail(s), UNCHANGED skipped, UNCHANGED <<aside, treeVars, files, ran, staged>>
  PROVE  HookInv'
<1>1. s \in Running /\ s \in Steps /\ job \in [Running -> JobType] /\ PlaceOK(s) /\ NamedOK(s)
  BY ActorIsRunning
<1>2. /\ job' \in [Running -> JobType] /\ job'[s].at = "done"
      /\ \A t \in Running \ {s} : job'[t] = job[t]
  BY <1>1 DEF Fail, JobType
<1>3. StepFrame(s) /\ (JobOK(s)' => HookInv')
  BY <1>2, QuietFrame DEF HookInv, TypeOK, At, Fail
<1>4. UNCHANGED scene /\ UNCHANGED <<staged, skipped, ran>>
  BY <1>3 DEF StepFrame
<1>5. Untouched(s)
  BY <1>1 DEF PlaceOK, At
<1>6. ToldOK(s)'
  <2>1. Step(s)' = Step(s)
    BY <1>4, StepStays
  <2>2. QED
    BY <1>4, <1>5, <2>1 DEF ToldOK, AsTold, Untouched
<1>7. BuiltOK(s)' /\ PlaceOK(s)' /\ NamedOK(s)'
  BY <1>2, <1>4, <1>5 DEF BuiltOK, PlaceOK, NamedOK, Untouched
<1>8. QED
  BY <1>3, <1>6, <1>7 DEF JobOK

(* Build: a step that is skipped, for the reason the plan gives.           *)
LEMMA BuildSkips ==
  ASSUME HookInv, NEW s \in DOMAIN job, At(s, "waiting"), Step(s).cond # "error",
         NEW why, why # "", Skip(s, why), UNCHANGED result,
         why = IF Step(s).cond = "false" THEN "condition"
               ELSE IF SkipReason(s, files) # "" THEN SkipReason(s, files)
               ELSE IF ~ HasJob(s, files) THEN "no files"
               ELSE JobSkip(s, files),
         UNCHANGED <<aside, treeVars, files, ran, staged>>
  PROVE  HookInv'
<1>1. s \in Running /\ s \in Steps /\ job \in [Running -> JobType] /\ PlaceOK(s) /\ NamedOK(s)
  BY ActorIsRunning
<1>2. why \in Reasons
  BY ReasonsAreKnown DEF Reasons
<1>3. /\ job' \in [Running -> JobType] /\ job'[s].at = "done"
      /\ \A t \in Running \ {s} : job'[t] = job[t]
  BY <1>1 DEF Skip, JobType
<1>4. skipped' \in [Steps -> Reasons] /\ skipped'[s] = why
      /\ \A t \in Steps \ {s} : skipped'[t] = skipped[t]
  BY <1>1, <1>2 DEF Skip, HookInv, TypeOK
<1>5. StepFrame(s) /\ (JobOK(s)' => HookInv')
  BY <1>3, <1>4, QuietFrame DEF At
<1>6. UNCHANGED <<scene, picked>> /\ UNCHANGED <<staged, ran, files>>
  BY <1>5 DEF StepFrame
<1>7. Untouched(s)
  BY <1>1 DEF PlaceOK, At
<1>8. ToldOK(s)'
  <2>1. SUFFICES ASSUME files = picked, ~NeverHasJob(s) PROVE AsTold(s)'
    <3>1. SkipReason(s, picked)' = SkipReason(s, picked) /\ HasJob(s, picked)' = HasJob(s, picked)
      BY <1>6, StepStays
    <3>2. NeverHasJob(s)' = NeverHasJob(s)
      BY <3>1 DEF NeverHasJob
    <3>3. QED
      BY <1>6, <3>2 DEF ToldOK
  <2>2. why # "included"
    BY <1>2 DEF Reasons
  <2>3. Analysis(s, picked) = why
    BY <2>1 DEF Analysis, NeverHasJob, JobSkip
  <2>4. Analysis(s, picked)' = Analysis(s, picked) /\ Step(s)' = Step(s)
    BY <1>6, StepStays
  <2>5. QED
    BY <1>4, <1>6, <1>7, <2>2, <2>3, <2>4 DEF AsTold, Untouched
<1>9. BuiltOK(s)' /\ PlaceOK(s)' /\ NamedOK(s)'
  BY <1>3, <1>6, <1>7 DEF BuiltOK, PlaceOK, NamedOK, Untouched
<1>10. QED
  BY <1>5, <1>8, <1>9 DEF JobOK

(* Build: a step that gets its job.                                        *)
LEMMA BuildMakesJob ==
  ASSUME HookInv, NEW s \in DOMAIN job, At(s, "waiting"),
         Step(s).cond \notin {"error", "false"}, SkipReason(s, files) = "",
         HasJob(s, files), JobSkip(s, files) = "",
         job' = [job EXCEPT ![s] =
                   [NoJob EXCEPT !.at = "ready", !.files = JobFiles(s, files),
                                 !.first = ChecksFirst(s, files, contention)]],
         UNCHANGED <<skipped, result>>, UNCHANGED <<aside, treeVars, files, ran, staged>>
  PROVE  HookInv'
<1>1. s \in Running /\ s \in Steps /\ job \in [Running -> JobType] /\ PlaceOK(s) /\ NamedOK(s)
  BY ActorIsRunning
<1>2. JobFiles(s, files) \in SUBSET Files /\ ChecksFirst(s, files, contention) \in BOOLEAN
  BY DEF HookInv, TypeOK, JobFiles, Matched, ChecksFirst
<1>3. /\ job' \in [Running -> JobType] /\ \A t \in Running \ {s} : job'[t] = job[t]
      /\ job'[s].at = "ready" /\ job'[s].files = JobFiles(s, files)
      /\ job'[s].first = ChecksFirst(s, files, contention)
  BY <1>1, <1>2 DEF NoJob, JobType
<1>4. StepFrame(s) /\ (JobOK(s)' => HookInv')
  BY <1>3, QuietFrame DEF At, HookInv, TypeOK
<1>5. UNCHANGED <<scene, picked, unstaged, contention>> /\ UNCHANGED <<staged, ran, files, skipped>>
  BY <1>4 DEF StepFrame
<1>6. Untouched(s)
  BY <1>1 DEF PlaceOK, At
<1>7. /\ Step(s)' = Step(s) /\ RunCmd(s)' = RunCmd(s) /\ ProfileSkips(s)' = ProfileSkips(s)
      /\ Own(s)' = Own(s) /\ Fixing' = Fixing /\ ShouldStage' = ShouldStage
  BY <1>5, SceneStays, StepStays
<1>8. /\ HasJob(s, files)' = HasJob(s, files) /\ HasJob(s, picked)' = HasJob(s, picked)
      /\ SkipReason(s, picked)' = SkipReason(s, picked) /\ JobSkip(s, files)' = JobSkip(s, files)
      /\ JobFiles(s, picked)' = JobFiles(s, picked)
      /\ BuiltFirst(s, files, contention)' = BuiltFirst(s, files, contention)
  BY <1>5, StepStays
<1>9. RunCmd(s) # "none" /\ ~ProfileSkips(s)
  BY DEF SkipReason, JobSkip
<1>10. BuiltOK(s)'
  <2>1. ~ShouldStage => (job'[s].first => BuiltFirst(s, files, contention))
    BY <1>3 DEF ChecksFirst
  <2>2. files = picked => PlannedIn(s)'
    BY <1>7, <1>8, <1>9 DEF PlannedIn
  <2>3. QED
    BY <1>5, <1>6, <1>7, <1>8, <1>9, <2>1, <2>2 DEF BuiltOK, Untouched
<1>11. PlaceOK(s)'
  BY <1>3, <1>5, <1>6, <1>8 DEF PlaceOK, Untouched
<1>12. NamedOK(s)'
  <2>1. Own(s) /\ Fixing => job'[s].first \/ job'[s].files \cap unstaged = {}
    BY <1>3 DEF Own, ChecksFirst
  <2>2. QED
    BY <1>3, <1>5, <1>6, <1>7, <2>1 DEF NamedOK, Untouched
<1>13. QED
  BY <1>3, <1>4, <1>10, <1>11, <1>12 DEF JobOK, ToldOK

(* Build.                                                                  *)
LEMMA BuildKeeps ==
  ASSUME HookInv, NEW s \in DOMAIN job, Build(s) PROVE HookInv'
<1> DEFINE why == IF Step(s).cond = "false" THEN "condition"
                  ELSE IF SkipReason(s, files) # "" THEN SkipReason(s, files)
                  ELSE IF ~ HasJob(s, files) THEN "no files"
                  ELSE JobSkip(s, files)
<1>1. At(s, "waiting") /\ UNCHANGED <<aside, treeVars, files, ran, staged>>
  BY DEF Build
<1>2. CASE Step(s).cond = "error" /\ Fail(s) /\ UNCHANGED skipped
  BY <1>1, <1>2, BuildFails
<1>3. CASE Step(s).cond # "error" /\ why # "" /\ Skip(s, why) /\ UNCHANGED result
  BY <1>1, <1>3, BuildSkips
<1>4. CASE /\ Step(s).cond # "error" /\ why = ""
           /\ job' = [job EXCEPT ![s] =
                        [NoJob EXCEPT !.at = "ready", !.files = JobFiles(s, files),
                                      !.first = ChecksFirst(s, files, contention)]]
           /\ UNCHANGED <<skipped, result>>
  <2>1. Step(s).cond \notin {"error", "false"} /\ SkipReason(s, files) = ""
        /\ HasJob(s, files) /\ JobSkip(s, files) = ""
    BY <1>4
  <2>2. QED
    BY <1>1, <1>4, <2>1, BuildMakesJob
<1>5. QED
  BY <1>2, <1>3, <1>4 DEF Build

(* A job changes in these ways.                                            *)
Places == {"waiting", "ready", "checking", "patching", "rechecking", "working",
           "staging", "done"}
Becomes(f, s, j)     == [f EXCEPT ![s] = j]
Moved(f, s, at)      == [f EXCEPT ![s].at = at]
Narrowed(f, s, at, fs) == [f EXCEPT ![s].at = at, ![s].files = fs]
Touching(f, s, at, fs) == [f EXCEPT ![s].at = at, ![s].touched = fs]
Silenced(f, s, at)   == [f EXCEPT ![s].at = at, ![s].heard = "silent"]

(* One step's job is replaced.                                             *)
LEMMA JobBecomes ==
  ASSUME NEW T, NEW f \in [T -> JobType], NEW s \in T, NEW j \in JobType
  PROVE  /\ Becomes(f, s, j) \in [T -> JobType] /\ Becomes(f, s, j)[s] = j
         /\ \A t \in T \ {s} : Becomes(f, s, j)[t] = f[t]
BY DEF Becomes

(* A record of a job with these fields.                                    *)
HasFields(r, at, fs, first, named, heard, touched) ==
  /\ r.at = at /\ r.files = fs /\ r.first = first
  /\ r.named = named /\ r.heard = heard /\ r.touched = touched

(* It moves on.                                                            *)
LEMMA JobMoves ==
  ASSUME NEW T, NEW f \in [T -> JobType], NEW s \in T, NEW at \in Places
  PROVE  /\ Moved(f, s, at) \in [T -> JobType]
         /\ \A t \in T \ {s} : Moved(f, s, at)[t] = f[t]
         /\ HasFields(Moved(f, s, at)[s], at, f[s].files, f[s].first, f[s].named, f[s].heard, f[s].touched)
<1> DEFINE j == [f[s] EXCEPT !.at = at]
<1>1. f[s] \in JobType
  OBVIOUS
<1>2. Moved(f, s, at) = Becomes(f, s, j)
  BY DEF Moved, Becomes
<1>3. j \in JobType /\ HasFields(j, at, f[s].files, f[s].first, f[s].named, f[s].heard, f[s].touched)
  BY <1>1 DEF JobType, Places, HasFields
<1> HIDE DEF j
<1>4. QED
  BY <1>2, <1>3, JobBecomes

(* It moves on with other files.                                           *)
LEMMA JobNarrows ==
  ASSUME NEW T, NEW f \in [T -> JobType], NEW s \in T, NEW at \in Places,
         NEW fs \in SUBSET Files
  PROVE  /\ Narrowed(f, s, at, fs) \in [T -> JobType]
         /\ \A t \in T \ {s} : Narrowed(f, s, at, fs)[t] = f[t]
         /\ HasFields(Narrowed(f, s, at, fs)[s], at, fs, f[s].first, f[s].named, f[s].heard, f[s].touched)
<1> DEFINE j == [f[s] EXCEPT !.at = at, !.files = fs]
<1>1. f[s] \in JobType
  OBVIOUS
<1>2. Narrowed(f, s, at, fs) = Becomes(f, s, j)
  BY DEF Narrowed, Becomes
<1>3. j \in JobType /\ HasFields(j, at, fs, f[s].first, f[s].named, f[s].heard, f[s].touched)
  BY <1>1 DEF JobType, Places, HasFields
<1> HIDE DEF j
<1>4. QED
  BY <1>2, <1>3, JobBecomes

(* It moves on with what it touched.                                       *)
LEMMA JobTouches ==
  ASSUME NEW T, NEW f \in [T -> JobType], NEW s \in T, NEW at \in Places,
         NEW fs \in SUBSET Files
  PROVE  /\ Touching(f, s, at, fs) \in [T -> JobType]
         /\ \A t \in T \ {s} : Touching(f, s, at, fs)[t] = f[t]
         /\ HasFields(Touching(f, s, at, fs)[s], at, f[s].files, f[s].first, f[s].named, f[s].heard, fs)
<1> DEFINE j == [f[s] EXCEPT !.at = at, !.touched = fs]
<1>1. f[s] \in JobType
  OBVIOUS
<1>2. Touching(f, s, at, fs) = Becomes(f, s, j)
  BY DEF Touching, Becomes
<1>3. j \in JobType /\ HasFields(j, at, f[s].files, f[s].first, f[s].named, f[s].heard, fs)
  BY <1>1 DEF JobType, Places, HasFields
<1> HIDE DEF j
<1>4. QED
  BY <1>2, <1>3, JobBecomes

(* It moves on without having been told.                                   *)
LEMMA JobIsSilenced ==
  ASSUME NEW T, NEW f \in [T -> JobType], NEW s \in T, NEW at \in Places
  PROVE  /\ Silenced(f, s, at) \in [T -> JobType]
         /\ \A t \in T \ {s} : Silenced(f, s, at)[t] = f[t]
         /\ HasFields(Silenced(f, s, at)[s], at, f[s].files, f[s].first, f[s].named, "silent", f[s].touched)
<1> DEFINE j == [f[s] EXCEPT !.at = at, !.heard = "silent"]
<1>1. f[s] \in JobType
  OBVIOUS
<1>2. Silenced(f, s, at) = Becomes(f, s, j)
  BY DEF Silenced, Becomes
<1>3. j \in JobType /\ HasFields(j, at, f[s].files, f[s].first, f[s].named, "silent", f[s].touched)
  BY <1>1 DEF JobType, Places, HasFields
<1> HIDE DEF j
<1>4. QED
  BY <1>2, <1>3, JobBecomes

(* Enter: the condition of the job fails, or it is skipped.                *)
LEMMA EnterLeaves ==
  ASSUME HookInv, NEW s \in DOMAIN job, At(s, "ready"),
         UNCHANGED <<aside, treeVars, files, ran, staged>>,
         NEW why, why \in Reasons, skipped'[s] = why, skipped' \in [Steps -> Reasons],
         \A t \in Steps \ {s} : skipped'[t] = skipped[t],
         job' = Moved(job, s, "done"), result' \in {result, "failed"},
         \/ Step(s).jobCond = "error" /\ why = ""
         \/ Step(s).jobCond = "false" /\ why = "condition"
         \/ Step(s).jobCond \notin {"error", "false"} /\ ~ Step(s).profile /\ why = "profile"
         \/ /\ Step(s).jobCond \notin {"error", "false"} /\ Step(s).profile
            /\ job[s].files \cap exists = {} /\ Step(s).filters
  PROVE  HookInv'
<1>1. /\ s \in Running /\ s \in Steps /\ job \in [Running -> JobType]
      /\ BuiltOK(s) /\ PlaceOK(s) /\ NamedOK(s)
  BY ActorIsRunning
<1>2. /\ job' \in [Running -> JobType] /\ job'[s].at = "done"
      /\ \A t \in Running \ {s} : job'[t] = job[t]
  <2>1. "done" \in Places /\ s \in Running /\ job \in [Running -> JobType]
    BY <1>1 DEF Places
  <2>2. /\ Moved(job, s, "done") \in [Running -> JobType]
        /\ \A t \in Running \ {s} : Moved(job, s, "done")[t] = job[t]
        /\ HasFields(Moved(job, s, "done")[s], "done", job[s].files, job[s].first,
                     job[s].named, job[s].heard, job[s].touched)
    BY <2>1, JobMoves
  <2>3. QED
    BY <2>2 DEF HasFields
<1>3. StepFrame(s) /\ (JobOK(s)' => HookInv')
  BY <1>2, QuietFrame DEF At
<1>4. UNCHANGED <<scene, picked>> /\ UNCHANGED <<staged, ran, files>>
  BY <1>3 DEF StepFrame
<1>5. Untouched(s)
  BY <1>1 DEF PlaceOK, At
<1>6. ToldOK(s)'
  <2>1. SUFFICES ASSUME files = picked PROVE AsTold(s)'
    BY <1>4 DEF ToldOK
  <2>2. PlannedIn(s) /\ job[s].files = JobFiles(s, picked)
    BY <1>1, <2>1 DEF BuiltOK, PlaceOK, At
  <2>3. /\ Step(s)' = Step(s) /\ Analysis(s, picked)' = Analysis(s, picked) /\ repo' = repo
        /\ HasJob(s, picked)' = HasJob(s, picked) /\ JobFiles(s, picked)' = JobFiles(s, picked)
    BY <1>4, StepStays, SceneStays
  <2>4. CASE Step(s).jobCond = "error" /\ why = ""
    <3>1. Analysis(s, picked) # "condition"
      BY <2>2, <2>4 DEF PlannedIn, Analysis
    <3>2. QED
      BY <2>3, <2>4, <3>1 DEF AsTold
  <2>5. CASE Step(s).jobCond = "false" /\ why = "condition"
    <3>1. Analysis(s, picked) = "condition" /\ Step(s).cond # "error"
      BY <2>2, <2>5 DEF PlannedIn, Analysis
    <3>2. QED
      BY <1>4, <1>5, <2>3, <2>5, <3>1 DEF AsTold, Untouched
  <2>6. CASE Step(s).jobCond \notin {"error", "false"} /\ ~ Step(s).profile /\ why = "profile"
    <3>1. Analysis(s, picked) = "profile" /\ Step(s).cond # "error"
      BY <2>2, <2>6 DEF PlannedIn, Analysis, ProfileSkips
    <3>2. QED
      BY <1>4, <1>5, <2>3, <2>6, <3>1 DEF AsTold, Untouched
  <2>7. CASE /\ Step(s).jobCond \notin {"error", "false"} /\ Step(s).profile
             /\ job[s].files \cap exists = {} /\ Step(s).filters
    <3>1. Analysis(s, picked) = "included" /\ Step(s).cond # "error"
      BY <2>2, <2>7, MidJobIsIncluded
    <3>2. JobFiles(s, picked) # {}
      BY <2>2, <2>7 DEF PlannedIn, HasJob, SkipReason, JobFiles
    <3>3. ~(JobFiles(s, picked) \subseteq repo.tracked \ repo.gone)
      BY <2>2, <2>7, <3>2 DEF HookInv, FilesInv
    <3>4. QED
      BY <2>3, <2>7, <3>1, <3>3 DEF AsTold
  <2>8. QED
    BY <2>4, <2>5, <2>6, <2>7
<1>7. BuiltOK(s)' /\ PlaceOK(s)' /\ NamedOK(s)'
  BY <1>2, <1>4, <1>5 DEF BuiltOK, PlaceOK, NamedOK, Untouched
<1>8. QED
  BY <1>3, <1>6, <1>7 DEF JobOK

(* Enter: the job starts with its check or its command.                    *)
LEMMA EnterStarts ==
  ASSUME HookInv, NEW s \in DOMAIN job, At(s, "ready"),
         UNCHANGED <<aside, treeVars, files, ran, staged>>, UNCHANGED <<skipped, result>>,
         Step(s).jobCond \notin {"error", "false"}, Step(s).profile,
         NEW at, at = IF job[s].first THEN "checking" ELSE "working",
         job' = Narrowed(job, s, at, job[s].files \cap exists)
  PROVE  HookInv'
<1>1. /\ s \in Running /\ s \in Steps /\ job \in [Running -> JobType]
      /\ BuiltOK(s) /\ PlaceOK(s) /\ NamedOK(s)
  BY ActorIsRunning
<1>2. /\ job' \in [Running -> JobType] /\ \A t \in Running \ {s} : job'[t] = job[t]
      /\ job'[s].at = IF job[s].first THEN "checking" ELSE "working"
      /\ job'[s].first = job[s].first /\ job'[s].files = job[s].files \cap exists
      /\ job'[s].named = job[s].named
  <2> DEFINE fs == job[s].files \cap exists
  <2>1. at \in Places /\ fs \in SUBSET Files /\ s \in Running /\ job \in [Running -> JobType]
    BY <1>1 DEF Places, JobType
  <2> HIDE DEF fs
  <2>2. /\ Narrowed(job, s, at, fs) \in [Running -> JobType]
        /\ \A t \in Running \ {s} : Narrowed(job, s, at, fs)[t] = job[t]
        /\ HasFields(Narrowed(job, s, at, fs)[s], at, fs, job[s].first, job[s].named,
                     job[s].heard, job[s].touched)
    BY <2>1, JobNarrows
  <2>3. QED
    BY <2>2 DEF HasFields, fs
<1>3. StepFrame(s) /\ (JobOK(s)' => HookInv')
  BY <1>2, QuietFrame DEF At, HookInv, TypeOK
<1>4. UNCHANGED <<scene, picked, unstaged, contention>> /\ UNCHANGED <<staged, ran, files, skipped>>
  BY <1>3 DEF StepFrame
<1>5. /\ Step(s)' = Step(s) /\ RunCmd(s)' = RunCmd(s) /\ ProfileSkips(s)' = ProfileSkips(s)
      /\ Own(s)' = Own(s) /\ Fixing' = Fixing /\ ShouldStage' = ShouldStage
  BY <1>4, SceneStays, StepStays
<1>6. /\ HasJob(s, files)' = HasJob(s, files) /\ HasJob(s, picked)' = HasJob(s, picked)
      /\ SkipReason(s, picked)' = SkipReason(s, picked) /\ JobSkip(s, files)' = JobSkip(s, files)
      /\ BuiltFirst(s, files, contention)' = BuiltFirst(s, files, contention)
  BY <1>4, StepStays
<1>7. job[s].at = "ready" /\ Untouched(s)
  BY <1>1 DEF PlaceOK, At
<1>8. BuiltOK(s)'
  <2>1. files = picked => PlannedIn(s)'
    BY <1>1, <1>5, <1>6, <1>7 DEF BuiltOK, PlannedIn
  <2>2. QED
    BY <1>1, <1>2, <1>4, <1>5, <1>6, <1>7, <2>1 DEF BuiltOK
<1>9. PlaceOK(s)'
  BY <1>2, <1>5 DEF PlaceOK
<1>10. NamedOK(s)'
  <2>1. Own(s) /\ Fixing => job[s].first \/ job[s].files \cap unstaged = {}
    BY <1>1, <1>7 DEF NamedOK
  <2>2. ~job[s].first /\ Own(s) /\ Fixing => job'[s].files \cap unstaged \subseteq job'[s].named
    BY <1>2, <2>1
  <2>3. \A c \in staged : c[1] # s
    BY <1>7 DEF Untouched
  <2>4. QED
    BY <1>2, <1>4, <1>5, <2>2, <2>3 DEF NamedOK
<1>11. QED
  BY <1>2, <1>3, <1>8, <1>9, <1>10 DEF JobOK, ToldOK

(* Enter.                                                                  *)
LEMMA EnterKeeps ==
  ASSUME HookInv, NEW s \in DOMAIN job, Enter(s) PROVE HookInv'
<1> DEFINE there == job[s].files \cap exists
           why   == IF Step(s).jobCond = "false" THEN "condition"
                    ELSE IF ~ Step(s).profile THEN "profile"
                    ELSE IF there = {} /\ Step(s).filters THEN "no files" ELSE ""
<1>1. At(s, "ready") /\ UNCHANGED <<aside, treeVars, files, ran, staged>>
  BY DEF Enter
<1>2. s \in Steps /\ skipped \in [Steps -> Reasons] /\ why \in Reasons /\ "" \in Reasons
  BY ActorIsRunning DEF HookInv, TypeOK, Reasons
<1>3. CASE Step(s).jobCond = "error" /\ Fail(s) /\ UNCHANGED skipped
  <2>1. skipped[s] = ""
    BY <1>1, ActorIsRunning DEF BuiltOK, At
  <2>2. job' = Moved(job, s, "done")
    BY <1>3 DEF Fail, Moved
  <2>3. QED
    BY <1>1, <1>2, <1>3, <2>1, <2>2, EnterLeaves DEF Fail
<1>4. CASE Step(s).jobCond # "error" /\ why # "" /\ Skip(s, why) /\ UNCHANGED result
  <2>1. /\ skipped' \in [Steps -> Reasons] /\ skipped'[s] = why
        /\ \A t \in Steps \ {s} : skipped'[t] = skipped[t]
        /\ job' = Moved(job, s, "done")
    BY <1>2, <1>4 DEF Skip, Moved
  <2>2. \/ Step(s).jobCond = "false" /\ why = "condition"
        \/ Step(s).jobCond \notin {"error", "false"} /\ ~ Step(s).profile /\ why = "profile"
        \/ /\ Step(s).jobCond \notin {"error", "false"} /\ Step(s).profile
           /\ job[s].files \cap exists = {} /\ Step(s).filters
    BY <1>4
  <2> HIDE DEF why
  <2>3. QED
    BY <1>1, <1>2, <1>4, <2>1, <2>2, EnterLeaves
<1>5. CASE /\ Step(s).jobCond # "error" /\ why = ""
           /\ job' = [job EXCEPT ![s].at = IF job[s].first THEN "checking" ELSE "working",
                                 ![s].files = there]
           /\ UNCHANGED <<skipped, result>>
  <2>1. Step(s).jobCond \notin {"error", "false"} /\ Step(s).profile
        /\ job' = Narrowed(job, s, IF job[s].first THEN "checking" ELSE "working", there)
    BY <1>5 DEF Narrowed
  <2>2. QED
    BY <1>1, <1>5, <2>1, EnterStarts
<1>6. QED
  BY <1>3, <1>4, <1>5 DEF Enter

(* What a job may stage, from the fields of its record.                    *)
Guided(s, j) ==
  \/ j.heard \in {"nothing", "silent"} \/ CheckIsFix(s)
  \/ /\ j.at \in {"patching", "working"} /\ Fixing => j.files \cap unstaged \subseteq j.named
     /\ j.at \in {"patching", "rechecking", "staging"} => j.touched \cap unstaged \subseteq j.named

(* A step in the middle of its job acts.                                   *)
LEMMA MidJobKeeps ==
  ASSUME HookInv, NEW s \in DOMAIN job, phase = "running",
         job[s].at \notin {"waiting", "ready", "done"},
         UNCHANGED aside, UNCHANGED <<files, skipped, staged>>, result' \in {result, "failed"},
         NEW c \in Fields, ran' = ran \cup {<<s, c>>} \/ ran' = ran,
         opts.safe /\ ~ShouldStage /\ ran' # ran => Trusted(<<s, c>>),
         NEW w \in SUBSET Files, Written(w) \/ UNCHANGED treeVars,
         job' \in [Running -> JobType], \A t \in Running \ {s} : job'[t] = job[t],
         job'[s].at \notin {"waiting", "ready", "checking"}, job'[s].first = job[s].first,
         job'[s].at \in {"patching", "rechecking"} =>
           job[s].first /\ Fixing /\ FirstCmd(s) = "diff" /\ AppliesDiff(s),
         job'[s].at = "rechecking" => Step(s).afterDiff,
         job'[s].at # "done" => (Own(s) => Guided(s, job'[s]))
  PROVE  HookInv'
<1>1. s \in Running /\ s \in Steps /\ PlaceOK(s) /\ TypeOK
  BY ActorIsRunning DEF HookInv
<1>2. /\ exists' \in SUBSET Files /\ dirty' \in SUBSET Files /\ fresh' \in SUBSET Files
      /\ hashes' \in [DOMAIN hashes' -> BOOLEAN] /\ exists \subseteq exists'
  <2>1. CASE Written(w)
    BY <1>1, <2>1, WrittenTypes
  <2>2. CASE UNCHANGED treeVars
    BY <1>1, <2>2 DEF treeVars, TypeOK
  <2>3. QED
    BY <2>1, <2>2
<1>3. ran \subseteq ran' /\ \A d \in ran' : d \in ran \/ d = <<s, c>>
  OBVIOUS
<1>4. StepFrame(s)
  <2>1. \A d \in ran' : d \in ran \/ d[1] = s
    BY <1>3
  <2>2. UNCHANGED <<scene, scanned, picked, untracked, phase, unstaged, group, contention>>
    BY DEF aside, goneBy
  <2>3. QED
    BY <1>2, <1>3, <2>1, <2>2 DEF StepFrame
<1>5. TypeOK'
  BY <1>1, <1>2, <1>3, <1>4, ActKeepsTypes DEF TypeOK
<1>6. UNCHANGED <<scene, unstaged>>
  BY <1>4 DEF StepFrame
<1>7. /\ BuiltOK(s)' /\ ToldOK(s)' /\ \A d \in staged : d[1] # s
      /\ job'[s].at \notin {"checking", "patching", "rechecking"} => PlaceOK(s)'
      /\ job'[s].at = "done" => NamedOK(s)'
  BY <1>4, WorkKeeps
<1>8. /\ Step(s)' = Step(s) /\ FirstCmd(s)' = FirstCmd(s) /\ CheckIsFix(s)' = CheckIsFix(s)
      /\ AppliesDiff(s)' = AppliesDiff(s) /\ Own(s)' = Own(s) /\ Fixing' = Fixing
  BY <1>6, SceneStays, StepStays
<1>9. PlaceOK(s)'
  <2>1. Step(s).profile /\ Step(s).jobCond \notin {"error", "false"}
    BY <1>1 DEF PlaceOK
  <2>2. QED
    BY <1>8, <2>1 DEF PlaceOK
<1>10. NamedOK(s)'
  <2>1. SUFFICES ASSUME job'[s].at # "done" PROVE NamedOK(s)'
    BY <1>7
  <2>2. Excused(s)' <=> job'[s].heard \in {"nothing", "silent"} \/ CheckIsFix(s)
    BY <1>8 DEF Excused
  <2>3. QED
    BY <1>6, <1>7, <1>8, <2>1, <2>2 DEF NamedOK, Guided
<1>11. opts.safe /\ ~ShouldStage => \A d \in ran' \ ran : Trusted(d)
  BY <1>3
<1>12. QED
  BY <1>1, <1>4, <1>5, <1>7, <1>9, <1>10, <1>11, FrameKeeps DEF JobOK

(* What a job is when it acts, and the ways it moves on.                   *)
LEMMA ActorMoves ==
  ASSUME HookInv, NEW s \in DOMAIN job, NEW at \in Places
  PROVE  /\ job[s].files \in SUBSET Files /\ job[s].touched \in SUBSET Files
         /\ Moved(job, s, at) \in [Running -> JobType]
         /\ \A t \in Running \ {s} : Moved(job, s, at)[t] = job[t]
         /\ HasFields(Moved(job, s, at)[s], at, job[s].files, job[s].first,
                      job[s].named, job[s].heard, job[s].touched)
         /\ Silenced(job, s, at) \in [Running -> JobType]
         /\ \A t \in Running \ {s} : Silenced(job, s, at)[t] = job[t]
         /\ HasFields(Silenced(job, s, at)[s], at, job[s].files, job[s].first,
                      job[s].named, "silent", job[s].touched)
         /\ \A fs \in SUBSET Files :
              /\ Touching(job, s, at, fs) \in [Running -> JobType]
              /\ \A t \in Running \ {s} : Touching(job, s, at, fs)[t] = job[t]
              /\ HasFields(Touching(job, s, at, fs)[s], at, job[s].files, job[s].first,
                           job[s].named, job[s].heard, fs)
<1>1. s \in Running /\ job \in [Running -> JobType] /\ job[s] \in JobType
  BY ActorIsRunning
<1>2. job[s].files \in SUBSET Files /\ job[s].touched \in SUBSET Files
  BY <1>1 DEF JobType
<1>3. QED
  BY <1>1, <1>2, JobMoves, JobIsSilenced, JobTouches

(* Where a job is when it checks, is patched, works or stages.             *)
LEMMA ActorKnows ==
  ASSUME HookInv, NEW s \in DOMAIN job, NEW where, At(s, where)
  PROVE  /\ phase = "running" /\ job[s].at = where
         /\ where = "checking" => job[s].first
         /\ where \in {"patching", "rechecking"} =>
              job[s].first /\ Fixing /\ FirstCmd(s) = "diff" /\ AppliesDiff(s)
         /\ where = "rechecking" => Step(s).afterDiff
         /\ where \in {"patching", "rechecking", "staging", "working"} /\ Own(s) =>
              Guided(s, job[s])
         /\ \A c \in staged : where # "done" => c[1] # s
<1>1. PlaceOK(s) /\ NamedOK(s)
  BY ActorIsRunning
<1>2. QED
  BY <1>1 DEF At, PlaceOK, NamedOK, Guided, Excused

(* CheckPasses.                                                            *)
LEMMA CheckPassesKeeps ==
  ASSUME HookInv, NEW s \in DOMAIN job, NEW wrote \in SUBSET (job[s].files \cup New),
         CheckPasses(s, wrote)
  PROVE  HookInv'
<1> DEFINE at == IF CheckIsFix(s) /\ Fixing THEN "staging" ELSE "done"
           fs == IF CheckIsFix(s) THEN job[s].files ELSE {}
<1>1. At(s, "checking") /\ UNCHANGED aside /\ UNCHANGED <<files, skipped, staged>>
      /\ ran' = ran \cup {<<s, FirstCmd(s)>>} /\ Written(wrote) /\ UNCHANGED result
      /\ job' = Touching(job, s, at, fs)
  BY DEF CheckPasses, Touching, Ran
<1>2. phase = "running" /\ job[s].at = "checking" /\ job[s].first
  BY <1>1, ActorKnows
<1>3. job[s].files \in SUBSET Files /\ at \in Places /\ fs \in SUBSET Files /\ wrote \in SUBSET Files
      /\ FirstCmd(s) \in Fields /\ at \in {"staging", "done"} /\ (at # "done" => CheckIsFix(s))
  BY ActorMoves, CommandsAreFields DEF Places, New
<1> HIDE DEF at, fs
<1>4. /\ job' \in [Running -> JobType] /\ \A t \in Running \ {s} : job'[t] = job[t]
      /\ HasFields(job'[s], at, job[s].files, job[s].first, job[s].named, job[s].heard, fs)
  BY <1>1, <1>3, ActorMoves
<1>5. job'[s].at = at /\ job'[s].first = job[s].first
      /\ (job'[s].at # "done" => Guided(s, job'[s]))
  BY <1>3, <1>4 DEF HasFields, Guided
<1>6. opts.safe /\ ~ShouldStage => Trusted(<<s, FirstCmd(s)>>)
  BY <1>2, RunsAreTrusted
<1>7. QED
  BY <1>1, <1>2, <1>3, <1>4, <1>5, <1>6, MidJobKeeps

(* CheckFails.                                                             *)
LEMMA CheckFailsKeeps ==
  ASSUME HookInv, NEW s \in DOMAIN job, NEW wrote \in SUBSET (job[s].files \cup New),
         CheckFails(s, wrote)
  PROVE  HookInv'
<1>1. At(s, "checking") /\ UNCHANGED aside /\ UNCHANGED <<files, skipped, staged>>
      /\ UNCHANGED result /\ job' = Silenced(job, s, "working")
      /\ (\/ ran' = ran \cup {<<s, FirstCmd(s)>>} /\ Written(wrote)
          \/ ran' = ran /\ UNCHANGED treeVars)
  BY DEF CheckFails, Silenced, Ran
<1>2. phase = "running" /\ job[s].at = "checking" /\ job[s].first
  BY <1>1, ActorKnows
<1>3. "working" \in Places /\ FirstCmd(s) \in Fields
  BY CommandsAreFields DEF Places
<1>4. wrote \in SUBSET Files
  BY <1>3, ActorMoves DEF New
<1>5. /\ job' \in [Running -> JobType] /\ \A t \in Running \ {s} : job'[t] = job[t]
      /\ HasFields(job'[s], "working", job[s].files, job[s].first, job[s].named, "silent",
                   job[s].touched)
  BY <1>1, <1>3, ActorMoves
<1>6. job'[s].at = "working" /\ job'[s].first = job[s].first /\ Guided(s, job'[s])
  BY <1>5 DEF HasFields, Guided
<1>7. opts.safe /\ ~ShouldStage => Trusted(<<s, FirstCmd(s)>>)
  BY <1>2, RunsAreTrusted
<1>8. QED
  BY <1>1, <1>2, <1>3, <1>4, <1>5, <1>6, <1>7, MidJobKeeps

(* A failure leaves nothing to do.                                         *)
LEMMA FailKeeps ==
  ASSUME HookInv, NEW s \in DOMAIN job, phase = "running", Fail(s),
         job[s].at \notin {"waiting", "ready", "done"},
         UNCHANGED aside, UNCHANGED <<files, skipped, staged>>,
         NEW c \in Fields, ran' = ran \cup {<<s, c>>} \/ ran' = ran,
         opts.safe /\ ~ShouldStage /\ ran' # ran => Trusted(<<s, c>>),
         NEW w \in SUBSET Files, Written(w) \/ UNCHANGED treeVars
  PROVE  HookInv'
<1>1. job' = Moved(job, s, "done") /\ "done" \in Places /\ result' = "failed"
  BY DEF Fail, Moved, Places
<1>2. /\ job' \in [Running -> JobType] /\ \A t \in Running \ {s} : job'[t] = job[t]
      /\ HasFields(job'[s], "done", job[s].files, job[s].first, job[s].named, job[s].heard,
                   job[s].touched)
  BY <1>1, ActorMoves
<1>3. job'[s].at = "done" /\ job'[s].first = job[s].first
  BY <1>2 DEF HasFields
<1>4. QED
  BY <1>1, <1>2, <1>3, MidJobKeeps

(* CheckNames: what a check told.                                          *)
LEMMA CheckNamesKeeps ==
  ASSUME HookInv, NEW s \in DOMAIN job, NEW names \in SUBSET job[s].files,
         NEW made \in SUBSET New, CheckNames(s, names, made)
  PROVE  HookInv'
<1>1. At(s, "checking") /\ UNCHANGED aside /\ UNCHANGED <<files, skipped, staged>>
      /\ UNCHANGED treeVars /\ ran' = ran \cup {<<s, FirstCmd(s)>>}
  BY DEF CheckNames, Ran
<1>2. phase = "running" /\ job[s].at = "checking" /\ job[s].first
  BY <1>1, ActorKnows
<1>3. FirstCmd(s) \in Fields /\ s \in Running /\ job \in [Running -> JobType] /\ job[s] \in JobType
  BY CommandsAreFields, ActorIsRunning
<1>4. opts.safe /\ ~ShouldStage => Trusted(<<s, FirstCmd(s)>>)
  BY <1>2, RunsAreTrusted
<1>5. CASE names = {} /\ FirstCmd(s) = "list"
  <2>1. Fail(s) /\ {} \in SUBSET Files
    BY <1>5 DEF CheckNames
  <2>2. QED
    BY <1>1, <1>2, <1>3, <1>4, <2>1, FailKeeps
<1>6. CASE ~(names = {} /\ FirstCmd(s) = "list")
  <2> DEFINE at      == IF Fixing /\ FirstCmd(s) = "diff" /\ AppliesDiff(s) THEN "patching"
                        ELSE "working"
             fs      == IF names = {} THEN job[s].files ELSE names
             heard   == IF names = {} THEN "nothing" ELSE "yes"
             touched == IF names \cup made = {} THEN job[s].files ELSE names \cup made
             j       == [job[s] EXCEPT !.at = at, !.files = fs, !.named = names,
                                       !.heard = heard, !.touched = touched]
  <2>1. job' = Becomes(job, s, j) /\ result' = result
    BY <1>6 DEF CheckNames, Becomes
  <2>2. job[s].files \in SUBSET Files /\ made \in SUBSET Files /\ made \cap unstaged = {}
    BY <1>3 DEF JobType, New, HookInv, FilesInv
  <2>3. /\ at \in Places /\ fs \in SUBSET Files /\ names \in SUBSET Files
        /\ heard \in {"yes", "nothing"} /\ touched \in SUBSET Files
    BY <2>2 DEF Places
  <2>4. /\ at \in {"patching", "working"}
        /\ at = "patching" => Fixing /\ FirstCmd(s) = "diff" /\ AppliesDiff(s)
        /\ heard = "nothing" \/ (fs = names /\ touched \cap unstaged \subseteq names)
    BY <2>2
  <2> HIDE DEF at, fs, heard, touched
  <2>5. j \in JobType /\ HasFields(j, at, fs, job[s].first, names, heard, touched)
    BY <1>3, <2>3 DEF JobType, Places, HasFields
  <2> HIDE DEF j
  <2>6. /\ job' \in [Running -> JobType] /\ job'[s] = j
        /\ \A t \in Running \ {s} : job'[t] = job[t]
    BY <1>3, <2>1, <2>5, JobBecomes
  <2>7. job'[s].at = at /\ job'[s].first = job[s].first /\ Guided(s, job'[s])
    BY <2>4, <2>5, <2>6 DEF HasFields, Guided
  <2>8. {} \in SUBSET Files
    OBVIOUS
  <2>9. QED
    BY <1>1, <1>2, <1>3, <1>4, <2>1, <2>4, <2>6, <2>7, <2>8, MidJobKeeps
<1>7. QED
  BY <1>5, <1>6

(* Patch.                                                                  *)
LEMMA PatchKeeps ==
  ASSUME HookInv, NEW s \in DOMAIN job, Patch(s) PROVE HookInv'
<1> DEFINE at == IF Step(s).afterDiff THEN "rechecking" ELSE "staging"
<1>1. At(s, "patching") /\ UNCHANGED aside /\ UNCHANGED <<files, skipped, staged>> /\ ran' = ran
  BY DEF Patch
<1>2. /\ phase = "running" /\ job[s].at = "patching"
      /\ job[s].first /\ Fixing /\ FirstCmd(s) = "diff" /\ AppliesDiff(s)
      /\ Own(s) => Guided(s, job[s])
  BY <1>1, ActorKnows
<1>3. "none" \in Fields /\ {} \in SUBSET Files /\ at \in Places /\ "working" \in Places
  BY DEF Fields, Places
<1>4. job[s].touched \in SUBSET Files
  BY <1>3, ActorMoves
<1>5. CASE Fail(s) /\ Written(job[s].touched)
  BY <1>1, <1>2, <1>3, <1>4, <1>5, FailKeeps
<1>6. ASSUME NEW to \in {at, "working"}, job' = Moved(job, s, to), result' = result,
             Written(job[s].touched) \/ UNCHANGED treeVars
      PROVE  HookInv'
  <2>1. to \in Places /\ to \in {"rechecking", "staging", "working"}
        /\ (to = "rechecking" => Step(s).afterDiff)
    BY <1>3, <1>6
  <2>2. /\ job' \in [Running -> JobType] /\ \A t \in Running \ {s} : job'[t] = job[t]
        /\ HasFields(job'[s], to, job[s].files, job[s].first, job[s].named, job[s].heard,
                     job[s].touched)
    BY <1>6, <2>1, ActorMoves
  <2>3. job'[s].at = to /\ job'[s].first = job[s].first /\ (Own(s) => Guided(s, job'[s]))
    BY <1>2, <2>1, <2>2 DEF HasFields, Guided
  <2>4. QED
    BY <1>1, <1>2, <1>3, <1>4, <1>6, <2>1, <2>2, <2>3, MidJobKeeps
<1>7. CASE /\ Written(job[s].touched)
           /\ job' = [job EXCEPT ![s].at = IF Step(s).afterDiff THEN "rechecking" ELSE "staging"]
           /\ UNCHANGED result
  <2>1. job' = Moved(job, s, at)
    BY <1>7 DEF Moved
  <2> HIDE DEF at
  <2>2. QED
    BY <1>6, <1>7, <2>1
<1>8. CASE job' = [job EXCEPT ![s].at = "working"] /\ UNCHANGED <<treeVars, result>>
  <2>1. job' = Moved(job, s, "working")
    BY <1>8 DEF Moved
  <2> HIDE DEF at
  <2>2. QED
    BY <1>6, <1>8, <2>1
<1>9. QED
  BY <1>5, <1>7, <1>8 DEF Patch

(* Recheck.                                                                *)
LEMMA RecheckKeeps ==
  ASSUME HookInv, NEW s \in DOMAIN job, Recheck(s) PROVE HookInv'
<1>1. At(s, "rechecking") /\ UNCHANGED aside /\ UNCHANGED <<files, skipped, staged>>
      /\ UNCHANGED treeVars /\ ran' = ran \cup {<<s, CheckCmd(s)>>}
  BY DEF Recheck, Ran
<1>2. /\ phase = "running" /\ job[s].at = "rechecking" /\ job[s].first /\ Fixing
      /\ FirstCmd(s) = "diff" /\ Step(s).afterDiff /\ (Own(s) => Guided(s, job[s]))
  BY <1>1, ActorKnows
<1>3. CheckCmd(s) \in Fields /\ {} \in SUBSET Files /\ "staging" \in Places
  BY CommandsAreFields DEF Places
<1>4. opts.safe /\ ~ShouldStage => Trusted(<<s, CheckCmd(s)>>)
  <2>1. CheckCmd(s) = FirstCmd(s) \/ (Has(s, "check") /\ CheckCmd(s) = "check")
    <3>1. CASE Has(s, "check")
      BY <3>1 DEF CheckCmd
    <3>2. CASE ~Has(s, "check")
      <4>1. Has(s, "diff")
        BY <1>2, <3>2 DEF FirstCmd, CheckCmd
      <4>2. QED
        BY <1>2, <3>2, <4>1 DEF CheckCmd, Has
    <3>3. QED
      BY <3>1, <3>2
  <2>2. QED
    BY <1>2, <2>1, RunsAreTrusted
<1>5. CASE Fail(s)
  BY <1>1, <1>2, <1>3, <1>4, <1>5, FailKeeps
<1>6. CASE job' = [job EXCEPT ![s].at = "staging"] /\ UNCHANGED result
  <2>1. job' = Moved(job, s, "staging")
    BY <1>6 DEF Moved
  <2>2. /\ job' \in [Running -> JobType] /\ \A t \in Running \ {s} : job'[t] = job[t]
        /\ HasFields(job'[s], "staging", job[s].files, job[s].first, job[s].named,
                     job[s].heard, job[s].touched)
    BY <1>3, <2>1, ActorMoves
  <2>3. job'[s].at = "staging" /\ job'[s].first = job[s].first /\ (Own(s) => Guided(s, job'[s]))
    BY <1>2, <2>2 DEF HasFields, Guided
  <2>4. QED
    BY <1>1, <1>2, <1>3, <1>4, <1>6, <2>2, <2>3, MidJobKeeps
<1>7. QED
  BY <1>5, <1>6 DEF Recheck

(* Work.                                                                   *)
LEMMA WorkActKeeps ==
  ASSUME HookInv, NEW s \in DOMAIN job, NEW wrote \in SUBSET (job[s].files \cup New),
         Work(s, wrote)
  PROVE  HookInv'
<1>1. At(s, "working") /\ UNCHANGED aside /\ UNCHANGED <<files, skipped, staged>>
      /\ Written(wrote) /\ ran' = ran \cup {<<s, RunCmd(s)>>}
  BY DEF Work, Ran
<1>2. phase = "running" /\ job[s].at = "working" /\ (Own(s) => Guided(s, job[s]))
  BY <1>1, ActorKnows
<1>3. RunCmd(s) \in Fields /\ "done" \in Places
  BY CommandsAreFields DEF Places
<1>4. job[s].files \in SUBSET Files /\ wrote \in SUBSET Files
  BY <1>3, ActorMoves DEF New
<1>5. opts.safe /\ ~ShouldStage => Trusted(<<s, RunCmd(s)>>)
  <2>1. SUFFICES ASSUME opts.safe, ~ShouldStage PROVE Trusted(<<s, RunCmd(s)>>)
    OBVIOUS
  <2>2. phase = "running" /\ job[s].at \notin {"waiting", "done"}
    BY <1>2
  <2>3. QED
    BY <2>1, <2>2, RunsAreTrusted
<1>6. CASE Fail(s)
  BY <1>1, <1>2, <1>3, <1>4, <1>5, <1>6, FailKeeps
<1>7. CASE /\ job' = [job EXCEPT ![s].at = IF Fixing THEN "staging" ELSE "done",
                                 ![s].touched = job[s].files]
           /\ UNCHANGED result
  <2> DEFINE at == IF Fixing THEN "staging" ELSE "done"
  <2>1. job' = Touching(job, s, at, job[s].files)
    BY <1>7 DEF Touching
  <2>2. at \in Places /\ at \in {"staging", "done"} /\ (at = "staging" => Fixing)
    BY DEF Places
  <2> HIDE DEF at
  <2>3. /\ job' \in [Running -> JobType] /\ \A t \in Running \ {s} : job'[t] = job[t]
        /\ HasFields(job'[s], at, job[s].files, job[s].first, job[s].named,
                     job[s].heard, job[s].files)
    BY <1>4, <2>1, <2>2, ActorMoves
  <2>4. job'[s].at = at /\ job'[s].first = job[s].first
        /\ (job'[s].at # "done" => (Own(s) => Guided(s, job'[s])))
    BY <1>2, <2>2, <2>3 DEF HasFields, Guided
  <2>5. QED
    BY <1>1, <1>2, <1>3, <1>4, <1>5, <1>7, <2>2, <2>3, <2>4, MidJobKeeps
<1>8. QED
  BY <1>6, <1>7 DEF Work

(* Stage: what a step puts into the index of the user's own changes was    *)
(* named by its check, or the check is no guide.                           *)
LEMMA StageKeeps ==
  ASSUME HookInv, NEW s \in DOMAIN job, Stage(s) PROVE HookInv'
<1> DEFINE add == ToStage(s)
<1>1. /\ At(s, "staging") /\ UNCHANGED aside /\ UNCHANGED <<exists, hashes, skipped, ran, result>>
      /\ staged' = staged \cup ({s} \X add) /\ files' = files \cup add
      /\ dirty' = dirty \ add /\ fresh' = fresh \ add /\ job' = Moved(job, s, "done")
  BY DEF Stage, Moved
<1>2. /\ phase = "running" /\ job[s].at = "staging" /\ (Own(s) => Guided(s, job[s]))
      /\ \A c \in staged : c[1] # s
  BY <1>1, ActorKnows
<1>3. "done" \in Places /\ s \in Steps /\ s \in Running /\ TypeOK
  BY ActorIsRunning DEF Places, HookInv
<1>4. /\ job' \in [Running -> JobType] /\ \A t \in Running \ {s} : job'[t] = job[t]
      /\ HasFields(job'[s], "done", job[s].files, job[s].first, job[s].named, job[s].heard,
                   job[s].touched)
  BY <1>1, <1>3, ActorMoves
<1>5. /\ job'[s].at = "done" /\ job'[s].first = job[s].first
      /\ job'[s].named = job[s].named /\ job'[s].heard = job[s].heard
  BY <1>4 DEF HasFields
<1>6. add \in SUBSET Files /\ (add # {} => ShouldStage)
  BY <1>3 DEF ToStage, TypeOK
<1>7. \A f \in add : Step(s).stage = "default" => f \in job[s].touched
  BY DEF ToStage
<1> HIDE DEF add
<1>8. StepFrame(s)
  <2>1. UNCHANGED <<scene, scanned, picked, untracked, phase, unstaged, group, contention>>
    BY <1>1 DEF aside, goneBy
  <2>2. files \subseteq files' /\ staged \subseteq staged'
        /\ \A c \in staged' : c \in staged \/ c[1] = s
    BY <1>1
  <2>3. ~ShouldStage => UNCHANGED <<files, staged>>
    BY <1>1, <1>6
  <2>4. QED
    BY <1>1, <1>2, <1>4, <2>1, <2>2, <2>3 DEF StepFrame
<1>9. TypeOK'
  <2>1. staged' \subseteq Steps \X Files
    BY <1>1, <1>3, <1>6 DEF TypeOK
  <2>2. /\ files' \in SUBSET Files /\ dirty' \in SUBSET Files /\ fresh' \in SUBSET Files
        /\ exists' \in SUBSET Files /\ skipped' \in [Steps -> Reasons]
        /\ hashes' \in [DOMAIN hashes' -> BOOLEAN]
    BY <1>1, <1>3, <1>6 DEF TypeOK
  <2>3. QED
    BY <1>1, <1>4, <1>8, <2>1, <2>2, ActKeepsTypes
<1>10. BuiltOK(s)' /\ ToldOK(s)' /\ PlaceOK(s)'
  BY <1>1, <1>2, <1>5, <1>8, WorkKeeps
<1>11. NamedOK(s)'
  <2>1. UNCHANGED <<scene, unstaged>>
    BY <1>8 DEF StepFrame
  <2>2. CheckIsFix(s)' = CheckIsFix(s) /\ \A f : UsersOwn(s, f)' = UsersOwn(s, f)
    BY <2>1, StepStays DEF UsersOwn, Narrows, Has
  <2>3. ASSUME NEW c \in staged', c[1] = s, UsersOwn(s, c[2])
        PROVE  Excused(s)' \/ c[2] \in job'[s].named
    <3>1. c[2] \in add
      BY <1>1, <1>2, <2>3
    <3>2. Own(s) /\ c[2] \in job[s].touched \cap unstaged
      BY <1>6, <1>7, <2>3, <3>1 DEF Own, UsersOwn
    <3>3. Guided(s, job[s])
      BY <1>2, <3>2
    <3>4. QED
      BY <1>2, <1>5, <2>2, <3>2, <3>3 DEF Guided, Excused
  <2>4. QED
    BY <1>5, <2>2, <2>3 DEF NamedOK
<1>12. QED
  BY <1>1, <1>3, <1>8, <1>9, <1>10, <1>11, FrameKeeps DEF JobOK

(* Abort.                                                                  *)
LEMMA AbortKeeps ==
  ASSUME HookInv, NEW s \in DOMAIN job, Abort(s) PROVE HookInv'
<1>1. /\ Stopped /\ (At(s, "waiting") \/ At(s, "ready")) /\ job' = Moved(job, s, "done")
      /\ UNCHANGED <<aside, treeVars, files, skipped, ran, staged, result>>
  BY DEF Abort, Moved
<1>2. s \in Running /\ PlaceOK(s) /\ "done" \in Places
  BY ActorIsRunning DEF Places
<1>3. phase = "running" /\ Untouched(s)
  BY <1>1, <1>2 DEF At, PlaceOK
<1>4. /\ job' \in [Running -> JobType] /\ \A t \in Running \ {s} : job'[t] = job[t]
      /\ HasFields(job'[s], "done", job[s].files, job[s].first, job[s].named, job[s].heard,
                   job[s].touched)
  BY <1>1, <1>2, ActorMoves
<1>5. job'[s].at = "done"
  BY <1>4 DEF HasFields
<1>6. StepFrame(s) /\ (JobOK(s)' => HookInv')
  BY <1>1, <1>3, <1>4, QuietFrame DEF HookInv, TypeOK
<1>7. Stopped'
  <2>1. env' = env /\ result' = result
    BY <1>1, <1>6, SceneStays DEF StepFrame
  <2>2. QED
    BY <1>1, <2>1 DEF Stopped
<1>8. JobOK(s)'
  BY <1>1, <1>3, <1>5, <1>7 DEF JobOK, BuiltOK, PlaceOK, NamedOK, ToldOK, Untouched
<1>9. QED
  BY <1>6, <1>8

(* A step's actions.                                                       *)
LEMMA StepActsKeep ==
  ASSUME HookInv, NEW s \in DOMAIN job, StepActs(s) PROVE HookInv'
<1>1. CASE Build(s)
  BY <1>1, BuildKeeps
<1>2. CASE Enter(s)
  BY <1>2, EnterKeeps
<1>3. CASE Patch(s)
  BY <1>3, PatchKeeps
<1>4. CASE Recheck(s)
  BY <1>4, RecheckKeeps
<1>5. CASE Stage(s)
  BY <1>5, StageKeeps
<1>6. CASE Abort(s)
  BY <1>6, AbortKeeps
<1>7. CASE \E names \in SUBSET job[s].files, made \in SUBSET New : CheckNames(s, names, made)
  BY <1>7, CheckNamesKeeps
<1>8. CASE \E wrote \in SUBSET (job[s].files \cup New) :
             CheckPasses(s, wrote) \/ CheckFails(s, wrote) \/ Work(s, wrote)
  <2>1. PICK wrote \in SUBSET (job[s].files \cup New) :
               CheckPasses(s, wrote) \/ CheckFails(s, wrote) \/ Work(s, wrote)
    BY <1>8
  <2>2. QED
    BY <2>1, CheckPassesKeeps, CheckFailsKeeps, WorkActKeeps
<1>9. QED
  BY <1>1, <1>2, <1>3, <1>4, <1>5, <1>6, <1>7, <1>8 DEF StepActs

(* A stutter.                                                              *)
LEMMA StutterKeeps == HookInv /\ UNCHANGED hookVars => HookInv'
<1> SUFFICES ASSUME HookInv, UNCHANGED hookVars PROVE HookInv'
  OBVIOUS
<1>1. /\ UNCHANGED <<scene, phase, scanned, picked, files, unstaged, untracked, exists, dirty, fresh>>
      /\ UNCHANGED <<hashes, group, contention, job, skipped, ran, staged, result>>
  BY DEF hookVars
<1>2. SceneOK' /\ StepGroups' = StepGroups /\ Steps' = Steps /\ ShouldStage' = ShouldStage
      /\ repo' = repo /\ NeedsUntrackedScan' = NeedsUntrackedScan /\ opts' = opts
  BY <1>1, SceneStays DEF HookInv
<1>3. Running' = Running
  BY <1>1, <1>2 DEF Running
<1>4. TypeOK'
  BY <1>1, <1>2, <1>3 DEF HookInv, TypeOK
<1>5. \A g, fs : FilesInContention(g, fs)' = FilesInContention(g, fs) /\ FileList(fs)' = FileList(fs)
                 /\ \A c : Trusted(c)' = Trusted(c)
  BY <1>1, GateStays
<1>6. FilesInv'
  BY <1>1, <1>2, <1>5 DEF HookInv, FilesInv, UntrackedSeen
<1>7. OrderInv'
  <2>1. \A s : Later(s)' = Later(s) /\ Untouched(s)' = Untouched(s)
    BY <1>1, <1>2 DEF Later, Untouched
  <2>2. FilesInContention(StepGroups[group], files)' = FilesInContention(StepGroups[group], files)
    BY <1>1, <1>2, <1>5
  <2>3. QED
    BY <1>1, <1>2, <2>1, <2>2 DEF HookInv, OrderInv
<1>8. SafeInv'
  BY <1>1, <1>2, <1>5, GateKeeps DEF HookInv, SafeInv
<1>9. JobsInv'
  <2>1. ASSUME NEW s \in Running PROVE JobOK(s)'
    <3>1. JobOK(s) /\ \A fs : HasJob(s, fs)' = HasJob(s, fs) /\ SkipReason(s, fs)' = SkipReason(s, fs)
      BY <1>1, StepStays DEF HookInv, JobsInv, JobOK
    <3>2. BuiltOK(s)' = BuiltOK(s)
      BY <1>1, <1>2, StepStays DEF BuiltOK, PlannedIn
    <3>3. PlaceOK(s)' = PlaceOK(s)
      <4>1. Untouched(s)' = Untouched(s)
        BY <1>1 DEF Untouched
      <4>2. /\ Step(s)' = Step(s) /\ Fixing' = Fixing /\ FirstCmd(s)' = FirstCmd(s)
            /\ AppliesDiff(s)' = AppliesDiff(s) /\ JobFiles(s, picked)' = JobFiles(s, picked)
        BY <1>1, SceneStays, StepStays
      <4>3. QED
        BY <1>1, <4>1, <4>2 DEF PlaceOK
    <3>4. NamedOK(s)' = NamedOK(s)
      BY <1>1, <1>2, SceneStays, StepStays DEF NamedOK, UsersOwn, Excused, Narrows, Has
    <3>5. ToldOK(s)' = ToldOK(s)
      BY <1>1, <1>2, SceneStays, StepStays DEF ToldOK, AsTold, Stopped, NeverHasJob
    <3>6. QED
      BY <3>1, <3>2, <3>3, <3>4, <3>5 DEF JobOK
  <2>2. QED
    BY <1>3, <2>1 DEF JobsInv, JobOK
<1>10. EarlyInv'
  BY <1>1, <1>2, StepStays DEF HookInv, EarlyInv, NeverHasJob
<1>11. QED
  BY <1>1, <1>2, <1>4, <1>6, <1>7, <1>8, <1>9, <1>10 DEF HookInv

(* A step of a run.                                                        *)
LEMMA HookStepKeeps == HookInv /\ [HookNext]_hookVars => HookInv'
<1> SUFFICES ASSUME HookInv, [HookNext]_hookVars PROVE HookInv'
  OBVIOUS
<1>1. CASE \E s \in DOMAIN job : StepActs(s)
  BY <1>1, StepActsKeep
<1>2. CASE Setup \/ ReadStatus \/ EarlyExit \/ Refuse
  BY <1>2, SetupKeeps, ReadStatusKeeps, EarlyExitKeeps, RefuseKeeps
<1>3. CASE StashAndGo \/ StartGroup \/ Finish
  BY <1>3, StashAndGoKeeps, StartGroupKeeps, FinishKeeps
<1>4. CASE UNCHANGED hookVars
  BY <1>4, StutterKeeps
<1>5. QED
  BY <1>1, <1>2, <1>3, <1>4 DEF HookNext

-----------------------------------------------------------------------------
(* The theorems.                                                           *)

(* Every run of every hook on every repository satisfies the invariant:    *)
(* the status decides the files, groups run in order, only what --safe     *)
(* vouched for is run, and what is known of each step is as it was built,  *)
(* named and told (hook.rs 1036-1700, step_group.rs, step/execution.rs).   *)
THEOREM HookInvariance == HookSpec => []HookInv
<1>1. SceneOK /\ HookBegin => HookInv
  BY InitHolds
<1>2. HookInv /\ [HookNext]_hookVars => HookInv'
  BY HookStepKeeps
<1>3. QED
  BY <1>1, <1>2, PTL DEF HookSpec

(* The types of a run's state; a step is in the running group only once,   *)
(* and only it has a job (step_group.rs 187-217).                          *)
THEOREM HookTypeCorrect == HookSpec => []TypeOK
<1>1. HookInv => TypeOK
  BY DEF HookInv
<1>2. QED
  BY <1>1, HookInvariance, PTL

(* What the status of the worktree must tell the selection, the stash and  *)
(* the staging, read from a full or a restricted status.                   *)
LEMMA ScanSuffices ==
  ASSUME HookInv, phase = "selected"
  PROVE  LET others == UntrackedSeen(env.untracked)
         IN /\ picked = FileList(others)
            /\ Stashes => (HasUnstaged(untracked) <=> HasUnstaged(others))
            /\ ShouldStage \/ hook.readsUntracked => untracked = others
<1>1. untracked = UntrackedSeen(NeedsUntrackedScan) /\ picked = FileList(untracked)
  BY DEF HookInv, FilesInv
<1>2. CASE NeedsUntrackedScan
  <2>1. env.untracked
    BY <1>2 DEF NeedsUntrackedScan
  <2>2. untracked = UntrackedSeen(env.untracked)
    BY <1>1, <1>2, <2>1 DEF UntrackedSeen
  <2>3. QED
    BY <1>1, <2>2
<1>3. CASE ~NeedsUntrackedScan
  <2>1. untracked = {}
    BY <1>1, <1>3 DEF UntrackedSeen
  <2>2. CASE ~env.untracked
    BY <1>1, <2>1, <2>2 DEF UntrackedSeen
  <2>3. CASE env.untracked
    <3>1. ~Stashes /\ ~ShouldStage /\ ~SelectionReadsUntracked /\ ~hook.readsUntracked
      BY <1>3, <2>3 DEF NeedsUntrackedScan
    <3>2. \A fs : FileList(fs) = FileList({})
      BY <3>1 DEF SelectionReadsUntracked, FileList
    <3>3. QED
      BY <1>1, <3>1, <3>2
  <2>4. QED
    BY <2>2, <2>3
<1>4. QED
  BY <1>2, <1>3

(* A run that did not look for untracked files selects the files it would  *)
(* select had it looked, stashes when it would stash, and stages and       *)
(* evaluates conditions as it would (hook.rs:738-743).                     *)
THEOREM NothingIsMissed == HookSpec => []NothingMissed
<1>1. HookInv => NothingMissed
  BY ScanSuffices DEF NothingMissed
<1>2. QED
  BY <1>1, HookInvariance, PTL

(* --plan and the run agree on which steps are skipped, and why, as long   *)
(* as the run works on the files the plan saw (hook.rs:881-884,            *)
(* 2402-2407).                                                             *)
THEOREM PlanIsKept == HookSpec => []PlanTellsTheRun
<1>1. HookInv => PlanTellsTheRun
  <2>1. SUFFICES ASSUME HookInv PROVE PlanTellsTheRun
    OBVIOUS
  <2>2. DOMAIN job = Running
    BY <2>1, RunningIsOfHook DEF HookInv
  <2>3. \A s \in DOMAIN job : ToldOK(s)
    BY <2>1, <2>2 DEF HookInv, JobsInv
  <2>4. EarlyInv
    BY <2>1 DEF HookInv
  <2>5. QED
    BY <2>3, <2>4 DEF PlanTellsTheRun, ToldOK, AsTold, EarlyInv
<1>2. QED
  BY <1>1, HookInvariance, PTL

(* With --safe, no command of unknown or destructive effect runs, unless   *)
(* the hook stages what its steps fix: the gate saw every command a job    *)
(* may come to, a fallback and a recheck too (hook.rs:2303-2350).          *)
THEOREM SafeRunsAreSafe == HookSpec => []SafeUnlessStaging
<1>1. HookInv => SafeUnlessStaging
  BY DEF HookInv, SafeInv, SafeUnlessStaging, Trusted
<1>2. QED
  BY <1>1, HookInvariance, PTL

(* A step that can tell which files it would change, and stages by         *)
(* default, puts into the index no file the user had left unstaged but     *)
(* those its check named, unless its check named nothing, could not be     *)
(* run, or is its fixer (execution.rs:252-256).                            *)
THEOREM NamedIsStaged == HookSpec => []OnlyNamedIsStaged
<1>1. HookInv => OnlyNamedIsStaged
  <2>1. SUFFICES ASSUME HookInv PROVE OnlyNamedIsStaged
    OBVIOUS
  <2>2. DOMAIN job = Running
    BY <2>1, RunningIsOfHook DEF HookInv
  <2>3. \A s \in DOMAIN job : NamedOK(s)
    BY <2>1, <2>2 DEF HookInv, JobsInv
  <2>4. QED
    BY <2>3 DEF OnlyNamedIsStaged, NamedOK, Excused
<1>2. QED
  BY <1>1, HookInvariance, PTL
=============================================================================
