------------------------------ MODULE MCAround ------------------------------
(* A model to check: what hk does around the steps it runs.  The parts are *)
(* never in play together: the Stop hook of an agent, the end of a         *)
(* cancelled run on Windows, the MCP server, the cache of the              *)
(* configuration, the installation of the hooks, a patch's application and *)
(* the files of a push.                                                    *)
EXTENDS StopHook, StepTree, McpRuns, ConfigCache, Install, ApplyPatch, PushRange

VARIABLE part    \* the part in play

(* McpRuns.  One root that a troubled run and the next use in turn; two    *)
(* roots whose runs overlap.                                               *)
TwoSettings ==
  {[roots |-> 1, troubles |-> <<2, 0>>, verdicts |-> <<{"passed", "failed"}, {"passed"}>>],
   [roots |-> 2, troubles |-> <<1, 0>>, verdicts |-> <<{"cancelled"}, {"passed"}>>]}

(* ConfigCache.  hk.pkl with a glob import, of local files only or not; an *)
(* import that imports another; variables that are read, one of which makes *)
(* another be read, and one that hk.pkl exports.                           *)
Source(id) == [Missing EXCEPT !.id = id]
GlobRoot   == [Source("r1") EXCEPT !.glob = TRUE]
RemoteRoot == [Source("r3") EXCEPT !.glob = TRUE, !.remote = TRUE]
EnvRoot    == [Source("r2") EXCEPT !.imports = {1}, !.reads = {"v"}, !.more = {"w"},
                                   !.sets = {"v"}]
Leaf1      == Source("m1")
Importer1  == [Source("m2") EXCEPT !.imports = {2}]
Leaf2      == Source("m3")

TheSources(r, m, n) == [f \in Files |-> IF f = HkPkl THEN r ELSE IF f = 1 THEN m ELSE n]
Versions == [f \in Files |-> IF f = HkPkl THEN {} ELSE IF f = 1 THEN {Missing, Leaf1, Importer1}
                             ELSE {Missing, Leaf2}]
Loads(s, envs, off, l1, l2, edits, torn) ==
  [sources |-> s, versions |-> Versions, envs |-> envs, off |-> off,
   loads |-> [p \in Loaders |-> IF p = "p1" THEN l1 ELSE l2], edits |-> edits, torn |-> torn]

(* Two processes and an edit; one process, two edits and a torn write; two *)
(* processes in any environments and a torn write.                         *)
LoadInstances ==
  {Loads(TheSources(r, Leaf1, x), {{}}, {}, 2, 1, 1, 0) :
     r \in {GlobRoot, RemoteRoot}, x \in {Missing, Leaf2}}
  \cup {Loads(TheSources(r, Importer1, Leaf2), {{}}, {}, 3, 0, 2, 1) : r \in {GlobRoot, EnvRoot}}
  \cup {Loads(TheSources(EnvRoot, Leaf1, Leaf2), {{}, {"v"}, {"v", "w"}}, off, 2, 1, 0, 1) :
          off \in {{}, {"p2"}}}

(* Install.  Two commands side by side, of which one installs in the       *)
(* repository, over what another installation left and another's hook.     *)
One  == {"pre-commit"}
Both == {"pre-commit", "pre-push"}
KeysFor(E) == {"command", "event"} \X E
Installs ==
  {[entry |-> [s \in Scopes |-> IF s = "local" THEN l ELSE g],
    script |-> [e \in Events |-> IF e = "pre-commit" THEN x ELSE y],
    todo |-> [p \in Installers |-> IF p = "i1" THEN <<c>> ELSE <<d>>],
    spare |-> [fails |-> 1, writes |-> 1]] :
     l, g \in {{}, KeysFor(One)}, x \in {"none", "hk"}, y \in {"none", "other"},
     c \in {Local(Both, FALSE, FALSE, FALSE), Local(One, TRUE, FALSE, FALSE),
            Local(Both, TRUE, FALSE, TRUE)},
     d \in {Uninstall("local"), Local(Both, TRUE, FALSE, FALSE), Global(One),
            Uninstall("global")}}

(* ApplyPatch.  Patches of two or three files, some with two patches of one *)
(* file, two failures and two writes of others.                            *)
Hunk(f, op) == [path |-> f, op |-> op]
Ops == {"modify", "create", "delete"}
PatchTexts ==
  {<<Hunk(1, a), Hunk(2, b)>> : a, b \in Ops}
  \cup {<<Hunk(1, "delete"), Hunk(2, b), Hunk(1, "create")>> : b \in Ops}
  \cup {<<Hunk(1, "create"), Hunk(2, "delete"), Hunk(3, "modify")>>}
SomePatches ==
  {[files |-> [f \in Paths |-> CASE f = 1 -> x [] f = 2 -> y [] OTHER -> "old"],
    hunks |-> h, fails |-> 2, writes |-> 2] : x, y \in {"none", "old"}, h \in PatchTexts}

(* PushRange.  Two files, in related histories and others; without libgit2 *)
(* there is a single one.                                                  *)
SomeClones ==
  [libgit2 : {TRUE}, headSet : BOOLEAN, roots : {1}, files : {{"f", "g"}}, commits : {3}]
  \cup [libgit2 : {TRUE}, headSet : BOOLEAN, roots : {2}, files : {{"f", "g"}}, commits : {3}]
  \cup [libgit2 : {FALSE}, headSet : BOOLEAN, roots : 1..2, files : {{"f"}}, commits : {3}]

(* One part begins and the others stay idle.                               *)
Begins(what) ==
  /\ part = what
  /\ IF what = "hook" THEN HookInit ELSE HookIdle
  /\ IF what = "tree" THEN TreeInit ELSE TreeIdle
  /\ IF what = "mcp" THEN McpInit ELSE McpIdle
  /\ IF what = "cache" THEN CacheInit ELSE CacheIdle
  /\ IF what = "install" THEN InstallInit ELSE InstallIdle
  /\ IF what = "patch" THEN PatchInit ELSE PatchIdle
  /\ IF what = "push" THEN PushInit ELSE PushIdle

MCInit == \E what \in {"hook", "tree", "mcp", "cache", "install", "patch", "push"} : Begins(what)

MCVars == <<part, hookVars, treeVars, mcpVars, cacheVars, installVars, patchVars, pushVars>>

(* A step of one part.                                                     *)
InHook ==
  /\ part = "hook"
  /\ UNCHANGED <<part, treeVars, mcpVars, cacheVars, installVars, patchVars, pushVars>>
InTree ==
  /\ part = "tree"
  /\ UNCHANGED <<part, hookVars, mcpVars, cacheVars, installVars, patchVars, pushVars>>
InMcp ==
  /\ part = "mcp"
  /\ UNCHANGED <<part, hookVars, treeVars, cacheVars, installVars, patchVars, pushVars>>
InCache ==
  /\ part = "cache"
  /\ UNCHANGED <<part, hookVars, treeVars, mcpVars, installVars, patchVars, pushVars>>
InInstall ==
  /\ part = "install"
  /\ UNCHANGED <<part, hookVars, treeVars, mcpVars, cacheVars, patchVars, pushVars>>
InPatch ==
  /\ part = "patch"
  /\ UNCHANGED <<part, hookVars, treeVars, mcpVars, cacheVars, installVars, pushVars>>
InPush ==
  /\ part = "push"
  /\ UNCHANGED <<part, hookVars, treeVars, mcpVars, cacheVars, installVars, patchVars>>

MCNext ==
  \/ InHook /\ HookNext
  \/ InTree /\ TreeNext
  \/ InMcp /\ McpNext
  \/ InCache /\ CacheNext
  \/ InInstall /\ InstallNext
  \/ InPatch /\ PatchNext
  \/ InPush /\ PushNext

MCSpec == MCInit /\ [][MCNext]_MCVars /\ HookFairness /\ McpFairness

(* The processes that a part of hk may end are those of the run in question *)
(* (StopHook, StepTree).                                                   *)
EndsJustItsOwn == KillsJustTheCheck /\ EndsJustTheTree

(* What is to stop stops: the Stop hook comes to its answer, and a cancelled *)
(* run of the server to its end, whatever hk and its steps go on doing.    *)
StopsEnd == []<>(at = "over" /\ CancelsPending = {})
=============================================================================
