--------------------------- MODULE MCStashJournal ---------------------------
(* Small instances of the stash: of StashJournal, with a file of HEAD and  *)
(* a new one, and of SetAside, with any two paths.                         *)
EXTENDS StashJournal, SetAside, TLC

CONSTANTS p1, p2, p3, f1, f2

SomeNew == {f2}

Scene(g, c, n, e) == [place |-> g, crashes |-> c, faults |-> n, edits |-> e]
AllHere == [p \in Procs |-> "here"]

Seen    == {g \in [Procs -> {"here", "nowhere"}] :
              Cardinality({p \in Procs : g[p] = "nowhere"}) = 1}
Unseen  == {g \in [Procs -> {"here", "there", "nowhere"}] :
              {g[p] : p \in Procs} = {"here", "there", "nowhere"}}

(* Three processes of which two are killed; two that see each other, with   *)
(* two of a kill, a fault and a file that the user edits; two that do not,  *)
(* with a kill and a fault.                                                 *)
Mishaps == {Scene(AllHere, 2, 0, 0)}
           \cup {Scene(g, 1, 1, 0) : g \in Seen \cup Unseen}
           \cup {Scene(g, 1, 0, 1) : g \in Seen}
           \cup {Scene(g, 0, 1, 1) : g \in Seen}

NoMishap == {Scene(AllHere, 0, 0, 0)}

(* Nobody stashes under the journal.                                       *)
Nobody == Scene([p \in Procs |-> "nowhere"], 0, 0, 0)
Scenes == Mishaps \cup {Nobody}

Symmetry == Permutations(Procs)

(* SetAside.  What HEAD, the index and the worktree have of two paths, one  *)
(* of which may not be UTF-8, or of a repository without commits.  With a   *)
(* conflict in one path the other is neither gone nor intended.            *)
OnePath == {<<h, i, w>> : h \in {Nil, "v1"},
                          i \in {Nil, "v1", "v2", "x1", "link", "intent", "conflict"},
                          w \in {Nil, "v1", "v2", "empty", "link"}}
Apart(t) == \A n \in Names : t.index[n] = "conflict" =>
              \A m \in Names \ {n} : /\ t.index[m] # "intent"
                                     /\ t.index[m] # Nil => t.work[m] # Nil
TwoPaths ==
  {t \in {[head |-> <<x[1], y[1]>>, index |-> <<x[2], y[2]>>, work |-> <<x[3], y[3]>>,
           odd |-> o, born |-> TRUE] : x, y \in OnePath, o \in {{}, {2}}} : Apart(t)}
  \cup {[head |-> <<Nil, Nil>>, index |-> <<x, y>>, work |-> <<"v1", "v2">>,
         odd |-> {}, born |-> FALSE] : x, y \in {Nil, "v1"}}

MCInit ==
  \/ Init /\ scene # Nobody /\ AsideIdle
  \/ Init /\ scene = Nobody /\ (\A f \in Files : tree[f] = {}) /\ AsideInit
MCNext == (Next /\ UNCHANGED asideVars) \/ (AsideNext /\ UNCHANGED vars)
MCSpec == MCInit /\ [][MCNext]_<<vars, asideVars>>

(* Two runs after each other, of StashJournal alone.                       *)
TurnsSpec == Init /\ AsideIdle /\ [][Next /\ UNCHANGED asideVars]_<<vars, asideVars>>
=============================================================================
