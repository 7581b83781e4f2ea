------------------------------ MODULE PushRange ------------------------------
(***************************************************************************)
(* Which files hk checks before a push (cli/run/pre_push.rs, git.rs): those *)
(* that differ between what the remote has and what is pushed, where the   *)
(* former is what git tells of the first ref, or, for a new branch, what a *)
(* remote-tracking branch or the default branch says.  Meanwhile others    *)
(* push, and the user commits, merges, switches branches and fetches.      *)
(***************************************************************************)
EXTENDS Integers, Sequences, SequencesExt, FiniteSets

CONSTANTS Branches,      \* main and others
          Clones         \* the repositories: whether libgit2 is used, whether
                         \* refs/remotes/origin/HEAD is set, the roots, the
                         \* files and how many commits there are at most

ASSUME ClonesAssumption ==
  "main" \in Branches /\ \A c \in Clones : c.roots \in Nat \ {0}

VARIABLES commits,       \* each one's ancestors, itself included, and its files
          local, tracked, remote,   \* branch -> commit, in refs/heads,
                                    \* refs/remotes/origin and the remote
          current,       \* the branch that is checked out
          clone,         \* one of Clones
          present,       \* the commits that are in the local repository
          push           \* the last push: its lines, the commit that its files were
                         \* compared with, and the files to check

pushVars == <<commits, local, tracked, remote, current, clone, present, push>>

NoRev  == 0      \* no commit; the hash of zeros; a file that is not there
NoPush == [lines |-> <<>>, from |-> NoRev, had |-> {}, here |-> {}, selected |-> {}]

Sources   == clone.files
Up(c)     == IF c = NoRev THEN {} ELSE commits[c].up
TreeOf(c) == IF c = NoRev THEN [f \in Sources |-> NoRev] ELSE commits[c].tree
NextCommit == Len(commits) + 1
OnRemote  == UNION {Up(remote[b]) : b \in Branches}
InWorktree == {f \in Sources : TreeOf(local[current])[f] # NoRev}

(* A root commit has every file.  The remote's main is the local one's, or  *)
(* has a history of its own.                                               *)
RootOf(c) == [up |-> {c}, tree |-> [f \in Sources |-> c]]

PushInit ==
  /\ clone \in Clones
  /\ commits = [c \in 1 .. clone.roots |-> RootOf(c)]
  /\ local = [b \in Branches |-> IF b = "main" THEN 1 ELSE NoRev]
  /\ remote = [b \in Branches |-> IF b = "main" THEN clone.roots ELSE NoRev]
  /\ tracked = remote /\ current = "main" /\ present = 1 .. clone.roots
  /\ push = NoPush

PushIdle ==
  /\ clone = [libgit2 |-> FALSE, headSet |-> FALSE, roots |-> 0, files |-> {}, commits |-> 0]
  /\ commits = <<>> /\ present = {} /\ push = NoPush /\ current = "none"
  /\ local = <<>> /\ remote = <<>> /\ tracked = <<>>

-----------------------------------------------------------------------------
(* What git tells of refs (external, but for the order of the questions).   *)

(* Without libgit2, ls-remote is searched for a name that it never prints.  *)
matching_remote_branch == IF clone.libgit2 THEN tracked[current] ELSE NoRev

(* The tracking branch that origin/HEAD names; the current branch's; the    *)
(* local main, if the remote has one; or origin/HEAD, which leads nowhere. *)
default_branch ==
  IF clone.headSet THEN tracked["main"]
  ELSE IF matching_remote_branch # NoRev THEN matching_remote_branch
  ELSE IF remote["main"] # NoRev THEN local["main"] ELSE NoRev

(* PrePush::run: a push tells of each ref the commit pushed and the one    *)
(* that the remote has.                                                    *)
FromRef(lines) ==
  IF lines # <<>> /\ lines[1].from # NoRev THEN lines[1].from
  ELSE IF matching_remote_branch # NoRev THEN matching_remote_branch ELSE default_branch
ToRef(lines) == IF lines = <<>> THEN local[current] ELSE lines[1].to

(* The best common ancestors, of which git takes any.                      *)
MergeBases(x, y) ==
  LET common == Up(x) \cap Up(y)
  IN {c \in common : \A d \in common \ {c} : c \notin Up(d)}

Differing(x, y) == {f \in Sources : TreeOf(y)[f] \notin {NoRev, TreeOf(x)[f]}}

(* Mutant of Compared: what the remote has since changed is compared too.   *)
ComparedMutant(from, to) ==
  IF from \notin present THEN {NoRev} ELSE IF MergeBases(from, to) = {} THEN {from} ELSE {to}

(* The commits that files_between_refs may compare the pushed one with: an  *)
(* empty one if `from` leads nowhere, and `from` itself if they are not     *)
(* related.                                                                *)
Compared(from, to) ==
  IF from \notin present THEN {NoRev}
  ELSE IF MergeBases(from, to) = {} THEN {from} ELSE MergeBases(from, to)

(* git lists the files without looking whether they are in the worktree.    *)
files_between_refs(base, to) ==
  Differing(base, to) \cap IF clone.libgit2 THEN InWorktree ELSE Sources

-----------------------------------------------------------------------------
(* The user and the others (external).                                     *)
NewCommit(parents, tree) ==
  /\ NextCommit <= clone.commits
  /\ commits' = Append(commits, [up |-> {NextCommit} \cup UNION {Up(p) : p \in parents},
                                 tree |-> tree])

Writes(tree, f) == {[tree EXCEPT ![f] = NextCommit], [tree EXCEPT ![f] = NoRev]}

Commit ==
  /\ \E f \in Sources : \E t \in Writes(TreeOf(local[current]), f) :
       NewCommit({local[current]}, t)
  /\ local' = [local EXCEPT ![current] = NextCommit] /\ present' = present \cup {NextCommit}
  /\ UNCHANGED <<tracked, remote, current, clone>> /\ push' = NoPush

(* A merge takes the side that changed a file; or, if both did, a text of   *)
(* its own.                                                                *)
MergeIn(c) ==
  /\ c # NoRev /\ c \notin Up(local[current]) /\ local[current] \notin Up(c)
  /\ \E base \in MergeBases(local[current], c) :
       LET ours == TreeOf(local[current])
       IN NewCommit({local[current], c}, [f \in Sources |->
            IF TreeOf(c)[f] = TreeOf(base)[f] THEN ours[f]
            ELSE IF ours[f] = TreeOf(base)[f] THEN TreeOf(c)[f] ELSE NextCommit])
  /\ local' = [local EXCEPT ![current] = NextCommit] /\ present' = present \cup {NextCommit}
  /\ UNCHANGED <<tracked, remote, current, clone>> /\ push' = NoPush

Switch(b) ==
  /\ b # current /\ current' = b
  /\ local' = [local EXCEPT ![b] = IF @ = NoRev THEN local[current] ELSE @]
  /\ UNCHANGED <<commits, tracked, remote, clone, present>> /\ push' = NoPush

Fetch ==
  /\ tracked' = [b \in Branches |-> IF remote[b] = NoRev THEN tracked[b] ELSE remote[b]]
  /\ tracked' # tracked
  /\ present' = present \cup OnRemote
  /\ UNCHANGED <<commits, local, remote, current, clone>> /\ push' = NoPush

OthersPush(b) ==
  /\ remote[b] # NoRev
  /\ \E f \in Sources : \E t \in Writes(TreeOf(remote[b]), f) : NewCommit({remote[b]}, t)
  /\ remote' = [remote EXCEPT ![b] = NextCommit]
  /\ UNCHANGED <<local, tracked, current, clone, present>> /\ push' = NoPush

(* A push runs the hook, then the remote has what is here.  hk selects no   *)
(* file for a deletion.                                                    *)
PushRefs(lines) ==
  LET to == ToRef(lines)
  IN /\ \E base \in Compared(FromRef(lines), to) :
          push' = [lines |-> lines, from |-> FromRef(lines), had |-> OnRemote,
                   here |-> InWorktree,
                   selected |-> IF to = NoRev THEN {} ELSE files_between_refs(base, to)]
     /\ remote' = [b \in Branches |->
                     IF \E l \in ToSet(lines) : l.branch = b
                     THEN (CHOOSE l \in ToSet(lines) : l.branch = b).to ELSE remote[b]]
     /\ tracked' = [b \in Branches |-> IF \E l \in ToSet(lines) : l.branch = b
                                       THEN remote'[b] ELSE tracked[b]]
     /\ UNCHANGED <<commits, local, current, clone, present>>

Line(b, to) == [branch |-> b, to |-> to, from |-> remote[b]]
Push ==
  \E names \in SUBSET Branches \ {{}} : \E order \in SetToSeqs(names) :
    /\ \A b \in names : local[b] # NoRev /\ local[b] # remote[b]
    /\ PushRefs([i \in DOMAIN order |-> Line(order[i], local[order[i]])])
PushDelete(b) == b # "main" /\ remote[b] # NoRev /\ PushRefs(<<Line(b, NoRev)>>)

PushNext == \/ Commit \/ Fetch \/ Push
            \/ \E b \in Branches : \/ MergeIn(local[b]) \/ MergeIn(tracked[b]) \/ Switch(b)
                                   \/ OthersPush(b) \/ PushDelete(b)

PushSpec == PushInit /\ [][PushNext]_pushVars

(***************************************************************************)
(* Properties.                                                             *)
(***************************************************************************)
(* A push of one branch checks every file whose contents the remote has in  *)
(* none of its commits (and that is in the worktree), provided that the    *)
(* commit it compares with is one of the remote's or unknown; a deletion   *)
(* checks nothing (pre_push.rs 119-124, git.rs 3524-3528).                 *)
NewIsChecked ==
  LET line == push.lines[1]
      old  == {TreeOf(c)[f] : c \in push.had, f \in Sources}
      new  == {f \in Sources : TreeOf(line.to)[f] \notin old \cup {NoRev}}
  IN Len(push.lines) = 1 =>
       /\ push.from \in push.had \cup {NoRev} \/ push.from \notin present =>
            new \cap push.here \subseteq push.selected
       /\ line.to = NoRev => push.selected = {}
=============================================================================
