---------------------------- MODULE AroundProofs ----------------------------
(* Proofs about what hk does around the steps it runs: the files that a    *)
(* pre-push hook is given (PushRange), the installation of the hooks       *)
(* (Install), the runs of the MCP server (McpRuns) and a patch that is     *)
(* applied or undone (ApplyPatch).                                         *)
EXTENDS PushRange, Install, McpRuns, ApplyPatch, FiniteSetTheorems, SequenceTheorems, TLAPS

(* The commits.                                                            *)
Commits == [up : SUBSET Nat, tree : [Sources -> Nat]]

(* A history: each commit's ancestors are older, itself excepted, and with *)
(* each of them it has theirs.                                             *)
HistoryOK ==
  /\ commits \in Seq(Commits)
  /\ \A c \in 1 .. Len(commits) :
       /\ c \in commits[c].up /\ commits[c].up \subseteq 1 .. c
       /\ \A d \in commits[c].up : commits[d].up \subseteq commits[c].up

Refs == [Branches -> 0 .. Len(commits)]

RefsOK ==
  /\ local \in Refs /\ tracked \in Refs /\ remote \in Refs
  /\ current \in Branches /\ present \subseteq 1 .. Len(commits)

(* The inductive invariant of the history that the pushes go by.           *)
PushInv == clone \in Clones /\ HistoryOK /\ RefsOK /\ NewIsChecked

(* What is known of a commit.                                              *)
LEMMA UpOfCommit ==
  ASSUME HistoryOK, NEW c \in 0 .. Len(commits)
  PROVE  /\ Up(c) \subseteq 1 .. Len(commits)
         /\ c # NoRev => c \in Up(c)
         /\ \A d \in Up(c) : d # NoRev /\ Up(d) \subseteq Up(c)
         /\ TreeOf(c) \in [Sources -> Nat]
<1>1. CASE c = NoRev
  BY <1>1 DEF Up, TreeOf, NoRev
<1>2. CASE c # NoRev
  <2>1. c \in 1 .. Len(commits) /\ Len(commits) \in Nat
    BY <1>2 DEF NoRev, HistoryOK
  <2>2. commits[c] \in Commits
    BY <2>1 DEF HistoryOK
  <2>3. commits[c].up \subseteq 1 .. c /\ c \in commits[c].up
    BY <2>1 DEF HistoryOK
  <2>4. Up(c) = commits[c].up /\ TreeOf(c) = commits[c].tree
    BY <1>2 DEF Up, TreeOf
  <2>5. ASSUME NEW d \in Up(c) PROVE d # NoRev /\ Up(d) \subseteq Up(c)
    <3>1. d \in 1 .. c
      BY <2>3, <2>4, <2>5
    <3>2. commits[d].up \subseteq commits[c].up
      BY <2>1, <2>4, <2>5 DEF HistoryOK
    <3> QED BY <3>1, <3>2, <2>1, <2>4 DEF Up, NoRev
  <2> QED BY <2>1, <2>2, <2>3, <2>4, <2>5 DEF Commits
<1> QED BY <1>1, <1>2

(* A commit made of some others keeps the history.                         *)
LEMMA CommitKeepsHistory ==
  ASSUME HistoryOK, NEW parents \in SUBSET (0 .. Len(commits)),
         NEW files \in [Sources -> Nat], NewCommit(parents, files), UNCHANGED clone
  PROVE  /\ HistoryOK' /\ Len(commits') = Len(commits) + 1
         /\ NextCommit = Len(commits')
<1> DEFINE ups == UNION {Up(p) : p \in parents}
<1> DEFINE n == Len(commits) + 1
<1> DEFINE new == [up |-> {n} \cup ups, tree |-> files]
<1>1. Len(commits) \in Nat /\ n \in Nat /\ commits \in Seq(Commits)
  BY DEF HistoryOK
<1>2. commits' = Append(commits, new)
  BY DEF NewCommit, NextCommit
<1>3. \A p \in parents : Up(p) \subseteq 1 .. Len(commits)
  BY UpOfCommit
<1>4. \A p \in parents : \A d \in Up(p) : d # NoRev /\ Up(d) \subseteq Up(p)
  BY UpOfCommit
<1>5. ups \subseteq 1 .. Len(commits)
  BY <1>3
<1>6. \A d \in ups : commits[d].up \subseteq ups
  BY <1>4 DEF Up
<1>7. new \in Commits
  BY <1>1, <1>5 DEF Commits
<1>8. Commits' = Commits
  BY DEF Commits, Sources
<1> HIDE DEF new, ups, n
<1>9. commits' \in Seq(Commits) /\ Len(commits') = n
  BY <1>1, <1>2, <1>7 DEF n
<1>10. \A c \in 1 .. Len(commits) : commits'[c] = commits[c]
  BY <1>1, <1>2, <1>7
<1>11. commits'[n] = new
  BY <1>1, <1>2, <1>7 DEF n
<1>12. new.up = {n} \cup ups
  BY DEF new
<1>13. ASSUME NEW c \in 1 .. n
       PROVE  /\ c \in commits'[c].up /\ commits'[c].up \subseteq 1 .. c
              /\ \A d \in commits'[c].up : commits'[d].up \subseteq commits'[c].up
  <2>1. CASE c = n
    <3>1. commits'[c].up = {n} \cup ups
      BY <2>1, <1>11, <1>12
    <3>2. ASSUME NEW d \in ups PROVE commits'[d].up \subseteq ups
      BY <3>2, <1>5, <1>6, <1>10
    <3>3. n \in 1 .. n /\ 1 .. Len(commits) \subseteq 1 .. n
      BY <1>1 DEF n
    <3> QED BY <3>1, <3>2, <3>3, <1>5, <2>1
  <2>2. CASE c # n
    <3>1. c \in 1 .. Len(commits)
      BY <2>2, <1>1 DEF n
    <3>2. commits'[c] = commits[c]
      BY <3>1, <1>10
    <3>3. /\ c \in commits[c].up /\ commits[c].up \subseteq 1 .. c
          /\ \A d \in commits[c].up : commits[d].up \subseteq commits[c].up
      BY <3>1 DEF HistoryOK
    <3>4. \A d \in 1 .. c : commits'[d] = commits[d]
      BY <3>1, <1>1, <1>10
    <3> QED BY <3>2, <3>3, <3>4
  <2> QED BY <2>1, <2>2
<1>14. HistoryOK'
  BY <1>8, <1>9, <1>13 DEF HistoryOK
<1> QED BY <1>9, <1>14 DEF NextCommit, n

(* The moves of the references that a commit of the user's makes.          *)
LEMMA LocalMoves ==
  ASSUME HistoryOK, RefsOK, NEW n \in Nat, n = Len(commits) + 1,
         HistoryOK', Len(commits') = n,
         local' = [local EXCEPT ![current] = n], present' = present \cup {n},
         UNCHANGED <<tracked, remote, current>>
  PROVE  RefsOK'
<1>1. Len(commits) \in Nat
  BY DEF HistoryOK
<1>2. 0 .. Len(commits) \subseteq 0 .. n /\ n \in 0 .. n /\ n \in 1 .. n
      /\ 1 .. Len(commits) \subseteq 1 .. n
  BY <1>1
<1> QED BY <1>2 DEF RefsOK, Refs

(* A tree written to.                                                      *)
LEMMA WritesTyped ==
  ASSUME HistoryOK, NEW files \in [Sources -> Nat], NEW f \in Sources, NEW t \in Writes(files, f)
  PROVE  t \in [Sources -> Nat]
<1>1. NextCommit \in Nat
  BY DEF HistoryOK, NextCommit
<1> QED BY <1>1 DEF Writes, NoRev

(* Nothing is pushed, and so all that is is checked.                       *)
LEMMA NothingPushed ==
  ASSUME push' = NoPush PROVE NewIsChecked'
<1>1. Len(push'.lines) = 0
  BY DEF NoPush
<1>2. ~(Len(push'.lines) = 1)
  BY <1>1
<1> QED BY <1>2 DEF NewIsChecked

(* A commit of the user's keeps the invariant.                             *)
LEMMA CommitKeeps == ASSUME PushInv, Commit PROVE PushInv'
<1> USE DEF PushInv
<1>1. local[current] \in 0 .. Len(commits)
  BY DEF RefsOK, Refs
<1>2. TreeOf(local[current]) \in [Sources -> Nat]
  BY <1>1, UpOfCommit
<1>3. PICK f \in Sources : \E t \in Writes(TreeOf(local[current]), f) :
        NewCommit({local[current]}, t)
  BY DEF Commit
<1>4. PICK t \in Writes(TreeOf(local[current]), f) : NewCommit({local[current]}, t)
  BY <1>3
<1>5. t \in [Sources -> Nat]
  BY <1>2, WritesTyped
<1>6. {local[current]} \in SUBSET (0 .. Len(commits)) /\ UNCHANGED clone
  BY <1>1 DEF Commit
<1>7. HistoryOK' /\ Len(commits') = Len(commits) + 1 /\ NextCommit = Len(commits')
  BY <1>4, <1>5, <1>6, CommitKeepsHistory
<1>8. RefsOK'
  <2>1. NextCommit \in Nat /\ NextCommit = Len(commits) + 1
    BY DEF HistoryOK, NextCommit
  <2>2. /\ local' = [local EXCEPT ![current] = NextCommit]
        /\ present' = present \cup {NextCommit} /\ UNCHANGED <<tracked, remote, current>>
    BY DEF Commit
  <2> QED BY <2>1, <2>2, <1>7, LocalMoves
<1> QED BY <1>6, <1>7, <1>8, NothingPushed DEF Commit

(* So does a merge, of whatever commit that there is.                      *)
LEMMA MergeKeeps ==
  ASSUME PushInv, NEW c \in 0 .. Len(commits), MergeIn(c) PROVE PushInv'
<1> USE DEF PushInv
<1>1. local[current] \in 0 .. Len(commits)
  BY DEF RefsOK, Refs
<1> DEFINE ours == TreeOf(local[current])
<1>2. ours \in [Sources -> Nat] /\ TreeOf(c) \in [Sources -> Nat]
  BY <1>1, UpOfCommit
<1> DEFINE mix(onto) == [f \in Sources |->
            IF TreeOf(c)[f] = TreeOf(onto)[f] THEN ours[f]
            ELSE IF ours[f] = TreeOf(onto)[f] THEN TreeOf(c)[f] ELSE NextCommit]
<1>3. PICK onto \in MergeBases(local[current], c) : NewCommit({local[current], c}, mix(onto))
  BY DEF MergeIn
<1>4. mix(onto) \in [Sources -> Nat]
  BY <1>2 DEF HistoryOK, NextCommit
<1>6. {local[current], c} \in SUBSET (0 .. Len(commits)) /\ UNCHANGED clone
  BY <1>1 DEF MergeIn
<1> HIDE DEF mix
<1>7. HistoryOK' /\ Len(commits') = Len(commits) + 1 /\ NextCommit = Len(commits')
  BY <1>3, <1>4, <1>6, CommitKeepsHistory
<1>8. RefsOK'
  <2>1. NextCommit \in Nat /\ NextCommit = Len(commits) + 1
    BY DEF HistoryOK, NextCommit
  <2>2. /\ local' = [local EXCEPT ![current] = NextCommit]
        /\ present' = present \cup {NextCommit} /\ UNCHANGED <<tracked, remote, current>>
    BY DEF MergeIn
  <2> QED BY <2>1, <2>2, <1>7, LocalMoves
<1> QED BY <1>6, <1>7, <1>8, NothingPushed DEF MergeIn

(* A commit that others push keeps the invariant.                          *)
LEMMA OthersPushKeeps ==
  ASSUME PushInv, NEW b \in Branches, OthersPush(b) PROVE PushInv'
<1> USE DEF PushInv
<1>1. remote[b] \in 0 .. Len(commits)
  BY DEF RefsOK, Refs
<1>2. TreeOf(remote[b]) \in [Sources -> Nat]
  BY <1>1, UpOfCommit
<1>3. PICK f \in Sources : \E t \in Writes(TreeOf(remote[b]), f) : NewCommit({remote[b]}, t)
  BY DEF OthersPush
<1>4. PICK t \in Writes(TreeOf(remote[b]), f) : NewCommit({remote[b]}, t)
  BY <1>3
<1>5. t \in [Sources -> Nat]
  BY <1>2, WritesTyped
<1>6. {remote[b]} \in SUBSET (0 .. Len(commits)) /\ UNCHANGED clone
  BY <1>1 DEF OthersPush
<1>7. HistoryOK' /\ Len(commits') = Len(commits) + 1 /\ NextCommit = Len(commits')
  BY <1>4, <1>5, <1>6, CommitKeepsHistory
<1>8. RefsOK'
  <2>1. Len(commits) \in Nat /\ NextCommit = Len(commits) + 1
    BY DEF HistoryOK, NextCommit
  <2>2. /\ remote' = [remote EXCEPT ![b] = NextCommit]
        /\ UNCHANGED <<local, tracked, current, present>>
    BY DEF OthersPush
  <2>3. 0 .. Len(commits) \subseteq 0 .. Len(commits') /\ NextCommit \in 0 .. Len(commits')
        /\ 1 .. Len(commits) \subseteq 1 .. Len(commits')
    BY <2>1, <1>7
  <2> QED BY <2>2, <2>3 DEF RefsOK, Refs
<1> QED BY <1>6, <1>7, <1>8, NothingPushed DEF OthersPush

(* What does not commit leaves the history.                                *)
LEMMA HistoryStays ==
  ASSUME HistoryOK, UNCHANGED <<commits, clone>> PROVE HistoryOK'
BY DEF HistoryOK, Commits, Sources

(* Another branch that is checked out keeps it.                            *)
LEMMA SwitchKeeps ==
  ASSUME PushInv, NEW b \in Branches, Switch(b) PROVE PushInv'
<1> USE DEF PushInv
<1>1. UNCHANGED <<commits, tracked, remote, clone, present>> /\ push' = NoPush
  BY DEF Switch
<1>2. current' = b
      /\ local' = [local EXCEPT ![b] = IF @ = NoRev THEN local[current] ELSE @]
  BY DEF Switch
<1>3. RefsOK'
  BY <1>1, <1>2 DEF RefsOK, Refs
<1> QED BY <1>1, <1>3, HistoryStays, NothingPushed

(* A fetch keeps the invariant.                                            *)
LEMMA FetchKeeps == ASSUME PushInv, Fetch PROVE PushInv'
<1> USE DEF PushInv
<1>1. UNCHANGED <<commits, local, remote, current, clone>> /\ push' = NoPush
  BY DEF Fetch
<1>2. /\ tracked' = [b \in Branches |-> IF remote[b] = NoRev THEN tracked[b] ELSE remote[b]]
      /\ present' = present \cup OnRemote
  BY DEF Fetch
<1>3. \A b \in Branches : remote[b] \in 0 .. Len(commits)
  BY DEF RefsOK, Refs
<1>4. OnRemote \subseteq 1 .. Len(commits)
  BY <1>3, UpOfCommit DEF OnRemote
<1>5. tracked' \in Refs
  BY <1>2 DEF RefsOK, Refs
<1>6. RefsOK'
  BY <1>1, <1>2, <1>4, <1>5 DEF RefsOK, Refs
<1> QED BY <1>1, <1>6, HistoryStays, NothingPushed

(* A push of lines to commits that there are.                              *)
LEMMA PushRefsKeeps ==
  ASSUME PushInv, NEW lines, \A l \in ToSet(lines) : l.to \in 0 .. Len(commits),
         PushRefs(lines)
  PROVE  PushInv'
<1> USE DEF PushInv
<1> DEFINE to == ToRef(lines)
<1> DEFINE from == FromRef(lines)
<1>1. UNCHANGED <<commits, local, current, clone, present>>
  BY DEF PushRefs
<1>2. RefsOK'
  <2> DEFINE at(b) == {l \in ToSet(lines) : l.branch = b}
  <2>1. remote' = [b \in Branches |->
                     IF \E l \in ToSet(lines) : l.branch = b
                     THEN (CHOOSE l \in ToSet(lines) : l.branch = b).to ELSE remote[b]]
        /\ tracked' = [b \in Branches |-> IF \E l \in ToSet(lines) : l.branch = b
                                         THEN remote'[b] ELSE tracked[b]]
    BY DEF PushRefs
  <2>2. ASSUME NEW b \in Branches, \E l \in ToSet(lines) : l.branch = b
        PROVE  (CHOOSE l \in ToSet(lines) : l.branch = b).to \in 0 .. Len(commits)
    BY <2>2
  <2>3. remote' \in Refs
    BY <2>1, <2>2 DEF RefsOK, Refs
  <2>4. tracked' \in Refs
    BY <2>1, <2>3 DEF RefsOK, Refs
  <2> QED BY <2>3, <2>4, <1>1 DEF RefsOK, Refs
<1>3. PICK onto \in Compared(from, to) :
        push' = [lines |-> lines, from |-> from, had |-> OnRemote, here |-> InWorktree,
                 selected |-> IF to = NoRev THEN {} ELSE files_between_refs(onto, to)]
  BY DEF PushRefs
<1> HIDE DEF to, from
<1>4. NewIsChecked'
  <2>1. SUFFICES ASSUME Len(lines) = 1
        PROVE  LET old  == {TreeOf(c)[f] : c \in OnRemote, f \in Sources}
                   new  == {f \in Sources : TreeOf(to)[f] \notin old \cup {NoRev}}
               IN  /\ from \in OnRemote \cup {NoRev} \/ from \notin present =>
                        new \cap InWorktree \subseteq push'.selected
                   /\ to = NoRev => push'.selected = {}
    <3>1. push'.lines = lines /\ push'.from = from /\ push'.had = OnRemote /\ push'.here = InWorktree
      BY <1>3
    <3>2. Len(lines) = 1 => to = lines[1].to
      BY DEF to, ToRef
    <3>3. \A c : TreeOf(c)' = TreeOf(c)
      BY <1>1 DEF TreeOf, Sources
    <3>4. Sources' = Sources
      BY <1>1 DEF Sources
    <3> DEFINE known == {TreeOf(c)[f] : c \in OnRemote, f \in Sources}
    <3> DEFINE was == {TreeOf(c)[f] : c \in push.had, f \in Sources}
    <3>5. was' = known
      BY <3>1, <3>3, <3>4
    <3>6. ASSUME NEW f, Len(lines) = 1
          PROVE TreeOf(push.lines[1].to)[f]' = TreeOf(to)[f]
      <4>1. push'.lines[1].to = to
        BY <3>1, <3>2, <3>6
      <4> QED BY <4>1, <1>1 DEF TreeOf, Sources
    <3>7. ASSUME Len(lines) = 1
          PROVE  {f \in Sources : TreeOf(push.lines[1].to)[f] \notin was \cup {NoRev}}'
                 = {f \in Sources : TreeOf(to)[f] \notin known \cup {NoRev}}
      <4> HIDE DEF was, known
      <4> QED BY <3>4, <3>5, <3>6, <3>7 DEF NoRev
    <3> QED BY <3>1, <3>2, <3>7, <1>1 DEF NewIsChecked, NoRev
  <2> DEFINE old == {TreeOf(c)[f] : c \in OnRemote, f \in Sources}
  <2>2. to = NoRev => push'.selected = {}
    BY <1>3
  <2>3. ASSUME from \in OnRemote \cup {NoRev} \/ from \notin present,
               NEW f \in Sources, TreeOf(to)[f] \notin old \cup {NoRev}, f \in InWorktree
        PROVE  f \in push'.selected
    <3>1. to # NoRev
      BY <2>3 DEF TreeOf
    <3>2. onto = NoRev \/ onto \in OnRemote
      <4>1. CASE from \notin present
        BY <4>1, <1>3 DEF Compared
      <4>2. CASE from \in present
        <5>1. from # NoRev
          BY <4>2 DEF RefsOK, NoRev, HistoryOK
        <5>2. from \in OnRemote
          BY <5>1, <4>2, <2>3
        <5>3. PICK b \in Branches : from \in Up(remote[b])
          BY <5>2 DEF OnRemote
        <5>4. remote[b] \in 0 .. Len(commits)
          BY DEF RefsOK, Refs
        <5>5. Up(from) \subseteq Up(remote[b])
          BY <5>3, <5>4, UpOfCommit
        <5>6. Up(from) \subseteq OnRemote
          BY <5>5 DEF OnRemote
        <5>7. onto = from \/ onto \in MergeBases(from, to)
          BY <4>2, <1>3 DEF Compared
        <5>8. onto = from \/ onto \in Up(from)
          BY <5>7 DEF MergeBases
        <5> QED BY <5>2, <5>6, <5>8
      <4> QED BY <4>1, <4>2
    <3>3. TreeOf(to)[f] # TreeOf(onto)[f]
      BY <3>2, <2>3 DEF TreeOf
    <3>4. f \in Differing(onto, to)
      BY <3>3, <2>3 DEF Differing
    <3>5. f \in files_between_refs(onto, to)
      BY <3>4, <2>3 DEF files_between_refs
    <3> QED BY <3>1, <3>5, <1>3
  <2> HIDE DEF old
  <2> QED BY <2>2, <2>3 DEF old
<1> QED BY <1>1, <1>2, <1>4, HistoryStays

(* A push of branches keeps the invariant.                                 *)
LEMMA PushKeeps == ASSUME PushInv, Push PROVE PushInv'
<1>1. PICK names \in SUBSET Branches \ {{}} : \E order \in SetToSeqs(names) :
        PushRefs([i \in DOMAIN order |-> Line(order[i], local[order[i]])])
  BY DEF Push
<1>2. PICK order \in SetToSeqs(names) :
        PushRefs([i \in DOMAIN order |-> Line(order[i], local[order[i]])])
  BY <1>1
<1> DEFINE lines == [i \in DOMAIN order |-> Line(order[i], local[order[i]])]
<1>3. \A i \in DOMAIN order : order[i] \in Branches
  BY <1>1 DEF SetToSeqs
<1>4. \A l \in ToSet(lines) : l.to \in 0 .. Len(commits)
  <2>1. DOMAIN lines = DOMAIN order /\ \A i \in DOMAIN order : lines[i].to = local[order[i]]
    BY DEF Line
  <2> HIDE DEF lines
  <2> QED BY <2>1, <1>3 DEF ToSet, PushInv, RefsOK, Refs
<1> HIDE DEF lines
<1> QED BY <1>2, <1>4, PushRefsKeeps DEF lines

(* A push that deletes a branch keeps it.                                  *)
LEMMA PushDeleteKeeps ==
  ASSUME PushInv, NEW b \in Branches, PushDelete(b) PROVE PushInv'
<1> DEFINE lines == <<Line(b, NoRev)>>
<1>1. PushRefs(lines)
  BY DEF PushDelete
<1>2. \A l \in ToSet(lines) : l.to = NoRev
  BY DEF ToSet, Line
<1>3. NoRev \in 0 .. Len(commits)
  BY DEF PushInv, HistoryOK, NoRev
<1> HIDE DEF lines
<1> QED BY <1>1, <1>2, <1>3, PushRefsKeeps

(* The invariant holds of every clone to begin with.                       *)
LEMMA PushInitOK == PushInit => PushInv
<1> SUFFICES ASSUME PushInit PROVE PushInv
  OBVIOUS
<1>1. clone \in Clones /\ clone.roots \in Nat \ {0} /\ "main" \in Branches
  BY ClonesAssumption DEF PushInit
<1> DEFINE n == clone.roots
<1>2. n \in Nat /\ n >= 1
  BY <1>1
<1>3. commits = [c \in 1 .. n |-> RootOf(c)]
  BY DEF PushInit
<1> HIDE DEF n
<1>4. \A c \in 1 .. n : RootOf(c) \in Commits /\ RootOf(c).up = {c}
  BY <1>2 DEF RootOf, Commits
<1>5. commits \in Seq(Commits) /\ Len(commits) = n
  BY <1>2, <1>3, <1>4
<1>6. HistoryOK
  BY <1>2, <1>3, <1>4, <1>5 DEF HistoryOK
<1>7. local \in Refs /\ remote \in Refs
  BY <1>2, <1>5 DEF PushInit, Refs, NoRev, n
<1>8. RefsOK
  BY <1>1, <1>5, <1>7 DEF PushInit, RefsOK, n
<1>9. NewIsChecked
  <2>1. Len(push.lines) = 0
    BY DEF PushInit, NoPush
  <2> QED BY <2>1 DEF NewIsChecked
<1> QED BY <1>1, <1>6, <1>8, <1>9 DEF PushInv

(* Every step keeps the invariant.                                         *)
LEMMA PushNextOK == PushInv /\ [PushNext]_pushVars => PushInv'
<1> SUFFICES ASSUME PushInv, [PushNext]_pushVars PROVE PushInv'
  OBVIOUS
<1>1. CASE PushNext
  <2>1. \A b \in Branches : local[b] \in 0 .. Len(commits) /\ tracked[b] \in 0 .. Len(commits)
    BY DEF PushInv, RefsOK, Refs
  <2> QED BY <1>1, <2>1, CommitKeeps, FetchKeeps, PushKeeps, MergeKeeps, SwitchKeeps,
             OthersPushKeeps, PushDeleteKeeps DEF PushNext
<1>2. CASE UNCHANGED pushVars
  <2>1. UNCHANGED <<commits, local, tracked, remote, current, clone, present, push>>
    BY <1>2 DEF pushVars
  <2>2. HistoryOK'
    BY <2>1, HistoryStays DEF PushInv
  <2>3. RefsOK'
    BY <2>1 DEF PushInv, RefsOK, Refs
  <2>4. \A c : TreeOf(c)' = TreeOf(c)
    BY <2>1 DEF TreeOf, Sources
  <2>5. NewIsChecked'
    BY <2>1, <2>4 DEF PushInv, NewIsChecked, Sources
  <2> QED BY <2>1, <2>2, <2>3, <2>5 DEF PushInv
<1> QED BY <1>1, <1>2

(* A push of one branch checks every file whose contents the remote has in  *)
(* none of its commits, whatever was committed, merged, fetched and pushed  *)
(* before, and by whom (PushRange).                                        *)
THEOREM NewFilesAreChecked == PushSpec => []NewIsChecked
<1>1. PushInv => NewIsChecked
  BY DEF PushInv
<1> QED BY <1>1, PushInitOK, PushNextOK, PTL DEF PushSpec

-----------------------------------------------------------------------------
(* Install.                                                                *)

(* Where a command is once it may change the hooks.                        *)
Writing == {"scripts", "remove", "list", "unset", "write", "replace"}

Insts ==
  [at : {"off", "look", "check", "lock"} \cup Writing, todo : Seq(AnyCommand),
   cmd : AnyCommand \cup {Uninstall("none")}, skip : BOOLEAN, keys : SUBSET ConfigKeys,
   write : Seq(ConfigKeys \cup Events), sure : BOOLEAN,
   hooks : SUBSET Events, target : Events \cup {"none"}, unseen : BOOLEAN]

(* What the command is to leave in the repository.                         *)
Keeps(p)       == Cmd(p).does = "install" /\ ~inst[p].skip
KeysGoal(p)    == IF Keeps(p) /\ ~Cmd(p).legacy
                  THEN {"command", "event"} \X Cmd(p).events ELSE {}
ScriptsGoal(p) == IF Keeps(p) /\ Cmd(p).legacy THEN Cmd(p).events ELSE {}
ToWrite(p)     == ToSet(inst[p].write)

InstallTypes ==
  /\ entry \in [Scopes -> SUBSET ConfigKeys]
  /\ script \in [Events -> {"none", "hk", "other"}]
  /\ inst \in [Installers -> Insts]
  /\ meant \in [whole : BOOLEAN, keys : SUBSET ConfigKeys, scripts : SUBSET Events,
                once : BOOLEAN]

(* The lock is held by the one command that writes to the repository.      *)
PlaceOK(p) ==
  /\ At(p) # "off" => Cmd(p) \in AnyCommand
  /\ At(p) # "off" /\ Cmd(p).scope = "global" => At(p) \in {"list", "unset", "write"}
  /\ lock = p <=> At(p) \in Writing /\ Cmd(p).scope = "local"
  /\ At(p) = "replace" => Cmd(p).legacy
  /\ At(p) \in {"write", "replace"} =>
       ToWrite(p) \subseteq IF Cmd(p).legacy THEN ScriptsGoal(p) ELSE ConfigKeys

PlacesOK == lock \in Installers \cup {"free"} /\ \A p \in Installers : PlaceOK(p)

NoScript == \A e \in Events : script[e] # "hk"

(* A hook of another's that p is about to take away is one it did not see. *)
Unseen(p) ==
  /\ inst[p].target \in Events
  /\ script[inst[p].target] = "other" =>
       inst[p].unseen \/ (At(p) = "replace" /\ Cmd(p).force)

(* How far who holds the lock is.                                          *)
Progress(p) ==
  /\ At(p) = "scripts" => \A e \in Events : script[e] = "hk" => e \in inst[p].hooks
  /\ At(p) = "remove" =>
       \A e \in Events : script[e] = "hk" => e \in inst[p].hooks \cup {inst[p].target}
  /\ At(p) = "list" => NoScript
  /\ At(p) = "unset" => NoScript /\ entry["local"] = inst[p].keys
  /\ At(p) \in {"remove", "replace"} => Unseen(p)
  /\ At(p) = "replace" => inst[p].write # <<>> /\ inst[p].target = Head(inst[p].write)
  /\ At(p) \in {"write", "replace"} =>
       /\ IF Cmd(p).legacy THEN entry["local"] = {} ELSE entry["local"] \cup ToWrite(p) = KeysGoal(p)
       /\ \A e \in Events : script[e] = "hk" => e \in ScriptsGoal(p)
       /\ \A e \in ScriptsGoal(p) : script[e] # "none" \/ e \in ToWrite(p)

HeldOK == lock # "free" => ~meant.whole /\ Progress(lock)

(* Who looked at the user's configuration is right about it as long as it  *)
(* is sure.                                                                *)
SureOf(p) ==
  /\ At(p) \in {"check", "lock"} \cup Writing
  /\ Cmd(p).does = "install" /\ Cmd(p).scope = "local" /\ ~Cmd(p).forceLocal
  /\ inst[p].sure /\ ~inst[p].skip
  => ~HasGlobal

SureOK == \A p \in Installers : SureOf(p)

OnceOK ==
  meant.whole /\ meant.once => meant.scripts = {} \/ (meant.keys = {} /\ ~HasGlobal)

InstallInv ==
  /\ InstallTypes /\ PlacesOK /\ HeldOK /\ SureOK /\ HooksAreWhole /\ OnceOK /\ ~lost

(* What a step of another process leaves of a process.                     *)
Same(q) ==
  /\ At(q)' = At(q) /\ Cmd(q)' = Cmd(q) /\ inst'[q].skip = inst[q].skip
  /\ inst'[q].keys = inst[q].keys /\ inst'[q].write = inst[q].write
  /\ inst'[q].hooks = inst[q].hooks /\ inst'[q].target = inst[q].target
  /\ (inst'[q].sure => inst[q].sure) /\ (inst[q].unseen => inst'[q].unseen)

(* The commands that there are.                                            *)
LEMMA CommandTypes ==
  ASSUME NEW c \in AnyCommand
  PROVE  /\ c.does \in {"install", "uninstall"} /\ c.scope \in {"global", "local"}
         /\ c.events \in SUBSET Events
         /\ c.legacy \in BOOLEAN /\ c.force \in BOOLEAN /\ c.forceLocal \in BOOLEAN
         /\ c.scope = "global" \/ c.does = "uninstall" => ~c.legacy
<1>1. CASE \E E \in SUBSET Events, legacy, forceLocal, force \in BOOLEAN :
             c = Local(E, legacy, forceLocal, force)
  BY <1>1 DEF Local
<1>2. CASE \E E \in SUBSET Events : c = Global(E)
  BY <1>2 DEF Global
<1>3. CASE \E s \in Scopes : c = Uninstall(s)
  BY <1>3, InstallAssumption DEF Uninstall
<1> QED BY <1>1, <1>2, <1>3 DEF AnyCommand

(* The others are where they were and are as sure.                         *)
LEMMA OthersStay ==
  ASSUME NEW q \in Installers, PlaceOK(q), SureOf(q), Same(q), lock' = q <=> lock = q,
         inst'[q].sure => HasGlobal' = HasGlobal
  PROVE  PlaceOK(q)' /\ SureOf(q)'
<1>1. PlaceOK(q)'
  BY DEF PlaceOK, Same, ToWrite, At, Cmd, ScriptsGoal, Keeps
<1>2. SureOf(q)'
  BY DEF SureOf, Same, At, Cmd
<1> QED BY <1>1, <1>2

(* Who holds the lock is as far as before.                                 *)
LEMMA OthersProgress ==
  ASSUME NEW q \in Installers, Progress(q), Same(q), entry'["local"] = entry["local"],
         UNCHANGED script
  PROVE  Progress(q)'
BY DEF Progress, Same, ToWrite, At, Cmd, KeysGoal, ScriptsGoal, Keeps, NoScript, Unseen

(* Any end of a command.                                                   *)
LEMMA EndsAt ==
  ASSUME InstallInv, NEW p \in Installers, InstallEnds(p), UNCHANGED <<entry, script>>
  PROVE  /\ inst' \in [Installers -> Insts]
         /\ \A q \in Installers \ {p} : inst'[q] = inst[q]
         /\ lock' = IF lock = p THEN "free" ELSE lock
         /\ HasGlobal' = HasGlobal /\ PlacesOK' /\ SureOK'
<1>1. inst' \in [Installers -> Insts] /\ inst'[p].at = "off"
      /\ \A q \in Installers \ {p} : inst'[q] = inst[q]
  <2>1. inst' = [inst EXCEPT ![p].at = "off", ![p].keys = {}, ![p].write = <<>>,
                             ![p].hooks = {}, ![p].target = "none", ![p].unseen = FALSE]
    BY DEF InstallEnds
  <2>2. inst \in [Installers -> Insts]
    BY DEF InstallInv, InstallTypes
  <2>3. <<>> \in Seq(ConfigKeys \cup Events)
    OBVIOUS
  <2>4. inst[p] \in Insts
    BY <2>2
  <2> DEFINE moved == [inst[p] EXCEPT !.at = "off", !.keys = {}, !.write = <<>>,
                                      !.hooks = {}, !.target = "none", !.unseen = FALSE]
  <2>5. moved \in Insts /\ moved.at = "off"
    BY <2>3, <2>4 DEF Insts
  <2>6. inst' = [inst EXCEPT ![p] = moved]
    BY <2>1, <2>2
  <2> HIDE DEF moved
  <2> QED BY <2>2, <2>5, <2>6
<1>2. lock' = IF lock = p THEN "free" ELSE lock
  BY DEF InstallEnds, Unlocked
<1>3. "free" \notin Installers
  BY InstallAssumption
<1>4. HasGlobal' = HasGlobal
  BY DEF HasGlobal
<1>5. \A q \in Installers \ {p} : PlaceOK(q)' /\ SureOf(q)'
  <2>1. \A q \in Installers \ {p} : Same(q)
    BY <1>1 DEF Same, At, Cmd
  <2> QED BY <2>1, <1>2, <1>3, <1>4, OthersStay DEF InstallInv, PlacesOK, SureOK
<1>6. PlaceOK(p)' /\ SureOf(p)'
  BY <1>1, <1>2, <1>3 DEF PlaceOK, SureOf, At, Cmd, Writing
<1>7. PlacesOK' /\ SureOK'
  BY <1>2, <1>5, <1>6 DEF InstallInv, PlacesOK, SureOK
<1> QED BY <1>1, <1>2, <1>4, <1>7

(* It leaves no trace but the lock that is free.                           *)
LEMMA EndsKeep ==
  ASSUME InstallInv, NEW p \in Installers, InstallEnds(p), UNCHANGED <<entry, script, meant, lost>>
  PROVE  InstallInv'
<1>1. /\ inst' \in [Installers -> Insts]
      /\ \A q \in Installers \ {p} : inst'[q] = inst[q]
      /\ lock' = IF lock = p THEN "free" ELSE lock
      /\ HasGlobal' = HasGlobal /\ PlacesOK' /\ SureOK'
  BY EndsAt
<1>2. "free" \notin Installers
  BY InstallAssumption
<1>7. HeldOK'
  <2>1. CASE lock = p
    BY <2>1, <1>1 DEF HeldOK
  <2>2. CASE lock # p /\ lock # "free"
    <3>1. lock \in Installers \ {p} /\ lock' = lock /\ Progress(lock) /\ ~meant.whole
      BY <2>2, <1>1 DEF InstallInv, PlacesOK, HeldOK
    <3>2. Same(lock)
      BY <3>1, <1>1 DEF Same, At, Cmd
    <3>3. ASSUME NEW q \in Installers, q = lock PROVE Progress(q)'
      BY <3>1, <3>2, <3>3, OthersProgress
    <3> QED BY <3>1, <3>3 DEF HeldOK, Progress, At, Cmd, ToWrite, KeysGoal, ScriptsGoal, Keeps, NoScript, Unseen
  <2>3. CASE lock = "free"
    BY <2>3, <1>1, <1>2 DEF HeldOK
  <2> QED BY <2>1, <2>2, <2>3
<1>8. InstallTypes'
  BY <1>1 DEF InstallInv, InstallTypes
<1>10. HooksAreWhole'
  BY <1>1 DEF InstallInv, HooksAreWhole, HeldOK
<1>11. OnceOK' /\ ~lost'
  BY <1>1 DEF InstallInv, OnceOK
<1> QED BY <1>1, <1>7, <1>8, <1>10, <1>11 DEF InstallInv

(* Keys of the user's configuration as before: who has hooks there, too.   *)
LEMMA GlobalStays ==
  ASSUME entry'["global"] = entry["global"] PROVE HasGlobal' = HasGlobal
BY DEF HasGlobal

(* A step of one process leaves the others.                                *)
LEMMA OneMoves ==
  ASSUME InstallTypes, NEW p \in Installers, NEW f \in Insts, inst' = [inst EXCEPT ![p] = f]
  PROVE  /\ inst' \in [Installers -> Insts] /\ inst'[p] = f
         /\ \A q \in Installers \ {p} : inst'[q] = inst[q] /\ Same(q)
BY DEF InstallTypes, Same, At, Cmd

(* A step of a command that goes on, and that writes to the repository only *)
(* if it holds the lock.                                                   *)
LEMMA StepKeeps ==
  ASSUME InstallInv, NEW p \in Installers,
         \E f \in Insts : inst' = [inst EXCEPT ![p] = f],
         UNCHANGED <<lock, meant>>, entry'["global"] = entry["global"],
         lock # p => UNCHANGED <<entry, script>>,
         lock = p => Progress(p)',
         entry' \in [Scopes -> SUBSET ConfigKeys] /\ script' \in [Events -> {"none", "hk", "other"}],
         PlaceOK(p)' /\ SureOf(p)' /\ ~lost'
  PROVE  InstallInv'
<1>1. /\ inst' \in [Installers -> Insts]
      /\ \A q \in Installers \ {p} : inst'[q] = inst[q] /\ Same(q)
  BY OneMoves DEF InstallInv
<1>2. HasGlobal' = HasGlobal
  BY GlobalStays
<1>3. \A q \in Installers \ {p} : PlaceOK(q)' /\ SureOf(q)'
  BY <1>1, <1>2, OthersStay DEF InstallInv, PlacesOK, SureOK
<1>4. HeldOK'
  <2>1. CASE lock = p
    BY <2>1 DEF HeldOK, InstallInv, Progress, At, Cmd, ToWrite, KeysGoal, ScriptsGoal, Keeps, NoScript, Unseen
  <2>2. CASE lock # p /\ lock # "free"
    <3>1. lock \in Installers \ {p} /\ lock' = lock /\ Progress(lock) /\ ~meant.whole
      BY <2>2 DEF InstallInv, PlacesOK, HeldOK
    <3>2. UNCHANGED <<entry, script>>
      BY <2>2
    <3>3. ASSUME NEW q \in Installers, q = lock PROVE Progress(q)'
      BY <3>1, <3>2, <3>3, <1>1, OthersProgress
    <3> QED BY <3>1, <3>3 DEF HeldOK, Progress, At, Cmd, ToWrite, KeysGoal, ScriptsGoal, Keeps, NoScript, Unseen
  <2>3. CASE lock = "free"
    BY <2>3 DEF HeldOK
  <2> QED BY <2>1, <2>2, <2>3
<1>5. InstallTypes'
  BY <1>1 DEF InstallInv, InstallTypes
<1>6. PlacesOK' /\ SureOK'
  BY <1>3 DEF InstallInv, PlacesOK, SureOK
<1>7. "free" \notin Installers
  BY InstallAssumption
<1>8. HooksAreWhole'
  BY <1>7 DEF InstallInv, HooksAreWhole
<1>9. OnceOK'
  BY <1>2 DEF InstallInv, OnceOK
<1> QED BY <1>4, <1>5, <1>6, <1>8, <1>9 DEF InstallInv

(* What is known of a process and of its command.                          *)
LEMMA TypedProcess ==
  ASSUME InstallInv, NEW p \in Installers
  PROVE  inst[p] \in Insts /\ PlaceOK(p) /\ SureOf(p) /\ (lock = p => ~meant.whole /\ Progress(p))
<1>1. inst[p] \in Insts /\ PlaceOK(p) /\ SureOf(p)
  BY DEF InstallInv, InstallTypes, PlacesOK, SureOK
<1>2. "free" \notin Installers
  BY InstallAssumption
<1>3. lock = p => ~meant.whole /\ Progress(p)
  BY <1>2 DEF InstallInv, HeldOK, Progress, At, Cmd, ToWrite, KeysGoal, ScriptsGoal, Keeps, NoScript, Unseen
<1> QED BY <1>1, <1>3

(* A command that begins keeps the invariant of Install.                   *)
LEMMA BeginKeeps ==
  ASSUME InstallInv, NEW p \in Installers, BeginCommand(p) PROVE InstallInv'
<1> DEFINE c == Head(inst[p].todo)
<1> DEFINE place == CASE c.scope = "global" -> "list"
                      [] c.scope # "global" /\ c.does = "uninstall" -> "lock"
                      [] OTHER -> IF c.forceLocal THEN "check" ELSE "look"
<1> DEFINE f == [NewInst EXCEPT !.cmd = c, !.todo = Tail(inst[p].todo), !.at = place]
<1>1. At(p) = "off" /\ inst[p] \in Insts /\ inst[p].todo # <<>> /\ PlaceOK(p)
  BY TypedProcess DEF BeginCommand
<1>2. c \in AnyCommand /\ Tail(inst[p].todo) \in Seq(AnyCommand)
  BY <1>1 DEF Insts
<1>3. /\ place \in {"list", "lock", "check", "look"}
      /\ place = "list" <=> c.scope = "global"
      /\ place = "lock" => c.does = "uninstall"
      /\ place = "check" => c.forceLocal
  <2>1. /\ c.does \in {"install", "uninstall"} /\ c.scope \in {"global", "local"}
        /\ c.forceLocal \in BOOLEAN
    BY <1>2, CommandTypes
  <2> HIDE DEF c
  <2>2. CASE c.scope = "global"
    BY <2>2
  <2>3. CASE c.scope # "global" /\ c.does = "uninstall"
    BY <2>3
  <2>4. CASE c.scope # "global" /\ c.does # "uninstall"
    BY <2>4, <2>1
  <2> QED BY <2>2, <2>3, <2>4
<1>4. inst' = [inst EXCEPT ![p] = f] /\ UNCHANGED <<entry, script, lock, meant, lost>>
  BY DEF BeginCommand
<1> HIDE DEF c, place
<1>5. <<>> \in Seq(ConfigKeys \cup Events)
  OBVIOUS
<1>6. NewInst \in Insts
  <2>1. <<>> \in Seq(AnyCommand)
    OBVIOUS
  <2> QED BY <2>1, <1>5 DEF NewInst, Insts
<1>7. f \in Insts
  BY <1>2, <1>3, <1>6 DEF Insts, Writing
<1>8. f.at = place /\ f.cmd = c
  BY <1>6 DEF Insts
<1> HIDE DEF f
<1>9. inst'[p] = f
  BY <1>4, <1>7, OneMoves DEF InstallInv
<1>10. lock # p
  BY <1>1 DEF PlaceOK, Writing
<1>11. PlaceOK(p)'
  BY <1>2, <1>3, <1>4, <1>8, <1>9, <1>10 DEF PlaceOK, At, Cmd, Writing
<1>12. SureOf(p)'
  <2>1. ~(place \in {"check", "lock"} \cup Writing /\ c.does = "install" /\ c.scope = "local"
         /\ ~c.forceLocal)
    BY <1>3 DEF Writing
  <2> QED BY <2>1, <1>8, <1>9 DEF SureOf, At, Cmd
<1> QED BY <1>4, <1>7, <1>10, <1>11, <1>12, StepKeeps DEF InstallInv, InstallTypes

(* The process at another place.                                           *)
LEMMA MovedProcess ==
  ASSUME NEW f \in Insts, NEW at \in {"off", "look", "check", "lock"} \cup Writing
  PROVE  /\ [f EXCEPT !.at = at] \in Insts /\ [f EXCEPT !.at = at].at = at
         /\ [f EXCEPT !.at = at].cmd = f.cmd /\ [f EXCEPT !.at = at].skip = f.skip
         /\ [f EXCEPT !.at = at].keys = f.keys /\ [f EXCEPT !.at = at].write = f.write
         /\ [f EXCEPT !.at = at].sure = f.sure /\ [f EXCEPT !.at = at].hooks = f.hooks
BY DEF Insts

(* A process that is just elsewhere.                                       *)
LEMMA GotoKeeps ==
  ASSUME InstallInv, NEW p \in Installers, NEW at \in {"off", "look", "check", "lock"} \cup Writing,
         Goto(p, at)
  PROVE  /\ \E f \in Insts : inst' = [inst EXCEPT ![p] = f]
         /\ inst'[p].at = at /\ inst'[p].cmd = inst[p].cmd /\ inst'[p].skip = inst[p].skip
         /\ inst'[p].keys = inst[p].keys /\ inst'[p].write = inst[p].write
         /\ inst'[p].sure = inst[p].sure /\ inst'[p].hooks = inst[p].hooks
<1> DEFINE f == [inst[p] EXCEPT !.at = at]
<1>1. inst[p] \in Insts
  BY TypedProcess
<1>2. inst' = [inst EXCEPT ![p] = f]
  BY DEF Goto
<1>3. /\ f \in Insts /\ f.at = at /\ f.cmd = inst[p].cmd /\ f.skip = inst[p].skip
      /\ f.keys = inst[p].keys /\ f.write = inst[p].write /\ f.sure = inst[p].sure
      /\ f.hooks = inst[p].hooks
  BY <1>1, MovedProcess
<1> HIDE DEF f
<1>4. inst'[p] = f
  BY <1>2, <1>3, OneMoves DEF InstallInv
<1> QED BY <1>2, <1>3, <1>4

(* The look at the user's configuration: hk is sure of what it saw.        *)
LEMMA LookKeeps ==
  ASSUME InstallInv, NEW p \in Installers, LookAtGlobal(p) PROVE InstallInv'
<1> DEFINE place == IF HasGlobal THEN "lock" ELSE "check"
<1> DEFINE f == [inst[p] EXCEPT !.at = place, !.skip = HasGlobal]
<1>1. At(p) = "look" /\ inst[p] \in Insts /\ PlaceOK(p)
  BY TypedProcess DEF LookAtGlobal
<1>2. inst' = [inst EXCEPT ![p] = f] /\ UNCHANGED <<entry, script, lock, meant, lost>>
  BY <1>1 DEF LookAtGlobal
<1>3. HasGlobal \in BOOLEAN
  BY DEF HasGlobal
<1>4. /\ f \in Insts /\ f.at = place /\ f.cmd = inst[p].cmd /\ f.write = inst[p].write
      /\ f.skip = HasGlobal
  BY <1>1, <1>3 DEF Insts
<1> HIDE DEF f
<1>5. inst'[p] = f
  BY <1>2, <1>4, OneMoves DEF InstallInv
<1>6. lock # p
  BY <1>1 DEF PlaceOK, Writing
<1>7. PlaceOK(p)'
  BY <1>1, <1>2, <1>4, <1>5, <1>6 DEF PlaceOK, At, Cmd, Writing
<1>8. SureOf(p)'
  BY <1>2, <1>4, <1>5 DEF SureOf, At, Cmd, HasGlobal
<1> QED BY <1>2, <1>4, <1>6, <1>7, <1>8, StepKeeps DEF InstallInv, InstallTypes

(* The check of the targets keeps the invariant.                           *)
LEMMA CheckKeeps ==
  ASSUME InstallInv, NEW p \in Installers, CheckTargets(p) PROVE InstallInv'
<1>1. CASE InstallEnds(p)
  BY <1>1, EndsKeep DEF CheckTargets
<1>2. CASE ~InstallEnds(p)
  <2>1. At(p) = "check" /\ Goto(p, "lock") /\ UNCHANGED <<entry, script, lock, meant, lost>>
    BY <1>2 DEF CheckTargets
  <2>2. /\ \E f \in Insts : inst' = [inst EXCEPT ![p] = f]
        /\ inst'[p].at = "lock" /\ inst'[p].cmd = inst[p].cmd /\ inst'[p].skip = inst[p].skip
        /\ inst'[p].sure = inst[p].sure
    BY <2>1, GotoKeeps
  <2>3. PlaceOK(p) /\ SureOf(p)
    BY TypedProcess
  <2>4. lock # p
    BY <2>1, <2>3 DEF PlaceOK, Writing
  <2>5. PlaceOK(p)'
    BY <2>1, <2>2, <2>3, <2>4 DEF PlaceOK, At, Cmd, Writing
  <2>6. SureOf(p)'
    BY <2>1, <2>2, <2>3 DEF SureOf, At, Cmd, HasGlobal
  <2> QED BY <2>1, <2>2, <2>4, <2>5, <2>6, StepKeeps DEF InstallInv, InstallTypes
<1> QED BY <1>1, <1>2

(* Who takes the lock has it for itself.                                   *)
LEMMA LockKeeps ==
  ASSUME InstallInv, NEW p \in Installers, LockConfig(p) PROVE InstallInv'
<1> DEFINE f == [inst[p] EXCEPT !.at = "scripts", !.hooks = Events]
<1>1. At(p) = "lock" /\ lock = "free" /\ lock' = p /\ meant' = Unknown
      /\ inst' = [inst EXCEPT ![p] = f] /\ UNCHANGED <<entry, script, lost>>
  BY DEF LockConfig, MayLock
<1>2. "free" \notin Installers
  BY InstallAssumption
<1>3. /\ f \in Insts /\ f.at = "scripts" /\ f.cmd = inst[p].cmd /\ f.skip = inst[p].skip
      /\ f.sure = inst[p].sure /\ f.hooks = Events
  BY TypedProcess DEF Insts, Writing
<1> HIDE DEF f
<1>4. PlaceOK(p) /\ SureOf(p) /\ inst'[p] = f
  BY <1>1, <1>3, TypedProcess, OneMoves DEF InstallInv
<1>5. /\ inst' \in [Installers -> Insts]
      /\ \A q \in Installers \ {p} : inst'[q] = inst[q] /\ Same(q)
  BY <1>1, <1>3, OneMoves DEF InstallInv
<1>6. HasGlobal' = HasGlobal
  BY <1>1, GlobalStays
<1>7. \A q \in Installers \ {p} : PlaceOK(q)' /\ SureOf(q)'
  BY <1>1, <1>2, <1>5, <1>6, OthersStay DEF InstallInv, PlacesOK, SureOK
<1>8. PlaceOK(p)'
  <2>1. Cmd(p) \in AnyCommand /\ Cmd(p).scope # "global"
    BY <1>1, <1>4 DEF PlaceOK
  <2>2. Cmd(p).scope = "local"
    BY <2>1, CommandTypes
  <2> QED BY <1>1, <1>3, <1>4, <2>1, <2>2 DEF PlaceOK, At, Cmd, Writing
<1>9. SureOf(p)'
  BY <1>1, <1>3, <1>4, <1>6 DEF SureOf, At, Cmd, Writing
<1>10. meant'.whole = FALSE /\ meant' \in [whole : BOOLEAN, keys : SUBSET ConfigKeys,
                                         scripts : SUBSET Events, once : BOOLEAN]
  BY <1>1 DEF Unknown
<1>11. HeldOK'
  <2>1. Progress(p)'
    BY <1>3, <1>4 DEF Progress, At
  <2> QED BY <2>1, <1>1, <1>10 DEF HeldOK, Progress, At, Cmd, ToWrite, KeysGoal, ScriptsGoal, Keeps, NoScript, Unseen
<1>12. InstallTypes'
  BY <1>1, <1>5, <1>10 DEF InstallInv, InstallTypes
<1>13. PlacesOK' /\ SureOK'
  BY <1>1, <1>7, <1>8, <1>9 DEF PlacesOK, SureOK
<1> QED BY <1>1, <1>10, <1>11, <1>12, <1>13 DEF InstallInv, HooksAreWhole, OnceOK

(* A command that may write holds the lock, or is for the user's           *)
(* configuration.                                                          *)
LEMMA WritersScope ==
  ASSUME InstallInv, NEW p \in Installers, At(p) \in Writing
  PROVE  /\ Cmd(p) \in AnyCommand
         /\ Cmd(p).scope = "local" <=> lock = p
         /\ Cmd(p).scope \in Scopes /\ Cmd(p).scope \in {"local", "global"}
<1>1. PlaceOK(p)
  BY TypedProcess
<1>2. At(p) # "off"
  BY DEF Writing
<1>3. Cmd(p) \in AnyCommand
  BY <1>1, <1>2 DEF PlaceOK
<1> QED BY <1>1, <1>3, CommandTypes, InstallAssumption DEF PlaceOK

(* A step of who holds the lock: it is elsewhere, and may change one hook. *)
LEMMA HolderKeeps ==
  ASSUME InstallInv, NEW p \in Installers, lock = p, At(p) \in Writing, NEW f \in Insts,
         f.cmd = Cmd(p), f.skip = inst[p].skip, f.sure = inst[p].sure, f.at \in Writing,
         inst' = [inst EXCEPT ![p] = f], UNCHANGED <<entry, lock, meant>>,
         f.at = "replace" => Cmd(p).legacy,
         f.at \in {"write", "replace"} =>
           ToSet(f.write) \subseteq IF Cmd(p).legacy THEN ScriptsGoal(p) ELSE ConfigKeys,
         script' \in [Events -> {"none", "hk", "other"}], ~lost',
         inst'[p] = f => Progress(p)'
  PROVE  InstallInv'
<1>1. PlaceOK(p) /\ SureOf(p)
  BY TypedProcess
<1>2. inst'[p] = f
  BY OneMoves DEF InstallInv
<1>3. Cmd(p) \in AnyCommand /\ Cmd(p).scope = "local"
  BY WritersScope
<1>4. ScriptsGoal(p)' = ScriptsGoal(p) /\ ToWrite(p)' = ToSet(f.write)
  BY <1>2 DEF ScriptsGoal, ToWrite, Keeps, Cmd
<1>5. PlaceOK(p)'
  BY <1>2, <1>3, <1>4 DEF PlaceOK, At, Cmd, Writing
<1>6. SureOf(p)'
  BY <1>1, <1>2 DEF SureOf, At, Cmd, HasGlobal
<1> QED BY <1>2, <1>5, <1>6, StepKeeps DEF InstallInv, InstallTypes

(* Who removes scripts holds the lock.                                     *)
LEMMA ScriptsUnderLock ==
  ASSUME InstallInv, NEW p \in Installers, At(p) \in {"scripts", "remove", "replace"}
  PROVE  /\ lock = p /\ inst[p] \in Insts /\ Progress(p) /\ PlaceOK(p)
         /\ At(p) \in Writing /\ Cmd(p) \in AnyCommand
<1>1. inst[p] \in Insts /\ PlaceOK(p) /\ (lock = p => Progress(p)) /\ At(p) \in Writing
  BY TypedProcess DEF Writing
<1>2. /\ Cmd(p) \in AnyCommand /\ (Cmd(p).scope = "local" <=> lock = p)
      /\ Cmd(p).scope \in {"local", "global"}
  BY <1>1, WritersScope
<1> QED BY <1>1, <1>2 DEF PlaceOK, Writing

(* A look at a script: it is hk's and to be removed, or is left.           *)
LEMMA ReadScriptKeeps ==
  ASSUME InstallInv, NEW p \in Installers, ReadScript(p) PROVE InstallInv'
<1>1. At(p) = "scripts" /\ UNCHANGED <<entry, script, lock, meant, lost>>
  BY DEF ReadScript
<1>2. lock = p /\ inst[p] \in Insts /\ Progress(p) /\ At(p) \in Writing
  BY <1>1, ScriptsUnderLock
<1>3. \A e \in Events : script[e] = "hk" => e \in inst[p].hooks
  BY <1>1, <1>2 DEF Progress
<1>4. script' \in [Events -> {"none", "hk", "other"}] /\ ~lost'
  BY <1>1 DEF InstallInv, InstallTypes
<1>5. CASE inst[p].hooks = {}
  <2> DEFINE f == [inst[p] EXCEPT !.at = "list"]
  <2>1. inst' = [inst EXCEPT ![p] = f]
    BY <1>5 DEF ReadScript, Goto
  <2>2. /\ f \in Insts /\ f.at = "list" /\ f.cmd = Cmd(p) /\ f.skip = inst[p].skip
        /\ f.sure = inst[p].sure
    BY <1>2, MovedProcess DEF Cmd, Writing
  <2> HIDE DEF f
  <2>3. inst'[p] = f => Progress(p)'
    BY <1>1, <1>3, <1>5, <2>2 DEF Progress, At, NoScript
  <2> QED BY <1>1, <1>2, <1>4, <2>1, <2>2, <2>3, HolderKeeps DEF Writing
<1>6. CASE inst[p].hooks # {}
  <2>1. PICK e \in inst[p].hooks : inst' = [inst EXCEPT ![p] =
          IF IsShim(e)
          THEN [[inst[p] EXCEPT !.hooks = @ \ {e}] EXCEPT !.at = "remove", !.target = e]
          ELSE [inst[p] EXCEPT !.hooks = @ \ {e}]]
    BY <1>6 DEF ReadScript
  <2> USE DEF IsShim
  <2>2. e \in Events
    BY <1>2 DEF Insts
  <2>3. CASE script[e] = "hk"
    <3> DEFINE f == [[inst[p] EXCEPT !.hooks = @ \ {e}] EXCEPT !.at = "remove", !.target = e]
    <3>1. inst' = [inst EXCEPT ![p] = f]
      BY <2>1, <2>3
    <3>2. /\ f \in Insts /\ f.at = "remove" /\ f.cmd = Cmd(p) /\ f.skip = inst[p].skip
          /\ f.sure = inst[p].sure /\ f.target = e /\ f.hooks = inst[p].hooks \ {e}
      BY <1>2, <2>2 DEF Insts, Cmd, Writing
    <3> HIDE DEF f
    <3>3. inst'[p] = f => Progress(p)'
      BY <1>1, <1>3, <2>2, <2>3, <3>2 DEF Progress, At, Unseen
    <3> QED BY <1>1, <1>2, <1>4, <3>1, <3>2, <3>3, HolderKeeps DEF Writing
  <2>4. CASE script[e] # "hk"
    <3> DEFINE f == [inst[p] EXCEPT !.hooks = @ \ {e}]
    <3>1. inst' = [inst EXCEPT ![p] = f]
      BY <2>1, <2>4
    <3>2. /\ f \in Insts /\ f.at = "scripts" /\ f.cmd = Cmd(p) /\ f.skip = inst[p].skip
          /\ f.sure = inst[p].sure /\ f.hooks = inst[p].hooks \ {e}
      BY <1>1, <1>2 DEF Insts, Cmd, At
    <3> HIDE DEF f
    <3>3. inst'[p] = f => Progress(p)'
      BY <1>1, <1>3, <2>4, <3>2 DEF Progress, At
    <3> QED BY <1>1, <1>2, <1>4, <3>1, <3>2, <3>3, HolderKeeps DEF Writing
  <2> QED BY <2>3, <2>4
<1> QED BY <1>5, <1>6

(* The removal of a script is of one that is hk's, as far as it could see. *)
LEMMA RemoveScriptKeeps ==
  ASSUME InstallInv, NEW p \in Installers, RemoveScript(p) PROVE InstallInv'
<1> DEFINE e == inst[p].target
<1> DEFINE f == [inst[p] EXCEPT !.at = "scripts", !.target = "none", !.unseen = FALSE]
<1>1. /\ At(p) = "remove" /\ UNCHANGED <<entry, lock, meant>>
      /\ script' = [script EXCEPT ![e] = "none"]
      /\ lost' = (lost \/ (script[e] = "other" /\ ~inst[p].unseen))
      /\ inst' = [inst EXCEPT ![p] = f]
  BY DEF RemoveScript, Takes
<1>2. lock = p /\ inst[p] \in Insts /\ Progress(p) /\ At(p) \in Writing
  BY <1>1, ScriptsUnderLock
<1>3. /\ e \in Events /\ (script[e] = "other" => inst[p].unseen)
      /\ \A x \in Events : script[x] = "hk" => x \in inst[p].hooks \cup {e}
  BY <1>1, <1>2 DEF Progress, Unseen
<1>4. /\ f \in Insts /\ f.at = "scripts" /\ f.cmd = Cmd(p) /\ f.skip = inst[p].skip
      /\ f.sure = inst[p].sure /\ f.hooks = inst[p].hooks
  BY <1>2 DEF Insts, Cmd, Writing
<1> HIDE DEF f, e
<1>5. /\ script' \in [Events -> {"none", "hk", "other"}] /\ script'[e] = "none"
      /\ \A x \in Events \ {e} : script'[x] = script[x]
  BY <1>1, <1>3 DEF InstallInv, InstallTypes
<1>6. ~lost'
  BY <1>1, <1>3 DEF InstallInv
<1>7. inst'[p] = f => Progress(p)'
  BY <1>3, <1>4, <1>5 DEF Progress, At
<1> QED BY <1>1, <1>2, <1>4, <1>5, <1>6, <1>7, HolderKeeps DEF Writing

(* The keys that are listed are all, for who has the lock.                 *)
LEMMA ListKeeps ==
  ASSUME InstallInv, NEW p \in Installers, ListKeys(p) PROVE InstallInv'
<1> DEFINE s == Cmd(p).scope
<1> DEFINE f == [inst[p] EXCEPT !.at = "unset", !.keys = entry[s]]
<1>1. At(p) = "list" /\ UNCHANGED <<entry, script, lock, meant, lost>>
  BY DEF ListKeys
<1>2. inst[p] \in Insts /\ PlaceOK(p) /\ SureOf(p) /\ (lock = p => Progress(p))
  BY TypedProcess
<1>3. s \in Scopes /\ (s = "local" <=> lock = p)
  BY <1>1, WritersScope DEF Writing
<1>4. entry[s] \in SUBSET ConfigKeys
  BY <1>3 DEF InstallInv, InstallTypes
<1>5. inst' = [inst EXCEPT ![p] = f]
  BY DEF ListKeys
<1>6. /\ f \in Insts /\ f.at = "unset" /\ f.cmd = inst[p].cmd /\ f.keys = entry[s]
      /\ f.skip = inst[p].skip /\ f.sure = inst[p].sure
  BY <1>2, <1>4 DEF Insts, Writing
<1> HIDE DEF f
<1>7. inst'[p] = f
  BY <1>5, <1>6, OneMoves DEF InstallInv
<1>8. PlaceOK(p)'
  BY <1>1, <1>2, <1>6, <1>7 DEF PlaceOK, At, Cmd, Writing
<1>9. SureOf(p)'
  BY <1>1, <1>2, <1>6, <1>7 DEF SureOf, At, Cmd, HasGlobal, Writing
<1>10. lock = p => Progress(p)'
  BY <1>1, <1>2, <1>3, <1>6, <1>7 DEF Progress, At, NoScript
<1> QED BY <1>1, <1>5, <1>6, <1>8, <1>9, <1>10, StepKeeps DEF InstallInv, InstallTypes

(* A write to the user's configuration.                                    *)
LEMMA TouchKeeps ==
  ASSUME InstallInv, NEW p \in Installers, At(p) \in Writing, Cmd(p).scope = "global",
         NEW f \in Insts, f.cmd = Cmd(p), Touch(p, f),
         entry' \in [Scopes -> SUBSET ConfigKeys], entry'["local"] = entry["local"],
         UNCHANGED <<script, lock, lost>>, PlaceOK(p)'
  PROVE  InstallInv'
<1>1. /\ inst' = [q \in Installers |-> IF q = p THEN f ELSE [inst[q] EXCEPT !.sure = FALSE]]
      /\ meant' = [meant EXCEPT !.once = FALSE]
  BY DEF Touch
<1>2. lock # p
  BY WritersScope
<1>3. ASSUME NEW q \in Installers \ {p}
      PROVE  inst'[q] \in Insts /\ Same(q) /\ inst'[q].sure = FALSE
  <2>1. inst[q] \in Insts
    BY TypedProcess
  <2>2. inst'[q] = [inst[q] EXCEPT !.sure = FALSE]
    BY <1>1
  <2> QED BY <2>1, <2>2 DEF Insts, Same, At, Cmd
<1>4. inst' \in [Installers -> Insts] /\ inst'[p] = f
  BY <1>1, <1>3
<1>5. \A q \in Installers \ {p} : PlaceOK(q)' /\ SureOf(q)'
  BY <1>3, OthersStay DEF InstallInv, PlacesOK, SureOK
<1>6. SureOf(p)'
  BY <1>4 DEF SureOf, Cmd
<1>7. meant' \in [whole : BOOLEAN, keys : SUBSET ConfigKeys, scripts : SUBSET Events, once : BOOLEAN]
      /\ meant'.whole = meant.whole /\ meant'.keys = meant.keys /\ meant'.scripts = meant.scripts
      /\ meant'.once = FALSE
  BY <1>1 DEF InstallInv, InstallTypes
<1>8. HeldOK'
  <2>1. CASE lock # "free"
    <3>1. lock \in Installers \ {p} /\ lock' = lock /\ Progress(lock) /\ ~meant.whole
      BY <2>1, <1>2 DEF InstallInv, PlacesOK, HeldOK
    <3>2. ASSUME NEW q \in Installers, q = lock PROVE Progress(q)'
      BY <3>1, <3>2, <1>3, OthersProgress
    <3> QED BY <3>1, <3>2, <1>7 DEF HeldOK, Progress, At, Cmd, ToWrite, KeysGoal, ScriptsGoal, Keeps, NoScript, Unseen
  <2>2. CASE lock = "free"
    BY <2>2 DEF HeldOK
  <2> QED BY <2>1, <2>2
<1>9. InstallTypes'
  BY <1>4, <1>7 DEF InstallInv, InstallTypes
<1>10. PlacesOK' /\ SureOK'
  BY <1>5, <1>6 DEF InstallInv, PlacesOK, SureOK
<1>11. HooksAreWhole' /\ OnceOK'
  BY <1>7 DEF InstallInv, HooksAreWhole, OnceOK
<1> QED BY <1>8, <1>9, <1>10, <1>11 DEF InstallInv

(* The removal of a key keeps the invariant, wherever it is.               *)
LEMMA RemoveKeyKeeps ==
  ASSUME InstallInv, NEW p \in Installers, RemoveKey(p) PROVE InstallInv'
<1> DEFINE s == Cmd(p).scope
<1>1. At(p) = "unset" /\ UNCHANGED <<script, lost>>
  BY DEF RemoveKey
<1>2. inst[p] \in Insts /\ PlaceOK(p) /\ SureOf(p) /\ (lock = p => Progress(p))
  BY TypedProcess
<1>3. s \in Scopes /\ s \in {"local", "global"} /\ (s = "local" <=> lock = p)
  BY <1>1, WritersScope DEF Writing
<1>4. PICK k \in inst[p].keys :
        IF k \in entry[s]
        THEN /\ entry' = [entry EXCEPT ![s] = @ \ {k}]
             /\ Touch(p, [inst[p] EXCEPT !.keys = @ \ {k}])
             /\ UNCHANGED lock
        ELSE InstallEnds(p) /\ UNCHANGED <<entry, meant>>
  BY DEF RemoveKey
<1>5. CASE k \notin entry[s]
  BY <1>1, <1>4, <1>5, EndsKeep
<1>6. CASE k \in entry[s]
  <2> DEFINE f == [inst[p] EXCEPT !.keys = @ \ {k}]
  <2>1. /\ f \in Insts /\ f.at = "unset" /\ f.cmd = Cmd(p) /\ f.keys = inst[p].keys \ {k}
        /\ f.skip = inst[p].skip /\ f.sure = inst[p].sure
    BY <1>1, <1>2 DEF Insts, At, Cmd
  <2>2. Touch(p, f) /\ UNCHANGED lock /\ entry' = [entry EXCEPT ![s] = @ \ {k}]
    BY <1>4, <1>6
  <2> HIDE DEF f
  <2>3. entry' \in [Scopes -> SUBSET ConfigKeys]
    BY <2>2, <1>3 DEF InstallInv, InstallTypes
  <2>4. inst'[p] = f
    BY <2>1, <2>2 DEF Touch, InstallInv, InstallTypes
  <2>5. PlaceOK(p)'
    BY <1>1, <1>2, <2>1, <2>2, <2>4 DEF PlaceOK, At, Cmd, Writing
  <2>6. CASE s = "global"
    <3>1. entry'["local"] = entry["local"]
      BY <2>2, <2>6, InstallAssumption DEF InstallInv, InstallTypes
    <3> QED BY <1>1, <2>1, <2>2, <2>3, <2>5, <2>6, <3>1, TouchKeeps DEF Writing
  <2>7. CASE s = "local"
    <3>1. entry'["global"] = entry["global"] /\ entry'["local"] = entry["local"] \ {k}
      BY <2>2, <2>7, InstallAssumption DEF InstallInv, InstallTypes
    <3>2. inst' = [inst EXCEPT ![p] = f] /\ UNCHANGED meant
      BY <2>2, <2>7 DEF Touch
    <3>3. SureOf(p)'
      BY <1>1, <1>2, <2>1, <2>4, <3>1 DEF SureOf, At, Cmd, HasGlobal, Writing
    <3>4. Progress(p)'
      BY <1>1, <1>2, <1>3, <2>1, <2>4, <2>7, <3>1 DEF Progress, At, NoScript
    <3> QED BY <1>1, <1>3, <2>1, <2>2, <2>3, <2>5, <2>7, <3>1, <3>2, <3>3, <3>4, StepKeeps
            DEF InstallInv, InstallTypes
  <2> QED BY <1>3, <2>6, <2>7
<1> QED BY <1>5, <1>6

(* A set's elements in a row.                                              *)
LEMMA SetInARow ==
  ASSUME NEW S \in SUBSET Events
  PROVE  /\ SetToSeq(S) \in [1 .. Cardinality(S) -> S] /\ Cardinality(S) \in Nat
         /\ \A e \in S : \E i \in 1 .. Cardinality(S) : SetToSeq(S)[i] = e
<1> DEFINE n == Cardinality(S)
<1>1. IsFiniteSet(S)
  BY InstallAssumption, FS_Subset
<1>2. n \in Nat /\ ExistsBijection(1 .. n, S)
  BY <1>1, FS_CardinalityType
<1>3. \E f \in [1 .. n -> S] : IsInjective(f)
  BY <1>2 DEF ExistsBijection, Bijection, Injection
<1>4. SetToSeq(S) \in [1 .. n -> S] /\ IsInjective(SetToSeq(S))
  BY <1>3 DEF SetToSeq
<1>5. SetToSeq(S) \in Injection(1 .. n, S)
  BY <1>4 DEF Injection
<1>6. Cardinality(1 .. n) = n
  BY <1>2, FS_Interval
<1>7. SetToSeq(S) \in Surjection(1 .. n, S)
  BY <1>1, <1>5, <1>6, FS_Injection
<1> QED BY <1>2, <1>4, <1>7 DEF Surjection

(* KeysOf tells both keys of each event, and no others.                    *)
LEMMA KeysInARow ==
  ASSUME NEW S \in SUBSET Events
  PROVE  /\ KeysOf(S) \in Seq(ConfigKeys \cup Events)
         /\ ToSet(KeysOf(S)) = {"command", "event"} \X S
<1> DEFINE n == Cardinality(S)
<1> DEFINE order == SetToSeq(S)
<1>1. order \in [1 .. n -> S] /\ n \in Nat /\ \A e \in S : \E i \in 1 .. n : order[i] = e
  BY SetInARow
<1> HIDE DEF order, n
<1>2. KeysOf(S) = [i \in 1 .. 2 * n |-> <<IF i % 2 = 1 THEN "command" ELSE "event", order[(i + 1) \div 2]>>]
  BY DEF KeysOf, n, order
<1>3. \A i \in 1 .. 2 * n : (i + 1) \div 2 \in 1 .. n
  BY <1>1
<1>4. \A i \in 1 .. 2 * n : KeysOf(S)[i] \in {"command", "event"} \X S
  BY <1>1, <1>2, <1>3
<1>5. \A k \in 1 .. n : /\ 2 * k - 1 \in 1 .. 2 * n /\ 2 * k \in 1 .. 2 * n
                        /\ (2 * k - 1) % 2 = 1 /\ (2 * k) % 2 # 1
                        /\ ((2 * k - 1) + 1) \div 2 = k /\ (2 * k + 1) \div 2 = k
  BY <1>1
<1>6. \A k \in 1 .. n : /\ KeysOf(S)[2 * k - 1] = <<"command", order[k]>>
                        /\ KeysOf(S)[2 * k] = <<"event", order[k]>>
  BY <1>2, <1>5
<1>7. KeysOf(S) \in Seq({"command", "event"} \X S) /\ DOMAIN KeysOf(S) = 1 .. 2 * n
  BY <1>1, <1>2, <1>4
<1>8. {"command", "event"} \X S \subseteq ConfigKeys
  BY DEF ConfigKeys
<1>9. ASSUME NEW e \in S PROVE <<"command", e>> \in ToSet(KeysOf(S)) /\ <<"event", e>> \in ToSet(KeysOf(S))
  <2>1. PICK k \in 1 .. n : order[k] = e
    BY <1>1
  <2> QED BY <2>1, <1>5, <1>6, <1>7 DEF ToSet
<1>10. ToSet(KeysOf(S)) \subseteq {"command", "event"} \X S
  BY <1>4, <1>7 DEF ToSet
<1>11. KeysOf(S) \in Seq(ConfigKeys \cup Events)
  BY <1>1, <1>2, <1>4, <1>8
<1>12. {"command", "event"} \X S \subseteq ToSet(KeysOf(S))
  <2>1. ASSUME NEW x \in {"command", "event"} \X S PROVE x \in ToSet(KeysOf(S))
    <3>1. x = <<x[1], x[2]>> /\ x[2] \in S /\ x[1] \in {"command", "event"}
      OBVIOUS
    <3> QED BY <3>1, <1>9
  <2> QED BY <2>1
<1> QED BY <1>10, <1>11, <1>12

(* A sequence's elements: the first and the rest's.                        *)
LEMMA HeadAndTail ==
  ASSUME NEW S, NEW w \in Seq(S), w # <<>>
  PROVE  Tail(w) \in Seq(S) /\ ToSet(w) = {Head(w)} \cup ToSet(Tail(w)) /\ Head(w) \in ToSet(w)
<1>1. Len(w) \in Nat /\ Len(w) >= 1 /\ Tail(w) \in Seq(S) /\ Len(Tail(w)) = Len(w) - 1
  OBVIOUS
<1>2. \A i \in 1 .. Len(Tail(w)) : Tail(w)[i] = w[i + 1]
  OBVIOUS
<1>3. Head(w) = w[1]
  OBVIOUS
<1>4. \A i \in 1 .. Len(w) : i = 1 \/ (i - 1 \in 1 .. Len(Tail(w)) /\ w[i] = Tail(w)[i - 1])
  BY <1>1, <1>2
<1>5. DOMAIN w = 1 .. Len(w) /\ DOMAIN Tail(w) = 1 .. Len(Tail(w))
  BY <1>1
<1>6. 1 \in DOMAIN w
  BY <1>1, <1>5
<1>7. ToSet(Tail(w)) \subseteq ToSet(w)
  BY <1>1, <1>2, <1>5 DEF ToSet
<1>8. ToSet(w) \subseteq {Head(w)} \cup ToSet(Tail(w))
  BY <1>3, <1>4, <1>5 DEF ToSet
<1> QED BY <1>1, <1>3, <1>6, <1>7, <1>8 DEF ToSet

(* The empty sequence has none.                                            *)
LEMMA EmptyRow == ASSUME NEW S PROVE <<>> \in Seq(S) /\ ToSet(<<>>) = {}
BY DEF ToSet

(* What is left to write is all that the command is for.                   *)
LEMMA InstallNowKeeps ==
  ASSUME InstallInv, NEW p \in Installers, InstallNow(p) PROVE InstallInv'
<1> DEFINE c == Cmd(p)
<1> DEFINE w == IF c.does = "uninstall" \/ inst[p].skip THEN <<>>
                ELSE IF c.legacy THEN SetToSeq(c.events) ELSE KeysOf(c.events)
<1> DEFINE f == [inst[p] EXCEPT !.at = "write", !.write = w]
<1>1. At(p) = "unset" /\ inst[p].keys = {} /\ UNCHANGED <<entry, script, lock, meant, lost>>
  BY DEF InstallNow
<1>2. inst[p] \in Insts /\ PlaceOK(p) /\ SureOf(p) /\ (lock = p => Progress(p))
  BY TypedProcess
<1>3. c \in AnyCommand /\ (c.scope = "local" <=> lock = p) /\ At(p) \in Writing
  BY <1>1, WritersScope DEF Writing
<1>4. /\ c.does \in {"install", "uninstall"} /\ c.events \in SUBSET Events /\ c.legacy \in BOOLEAN
      /\ c.scope = "global" \/ c.does = "uninstall" => ~c.legacy
  BY <1>3, CommandTypes
<1>5. /\ w \in Seq(ConfigKeys \cup Events)
      /\ ToSet(w) = IF c.legacy THEN ScriptsGoal(p) ELSE KeysGoal(p)
  <2>1. CASE c.does = "uninstall" \/ inst[p].skip
    <3>1. w = <<>>
      BY <2>1
    <3>2. w \in Seq(ConfigKeys \cup Events) /\ ToSet(w) = {}
      BY <3>1, EmptyRow
    <3>3. ScriptsGoal(p) = {} /\ KeysGoal(p) = {}
      BY <2>1 DEF ScriptsGoal, KeysGoal, Keeps
    <3> QED BY <3>2, <3>3
  <2>2. CASE ~(c.does = "uninstall" \/ inst[p].skip) /\ c.legacy
    <3>1. w = SetToSeq(c.events)
      BY <2>2
    <3>2. /\ w \in [1 .. Cardinality(c.events) -> c.events] /\ Cardinality(c.events) \in Nat
          /\ \A e \in c.events : \E i \in 1 .. Cardinality(c.events) : w[i] = e
      BY <3>1, <1>4, SetInARow
    <3>3. ToSet(w) = c.events
      BY <3>2 DEF ToSet
    <3>4. w \in Seq(ConfigKeys \cup Events)
      BY <3>2, <1>4
    <3>5. ScriptsGoal(p) = c.events
      BY <2>2, <1>4 DEF ScriptsGoal, Keeps
    <3> QED BY <3>3, <3>4, <3>5, <2>2
  <2>3. CASE ~(c.does = "uninstall" \/ inst[p].skip) /\ ~c.legacy
    <3>1. w = KeysOf(c.events)
      BY <2>3
    <3>2. w \in Seq(ConfigKeys \cup Events) /\ ToSet(w) = {"command", "event"} \X c.events
      BY <3>1, <1>4, KeysInARow
    <3>3. KeysGoal(p) = {"command", "event"} \X c.events
      BY <2>3, <1>4 DEF KeysGoal, Keeps
    <3> QED BY <3>2, <3>3, <2>3
  <2> QED BY <2>1, <2>2, <2>3, <1>4
<1>6. inst' = [inst EXCEPT ![p] = f]
  BY DEF InstallNow
<1> HIDE DEF w
<1>7. /\ f \in Insts /\ f.at = "write" /\ f.cmd = inst[p].cmd /\ f.keys = inst[p].keys
      /\ f.skip = inst[p].skip /\ f.sure = inst[p].sure /\ f.write = w
  BY <1>2, <1>5 DEF Insts, Writing
<1> HIDE DEF f, c
<1>8. inst'[p] = f
  BY <1>6, <1>7, OneMoves DEF InstallInv
<1>9. /\ At(p)' = "write" /\ Cmd(p)' = Cmd(p) /\ ToWrite(p)' = ToSet(w)
      /\ ScriptsGoal(p)' = ScriptsGoal(p) /\ KeysGoal(p)' = KeysGoal(p)
  BY <1>7, <1>8 DEF At, Cmd, ToWrite, ScriptsGoal, KeysGoal, Keeps
<1>10. c = Cmd(p) /\ KeysGoal(p) \subseteq ConfigKeys
  BY <1>4 DEF c, KeysGoal, ConfigKeys
<1>11. PlaceOK(p)'
  BY <1>1, <1>2, <1>3, <1>5, <1>9, <1>10 DEF PlaceOK, Writing
<1>12. SureOf(p)'
  BY <1>1, <1>2, <1>3, <1>7, <1>8 DEF SureOf, At, Cmd, HasGlobal
<1>13. lock = p => Progress(p)'
  <2>1. SUFFICES ASSUME lock = p PROVE Progress(p)'
    OBVIOUS
  <2>2. NoScript /\ entry["local"] = {}
    BY <1>1, <1>2, <2>1 DEF Progress
  <2>3. NoScript' /\ entry'["local"] = {}
    BY <1>1, <2>2 DEF NoScript
  <2>4. c.legacy \/ ScriptsGoal(p) = {}
    BY <1>10 DEF ScriptsGoal
  <2> QED BY <2>3, <2>4, <1>5, <1>9, <1>10 DEF Progress, NoScript
<1> QED BY <1>1, <1>6, <1>7, <1>11, <1>12, <1>13, StepKeeps DEF InstallInv, InstallTypes

(* A key that is written is one less to write, wherever it is.             *)
LEMMA WriteKeyKeeps ==
  ASSUME InstallInv, NEW p \in Installers, WriteKey(p) PROVE InstallInv'
<1> DEFINE s == Cmd(p).scope
<1> DEFINE w == inst[p].write
<1> DEFINE f == [inst[p] EXCEPT !.write = Tail(@)]
<1>1. /\ At(p) = "write" /\ w # <<>> /\ ~Cmd(p).legacy /\ UNCHANGED <<script, lock, lost>>
      /\ entry' = [entry EXCEPT ![s] = @ \cup {Head(w)}] /\ Touch(p, f)
  BY DEF WriteKey
<1>2. inst[p] \in Insts /\ PlaceOK(p) /\ SureOf(p) /\ (lock = p => Progress(p))
  BY TypedProcess
<1>3. s \in Scopes /\ s \in {"local", "global"} /\ (s = "local" <=> lock = p) /\ At(p) \in Writing
  BY <1>1, WritersScope DEF Writing
<1>4. w \in Seq(ConfigKeys \cup Events)
  BY <1>2 DEF Insts
<1>5. /\ Tail(w) \in Seq(ConfigKeys \cup Events) /\ ToSet(w) = {Head(w)} \cup ToSet(Tail(w))
  BY <1>1, <1>4, HeadAndTail
<1>6. ToSet(w) \subseteq ConfigKeys
  BY <1>1, <1>2 DEF PlaceOK, ToWrite
<1>7. /\ f \in Insts /\ f.at = "write" /\ f.cmd = Cmd(p) /\ f.write = Tail(w)
      /\ f.skip = inst[p].skip /\ f.sure = inst[p].sure
  BY <1>1, <1>2, <1>5 DEF Insts, At, Cmd
<1> HIDE DEF f
<1>8. entry' \in [Scopes -> SUBSET ConfigKeys]
  BY <1>1, <1>3, <1>5, <1>6 DEF InstallInv, InstallTypes
<1>9. inst'[p] = f
  BY <1>1, <1>7 DEF Touch, InstallInv, InstallTypes
<1>10. /\ At(p)' = "write" /\ Cmd(p)' = Cmd(p) /\ ToWrite(p)' = ToSet(Tail(w))
       /\ ScriptsGoal(p)' = ScriptsGoal(p) /\ KeysGoal(p)' = KeysGoal(p)
  BY <1>7, <1>9 DEF At, Cmd, ToWrite, ScriptsGoal, KeysGoal, Keeps
<1>11. PlaceOK(p)'
  BY <1>1, <1>2, <1>5, <1>6, <1>10 DEF PlaceOK, Writing
<1>12. CASE s = "global"
  <2>1. entry'["local"] = entry["local"]
    BY <1>1, <1>12, InstallAssumption DEF InstallInv, InstallTypes
  <2> QED BY <1>1, <1>3, <1>7, <1>8, <1>11, <1>12, <2>1, TouchKeeps
<1>13. CASE s = "local"
  <2>1. entry'["global"] = entry["global"] /\ entry'["local"] = entry["local"] \cup {Head(w)}
    BY <1>1, <1>13, InstallAssumption DEF InstallInv, InstallTypes
  <2>2. inst' = [inst EXCEPT ![p] = f] /\ UNCHANGED meant
    BY <1>1, <1>13 DEF Touch
  <2>3. SureOf(p)'
    BY <1>2, <1>3, <1>7, <1>9, <2>1 DEF SureOf, At, Cmd, HasGlobal
  <2>4. Progress(p)'
    <3>1. entry["local"] \cup ToSet(w) = KeysGoal(p)
          /\ \A e \in Events : script[e] = "hk" => e \in ScriptsGoal(p)
      BY <1>1, <1>2, <1>3, <1>13 DEF Progress, ToWrite
    <3>2. entry'["local"] \cup ToSet(Tail(w)) = KeysGoal(p)
      BY <3>1, <2>1, <1>5
    <3>3. ScriptsGoal(p) = {}
      BY <1>1 DEF ScriptsGoal
    <3> QED BY <3>1, <3>2, <3>3, <1>1, <1>10 DEF Progress
  <2> QED BY <1>1, <1>3, <1>7, <1>8, <1>11, <1>13, <2>1, <2>2, <2>3, <2>4, StepKeeps
          DEF InstallInv, InstallTypes
<1> QED BY <1>3, <1>12, <1>13

(* A last look at a hook that is to be replaced.                           *)
LEMMA LookAtHookKeeps ==
  ASSUME InstallInv, NEW p \in Installers, LookAtHook(p) PROVE InstallInv'
<1> DEFINE w == inst[p].write
<1> DEFINE e == Head(w)
<1>1. At(p) = "write" /\ w # <<>> /\ Cmd(p).legacy /\ UNCHANGED <<entry, script, meant, lost>>
  BY DEF LookAtHook
<1>2. inst[p] \in Insts /\ PlaceOK(p) /\ (lock = p => Progress(p)) /\ At(p) \in Writing
  BY <1>1, TypedProcess DEF Writing
<1>3. lock = p
  <2>1. Cmd(p) \in AnyCommand /\ (Cmd(p).scope = "local" <=> lock = p)
    BY <1>2, WritersScope
  <2> QED BY <1>1, <2>1, CommandTypes
<1>4. CASE Refused(p, e)
  BY <1>1, <1>4, EndsKeep DEF LookAtHook
<1>5. CASE ~Refused(p, e)
  <2> DEFINE f == [inst[p] EXCEPT !.at = "replace", !.target = e]
  <2>1. inst' = [inst EXCEPT ![p] = f] /\ UNCHANGED lock
    BY <1>5 DEF LookAtHook
  <2>2. w \in Seq(ConfigKeys \cup Events) /\ ToSet(w) \subseteq ScriptsGoal(p)
    BY <1>1, <1>2 DEF Insts, PlaceOK, ToWrite
  <2>3. e \in ScriptsGoal(p)
    BY <1>1, <2>2, HeadAndTail
  <2>4. e \in Events
    <3>1. Cmd(p) \in AnyCommand
      BY <1>2, WritersScope
    <3> QED BY <2>3, <3>1, CommandTypes DEF ScriptsGoal
  <2>5. /\ f \in Insts /\ f.at = "replace" /\ f.cmd = Cmd(p) /\ f.skip = inst[p].skip
        /\ f.sure = inst[p].sure /\ f.write = w /\ f.target = e
    BY <1>2, <2>4 DEF Insts, Cmd, Writing
  <2> HIDE DEF f
  <2>6. script' \in [Events -> {"none", "hk", "other"}] /\ ~lost'
    BY <1>1 DEF InstallInv, InstallTypes
  <2>7. inst'[p] = f => Progress(p)'
    <3>1. SUFFICES ASSUME inst'[p] = f PROVE Progress(p)'
      OBVIOUS
    <3>2. /\ At(p)' = "replace" /\ Cmd(p)' = Cmd(p) /\ ToWrite(p)' = ToWrite(p)
          /\ ScriptsGoal(p)' = ScriptsGoal(p) /\ KeysGoal(p)' = KeysGoal(p)
      BY <2>5, <3>1 DEF At, Cmd, ToWrite, ScriptsGoal, KeysGoal, Keeps
    <3>3. Unseen(p)'
      BY <1>1, <1>5, <2>4, <2>5, <3>1, <3>2 DEF Unseen, Refused
    <3> QED BY <1>1, <1>2, <1>3, <2>5, <3>1, <3>2, <3>3 DEF Progress
  <2> QED BY <1>1, <1>2, <1>3, <2>1, <2>2, <2>5, <2>6, <2>7, HolderKeeps DEF Writing
<1> QED BY <1>4, <1>5

(* A script that is written is one less, and was no other's that hk saw.   *)
LEMMA WriteScriptKeeps ==
  ASSUME InstallInv, NEW p \in Installers, WriteScript(p) PROVE InstallInv'
<1> DEFINE w == inst[p].write
<1> DEFINE e == inst[p].target
<1> DEFINE f == [inst[p] EXCEPT !.at = "write", !.write = Tail(@), !.target = "none",
                                !.unseen = FALSE]
<1>1. /\ At(p) = "replace" /\ UNCHANGED <<entry, lock, meant>>
      /\ script' = [script EXCEPT ![e] = "hk"]
      /\ lost' = (lost \/ (script[e] = "other" /\ ~Cmd(p).force /\ ~inst[p].unseen))
      /\ inst' = [inst EXCEPT ![p] = f]
  BY DEF WriteScript, Takes
<1>2. lock = p /\ inst[p] \in Insts /\ Progress(p) /\ At(p) \in Writing /\ PlaceOK(p)
  BY <1>1, ScriptsUnderLock
<1>3. /\ e \in Events /\ w # <<>> /\ e = Head(w)
      /\ script[e] = "other" => inst[p].unseen \/ Cmd(p).force
  BY <1>1, <1>2 DEF Progress, Unseen
<1>4. w \in Seq(ConfigKeys \cup Events) /\ Cmd(p).legacy /\ ToSet(w) \subseteq ScriptsGoal(p)
  BY <1>1, <1>2 DEF Insts, PlaceOK, ToWrite
<1>5. Tail(w) \in Seq(ConfigKeys \cup Events) /\ ToSet(w) = {e} \cup ToSet(Tail(w))
  BY <1>3, <1>4, HeadAndTail
<1>6. /\ f \in Insts /\ f.at = "write" /\ f.cmd = Cmd(p) /\ f.write = Tail(w)
      /\ f.skip = inst[p].skip /\ f.sure = inst[p].sure
  BY <1>2, <1>5 DEF Insts, Cmd, Writing
<1> HIDE DEF f, e
<1>7. /\ script' \in [Events -> {"none", "hk", "other"}] /\ script'[e] = "hk"
      /\ \A x \in Events \ {e} : script'[x] = script[x]
  BY <1>1, <1>3 DEF InstallInv, InstallTypes
<1>8. ~lost'
  BY <1>1, <1>3 DEF InstallInv
<1>9. inst'[p] = f => Progress(p)'
  <2>1. SUFFICES ASSUME inst'[p] = f PROVE Progress(p)'
    OBVIOUS
  <2>2. /\ At(p)' = "write" /\ Cmd(p)' = Cmd(p) /\ ToWrite(p)' = ToSet(Tail(w))
        /\ ScriptsGoal(p)' = ScriptsGoal(p) /\ KeysGoal(p)' = KeysGoal(p)
    BY <1>6, <2>1 DEF At, Cmd, ToWrite, ScriptsGoal, KeysGoal, Keeps
  <2>3. /\ entry["local"] = {}
        /\ \A x \in Events : script[x] = "hk" => x \in ScriptsGoal(p)
        /\ \A x \in ScriptsGoal(p) : script[x] # "none" \/ x \in ToSet(w)
    BY <1>1, <1>2, <1>4 DEF Progress, ToWrite
  <2>4. ScriptsGoal(p) \subseteq Events
    <3>1. Cmd(p) \in AnyCommand
      BY <1>2, WritersScope
    <3> QED BY <3>1, CommandTypes DEF ScriptsGoal
  <2>5. \A x \in Events : script'[x] = "hk" => x \in ScriptsGoal(p)
    BY <2>3, <1>4, <1>5, <1>7
  <2>6. \A x \in ScriptsGoal(p) : script'[x] # "none" \/ x \in ToSet(Tail(w))
    BY <2>3, <2>4, <1>5, <1>7
  <2> QED BY <1>1, <1>4, <2>2, <2>3, <2>5, <2>6 DEF Progress
<1> QED BY <1>1, <1>2, <1>4, <1>5, <1>6, <1>7, <1>8, <1>9, HolderKeeps DEF Writing

(* A command that is through has left what it is for.                      *)
LEMMA DoneKeeps ==
  ASSUME InstallInv, NEW p \in Installers, InstallDone(p) PROVE InstallInv'
<1> DEFINE c == Cmd(p)
<1> DEFINE kept == c.does = "install" /\ ~inst[p].skip
<1>1. At(p) = "write" /\ inst[p].write = <<>> /\ InstallEnds(p) /\ UNCHANGED <<entry, script, lost>>
  BY DEF InstallDone
<1>2. inst[p] \in Insts /\ PlaceOK(p) /\ SureOf(p) /\ (lock = p => Progress(p))
  BY TypedProcess
<1>3. c \in AnyCommand /\ (c.scope = "local" <=> lock = p) /\ c.scope \in {"local", "global"}
  BY <1>1, WritersScope DEF Writing
<1>4. CASE c.scope = "global"
  BY <1>1, <1>4, EndsKeep DEF InstallDone
<1>5. CASE c.scope = "local"
  <2>1. meant' = [whole |-> TRUE, keys |-> KeysGoal(p), scripts |-> ScriptsGoal(p),
                  once |-> c.does = "install" /\ ~c.forceLocal /\ inst[p].sure]
    BY <1>5 DEF InstallDone, KeysGoal, ScriptsGoal, Keeps
  <2>2. /\ inst' \in [Installers -> Insts]
        /\ lock' = IF lock = p THEN "free" ELSE lock
        /\ HasGlobal' = HasGlobal /\ PlacesOK' /\ SureOK'
    BY <1>1, EndsAt
  <2>3. lock' = "free"
    BY <2>2, <1>3, <1>5
  <2>4. /\ c.does \in {"install", "uninstall"} /\ c.events \in SUBSET Events
        /\ c.legacy \in BOOLEAN /\ c.forceLocal \in BOOLEAN
    BY <1>3, CommandTypes
  <2>5. KeysGoal(p) \in SUBSET ConfigKeys /\ ScriptsGoal(p) \in SUBSET Events
    BY <2>4 DEF KeysGoal, ScriptsGoal, ConfigKeys
  <2>6. inst[p].sure \in BOOLEAN
    BY <1>2 DEF Insts
  <2>7. InstallTypes'
    BY <2>1, <2>2, <2>4, <2>5, <2>6, <1>1 DEF InstallInv, InstallTypes
  <2>8. ToWrite(p) = {}
    BY <1>1 DEF ToWrite, ToSet
  <2>9. /\ entry["local"] = KeysGoal(p)
        /\ \A e \in Events : script[e] = "hk" => e \in ScriptsGoal(p)
        /\ \A e \in ScriptsGoal(p) : script[e] # "none"
    <3>1. c.legacy => KeysGoal(p) = {}
      BY DEF KeysGoal
    <3> QED BY <3>1, <2>8, <1>1, <1>2, <1>3, <1>5, <2>4 DEF Progress
  <2>10. HooksAreWhole'
    BY <1>1, <2>1, <2>9 DEF HooksAreWhole
  <2>11. OnceOK'
    <3>1. SUFFICES ASSUME c.does = "install" /\ ~c.forceLocal /\ inst[p].sure, ScriptsGoal(p) # {}
          PROVE KeysGoal(p) = {} /\ ~HasGlobal
      BY <2>1, <2>2 DEF OnceOK
    <3>2. Keeps(p) /\ c.legacy
      BY <3>1 DEF ScriptsGoal
    <3> QED BY <3>1, <3>2, <1>1, <1>2, <1>5 DEF KeysGoal, Keeps, SureOf, Writing
  <2>12. HeldOK'
    BY <2>3 DEF HeldOK
  <2> QED BY <1>1, <2>2, <2>7, <2>10, <2>11, <2>12 DEF InstallInv
<1> QED BY <1>3, <1>4, <1>5

(* Hooks of others are none of hk's.                                       *)
LEMMA OtherHookKeeps ==
  ASSUME InstallInv, NEW e \in Events, OtherHook(e) PROVE InstallInv'
<1>1. /\ script' = [script EXCEPT ![e] = "other"] /\ UNCHANGED <<entry, lock, meant, lost>>
      /\ inst' = [p \in Installers |-> [inst[p] EXCEPT !.unseen = @ \/ inst[p].target = e]]
  BY DEF OtherHook
<1>2. /\ script' \in [Events -> {"none", "hk", "other"}] /\ script'[e] = "other"
      /\ \A x \in Events \ {e} : script'[x] = script[x]
  BY <1>1 DEF InstallInv, InstallTypes
<1>8. ASSUME NEW q \in Installers
      PROVE  /\ inst'[q] \in Insts /\ Same(q) /\ inst'[q].sure = inst[q].sure
             /\ inst'[q].unseen <=> inst[q].unseen \/ inst[q].target = e
  <2>1. inst[q] \in Insts
    BY TypedProcess
  <2> DEFINE u == inst[q].unseen \/ inst[q].target = e
  <2>2. inst'[q] = [inst[q] EXCEPT !.unseen = u] /\ u \in BOOLEAN
    BY <1>1, <2>1 DEF Insts
  <2>3. u <=> inst[q].unseen \/ inst[q].target = e
    OBVIOUS
  <2> HIDE DEF u
  <2> QED BY <2>1, <2>2, <2>3 DEF Insts, Same, At, Cmd
<1>3. InstallTypes'
  BY <1>1, <1>2, <1>8 DEF InstallInv, InstallTypes
<1>4. PlacesOK' /\ SureOK'
  <2>1. HasGlobal' = HasGlobal
    BY <1>1, GlobalStays
  <2>2. \A q \in Installers : PlaceOK(q)' /\ SureOf(q)'
    BY <1>1, <1>8, <2>1, OthersStay DEF InstallInv, PlacesOK, SureOK
  <2> QED BY <1>1, <2>2 DEF InstallInv, PlacesOK, SureOK
<1>5. OnceOK'
  BY <1>1 DEF InstallInv, OnceOK, HasGlobal
<1>6. HooksAreWhole'
  <2>1. meant.scripts \in SUBSET Events
    BY DEF InstallInv, InstallTypes
  <2> QED BY <1>1, <1>2, <2>1 DEF InstallInv, HooksAreWhole
<1>7. HeldOK'
  <2>1. SUFFICES ASSUME lock # "free" PROVE ~meant.whole /\ Progress(lock)'
    BY <1>1 DEF HeldOK, Progress, At, Cmd, ToWrite, KeysGoal, ScriptsGoal, Keeps, NoScript, Unseen
  <2>2. lock \in Installers /\ ~meant.whole /\ Progress(lock) /\ PlaceOK(lock)
    BY <2>1 DEF InstallInv, PlacesOK, HeldOK
  <2>3. ASSUME NEW q \in Installers, q = lock PROVE Progress(q)'
    <3>1. Progress(q) /\ PlaceOK(q)
      BY <2>2, <2>3
    <3>2. /\ At(q)' = At(q) /\ Cmd(q)' = Cmd(q) /\ ToWrite(q)' = ToWrite(q)
          /\ ScriptsGoal(q)' = ScriptsGoal(q) /\ KeysGoal(q)' = KeysGoal(q)
      BY <1>8 DEF Same, At, Cmd, ToWrite, ScriptsGoal, KeysGoal, Keeps
    <3>3. NoScript => NoScript'
      BY <1>2 DEF NoScript
    <3>4. \A x \in Events : script'[x] = "hk" => script[x] = "hk"
      BY <1>2
    <3>5. At(q) \in {"write", "replace"} => ScriptsGoal(q) \subseteq Events
      <4>1. At(q) \in {"write", "replace"} => Cmd(q) \in AnyCommand
        BY <3>1 DEF PlaceOK
      <4> QED BY <4>1, CommandTypes DEF ScriptsGoal
    <3>6. \A x \in Events : script[x] # "none" => script'[x] # "none"
      BY <1>2
    <3>7. /\ inst'[q].hooks = inst[q].hooks /\ inst'[q].target = inst[q].target
          /\ inst'[q].keys = inst[q].keys /\ inst'[q].write = inst[q].write
      BY <1>8 DEF Same
    <3>8. Unseen(q) => Unseen(q)'
      BY <1>2, <1>8, <3>2, <3>7 DEF Unseen
    <3> QED BY <1>1, <3>1, <3>2, <3>3, <3>4, <3>5, <3>6, <3>7, <3>8 DEF Progress
  <2> QED BY <1>1, <2>1, <2>2, <2>3
<1> QED BY <1>1, <1>3, <1>4, <1>5, <1>6, <1>7 DEF InstallInv

(* The invariant of Install holds of all that it begins with.              *)
LEMMA InstallInitOK == InstallInit => InstallInv
<1> SUFFICES ASSUME InstallInit PROVE InstallInv
  OBVIOUS
<1>1. PICK c \in Commands :
        /\ entry = c.entry /\ script = c.script /\ lock = "free"
        /\ inst = [p \in Installers |-> [NewInst EXCEPT !.todo = c.todo[p]]]
        /\ meant = Unknown /\ lost = FALSE
  BY DEF InstallInit
<1>2. /\ c.entry \in [Scopes -> SUBSET ConfigKeys]
      /\ c.script \in [Events -> {"none", "hk", "other"}]
      /\ c.todo \in [Installers -> Seq(AnyCommand)] /\ "free" \notin Installers
  BY InstallAssumption
<1>3. NewInst \in Insts /\ NewInst.at = "off"
  <2>1. <<>> \in Seq(AnyCommand) /\ <<>> \in Seq(ConfigKeys \cup Events)
    OBVIOUS
  <2> QED BY <2>1 DEF NewInst, Insts
<1>4. \A p \in Installers : inst[p] \in Insts /\ inst[p].at = "off"
  BY <1>1, <1>2, <1>3 DEF Insts
<1>5. meant.whole = FALSE /\ meant \in [whole : BOOLEAN, keys : SUBSET ConfigKeys,
                                       scripts : SUBSET Events, once : BOOLEAN]
  BY <1>1 DEF Unknown
<1>6. inst \in [Installers -> Insts]
  BY <1>1, <1>4
<1>7. InstallTypes
  BY <1>1, <1>2, <1>5, <1>6 DEF InstallTypes
<1>8. PlacesOK /\ SureOK
  BY <1>1, <1>2, <1>4 DEF PlacesOK, PlaceOK, SureOK, SureOf, At, Writing
<1> QED BY <1>1, <1>5, <1>7, <1>8 DEF InstallInv, HeldOK, HooksAreWhole, OnceOK

(* Every step keeps the invariant of Install.                              *)
LEMMA InstallNextOK == InstallInv /\ [InstallNext]_installVars => InstallInv'
<1> SUFFICES ASSUME InstallInv, [InstallNext]_installVars PROVE InstallInv'
  OBVIOUS
<1>1. ASSUME NEW p \in Installers, InstallStep(p) PROVE InstallInv'
  <2>1. CASE InstallFails(p)
    BY <2>1, EndsKeep DEF InstallFails
  <2> QED BY <1>1, <2>1, BeginKeeps, LookKeeps, CheckKeeps, LockKeeps, ReadScriptKeeps, RemoveScriptKeeps,
             ListKeeps, RemoveKeyKeeps, InstallNowKeeps, WriteKeyKeeps, LookAtHookKeeps,
             WriteScriptKeeps, DoneKeeps
          DEF InstallStep
<1>2. CASE UNCHANGED installVars
  BY <1>2 DEF installVars, InstallInv, InstallTypes, PlacesOK, PlaceOK, SureOK, SureOf, HeldOK,
     Progress, NoScript, Unseen, KeysGoal, ScriptsGoal, Keeps, ToWrite, At, Cmd, HooksAreWhole,
     OnceOK, HasGlobal
<1> QED BY <1>1, <1>2, OtherHookKeeps DEF InstallNext

(* No event runs hk twice after an installation that was whole.            *)
LEMMA OnceIsOnce == InstallInv => FiresOnce
<1> SUFFICES ASSUME InstallInv, lock = "free", meant.whole, meant.once,
                    NEW e \in Events, script[e] = "hk", FromConfig(e)
             PROVE FALSE
  BY DEF FiresOnce
<1>1. e \in meant.scripts /\ entry["local"] = meant.keys
  BY DEF InstallInv, HooksAreWhole
<1>2. meant.keys = {} /\ ~HasGlobal
  BY <1>1 DEF InstallInv, OnceOK
<1>3. PICK s \in Scopes : <<"command", e>> \in entry[s]
  BY DEF FromConfig
<1>4. s = "global" \/ s = "local"
  BY <1>3, InstallAssumption
<1> QED BY <1>1, <1>2, <1>3, <1>4 DEF HasGlobal

(* Once the lock is free the repository has the hooks of the last command  *)
(* that was through with it and no others, no event runs hk twice, and no  *)
(* hook of another's is replaced unforced or removed that was there at hk's *)
(* last look before it, however many processes install and wherever they   *)
(* fail (Install).                                                         *)
THEOREM InstallsAreOrderly == InstallSpec => []InstallsKeepOrder
<1>1. InstallInv => InstallsKeepOrder
  BY OnceIsOnce DEF InstallInv, InstallsKeepOrder
<1> QED BY <1>1, InstallInitOK, InstallNextOK, PTL DEF InstallSpec

-----------------------------------------------------------------------------
(* McpRuns.                                                                *)

(* Where a run is that has begun and is not settled yet; that has taken the *)
(* snapshot of the tree, too.                                              *)
Based == {"spawn", "waiting", "stopping", "draining", "finish"}
Going == {"baseline"} \cup Based

Snapshots == [taken : BOOLEAN, of : SUBSET RunIds]

Records ==
  [root : Nat, status : {"none", "starting", "running", "cancelling", "cancelled", "succeeded", "failed"},
   result : {"none", "running"} \cup Verdicts, completed : BOOLEAN, truncated : BOOLEAN,
   lost : BOOLEAN, error : BOOLEAN, diff : Snapshots]

EventsOfHk == {"started"} \cup Verdicts

McpTypes ==
  /\ setting \in Settings /\ runs \subseteq RunIds /\ token \subseteq RunIds
  /\ rec \in [RunIds -> Records]
  /\ task \in [RunIds -> {"none", "over"} \cup Going]
  /\ hk \in [RunIds -> {"none", "up", "ok", "failed", "killed"}]
  /\ pipe \in [RunIds -> Seq(EventsOfHk)] /\ said \in [RunIds -> {"nothing"} \cup EventsOfHk]
  /\ reader \in [RunIds -> {"off", "on", "aborting"}]
  /\ holder \in [RunIds -> {"none", "group", "away"}]
  /\ base \in [RunIds -> Snapshots] /\ tree \subseteq RunIds

(* A run whose hk was never started.                                       *)
Unborn(i) ==
  /\ holder[i] = "none" /\ reader[i] = "off" /\ pipe[i] = <<>> /\ said[i] = "nothing"
  /\ i \notin tree \cup left \cup killed
  /\ ~rec[i].completed /\ ~rec[i].lost

(* Where hk, the reader and the record are as execute goes on.             *)
StagesOK(i) ==
  /\ hk[i] = "none" => Unborn(i)
  /\ task[i] \in {"none", "baseline", "spawn"} => hk[i] = "none"
  /\ task[i] \in {"waiting", "stopping", "draining", "finish"} => hk[i] # "none"
  /\ hk[i] = "up" => task[i] \in {"waiting", "stopping"}
  /\ task[i] = "none" => i \notin runs \cup token
  /\ task[i] \in Going => i \in runs /\ Active(rec[i])
  /\ task[i] \notin Going => ~Active(rec[i])
  /\ i \in killed => i \in token
  /\ holder[i] # "none" => i \in left

(* What is still in the pipe of what hk said, and what was taken.          *)
EventsOK(i) ==
  /\ hk[i] = "ok" => said[i] = "passed"
  /\ said[i] = "nothing" => pipe[i] = <<>>
  /\ said[i] = "started" => pipe[i] \in {<<>>, <<"started">>}
  /\ said[i] \in Verdicts => pipe[i] \in {<<>>, <<said[i]>>, <<"started", said[i]>>}
  /\ rec[i].completed => rec[i].result = said[i] /\ said[i] \in Verdicts /\ pipe[i] = <<>>
  /\ task[i] \in Going /\ ~rec[i].truncated /\ ~rec[i].lost /\ said[i] \in Verdicts /\ pipe[i] = <<>>
     => rec[i].completed

ReaderOK(i) ==
  /\ reader[i] = "on" => task[i] \in {"waiting", "stopping", "draining"}
  /\ reader[i] = "aborting" => rec[i].lost /\ task[i] \in {"finish", "over"}
  /\ reader[i] = "off" /\ task[i] \in {"waiting", "stopping", "draining", "finish"} /\ ~rec[i].lost
     => pipe[i] = <<>> /\ hk[i] # "up"

(* VerdictIsHks of one run.                                                *)
SettledOK(i) ==
  /\ task[i] = "over" =>
       /\ rec[i].status = "succeeded" =>
            rec[i].completed /\ said[i] = "passed" /\ hk[i] = "ok" /\ rec[i].result = "passed"
       /\ hk[i] = "ok" /\ i \notin token /\ ~rec[i].truncated /\ ~rec[i].lost =>
            rec[i].status = "succeeded"
       /\ rec[i].status = "cancelled" => i \in token \/ said[i] = "cancelled"
       /\ rec[i].status = "failed" => rec[i].error \/ (rec[i].completed /\ rec[i].result = said[i])
  /\ task[i] # "over" => ~rec[i].diff.taken

(* A run is in none of the snapshots before it; its own changes are in its  *)
(* diff.                                                                   *)
OwnDiffOK(i) ==
  /\ i \notin base[i].of /\ base[i].of \subseteq tree
  /\ task[i] = "over" /\ rec[i].diff.taken =>
       rec[i].diff.of \subseteq tree /\ (i \in tree \ left => i \in rec[i].diff.of)

RunOK(i) == StagesOK(i) /\ EventsOK(i) /\ ReaderOK(i) /\ SettledOK(i) /\ OwnDiffOK(i)

(* Two runs of one root do not overlap: the one's changes were there before *)
(* the other began, or come after it was settled.                          *)
ApartOK(i, j) ==
  /\ task[i] \in Going /\ task[j] \in Going => rec[i].root # rec[j].root
  /\ task[i] \in Based /\ base[i].taken /\ rec[j].root = rec[i].root /\ j \in tree \ left =>
       j \in base[i].of
  /\ task[i] = "over" /\ rec[i].diff.taken /\ j \in rec[i].diff.of =>
       j \in left \/ rec[j].root # rec[i].root

McpInv ==
  /\ McpTypes /\ \A i \in RunIds : RunOK(i)
  /\ \A i, j \in RunIds : i # j => ApartOK(i, j)

(* What a step of one run leaves of another.                               *)
SameRun(j) ==
  /\ rec'[j] = rec[j] /\ task'[j] = task[j] /\ hk'[j] = hk[j] /\ pipe'[j] = pipe[j]
  /\ said'[j] = said[j] /\ reader'[j] = reader[j] /\ holder'[j] = holder[j] /\ base'[j] = base[j]
  /\ j \in tree' <=> j \in tree
  /\ j \in left' <=> j \in left
  /\ j \in token' <=> j \in token
  /\ j \in killed' <=> j \in killed
  /\ j \in runs' => j \in runs
  /\ j \in runs /\ task[j] \in Going => j \in runs'

(* What most steps of a run leave of how it is to the others.              *)
Calm(i) ==
  /\ rec'[i].root = rec[i].root /\ base'[i] = base[i]
  /\ task'[i] \in Going => task[i] \in Going
  /\ task'[i] \in Based => task[i] \in Based
  /\ task'[i] = "over" /\ rec'[i].diff.taken =>
       task[i] = "over" /\ rec[i].diff.taken /\ rec'[i].diff = rec[i].diff
  /\ i \in tree' \ left' => i \in tree \ left
  /\ i \in left => i \in left'

(* A run that is left as it was is as right as it was.                     *)
LEMMA SameIsOK ==
  ASSUME NEW j \in RunIds, RunOK(j), SameRun(j), tree \subseteq tree'
  PROVE  RunOK(j)' /\ Calm(j)
<1>1. StagesOK(j)'
  BY DEF RunOK, SameRun, StagesOK, Unborn, Active
<1>2. EventsOK(j)'
  BY DEF RunOK, SameRun, EventsOK
<1>3. ReaderOK(j)'
  BY DEF RunOK, SameRun, ReaderOK
<1>4. SettledOK(j)'
  BY DEF RunOK, SameRun, SettledOK
<1>5. OwnDiffOK(j)'
  BY DEF RunOK, SameRun, OwnDiffOK
<1>6. Calm(j)
  BY DEF SameRun, Calm
<1> QED BY <1>1, <1>2, <1>3, <1>4, <1>5, <1>6 DEF RunOK

(* So are two runs, where neither begins, settles or changes the tree.     *)
LEMMA CalmIsApart ==
  ASSUME NEW i \in RunIds, NEW j \in RunIds, ApartOK(i, j), Calm(i), Calm(j)
  PROVE  ApartOK(i, j)'
BY DEF ApartOK, Calm

(* A step of one run that changes nothing between it and the others.       *)
LEMMA QuietStep ==
  ASSUME McpInv, NEW i \in RunIds, \A j \in RunIds \ {i} : SameRun(j), McpTypes', RunOK(i)',
         Calm(i), tree \subseteq tree'
  PROVE  McpInv'
<1>1. \A j \in RunIds \ {i} : RunOK(j)' /\ Calm(j)
  BY SameIsOK DEF McpInv
<1>2. \A j, k \in RunIds : j # k => ApartOK(j, k)'
  BY <1>1, CalmIsApart DEF McpInv
<1> QED BY <1>1, <1>2 DEF McpInv

(* What is known of a run.                                                 *)
LEMMA TypedRun ==
  ASSUME McpInv, NEW i \in RunIds
  PROVE  /\ rec[i] \in Records /\ StagesOK(i) /\ EventsOK(i) /\ ReaderOK(i) /\ SettledOK(i)
         /\ OwnDiffOK(i)
BY DEF McpInv, McpTypes, RunOK

(* The list loses no run that goes on, and gets none.                      *)
LEMMA CleanedKeeps ==
  ASSUME NEW list, NEW R, NEW expired, expired \subseteq Completed(list, R)
  PROVE  /\ Cleaned(list, R, expired) \subseteq list
         /\ \A j \in list : Active(R[j]) => j \in Cleaned(list, R, expired)
BY DEF Cleaned, Completed

(* A run whose hk cannot be started is settled with an error.              *)
LEMMA SpawnFailsKeeps ==
  ASSUME McpInv, NEW i \in RunIds, SpawnFails(i) PROVE McpInv'
<1> DEFINE R == [rec[i] EXCEPT !.status = "failed", !.error = TRUE]
<1>1. task[i] = "spawn" /\ UNCHANGED <<setting, runs, token, killed, procVars, reader, base>>
      /\ task' = [task EXCEPT ![i] = "over"] /\ Recorded(i, R)
  BY DEF SpawnFails
<1>2. rec[i] \in Records /\ StagesOK(i) /\ EventsOK(i) /\ ReaderOK(i) /\ SettledOK(i) /\ OwnDiffOK(i)
  BY TypedRun
<1>3. i \in runs
  BY <1>1, <1>2 DEF StagesOK, Going, Based
<1>4. rec' = [rec EXCEPT ![i] = R]
  BY <1>1, <1>3 DEF Recorded
<1>5. /\ R \in Records /\ R.status = "failed" /\ R.error = TRUE /\ R.root = rec[i].root
      /\ R.result = rec[i].result /\ R.completed = rec[i].completed /\ R.diff = rec[i].diff
      /\ R.truncated = rec[i].truncated /\ R.lost = rec[i].lost
  BY <1>2 DEF Records
<1> HIDE DEF R
<1>6. McpTypes'
  BY <1>1, <1>4, <1>5 DEF McpInv, McpTypes, procVars
<1>7. rec'[i] = R /\ task'[i] = "over"
      /\ \A j \in RunIds \ {i} : rec'[j] = rec[j] /\ task'[j] = task[j]
  BY <1>1, <1>4 DEF McpInv, McpTypes
<1>8. \A j \in RunIds \ {i} : SameRun(j)
  BY <1>1, <1>7 DEF SameRun, procVars
<1>9. RunOK(i)'
  <2>1. StagesOK(i)'
    BY <1>1, <1>2, <1>5, <1>7 DEF StagesOK, Unborn, procVars, Going, Based, Active
  <2>2. EventsOK(i)' /\ ReaderOK(i)'
    BY <1>1, <1>2, <1>5, <1>7 DEF EventsOK, ReaderOK, StagesOK, Unborn, procVars, Going, Based
  <2>3. SettledOK(i)' /\ OwnDiffOK(i)'
    BY <1>1, <1>2, <1>5, <1>7 DEF SettledOK, OwnDiffOK, StagesOK, procVars
  <2> QED BY <2>1, <2>2, <2>3 DEF RunOK
<1>10. Calm(i)
  BY <1>1, <1>2, <1>5, <1>7 DEF Calm, SettledOK, procVars, Going, Based
<1> QED BY <1>1, <1>6, <1>8, <1>9, <1>10, QuietStep DEF procVars

(* A run whose hk is started.                                              *)
LEMMA SpawnKeeps ==
  ASSUME McpInv, NEW i \in RunIds, Spawn(i) PROVE McpInv'
<1> DEFINE R == [rec[i] EXCEPT !.status = "running"]
<1>1. task[i] = "spawn" /\ UNCHANGED <<setting, runs, token, killed, pipe, said, holder, tree, left, base>>
      /\ task' = [task EXCEPT ![i] = "waiting"] /\ Recorded(i, R)
      /\ hk' = [hk EXCEPT ![i] = "up"] /\ reader' = [reader EXCEPT ![i] = "on"]
  BY DEF Spawn
<1>2. rec[i] \in Records /\ StagesOK(i) /\ EventsOK(i) /\ ReaderOK(i) /\ SettledOK(i) /\ OwnDiffOK(i)
  BY TypedRun
<1>3. i \in runs
  BY <1>1, <1>2 DEF StagesOK, Going, Based
<1>4. rec' = [rec EXCEPT ![i] = R]
  BY <1>1, <1>3 DEF Recorded
<1>5. /\ R \in Records /\ R.status = "running" /\ R.error = rec[i].error /\ R.root = rec[i].root
      /\ R.result = rec[i].result /\ R.completed = rec[i].completed /\ R.diff = rec[i].diff
      /\ R.truncated = rec[i].truncated /\ R.lost = rec[i].lost
  BY <1>2 DEF Records
<1> HIDE DEF R
<1>6. McpTypes'
  BY <1>1, <1>4, <1>5 DEF McpInv, McpTypes, Going, Based
<1>7. rec'[i] = R /\ task'[i] = "waiting" /\ hk'[i] = "up" /\ reader'[i] = "on"
      /\ \A j \in RunIds \ {i} : rec'[j] = rec[j] /\ task'[j] = task[j] /\ hk'[j] = hk[j]
                                 /\ reader'[j] = reader[j]
  BY <1>1, <1>4 DEF McpInv, McpTypes
<1>8. \A j \in RunIds \ {i} : SameRun(j)
  BY <1>1, <1>7 DEF SameRun
<1>9. RunOK(i)'
  <2>1. StagesOK(i)'
    BY <1>1, <1>2, <1>5, <1>7 DEF StagesOK, Unborn, Going, Based, Active
  <2>2. EventsOK(i)' /\ ReaderOK(i)'
    BY <1>1, <1>2, <1>5, <1>7 DEF EventsOK, ReaderOK, StagesOK, Unborn, Going, Based
  <2>3. SettledOK(i)' /\ OwnDiffOK(i)'
    BY <1>1, <1>2, <1>5, <1>7 DEF SettledOK, OwnDiffOK
  <2> QED BY <2>1, <2>2, <2>3 DEF RunOK
<1>10. Calm(i)
  BY <1>1, <1>5, <1>7 DEF Calm, Going, Based
<1> QED BY <1>1, <1>6, <1>8, <1>9, <1>10, QuietStep

(* Execute sees the end of hk.                                             *)
LEMMA HkExitedKeeps ==
  ASSUME McpInv, NEW i \in RunIds, HkExited(i) PROVE McpInv'
<1>1. task[i] \in {"waiting", "stopping"} /\ hk[i] # "up"
      /\ task' = [task EXCEPT ![i] = "draining"]
      /\ UNCHANGED <<setting, runs, rec, token, killed, hk, pipe, said, holder, tree, left, reader, base>>
  BY DEF HkExited, runVars, procVars
<1>2. rec[i] \in Records /\ StagesOK(i) /\ EventsOK(i) /\ ReaderOK(i) /\ SettledOK(i) /\ OwnDiffOK(i)
  BY TypedRun
<1>3. McpTypes'
  BY <1>1 DEF McpInv, McpTypes, Going, Based
<1>4. task'[i] = "draining" /\ \A j \in RunIds \ {i} : task'[j] = task[j]
  BY <1>1 DEF McpInv, McpTypes
<1>5. \A j \in RunIds \ {i} : SameRun(j)
  BY <1>1, <1>4 DEF SameRun
<1>6. RunOK(i)'
  BY <1>1, <1>2, <1>4 DEF RunOK, StagesOK, Unborn, EventsOK, ReaderOK, SettledOK, OwnDiffOK,
     Going, Based, Active
<1>7. Calm(i)
  BY <1>1, <1>4 DEF Calm, Going, Based
<1> QED BY <1>1, <1>3, <1>5, <1>6, <1>7, QuietStep

(* All that hk wrote is taken.                                             *)
LEMMA DrainedKeeps ==
  ASSUME McpInv, NEW i \in RunIds, Drained(i) PROVE McpInv'
<1>1. task[i] = "draining" /\ reader[i] = "off"
      /\ task' = [task EXCEPT ![i] = "finish"]
      /\ UNCHANGED <<setting, runs, rec, token, killed, hk, pipe, said, holder, tree, left, reader, base>>
  BY DEF Drained, runVars, procVars
<1>2. rec[i] \in Records /\ StagesOK(i) /\ EventsOK(i) /\ ReaderOK(i) /\ SettledOK(i) /\ OwnDiffOK(i)
  BY TypedRun
<1>3. McpTypes'
  BY <1>1 DEF McpInv, McpTypes, Going, Based
<1>4. task'[i] = "finish" /\ \A j \in RunIds \ {i} : task'[j] = task[j]
  BY <1>1 DEF McpInv, McpTypes
<1>5. \A j \in RunIds \ {i} : SameRun(j)
  BY <1>1, <1>4 DEF SameRun
<1>6. RunOK(i)'
  BY <1>1, <1>2, <1>4 DEF RunOK, StagesOK, Unborn, EventsOK, ReaderOK, SettledOK, OwnDiffOK,
     Going, Based, Active
<1>7. Calm(i)
  BY <1>1, <1>4 DEF Calm, Going, Based
<1> QED BY <1>1, <1>3, <1>5, <1>6, <1>7, QuietStep

(* A run that is stopped was cancelled.                                    *)
LEMMA StopChildKeeps ==
  ASSUME McpInv, NEW i \in RunIds, StopChild(i) PROVE McpInv'
<1>1. task[i] = "waiting" /\ i \in token /\ killed' = killed \cup {i}
      /\ task' = [task EXCEPT ![i] = "stopping"]
      /\ UNCHANGED <<setting, runs, rec, token, hk, pipe, said, holder, tree, left, reader, base>>
  BY DEF StopChild, runVars, procVars
<1>2. rec[i] \in Records /\ StagesOK(i) /\ EventsOK(i) /\ ReaderOK(i) /\ SettledOK(i) /\ OwnDiffOK(i)
  BY TypedRun
<1>3. McpTypes'
  BY <1>1 DEF McpInv, McpTypes, Going, Based
<1>4. task'[i] = "stopping" /\ \A j \in RunIds \ {i} : task'[j] = task[j]
  BY <1>1 DEF McpInv, McpTypes
<1>5. \A j \in RunIds \ {i} : SameRun(j)
  BY <1>1, <1>4 DEF SameRun
<1>6. RunOK(i)'
  BY <1>1, <1>2, <1>4 DEF RunOK, StagesOK, Unborn, EventsOK, ReaderOK, SettledOK, OwnDiffOK,
     Going, Based, Active
<1>7. Calm(i)
  BY <1>1, <1>4 DEF Calm, Going, Based
<1> QED BY <1>1, <1>3, <1>5, <1>6, <1>7, QuietStep

(* hk's end, by itself or by a signal.                                     *)
LEMMA EndsFacts ==
  ASSUME McpInv, NEW i \in RunIds, NEW code \in {"ok", "failed", "killed"}, Ends(i, code)
  PROVE  /\ hk'[i] = code /\ \A j \in RunIds \ {i} : hk'[j] = hk[j] /\ holder'[j] = holder[j]
         /\ hk' \in [RunIds -> {"none", "up", "ok", "failed", "killed"}]
         /\ holder' \in [RunIds -> {"none", "group", "away"}]
         /\ left \subseteq left' /\ left' \subseteq left \cup {i}
         /\ holder'[i] # "none" => i \in left'
<1>1. hk' = [hk EXCEPT ![i] = code]
  BY DEF Ends
<1>2. PICK h \in {"none", "group", "away"} :
        holder' = [holder EXCEPT ![i] = h] /\ left' = IF h = "none" THEN left ELSE left \cup {i}
  BY DEF Ends
<1> QED BY <1>1, <1>2 DEF McpInv, McpTypes

(* Who is killed leaves at most processes of its own.                      *)
LEMMA GraceOverKeeps ==
  ASSUME McpInv, NEW i \in RunIds, GraceOver(i) PROVE McpInv'
<1>1. task[i] = "stopping" /\ hk[i] = "up" /\ Ends(i, "killed")
      /\ task' = [task EXCEPT ![i] = "draining"]
      /\ UNCHANGED <<setting, runs, rec, token, killed, pipe, said, tree, reader, base>>
  BY DEF GraceOver, runVars
<1>2. rec[i] \in Records /\ StagesOK(i) /\ EventsOK(i) /\ ReaderOK(i) /\ SettledOK(i) /\ OwnDiffOK(i)
  BY TypedRun
<1>3. /\ hk'[i] = "killed" /\ \A j \in RunIds \ {i} : hk'[j] = hk[j] /\ holder'[j] = holder[j]
      /\ hk' \in [RunIds -> {"none", "up", "ok", "failed", "killed"}]
      /\ holder' \in [RunIds -> {"none", "group", "away"}]
      /\ left \subseteq left' /\ left' \subseteq left \cup {i}
      /\ holder'[i] # "none" => i \in left'
  BY <1>1, EndsFacts
<1>4. task'[i] = "draining" /\ \A j \in RunIds \ {i} : task'[j] = task[j]
  BY <1>1 DEF McpInv, McpTypes
<1>5. McpTypes'
  BY <1>1, <1>3 DEF McpInv, McpTypes, Going, Based
<1>6. \A j \in RunIds \ {i} : SameRun(j)
  BY <1>1, <1>3, <1>4 DEF SameRun
<1>7. RunOK(i)'
  <2>1. StagesOK(i)'
    BY <1>1, <1>2, <1>3, <1>4 DEF StagesOK, Going, Based, Active
  <2>2. EventsOK(i)' /\ ReaderOK(i)'
    BY <1>1, <1>2, <1>3, <1>4 DEF EventsOK, ReaderOK, Going, Based
  <2>3. SettledOK(i)' /\ OwnDiffOK(i)'
    BY <1>1, <1>2, <1>3, <1>4 DEF SettledOK, OwnDiffOK
  <2> QED BY <2>1, <2>2, <2>3 DEF RunOK
<1>8. Calm(i)
  BY <1>1, <1>3, <1>4 DEF Calm, Going, Based
<1> QED BY <1>1, <1>5, <1>6, <1>7, <1>8, QuietStep

(* So does who ends by itself; it succeeds only after it said so.          *)
LEMMA HkEndsKeeps ==
  ASSUME McpInv, NEW i \in RunIds, HkEnds(i) PROVE McpInv'
<1>1. PICK code \in {"failed"} \cup (IF said[i] = "passed" THEN {"ok"} ELSE {}) : Ends(i, code)
  BY DEF HkEnds
<1>2. hk[i] = "up" /\ code \in {"failed", "ok", "killed"} /\ (code = "ok" => said[i] = "passed")
      /\ UNCHANGED <<setting, runs, rec, task, token, killed, pipe, said, tree, reader, base>>
  BY <1>1 DEF HkEnds, runVars
<1>3. rec[i] \in Records /\ StagesOK(i) /\ EventsOK(i) /\ ReaderOK(i) /\ SettledOK(i) /\ OwnDiffOK(i)
  BY TypedRun
<1>4. /\ hk'[i] = code /\ \A j \in RunIds \ {i} : hk'[j] = hk[j] /\ holder'[j] = holder[j]
      /\ hk' \in [RunIds -> {"none", "up", "ok", "failed", "killed"}]
      /\ holder' \in [RunIds -> {"none", "group", "away"}]
      /\ left \subseteq left' /\ left' \subseteq left \cup {i}
      /\ holder'[i] # "none" => i \in left'
  BY <1>1, <1>2, EndsFacts
<1>5. McpTypes'
  BY <1>2, <1>4 DEF McpInv, McpTypes
<1>6. \A j \in RunIds \ {i} : SameRun(j)
  BY <1>2, <1>4 DEF SameRun
<1>7. RunOK(i)'
  <2>1. StagesOK(i)'
    BY <1>2, <1>3, <1>4 DEF StagesOK, Going, Based, Active
  <2>2. EventsOK(i)' /\ ReaderOK(i)'
    BY <1>2, <1>3, <1>4 DEF EventsOK, ReaderOK
  <2>3. SettledOK(i)' /\ OwnDiffOK(i)'
    BY <1>2, <1>3, <1>4 DEF SettledOK, OwnDiffOK, StagesOK
  <2> QED BY <2>1, <2>2, <2>3 DEF RunOK
<1>8. Calm(i)
  BY <1>2, <1>4 DEF Calm
<1> QED BY <1>2, <1>5, <1>6, <1>7, <1>8, QuietStep

(* A run whose pipe is given up is marked so.                              *)
LEMMA DrainTimeoutKeeps ==
  ASSUME McpInv, NEW i \in RunIds, DrainTimeout(i) PROVE McpInv'
<1> DEFINE R == [rec[i] EXCEPT !.lost = TRUE]
<1>1. task[i] = "draining" /\ reader[i] = "on" /\ holder[i] # "none"
      /\ reader' = [reader EXCEPT ![i] = "aborting"]
      /\ holder' = [holder EXCEPT ![i] = IF @ = "group" THEN "none" ELSE @]
      /\ Recorded(i, R) /\ task' = [task EXCEPT ![i] = "finish"]
      /\ UNCHANGED <<setting, runs, token, killed, hk, pipe, said, tree, left, base>>
  BY DEF DrainTimeout
<1>2. rec[i] \in Records /\ StagesOK(i) /\ EventsOK(i) /\ ReaderOK(i) /\ SettledOK(i) /\ OwnDiffOK(i)
  BY TypedRun
<1>3. i \in runs
  BY <1>1, <1>2 DEF StagesOK, Going, Based
<1>4. rec' = [rec EXCEPT ![i] = R]
  BY <1>1, <1>3 DEF Recorded
<1>5. /\ R \in Records /\ R.status = rec[i].status /\ R.error = rec[i].error /\ R.root = rec[i].root
      /\ R.result = rec[i].result /\ R.completed = rec[i].completed /\ R.diff = rec[i].diff
      /\ R.truncated = rec[i].truncated /\ R.lost = TRUE
  BY <1>2 DEF Records
<1> HIDE DEF R
<1>6. McpTypes'
  BY <1>1, <1>4, <1>5 DEF McpInv, McpTypes, Going, Based
<1>7. rec'[i] = R /\ task'[i] = "finish" /\ reader'[i] = "aborting"
      /\ \A j \in RunIds \ {i} : rec'[j] = rec[j] /\ task'[j] = task[j] /\ holder'[j] = holder[j]
                                 /\ reader'[j] = reader[j]
  BY <1>1, <1>4 DEF McpInv, McpTypes
<1>8. \A j \in RunIds \ {i} : SameRun(j)
  BY <1>1, <1>7 DEF SameRun
<1>9. RunOK(i)'
  <2>1. StagesOK(i)'
    BY <1>1, <1>2, <1>5, <1>7 DEF StagesOK, Going, Based, Active
  <2>2. EventsOK(i)' /\ ReaderOK(i)'
    BY <1>1, <1>2, <1>5, <1>7 DEF EventsOK, ReaderOK, Going, Based
  <2>3. SettledOK(i)' /\ OwnDiffOK(i)'
    BY <1>1, <1>2, <1>5, <1>7 DEF SettledOK, OwnDiffOK
  <2> QED BY <2>1, <2>2, <2>3 DEF RunOK
<1>10. Calm(i)
  BY <1>1, <1>5, <1>7 DEF Calm, Going, Based
<1> QED BY <1>1, <1>6, <1>8, <1>9, <1>10, QuietStep

(* A reader stops at the end of the pipe, or when aborted.                 *)
LEMMA ReaderStopsKeeps ==
  ASSUME McpInv, NEW i \in RunIds, ReaderStops(i) PROVE McpInv'
<1>1. \/ reader[i] = "aborting"
      \/ reader[i] = "on" /\ pipe[i] = <<>> /\ hk[i] # "up" /\ holder[i] = "none"
  BY DEF ReaderStops
<1>2. reader' = [reader EXCEPT ![i] = "off"]
      /\ UNCHANGED <<setting, runs, rec, task, token, killed, hk, pipe, said, holder, tree, left, base>>
  BY DEF ReaderStops, runVars, procVars
<1>3. rec[i] \in Records /\ StagesOK(i) /\ EventsOK(i) /\ ReaderOK(i) /\ SettledOK(i) /\ OwnDiffOK(i)
  BY TypedRun
<1>4. McpTypes'
  BY <1>2 DEF McpInv, McpTypes
<1>5. reader'[i] = "off" /\ \A j \in RunIds \ {i} : reader'[j] = reader[j]
  BY <1>2 DEF McpInv, McpTypes
<1>6. \A j \in RunIds \ {i} : SameRun(j)
  BY <1>2, <1>5 DEF SameRun
<1>7. RunOK(i)'
  BY <1>1, <1>2, <1>3, <1>5 DEF RunOK, StagesOK, Unborn, EventsOK, ReaderOK, SettledOK, OwnDiffOK,
     Active
<1>8. Calm(i)
  BY <1>2 DEF Calm
<1> QED BY <1>2, <1>4, <1>6, <1>7, <1>8, QuietStep

(* A process that was left behind ends.                                    *)
LEMMA HolderEndsKeeps ==
  ASSUME McpInv, NEW i \in RunIds, HolderEnds(i) PROVE McpInv'
<1>1. holder' = [holder EXCEPT ![i] = "none"]
      /\ UNCHANGED <<setting, runs, rec, task, token, killed, hk, pipe, said, reader, tree, left, base>>
  BY DEF HolderEnds, runVars
<1>2. rec[i] \in Records /\ StagesOK(i) /\ EventsOK(i) /\ ReaderOK(i) /\ SettledOK(i) /\ OwnDiffOK(i)
  BY TypedRun
<1>3. McpTypes'
  BY <1>1 DEF McpInv, McpTypes
<1>4. holder'[i] = "none" /\ \A j \in RunIds \ {i} : holder'[j] = holder[j]
  BY <1>1 DEF McpInv, McpTypes
<1>5. \A j \in RunIds \ {i} : SameRun(j)
  BY <1>1, <1>4 DEF SameRun
<1>6. RunOK(i)'
  BY <1>1, <1>2, <1>4 DEF RunOK, StagesOK, Unborn, EventsOK, ReaderOK, SettledOK, OwnDiffOK,
     Active
<1>7. Calm(i)
  BY <1>1 DEF Calm
<1> QED BY <1>1, <1>3, <1>5, <1>6, <1>7, QuietStep

(* Short rows of events.                                                   *)
LEMMA ShortRows ==
  ASSUME NEW e \in EventsOfHk
  PROVE  /\ Append(<<>>, e) = <<e>> /\ Append(<<"started">>, e) = <<"started", e>>
         /\ Head(<<e>>) = e /\ Tail(<<e>>) = <<>>
         /\ Head(<<"started", e>>) = "started" /\ Tail(<<"started", e>>) = <<e>>
         /\ <<e>> # <<>> /\ <<"started", e>> # <<>> /\ <<"started", e>> # <<e>>
<1>1. Append(<<>>, e) = <<e>>
  OBVIOUS
<1>2. Append(<<"started">>, e) = <<"started", e>>
  <2>1. "started" \in EventsOfHk
    BY DEF EventsOfHk
  <2>2. LET long == Append(<<"started">>, e)
        IN /\ long \in Seq(EventsOfHk) /\ <<"started", e>> \in Seq(EventsOfHk)
           /\ Len(long) = 2 /\ Len(<<"started", e>>) = 2 /\ long[1] = "started" /\ long[2] = e
    BY <2>1
  <2>3. \A k \in 1 .. 2 : Append(<<"started">>, e)[k] = <<"started", e>>[k]
    BY <2>2
  <2> QED BY <2>2, <2>3, SeqEqual
<1>3. Head(<<e>>) = e /\ Tail(<<e>>) = <<>>
  OBVIOUS
<1>4. Head(<<"started", e>>) = "started"
  OBVIOUS
<1>5. Tail(<<"started", e>>) = <<e>>
  OBVIOUS
<1>6. <<e>> # <<>> /\ <<"started", e>> # <<>> /\ <<"started", e>> # <<e>>
  OBVIOUS
<1> QED BY <1>1, <1>2, <1>3, <1>4, <1>5, <1>6

(* What hk says waits in the pipe.                                         *)
LEMMA SaysKeeps ==
  ASSUME McpInv, NEW i \in RunIds, Says(i) PROVE McpInv'
<1>1. hk[i] = "up" /\ said[i] \notin Verdicts
      /\ UNCHANGED <<setting, runs, rec, task, token, killed, hk, holder, tree, left, reader, base>>
  BY DEF Says, runVars
<1>2. PICK e \in IF said[i] = "nothing" THEN {"started"} ELSE setting.verdicts[i] :
        pipe' = [pipe EXCEPT ![i] = Append(@, e)] /\ said' = [said EXCEPT ![i] = e]
  BY DEF Says
<1>3. rec[i] \in Records /\ StagesOK(i) /\ EventsOK(i) /\ ReaderOK(i) /\ SettledOK(i) /\ OwnDiffOK(i)
  BY TypedRun
<1>4. /\ said[i] = "nothing" => e = "started"
      /\ said[i] = "started" => e \in Verdicts
      /\ said[i] \in {"nothing", "started"} /\ e \in EventsOfHk
  BY <1>1, <1>2, SettingsAssumption DEF McpInv, McpTypes, EventsOfHk
<1>5. pipe'[i] = Append(pipe[i], e) /\ said'[i] = e
      /\ \A j \in RunIds \ {i} : pipe'[j] = pipe[j] /\ said'[j] = said[j]
  BY <1>2 DEF McpInv, McpTypes
<1>6. Append(pipe[i], e) \in {<<e>>, <<"started", e>>}
      /\ (e = "started" => Append(pipe[i], e) = <<"started">>)
  <2>1. CASE said[i] = "nothing"
    <3>1. pipe[i] = <<>> /\ e = "started"
      BY <2>1, <1>3, <1>4 DEF EventsOK
    <3>2. Append(pipe[i], e) = <<e>>
      BY <3>1, <1>4, ShortRows
    <3> QED BY <3>1, <3>2
  <2>2. CASE said[i] = "started" /\ pipe[i] = <<>>
    <3>1. Append(pipe[i], e) = <<e>>
      BY <2>2, <1>4, ShortRows
    <3> QED BY <2>2, <3>1, <1>4 DEF Verdicts
  <2>3. CASE said[i] = "started" /\ pipe[i] = <<"started">>
    <3>1. Append(pipe[i], e) = <<"started", e>>
      BY <2>3, <1>4, ShortRows
    <3>2. e # "started"
      BY <2>3, <1>4 DEF Verdicts
    <3> QED BY <3>1, <3>2
  <2> QED BY <2>1, <2>2, <2>3, <1>3, <1>4 DEF EventsOK
<1>7. McpTypes'
  <2>1. Append(pipe[i], e) \in Seq(EventsOfHk)
    BY <1>4 DEF McpInv, McpTypes
  <2> QED BY <2>1, <1>1, <1>2, <1>4 DEF McpInv, McpTypes
<1>8. \A j \in RunIds \ {i} : SameRun(j)
  BY <1>1, <1>5 DEF SameRun
<1>9. Append(pipe[i], e) # <<>>
  BY <1>6
<1>10. RunOK(i)'
  <2>1. StagesOK(i)'
    BY <1>1, <1>3, <1>5 DEF StagesOK, Unborn, Active
  <2>2. EventsOK(i)'
    BY <1>1, <1>3, <1>4, <1>5, <1>6, <1>9 DEF EventsOK, EventsOfHk, Verdicts
  <2>3. ReaderOK(i)'
    BY <1>1, <1>3, <1>5 DEF ReaderOK, StagesOK
  <2>4. SettledOK(i)' /\ OwnDiffOK(i)'
    BY <1>1, <1>3, <1>5 DEF SettledOK, OwnDiffOK, StagesOK
  <2> QED BY <2>1, <2>2, <2>3, <2>4 DEF RunOK
<1>11. Calm(i)
  BY <1>1 DEF Calm
<1> QED BY <1>1, <1>7, <1>8, <1>10, <1>11, QuietStep

(* What is read is in the record, as long as it is taken.                  *)
LEMMA ReadOutputKeeps ==
  ASSUME McpInv, NEW i \in RunIds, ReadOutput(i) PROVE McpInv'
<1>1. reader[i] # "off" /\ pipe[i] # <<>>
      /\ pipe' = [pipe EXCEPT ![i] = Tail(@)]
      /\ reader' = (IF reader[i] = "aborting" \/ i \notin runs
                    THEN [reader EXCEPT ![i] = "off"] ELSE reader)
      /\ UNCHANGED <<setting, runs, task, token, killed, hk, said, holder, tree, left, base>>
  BY DEF ReadOutput
<1>2. rec[i] \in Records /\ StagesOK(i) /\ EventsOK(i) /\ ReaderOK(i) /\ SettledOK(i) /\ OwnDiffOK(i)
  BY TypedRun
<1> DEFINE e == Head(pipe[i])
<1>3. /\ hk[i] # "none" /\ pipe[i] \in Seq(EventsOfHk)
      /\ \/ pipe[i] = <<"started">> /\ e = "started" /\ Tail(pipe[i]) = <<>>
         \/ pipe[i] = <<said[i]>> /\ e = said[i] /\ said[i] \in Verdicts /\ Tail(pipe[i]) = <<>>
         \/ pipe[i] = <<"started", said[i]>> /\ e = "started" /\ said[i] \in Verdicts
            /\ Tail(pipe[i]) = <<said[i]>>
  <2>1. hk[i] # "none" /\ pipe[i] \in Seq(EventsOfHk)
    BY <1>1, <1>2 DEF StagesOK, Unborn, McpInv, McpTypes
  <2>2. said[i] = "started" \/ said[i] \in Verdicts
    BY <1>1, <1>2 DEF EventsOK, EventsOfHk, McpInv, McpTypes
  <2>3. \/ said[i] = "started" /\ pipe[i] = <<"started">>
        \/ said[i] \in Verdicts /\ pipe[i] = <<said[i]>>
        \/ said[i] \in Verdicts /\ pipe[i] = <<"started", said[i]>>
    BY <2>2, <1>1, <1>2 DEF EventsOK
  <2>4. said[i] \in EventsOfHk /\ "started" \in EventsOfHk
    BY <2>2 DEF EventsOfHk
  <2>5. CASE said[i] = "started" /\ pipe[i] = <<"started">>
    <3>1. Head(<<"started">>) = "started" /\ Tail(<<"started">>) = <<>>
      BY <2>4, ShortRows
    <3> QED BY <2>1, <2>5, <3>1
  <2>6. CASE said[i] \in Verdicts /\ pipe[i] = <<said[i]>>
    <3>1. Head(<<said[i]>>) = said[i] /\ Tail(<<said[i]>>) = <<>>
      BY <2>4, ShortRows
    <3> QED BY <2>1, <2>6, <3>1
  <2>7. CASE said[i] \in Verdicts /\ pipe[i] = <<"started", said[i]>>
    <3>1. Head(<<"started", said[i]>>) = "started" /\ Tail(<<"started", said[i]>>) = <<said[i]>>
      BY <2>4, ShortRows
    <3> QED BY <2>1, <2>7, <3>1
  <2> QED BY <2>3, <2>5, <2>6, <2>7
<1>4. ~rec[i].completed
  BY <1>1, <1>2 DEF EventsOK
<1>5. PICK R \in Records :
        /\ rec' = [rec EXCEPT ![i] = R]
        /\ R.root = rec[i].root /\ R.status = rec[i].status /\ R.lost = rec[i].lost
        /\ R.error = rec[i].error /\ R.diff = rec[i].diff
        /\ rec[i].truncated => R.truncated
        /\ R.completed => R.result = e /\ e \in Verdicts
        /\ ~R.truncated /\ i \in runs /\ e \in Verdicts => R.completed
  <2>1. rec = [rec EXCEPT ![i] = rec[i]]
    BY DEF McpInv, McpTypes
  <2>2. CASE rec[i].truncated \/ i \notin runs
    <3>1. rec' = rec
      BY <2>2 DEF ReadOutput, Recorded
    <3> QED BY <3>1, <2>1, <2>2, <1>2, <1>4
  <2>3. CASE i \in runs /\ rec' = [rec EXCEPT ![i] = [rec[i] EXCEPT !.truncated = TRUE]]
    <3> DEFINE Q == [rec[i] EXCEPT !.truncated = TRUE]
    <3>1. /\ Q \in Records /\ Q.root = rec[i].root /\ Q.status = rec[i].status
          /\ Q.lost = rec[i].lost /\ Q.error = rec[i].error /\ Q.diff = rec[i].diff
          /\ Q.truncated = TRUE /\ Q.completed = rec[i].completed
      BY <1>2 DEF Records
    <3> HIDE DEF Q
    <3>2. rec' = [rec EXCEPT ![i] = Q]
      BY <2>3 DEF Q
    <3> QED BY <3>1, <3>2, <1>4
  <2>4. CASE i \in runs /\ rec' = [rec EXCEPT ![i] = Applied(rec[i], e)]
    <3>1. CASE e = "started"
      <4> DEFINE Q == [rec[i] EXCEPT !.result = "running"]
      <4>1. /\ Q \in Records /\ Q.root = rec[i].root /\ Q.status = rec[i].status
            /\ Q.lost = rec[i].lost /\ Q.error = rec[i].error /\ Q.diff = rec[i].diff
            /\ Q.truncated = rec[i].truncated /\ Q.completed = rec[i].completed
        BY <1>2 DEF Records
      <4> HIDE DEF Q
      <4>2. rec' = [rec EXCEPT ![i] = Q]
        BY <2>4, <3>1 DEF Q, Applied
      <4> QED BY <4>1, <4>2, <1>4, <3>1 DEF Verdicts
    <3>2. CASE e \in Verdicts
      <4> DEFINE Q == [rec[i] EXCEPT !.result = e, !.completed = TRUE]
      <4>1. /\ Q \in Records /\ Q.root = rec[i].root /\ Q.status = rec[i].status
            /\ Q.lost = rec[i].lost /\ Q.error = rec[i].error /\ Q.diff = rec[i].diff
            /\ Q.truncated = rec[i].truncated /\ Q.completed = TRUE /\ Q.result = e
        BY <1>2, <3>2 DEF Records
      <4> HIDE DEF Q
      <4>2. rec' = [rec EXCEPT ![i] = Q]
        BY <2>4, <3>2 DEF Q, Applied, Verdicts
      <4> QED BY <4>1, <4>2, <3>2
    <3> QED BY <3>1, <3>2, <1>3
  <2> QED BY <2>2, <2>3, <2>4 DEF ReadOutput, Recorded
<1>6. rec'[i] = R /\ pipe'[i] = Tail(pipe[i])
      /\ \A j \in RunIds \ {i} : rec'[j] = rec[j] /\ pipe'[j] = pipe[j] /\ reader'[j] = reader[j]
  BY <1>1, <1>5 DEF McpInv, McpTypes
<1>7. reader'[i] = IF reader[i] = "aborting" \/ i \notin runs THEN "off" ELSE reader[i]
  BY <1>1 DEF McpInv, McpTypes
<1>8. McpTypes'
  <2>1. Tail(pipe[i]) \in Seq(EventsOfHk)
    BY <1>1, <1>3
  <2>2. pipe' \in [RunIds -> Seq(EventsOfHk)]
    BY <2>1, <1>1 DEF McpInv, McpTypes
  <2>3. reader' \in [RunIds -> {"off", "on", "aborting"}] /\ rec' \in [RunIds -> Records]
    BY <1>1, <1>5 DEF McpInv, McpTypes
  <2> QED BY <2>2, <2>3, <1>1 DEF McpInv, McpTypes
<1>9. \A j \in RunIds \ {i} : SameRun(j)
  BY <1>1, <1>6 DEF SameRun
<1> HIDE DEF e
<1>10. RunOK(i)'
  <2>1. StagesOK(i)'
    BY <1>1, <1>2, <1>3, <1>5, <1>6 DEF StagesOK, Active
  <2>2. EventsOK(i)'
    <3>1. <<said[i]>> # <<>> /\ "started" \notin Verdicts /\ "nothing" \notin Verdicts
      BY DEF Verdicts
    <3>2. task[i] \in Going => i \in runs
      BY <1>2 DEF StagesOK
    <3>3. said[i] = "nothing" => pipe[i] = <<>>
      BY <1>2 DEF EventsOK
    <3>4. said[i] # "nothing" /\ said'[i] = said[i] /\ task'[i] = task[i] /\ hk'[i] = hk[i]
      BY <3>3, <1>1
    <3>5. ~rec[i].completed /\ (hk[i] = "ok" => said[i] = "passed")
      BY <1>4, <1>2 DEF EventsOK
    <3>6. CASE pipe[i] = <<"started">> /\ e = "started" /\ Tail(pipe[i]) = <<>> /\ said[i] \notin Verdicts
      BY <3>6, <1>5, <1>6, <3>1, <3>4, <3>5 DEF EventsOK
    <3>7. CASE pipe[i] = <<said[i]>> /\ e = said[i] /\ said[i] \in Verdicts /\ Tail(pipe[i]) = <<>>
      BY <3>7, <1>5, <1>6, <3>1, <3>2, <3>4, <3>5 DEF EventsOK
    <3>8. CASE pipe[i] = <<"started", said[i]>> /\ e = "started" /\ said[i] \in Verdicts
               /\ Tail(pipe[i]) = <<said[i]>>
      BY <3>8, <1>5, <1>6, <3>1, <3>4, <3>5 DEF EventsOK
    <3>9. pipe[i] = <<"started">> => said[i] \notin Verdicts
      BY <1>2, <3>1, ShortRows DEF EventsOK, EventsOfHk
    <3> QED BY <1>3, <3>6, <3>7, <3>8, <3>9
  <2>3. ReaderOK(i)'
    BY <1>1, <1>2, <1>3, <1>5, <1>6, <1>7 DEF ReaderOK, StagesOK, Going, Based
  <2>4. SettledOK(i)' /\ OwnDiffOK(i)'
    BY <1>1, <1>2, <1>4, <1>5, <1>6 DEF SettledOK, OwnDiffOK
  <2> QED BY <2>1, <2>2, <2>3, <2>4 DEF RunOK
<1>11. Calm(i)
  BY <1>1, <1>5, <1>6 DEF Calm
<1> QED BY <1>1, <1>8, <1>9, <1>10, <1>11, QuietStep

(* A snapshot of the tree, and none.                                       *)
LEMMA TakenOf ==
  ASSUME NEW S \in SUBSET RunIds
  PROVE  /\ Of(S) \in Snapshots /\ Of(S).of = S /\ Of(S).taken = TRUE
         /\ Nothing \in Snapshots /\ Nothing.of = {} /\ Nothing.taken = FALSE
<1>1. Of(S) \in Snapshots /\ Of(S).of = S /\ Of(S).taken = TRUE
  BY DEF Of, Snapshots
<1>2. Nothing \in Snapshots /\ Nothing.of = {} /\ Nothing.taken = FALSE
  BY DEF Nothing, Snapshots
<1> QED BY <1>1, <1>2

(* A step of one run that also changes how it is to the others.            *)
LEMMA NearStep ==
  ASSUME McpInv, NEW i \in RunIds, \A j \in RunIds \ {i} : SameRun(j), McpTypes', RunOK(i)',
         \A j \in RunIds \ {i} : ApartOK(i, j)' /\ ApartOK(j, i)', tree \subseteq tree'
  PROVE  McpInv'
<1>1. \A j \in RunIds \ {i} : RunOK(j)' /\ Calm(j)
  BY SameIsOK DEF McpInv
<1>2. \A j, k \in RunIds : j # k => ApartOK(j, k)'
  BY <1>1, CalmIsApart DEF McpInv
<1> QED BY <1>1, <1>2 DEF McpInv

(* Two runs.                                                               *)
LEMMA TypedPair ==
  ASSUME McpInv, NEW i \in RunIds, NEW j \in RunIds \ {i}
  PROVE  ApartOK(i, j) /\ ApartOK(j, i)
BY DEF McpInv

(* The snapshot has the changes of all runs before, and not the run's own. *)
LEMMA BaselineKeeps ==
  ASSUME McpInv, NEW i \in RunIds, Baseline(i) PROVE McpInv'
<1>1. task[i] = "baseline" /\ task' = [task EXCEPT ![i] = "spawn"]
      /\ UNCHANGED <<setting, runs, rec, token, killed, hk, pipe, said, holder, tree, left, reader>>
  BY DEF Baseline, runVars, procVars
<1>2. PICK b \in {Of(tree), Nothing} : base' = [base EXCEPT ![i] = b]
  BY DEF Baseline
<1>3. rec[i] \in Records /\ StagesOK(i) /\ EventsOK(i) /\ ReaderOK(i) /\ SettledOK(i) /\ OwnDiffOK(i)
  BY TypedRun
<1>4. b \in Snapshots /\ b.of \subseteq tree /\ (b.taken => b.of = tree)
  <2>1. tree \in SUBSET RunIds
    BY DEF McpInv, McpTypes
  <2>2. CASE b = Of(tree)
    BY <2>1, <2>2, TakenOf
  <2>3. CASE b = Nothing
    BY <2>1, <2>3, TakenOf
  <2> QED BY <1>2, <2>2, <2>3
<1>5. McpTypes'
  BY <1>1, <1>2, <1>4 DEF McpInv, McpTypes, Going, Based
<1>6. task'[i] = "spawn" /\ base'[i] = b
      /\ \A j \in RunIds \ {i} : task'[j] = task[j] /\ base'[j] = base[j]
  BY <1>1, <1>2 DEF McpInv, McpTypes
<1>7. \A j \in RunIds \ {i} : SameRun(j)
  BY <1>1, <1>6 DEF SameRun
<1>8. RunOK(i)'
  <2>1. StagesOK(i)' /\ i \notin tree
    BY <1>1, <1>3, <1>6 DEF StagesOK, Unborn, Going, Based, Active
  <2>2. EventsOK(i)' /\ ReaderOK(i)' /\ SettledOK(i)'
    BY <1>1, <1>3, <1>6 DEF EventsOK, ReaderOK, SettledOK, Going, Based
  <2>3. OwnDiffOK(i)'
    BY <1>1, <1>4, <1>6, <2>1 DEF OwnDiffOK
  <2> QED BY <2>1, <2>2, <2>3 DEF RunOK
<1>9. ASSUME NEW j \in RunIds \ {i} PROVE ApartOK(i, j)' /\ ApartOK(j, i)'
  BY <1>1, <1>4, <1>6, TypedPair DEF ApartOK, Going, Based
<1> QED BY <1>1, <1>5, <1>7, <1>8, <1>9, NearStep

(* Who changes the tree is the one run of its root, or was left behind.    *)
LEMMA ChangesKeeps ==
  ASSUME McpInv, NEW i \in RunIds, Changes(i) PROVE McpInv'
<1>1. (hk[i] = "up" \/ holder[i] # "none") /\ tree' = tree \cup {i}
      /\ UNCHANGED <<setting, runs, rec, task, token, killed, hk, pipe, said, holder, left, reader, base>>
  BY DEF Changes, runVars
<1>2. rec[i] \in Records /\ StagesOK(i) /\ EventsOK(i) /\ ReaderOK(i) /\ SettledOK(i) /\ OwnDiffOK(i)
  BY TypedRun
<1>3. McpTypes'
  BY <1>1 DEF McpInv, McpTypes
<1>4. \A j \in RunIds \ {i} : SameRun(j)
  BY <1>1 DEF SameRun
<1>5. hk[i] # "none" /\ (i \notin left => task[i] \in {"waiting", "stopping"})
  BY <1>1, <1>2 DEF StagesOK, Unborn
<1>6. RunOK(i)'
  <2>1. StagesOK(i)'
    BY <1>1, <1>2, <1>5 DEF StagesOK, Active
  <2>2. EventsOK(i)' /\ ReaderOK(i)' /\ SettledOK(i)'
    BY <1>1, <1>2 DEF EventsOK, ReaderOK, SettledOK
  <2>3. OwnDiffOK(i)'
    BY <1>1, <1>2, <1>5 DEF OwnDiffOK
  <2> QED BY <2>1, <2>2, <2>3 DEF RunOK
<1>7. ASSUME NEW j \in RunIds \ {i} PROVE ApartOK(i, j)' /\ ApartOK(j, i)'
  BY <1>1, <1>5, TypedPair DEF ApartOK, Going, Based
<1> QED BY <1>1, <1>3, <1>4, <1>6, <1>7, NearStep

(* A run starts in a root without any that goes on.                        *)
LEMMA StartKeeps ==
  ASSUME McpInv, NEW i \in RunIds, NEW r \in Nat, Start(i, r) PROVE McpInv'
<1>1. PICK expired \in SUBSET Completed(runs, rec) :
       LET list == Cleaned(runs, rec, expired)
       IN IF \E j \in list : rec[j].root = r /\ Active(rec[j])
          THEN runs' = list /\ UNCHANGED <<rec, task>>
          ELSE /\ runs' = list \cup {i}
               /\ rec' = [rec EXCEPT ![i] = [NoRun EXCEPT !.root = r, !.status = "starting"]]
               /\ task' = [task EXCEPT ![i] = "baseline"]
  BY DEF Start
<1> DEFINE list == Cleaned(runs, rec, expired)
<1>2. list \subseteq runs /\ \A j \in runs : Active(rec[j]) => j \in list
  BY CleanedKeeps
<1>3. task[i] = "none"
      /\ UNCHANGED <<setting, token, killed, hk, pipe, said, holder, tree, left, reader, base>>
  BY DEF Start, procVars
<1>4. \A j \in RunIds : StagesOK(j) /\ OwnDiffOK(j) /\ RunOK(j)
  BY TypedRun DEF McpInv
<1>5. \A j \in RunIds : task[j] \in Going => j \in runs /\ j \in list /\ Active(rec[j])
  BY <1>2, <1>4 DEF StagesOK
<1>6. CASE runs' = list /\ rec' = rec /\ task' = task
  <2>1. \A j \in RunIds : SameRun(j)
    BY <1>2, <1>3, <1>5, <1>6 DEF SameRun
  <2>2. McpTypes'
    BY <1>2, <1>3, <1>6 DEF McpInv, McpTypes
  <2>3. RunOK(i)' /\ Calm(i)
    BY <2>1, <1>3, <1>4, SameIsOK
  <2> QED BY <2>1, <2>2, <2>3, <1>3, QuietStep
<1>7. CASE /\ ~\E j \in list : rec[j].root = r /\ Active(rec[j])
           /\ runs' = list \cup {i} /\ task' = [task EXCEPT ![i] = "baseline"]
           /\ rec' = [rec EXCEPT ![i] = [NoRun EXCEPT !.root = r, !.status = "starting"]]
  <2> DEFINE R == [NoRun EXCEPT !.root = r, !.status = "starting"]
  <2>1. /\ R \in Records /\ R.root = r /\ R.status = "starting" /\ R.completed = FALSE
        /\ R.lost = FALSE /\ R.truncated = FALSE /\ R.error = FALSE /\ R.diff.taken = FALSE
    BY DEF Records, NoRun, Nothing, Snapshots
  <2>2. rec' = [rec EXCEPT ![i] = R]
    BY <1>7
  <2> HIDE DEF R, list
  <2>3. McpTypes'
    BY <2>1, <2>2, <1>2, <1>3, <1>7 DEF McpInv, McpTypes, Going, Based
  <2>4. rec'[i] = R /\ task'[i] = "baseline"
        /\ \A j \in RunIds \ {i} : rec'[j] = rec[j] /\ task'[j] = task[j]
    BY <2>2, <1>7 DEF McpInv, McpTypes
  <2>5. \A j \in RunIds \ {i} : SameRun(j)
    BY <2>4, <1>2, <1>3, <1>5, <1>7 DEF SameRun
  <2>6. hk[i] = "none" /\ Unborn(i) /\ i \notin tree
    BY <1>3, <1>4 DEF StagesOK, Unborn
  <2>7. RunOK(i)'
    <3>1. StagesOK(i)'
      BY <2>1, <2>4, <2>6, <1>3, <1>4, <1>7 DEF StagesOK, Unborn, Going, Based, Active
    <3>2. EventsOK(i)' /\ ReaderOK(i)' /\ SettledOK(i)'
      BY <2>1, <2>4, <2>6, <1>3 DEF EventsOK, ReaderOK, SettledOK, Unborn, Verdicts
    <3>3. OwnDiffOK(i)'
      BY <2>4, <1>3, <1>4 DEF OwnDiffOK
    <3> QED BY <3>1, <3>2, <3>3 DEF RunOK
  <2>8. ASSUME NEW j \in RunIds \ {i} PROVE ApartOK(i, j)' /\ ApartOK(j, i)'
    <3>1. ApartOK(j, i) /\ OwnDiffOK(j)
      BY TypedPair, <1>4
    <3>2. task[j] \in Going => rec[j].root # r
      BY <1>5, <1>7
    <3> QED BY <3>1, <3>2, <2>1, <2>4, <2>6, <1>3 DEF ApartOK, OwnDiffOK, Going, Based
  <2> QED BY <2>3, <2>5, <2>7, <2>8, <1>3, NearStep
<1> QED BY <1>1, <1>6, <1>7

(* A run that is cancelled still goes on, or is settled already.           *)
LEMMA CancelRunKeeps ==
  ASSUME McpInv, NEW i \in RunIds, CancelRun(i) PROVE McpInv'
<1> DEFINE list == Cleaned(runs, rec, {})
<1>1. /\ i \in list /\ runs' = list
      /\ IF Active(rec[i])
         THEN rec' = [rec EXCEPT ![i].status = "cancelling"] /\ token' = token \cup {i}
         ELSE UNCHANGED <<rec, token>>
      /\ UNCHANGED <<setting, task, killed, hk, pipe, said, holder, tree, left, reader, base>>
  BY DEF CancelRun, procVars
<1>2. list \subseteq runs /\ \A j \in runs : Active(rec[j]) => j \in list
  <2>1. {} \subseteq Completed(runs, rec)
    OBVIOUS
  <2> QED BY <2>1, CleanedKeeps
<1>3. \A j \in RunIds : StagesOK(j) /\ RunOK(j)
  BY TypedRun DEF McpInv
<1>4. \A j \in RunIds : task[j] \in Going => j \in runs /\ j \in list
  BY <1>2, <1>3 DEF StagesOK
<1>5. CASE ~Active(rec[i])
  <2>1. \A j \in RunIds : SameRun(j)
    BY <1>1, <1>2, <1>4, <1>5 DEF SameRun
  <2>2. McpTypes'
    BY <1>1, <1>2, <1>5 DEF McpInv, McpTypes
  <2>3. RunOK(i)' /\ Calm(i)
    BY <2>1, <1>1, <1>3, SameIsOK
  <2> QED BY <2>1, <2>2, <2>3, <1>1, QuietStep
<1>6. CASE Active(rec[i])
  <2> DEFINE R == [rec[i] EXCEPT !.status = "cancelling"]
  <2>1. rec[i] \in Records /\ StagesOK(i) /\ EventsOK(i) /\ ReaderOK(i) /\ SettledOK(i) /\ OwnDiffOK(i)
    BY TypedRun
  <2>2. /\ R \in Records /\ R.status = "cancelling" /\ R.error = rec[i].error
        /\ R.root = rec[i].root /\ R.result = rec[i].result /\ R.completed = rec[i].completed
        /\ R.diff = rec[i].diff /\ R.truncated = rec[i].truncated /\ R.lost = rec[i].lost
    BY <2>1 DEF Records
  <2>3. rec' = [rec EXCEPT ![i] = R] /\ token' = token \cup {i}
    BY <1>1, <1>6
  <2> HIDE DEF R
  <2>4. McpTypes'
    BY <2>2, <2>3, <1>1, <1>2 DEF McpInv, McpTypes
  <2>5. rec'[i] = R /\ \A j \in RunIds \ {i} : rec'[j] = rec[j]
    BY <2>3 DEF McpInv, McpTypes
  <2> HIDE DEF list
  <2>6. \A j \in RunIds \ {i} : SameRun(j)
    BY <2>3, <2>5, <1>1, <1>2, <1>4 DEF SameRun
  <2>7. RunOK(i)'
    <3>1. StagesOK(i)'
      BY <2>1, <2>2, <2>3, <2>5, <1>1, <1>2, <1>6 DEF StagesOK, Unborn, Active, Going, Based
    <3>2. EventsOK(i)' /\ ReaderOK(i)'
      BY <2>1, <2>2, <2>5, <1>1 DEF EventsOK, ReaderOK
    <3>3. SettledOK(i)' /\ OwnDiffOK(i)'
      BY <2>1, <2>2, <2>5, <1>1, <1>6 DEF SettledOK, OwnDiffOK, StagesOK, Going, Based
    <3> QED BY <3>1, <3>2, <3>3 DEF RunOK
  <2>8. Calm(i)
    BY <2>2, <2>5, <1>1 DEF Calm
  <2> QED BY <2>4, <2>6, <2>7, <2>8, <1>1, QuietStep
<1> QED BY <1>5, <1>6

(* The verdict is hk's, and the diff has no changes of other runs.         *)
LEMMA FinishKeeps ==
  ASSUME McpInv, NEW i \in RunIds, Finish(i) PROVE McpInv'
<1> DEFINE R == [Verdict(i, rec[i]) EXCEPT !.diff = Captured(i)]
<1>1. task[i] = "finish" /\ Recorded(i, R) /\ runs' = Cleaned(runs, rec', {})
      /\ task' = [task EXCEPT ![i] = "over"]
      /\ UNCHANGED <<setting, token, killed, hk, pipe, said, holder, tree, left, reader, base>>
  BY DEF Finish, procVars
<1>2. rec[i] \in Records /\ StagesOK(i) /\ EventsOK(i) /\ ReaderOK(i) /\ SettledOK(i) /\ OwnDiffOK(i)
  BY TypedRun
<1>3. i \in runs
  BY <1>1, <1>2 DEF StagesOK, Going, Based
<1>4. Captured(i) \in Snapshots /\ base[i] \in Snapshots
      /\ Captured(i) = IF base[i].taken THEN Of(tree \ base[i].of) ELSE Nothing
  BY DEF McpInv, McpTypes, Captured, Of, Nothing, Snapshots
<1>5. /\ Captured(i).taken = base[i].taken
      /\ Captured(i).taken => Captured(i).of = tree \ base[i].of
  <2>1. tree \ base[i].of \in SUBSET RunIds /\ base[i].taken \in BOOLEAN
    BY <1>4 DEF McpInv, McpTypes, Snapshots
  <2> QED BY <2>1, <1>4, TakenOf
<1>6. /\ R \in Records /\ R.diff = Captured(i) /\ R.root = rec[i].root
      /\ R.completed = rec[i].completed /\ R.truncated = rec[i].truncated /\ R.lost = rec[i].lost
      /\ R.status = (IF i \in killed \/ (rec[i].completed /\ rec[i].result = "cancelled")
                     THEN "cancelled"
                     ELSE IF rec[i].completed /\ hk[i] = "ok" THEN "succeeded" ELSE "failed")
      /\ R.error = (rec[i].error \/ ~rec[i].completed)
      /\ rec[i].completed => R.result = rec[i].result
  <2> DEFINE V == Verdict(i, rec[i])
  <2>1. /\ V \in Records /\ V.root = rec[i].root
        /\ V.completed = rec[i].completed /\ V.truncated = rec[i].truncated /\ V.lost = rec[i].lost
        /\ V.status = (IF i \in killed \/ (rec[i].completed /\ rec[i].result = "cancelled")
                       THEN "cancelled"
                       ELSE IF rec[i].completed /\ hk[i] = "ok" THEN "succeeded" ELSE "failed")
        /\ V.error = (rec[i].error \/ ~rec[i].completed)
        /\ rec[i].completed => V.result = rec[i].result
    BY <1>2 DEF Verdict, Records, Verdicts
  <2> HIDE DEF V
  <2>2. R = [V EXCEPT !.diff = Captured(i)]
    BY DEF V
  <2> HIDE DEF R
  <2> QED BY <2>1, <2>2, <1>4 DEF Records
<1>7. rec' = [rec EXCEPT ![i] = R]
  BY <1>1, <1>3 DEF Recorded
<1> HIDE DEF R
<1>8. rec'[i] = R /\ task'[i] = "over"
      /\ \A j \in RunIds \ {i} : rec'[j] = rec[j] /\ task'[j] = task[j]
  BY <1>1, <1>7 DEF McpInv, McpTypes
<1>9. runs' \subseteq runs /\ \A j \in runs : Active(rec'[j]) => j \in runs'
  <2>1. {} \subseteq Completed(runs, rec')
    OBVIOUS
  <2> QED BY <2>1, <1>1, CleanedKeeps
<1>10. McpTypes'
  BY <1>1, <1>6, <1>7, <1>9 DEF McpInv, McpTypes
<1>11. \A j \in RunIds \ {i} : SameRun(j)
  <2>1. \A j \in RunIds \ {i} : j \in runs /\ task[j] \in Going => Active(rec'[j])
    BY <1>8, TypedRun DEF StagesOK
  <2> QED BY <2>1, <1>1, <1>8, <1>9 DEF SameRun
<1>12. RunOK(i)'
  <2>1. StagesOK(i)'
    BY <1>1, <1>2, <1>6, <1>8 DEF StagesOK, Going, Based, Active
  <2>2. EventsOK(i)' /\ ReaderOK(i)'
    BY <1>1, <1>2, <1>6, <1>8 DEF EventsOK, ReaderOK, Going, Based
  <2>3. SettledOK(i)'
    <3>1. reader[i] # "on" /\ (~rec[i].lost => pipe[i] = <<>>)
      BY <1>1, <1>2 DEF ReaderOK, McpInv, McpTypes
    <3>2. hk[i] = "ok" /\ ~rec[i].truncated /\ ~rec[i].lost => rec[i].completed
      BY <3>1, <1>1, <1>2 DEF EventsOK, Going, Based, Verdicts
    <3>3. rec[i].completed => rec[i].result = said[i]
      BY <1>2 DEF EventsOK
    <3>4. (hk[i] = "ok" => said[i] = "passed") /\ (i \in killed => i \in token)
      BY <1>2 DEF EventsOK, StagesOK
    <3> QED BY <3>2, <3>3, <3>4, <1>1, <1>6, <1>8 DEF SettledOK
  <2>4. OwnDiffOK(i)'
    BY <1>1, <1>2, <1>5, <1>6, <1>8 DEF OwnDiffOK
  <2> QED BY <2>1, <2>2, <2>3, <2>4 DEF RunOK
<1>13. ASSUME NEW j \in RunIds \ {i} PROVE ApartOK(i, j)' /\ ApartOK(j, i)'
  <2>1. ApartOK(i, j) /\ ApartOK(j, i)
    BY TypedPair
  <2>2. ApartOK(i, j)'
    BY <2>1, <1>1, <1>5, <1>6, <1>8 DEF ApartOK, Going, Based
  <2>3. ApartOK(j, i)'
    BY <2>1, <1>1, <1>6, <1>8 DEF ApartOK, Going, Based
  <2> QED BY <2>2, <2>3
<1> QED BY <1>1, <1>10, <1>11, <1>12, <1>13, NearStep

(* No run has begun at first.                                              *)
LEMMA McpInitOK == ASSUME McpInit PROVE McpInv
<1>1. McpTypes
  <2>1. NoRun \in Records /\ Nothing \in Snapshots
    BY DEF NoRun, Nothing, Records, Snapshots
  <2>2. <<>> \in Seq(EventsOfHk)
    OBVIOUS
  <2> QED BY <2>1, <2>2 DEF McpInit, NoRuns, McpTypes
<1>2. ASSUME NEW i \in RunIds PROVE RunOK(i)
  <2>1. rec[i] = NoRun /\ base[i] = Nothing /\ ~NoRun.completed /\ ~NoRun.lost /\ ~Active(NoRun)
        /\ ~NoRun.diff.taken /\ Nothing.of = {} /\ ~Nothing.taken
    BY DEF McpInit, NoRuns, NoRun, Nothing, Active
  <2> QED BY <2>1 DEF McpInit, NoRuns, RunOK, StagesOK, Unborn, EventsOK, ReaderOK, SettledOK,
      OwnDiffOK, Going, Based, Verdicts
<1>3. ASSUME NEW i \in RunIds, NEW j \in RunIds PROVE ApartOK(i, j)
  BY DEF McpInit, NoRuns, ApartOK, Going, Based
<1> QED BY <1>1, <1>2, <1>3 DEF McpInv

(* Every step keeps the invariant of McpRuns.                              *)
LEMMA McpNextOK == ASSUME McpInv, McpNext PROVE McpInv'
<1>1. PICK i \in RunIds :
        \/ \E r \in 1 .. setting.roots : Start(i, r)
        \/ CancelRun(i) \/ Executes(i) \/ StopChild(i) \/ Reads(i)
        \/ Says(i) \/ HkEnds(i) \/ Changes(i) \/ HolderEnds(i)
  BY DEF McpNext
<1>2. CASE \E r \in 1 .. setting.roots : Start(i, r)
  <2>1. setting.roots \in Nat
    BY SettingsAssumption DEF McpInv, McpTypes
  <2>2. PICK r \in Nat : Start(i, r)
    BY <1>2, <2>1
  <2> QED BY <2>2, StartKeeps
<1>3. CASE CancelRun(i)
  BY <1>3, CancelRunKeeps
<1>4. CASE Executes(i)
  BY <1>4, BaselineKeeps, SpawnFailsKeeps, SpawnKeeps, HkExitedKeeps, GraceOverKeeps, DrainedKeeps,
     DrainTimeoutKeeps, FinishKeeps DEF Executes
<1>5. CASE StopChild(i) \/ Reads(i)
  BY <1>5, StopChildKeeps, ReadOutputKeeps, ReaderStopsKeeps DEF Reads
<1>6. CASE Says(i) \/ HkEnds(i) \/ Changes(i) \/ HolderEnds(i)
  BY <1>6, SaysKeeps, HkEndsKeeps, ChangesKeeps, HolderEndsKeeps
<1> QED BY <1>1, <1>2, <1>3, <1>4, <1>5, <1>6

(* So does one that changes nothing.                                       *)
LEMMA McpStutters == ASSUME McpInv, UNCHANGED mcpVars PROVE McpInv'
<1>1. /\ UNCHANGED <<setting, runs, rec, task, token, killed, hk, pipe, said, holder, tree, left>>
      /\ UNCHANGED <<reader, base>>
  BY DEF mcpVars, runVars, procVars
<1>2. \A i \in RunIds : SameRun(i) /\ RunOK(i)
  BY <1>1 DEF SameRun, McpInv
<1>3. \A i \in RunIds : RunOK(i)' /\ Calm(i)
  BY <1>1, <1>2, SameIsOK
<1>4. McpTypes'
  BY <1>1 DEF McpInv, McpTypes
<1>5. \A i, j \in RunIds : i # j => ApartOK(i, j)'
  BY <1>3, CalmIsApart DEF McpInv
<1> QED BY <1>3, <1>4, <1>5 DEF McpInv

(* The invariant says that what is told of the runs is true.               *)
LEMMA McpInvTells == ASSUME McpInv PROVE RunsAreTold
<1>1. OneHkPerRoot
  <2>1. \A i \in RunIds : hk[i] = "up" => i \in runs /\ task[i] \in Going
    BY TypedRun DEF StagesOK, Going, Based
  <2> QED BY <2>1 DEF OneHkPerRoot, McpInv, ApartOK
<1>2. VerdictIsHks
  BY TypedRun DEF VerdictIsHks, SettledOK
<1>3. DiffTellsAll
  <2>1. \A i \in RunIds : OwnDiffOK(i)
    BY TypedRun
  <2>2. ASSUME NEW i \in RunIds, task[i] = "over", rec[i].diff.taken, NEW j \in rec[i].diff.of \ {i}
        PROVE  j \in left \/ rec[j].root # rec[i].root
    <3>1. j \in RunIds
      BY <2>1, <2>2 DEF OwnDiffOK, McpInv, McpTypes
    <3> QED BY <3>1, <2>2, TypedPair DEF ApartOK
  <2> QED BY <2>1, <2>2 DEF DiffTellsAll, OwnDiffOK
<1> QED BY <1>1, <1>2, <1>3 DEF RunsAreTold, ReportsAreTrue

(* However many runs the clients of the server start, cancel and look at:  *)
(* no two hk run in one root at a time and each can be asked for, a run is *)
(* reported as its hk said and ended, and its diff has all that it changed *)
(* and nothing that another run did, but for processes left behind         *)
(* (McpRuns).                                                              *)
THEOREM RunsAreReported == McpSpec => []RunsAreTold
<1>1. McpInit => McpInv
  BY McpInitOK
<1>2. McpInv /\ [McpNext]_mcpVars => McpInv'
  BY McpNextOK, McpStutters
<1>3. McpInv => RunsAreTold
  BY McpInvTells
<1> QED BY <1>1, <1>2, <1>3, PTL DEF McpSpec

-----------------------------------------------------------------------------
(* ApplyPatch.                                                             *)

(* What a file may hold; before the patch and others, after both.          *)
Held == {None, "old", "other"} \cup PrefixesOfNew

Stages == {"plan", "write", "undo", "put back", "applied", "rejected", "rollback failed"}

PatchRecs == [files : [Paths -> {None, "old"}], fails : Int, writes : Int,
              hunks : Seq([path : Paths, op : {"modify", "create", "delete"}])]

PatchTypes ==
  /\ patch \in PatchRecs
  /\ file \in [Paths -> Held] /\ aside \in [Paths -> Held] /\ step \in Stages
  /\ todo \in Seq(Paths) /\ written \in Seq(Paths) /\ setAside \in Seq(Paths)
  /\ told \subseteq Paths /\ theirs \subseteq Paths /\ put \subseteq theirs

(* What was worked out once all patches fit.                               *)
PlannedOK ==
  step \notin {"plan", "rejected"} =>
    /\ DOMAIN planned \subseteq Paths
    /\ planned \in [DOMAIN planned -> {None, "new"}] /\ originals \in [DOMAIN planned -> Held]
    /\ \A f \in DOMAIN planned \ theirs : originals[f] = patch.files[f]

(* What is left of each list as hk goes on; none has a file twice.         *)
ListsOK ==
  /\ IsInjective(todo) /\ IsInjective(written) /\ IsInjective(setAside)
  /\ step # "write" => todo = <<>>
  /\ step \notin {"write", "undo"} => setAside = <<>>
  /\ step \notin {"write", "undo", "put back", "applied"} => written = <<>>
  /\ step \in {"plan", "write", "applied", "rejected"} => told = {}
  /\ step = "plan" => put = {}
  /\ step = "rollback failed" => told # {}
  /\ step = "put back" =>
       written # <<>> /\ (originals[Head(written)] = None => Head(written) \notin put)

(* A file that is to be written or moved aside.                            *)
TodoOK(f) ==
  /\ f \in DOMAIN planned /\ f \notin Range(written) \cup Range(setAside) \cup put
  /\ f \notin theirs => file[f] = patch.files[f]

(* One that hk wrote, or tried to.                                         *)
WrittenOK(f) ==
  /\ f \in DOMAIN planned /\ planned[f] # None /\ f \notin Range(setAside)
  /\ f \in put => file[f] = "other"
  /\ f \notin theirs => file[f] \in PrefixesOfNew \cup {patch.files[f]}
  /\ f \notin theirs /\ step \in {"write", "applied"} => file[f] = planned[f]

(* One that it moved aside.                                                *)
AsideOK(f) ==
  /\ f \in DOMAIN planned /\ planned[f] = None /\ aside[f] # None
  /\ file[f] = IF f \in put THEN "other" ELSE None
  /\ f \notin theirs => aside[f] = patch.files[f]

(* Any other file: it is as before, or hk is done with it.                 *)
RestOK(f) ==
  /\ step = "write" /\ (f \in DOMAIN planned \/ f \in put) => todo = <<>>
  /\ step \in {"write", "applied"} /\ f \in DOMAIN planned \ theirs => file[f] = planned[f]
  /\ step \notin {"write", "applied"} \/ f \notin DOMAIN planned =>
       f \in theirs \cup told \/ file[f] = patch.files[f]
  /\ step \notin {"write", "applied"} =>
       /\ f \in told \ theirs /\ planned[f] = None => AsBefore(f)
       /\ f \in put /\ (originals[f] = None \/ planned[f] = None) =>
            file[f] = "other" /\ (originals[f] # None => aside[f] # None)

PathOK(f) ==
  /\ f \in Range(todo) => TodoOK(f)
  /\ f \in Range(written) => WrittenOK(f)
  /\ f \in Range(setAside) => AsideOK(f)
  /\ f \notin Range(todo) \cup Range(written) \cup Range(setAside) => RestOK(f)

(* The inductive invariant of ApplyPatch.                                  *)
PatchInv == PatchTypes /\ PlannedOK /\ ListsOK /\ \A f \in Paths : PathOK(f)

(* The first of a list without repetitions, and the rest of it.            *)
LEMMA RowPops ==
  ASSUME NEW S, NEW s \in Seq(S), s # <<>>, IsInjective(s)
  PROVE  /\ Head(s) \in S /\ Head(s) \in Range(s) /\ Tail(s) \in Seq(S)
         /\ IsInjective(Tail(s)) /\ Range(Tail(s)) = Range(s) \ {Head(s)}
<1>1. Len(s) \in Nat /\ Len(s) >= 1 /\ DOMAIN s = 1 .. Len(s) /\ 1 \in DOMAIN s /\ Head(s) = s[1]
  BY EmptySeq
<1>2. Head(s) \in S /\ Head(s) \in Range(s)
  BY <1>1 DEF Range
<1>3. Tail(s) \in Seq(S) /\ DOMAIN Tail(s) = 1 .. Len(s) - 1
      /\ \A k \in 1 .. Len(s) - 1 : Tail(s)[k] = s[k + 1]
  BY <1>1
<1>4. IsInjective(Tail(s))
  BY <1>1, <1>3 DEF IsInjective
<1>5. Range(Tail(s)) \subseteq Range(s) \ {Head(s)}
  <2>1. ASSUME NEW k \in 1 .. Len(s) - 1 PROVE Tail(s)[k] \in Range(s) /\ Tail(s)[k] # Head(s)
    BY <1>1, <1>3 DEF IsInjective, Range
  <2> QED BY <2>1, <1>3 DEF Range
<1>6. Range(s) \ {Head(s)} \subseteq Range(Tail(s))
  <2>1. ASSUME NEW k \in DOMAIN s, s[k] # Head(s) PROVE s[k] \in Range(Tail(s))
    <3>1. k - 1 \in 1 .. Len(s) - 1 /\ Tail(s)[k - 1] = s[k]
      BY <2>1, <1>1, <1>3
    <3> QED BY <3>1, <1>3 DEF Range
  <2> QED BY <2>1 DEF Range
<1> QED BY <1>2, <1>3, <1>4, <1>5, <1>6

(* A list that gets another element.                                       *)
LEMMA RowGrows ==
  ASSUME NEW S, NEW s \in Seq(S), NEW f \in S, f \notin Range(s), IsInjective(s)
  PROVE  /\ Append(s, f) \in Seq(S) /\ IsInjective(Append(s, f))
         /\ Range(Append(s, f)) = Range(s) \cup {f}
<1> DEFINE t == Append(s, f)
<1>1. /\ t \in Seq(S) /\ Len(s) \in Nat /\ DOMAIN s = 1 .. Len(s) /\ DOMAIN t = 1 .. Len(s) + 1
      /\ t[Len(s) + 1] = f /\ \A k \in 1 .. Len(s) : t[k] = s[k]
  OBVIOUS
<1> HIDE DEF t
<1>2. IsInjective(t)
  BY <1>1 DEF IsInjective, Range
<1>3. Range(t) \subseteq Range(s) \cup {f}
  <2>1. ASSUME NEW k \in DOMAIN t PROVE t[k] \in Range(s) \cup {f}
    <3>1. CASE k = Len(s) + 1
      BY <3>1, <1>1
    <3>2. CASE k \in 1 .. Len(s)
      BY <3>2, <1>1 DEF Range
    <3> QED BY <3>1, <3>2, <1>1
  <2> QED BY <2>1 DEF Range
<1>4. Range(s) \cup {f} \subseteq Range(t)
  <2>1. f \in Range(t)
    BY <1>1 DEF Range
  <2>2. ASSUME NEW k \in DOMAIN s PROVE s[k] \in Range(t)
    BY <1>1 DEF Range
  <2> QED BY <2>1, <2>2 DEF Range
<1> QED BY <1>1, <1>2, <1>3, <1>4 DEF t

(* The empty list.                                                         *)
LEMMA NoRow == IsInjective(<<>>) /\ Range(<<>>) = {} /\ \A S : <<>> \in Seq(S)
<1>1. DOMAIN <<>> = {}
  OBVIOUS
<1>2. \A S : <<>> \in Seq(S)
  OBVIOUS
<1> QED BY <1>1, <1>2 DEF IsInjective, Range

(* What a step that is about one file leaves of another.                   *)
SameLists(g) ==
  /\ g \in Range(written)' <=> g \in Range(written)
  /\ g \in Range(setAside)' <=> g \in Range(setAside)

SamePath(g) ==
  /\ file'[g] = file[g] /\ aside'[g] = aside[g]
  /\ g \in put' <=> g \in put
  /\ g \in told' <=> g \in told
  /\ g \in theirs' <=> g \in theirs
  /\ SameLists(g)

(* The other files, where hk goes on, or looks at one file and then at the *)
(* next.                                                                   *)
LEMMA OthersGoOn ==
  ASSUME NEW g \in Paths, PathOK(g), SamePath(g), g \in Range(todo)' <=> g \in Range(todo),
         UNCHANGED <<planned, originals>>, patch'.files = patch.files,
         todo = <<>> => todo' = <<>>,
         step' = step \/ {step, step'} = {"undo", "put back"}
  PROVE  PathOK(g)'
<1>1. TodoOK(g) => TodoOK(g)'
  BY DEF SamePath, SameLists, TodoOK
<1>2. WrittenOK(g) => WrittenOK(g)'
  BY DEF SamePath, SameLists, WrittenOK
<1>3. AsideOK(g) => AsideOK(g)'
  BY DEF SamePath, SameLists, AsideOK
<1>4. RestOK(g) => RestOK(g)'
  BY DEF SamePath, SameLists, RestOK, AsBefore
<1> QED BY <1>1, <1>2, <1>3, <1>4 DEF PathOK, SamePath, SameLists

(* The same where a step fails and hk is to undo what it did.              *)
LEMMA OthersAreUndone ==
  ASSUME NEW g \in Paths, PathOK(g), SamePath(g), step = "write", todo # <<>>, step' = "undo",
         todo' = <<>>, UNCHANGED <<planned, originals>>, patch'.files = patch.files, told = {}
  PROVE  PathOK(g)'
<1>1. Range(todo)' = {}
  BY NoRow
<1>2. WrittenOK(g) => WrittenOK(g)'
  BY DEF SamePath, SameLists, WrittenOK
<1>3. AsideOK(g) => AsideOK(g)'
  BY DEF SamePath, SameLists, AsideOK
<1>4. TodoOK(g) => RestOK(g)'
  BY DEF SamePath, SameLists, TodoOK, RestOK
<1>5. RestOK(g) => RestOK(g)'
  BY DEF SamePath, SameLists, RestOK
<1> QED BY <1>1, <1>2, <1>3, <1>4, <1>5 DEF PathOK, SamePath, SameLists

(* The first on each list.                                                 *)
LEMMA PatchRows ==
  ASSUME PatchInv
  PROVE  /\ todo # <<>> => /\ Head(todo) \in Paths /\ TodoOK(Head(todo)) /\ Tail(todo) \in Seq(Paths)
                           /\ IsInjective(Tail(todo)) /\ Range(Tail(todo)) = Range(todo) \ {Head(todo)}
         /\ written # <<>> =>
              /\ Head(written) \in Paths /\ WrittenOK(Head(written)) /\ Tail(written) \in Seq(Paths)
              /\ IsInjective(Tail(written)) /\ Range(Tail(written)) = Range(written) \ {Head(written)}
         /\ setAside # <<>> =>
              /\ Head(setAside) \in Paths /\ AsideOK(Head(setAside)) /\ Tail(setAside) \in Seq(Paths)
              /\ IsInjective(Tail(setAside))
              /\ Range(Tail(setAside)) = Range(setAside) \ {Head(setAside)}
<1>1. /\ todo \in Seq(Paths) /\ written \in Seq(Paths) /\ setAside \in Seq(Paths)
      /\ IsInjective(todo) /\ IsInjective(written) /\ IsInjective(setAside)
  BY DEF PatchInv, PatchTypes, ListsOK
<1>2. \A f \in Paths : /\ f \in Range(todo) => TodoOK(f)
                       /\ f \in Range(written) => WrittenOK(f)
                       /\ f \in Range(setAside) => AsideOK(f)
  BY DEF PatchInv, PathOK
<1>3. ASSUME todo # <<>>
      PROVE  /\ Head(todo) \in Paths /\ TodoOK(Head(todo)) /\ Tail(todo) \in Seq(Paths)
             /\ IsInjective(Tail(todo)) /\ Range(Tail(todo)) = Range(todo) \ {Head(todo)}
  BY <1>1, <1>2, <1>3, RowPops
<1>4. ASSUME written # <<>>
      PROVE  /\ Head(written) \in Paths /\ WrittenOK(Head(written)) /\ Tail(written) \in Seq(Paths)
             /\ IsInjective(Tail(written)) /\ Range(Tail(written)) = Range(written) \ {Head(written)}
  BY <1>1, <1>2, <1>4, RowPops
<1>5. ASSUME setAside # <<>>
      PROVE  /\ Head(setAside) \in Paths /\ AsideOK(Head(setAside)) /\ Tail(setAside) \in Seq(Paths)
             /\ IsInjective(Tail(setAside))
             /\ Range(Tail(setAside)) = Range(setAside) \ {Head(setAside)}
  BY <1>1, <1>2, <1>5, RowPops
<1> QED BY <1>3, <1>4, <1>5

(* A failure, or a write of others, counts and leaves the patch.           *)
LEMMA CountKeeps ==
  ASSUME NEW A, NEW B, NEW p \in [files : A, fails : Int, writes : Int, hunks : B]
  PROVE  /\ [p EXCEPT !.fails = @ - 1] \in [files : A, fails : Int, writes : Int, hunks : B]
         /\ [p EXCEPT !.writes = @ - 1] \in [files : A, fails : Int, writes : Int, hunks : B]
         /\ [p EXCEPT !.fails = @ - 1].files = p.files /\ [p EXCEPT !.writes = @ - 1].files = p.files
OBVIOUS

(* A step that may count a failure leaves the patch.                       *)
LEMMA FailedKeeps ==
  ASSUME patch \in PatchRecs, Failed \/ UNCHANGED patch
  PROVE  patch'.files = patch.files /\ patch' \in PatchRecs
BY CountKeeps DEF PatchRecs, Failed

(* A write, whole or torn, is of a file that is then listed as written.    *)
LEMMA WriteKeeps ==
  ASSUME PatchInv, Write PROVE PatchInv'
<1>0. PICK f \in Paths : f = Head(todo) /\ todo # <<>>
  BY PatchRows DEF Write
<1>1. /\ step = "write" /\ todo # <<>> /\ planned[f] # None /\ put' = put \ {f}
      /\ written' = Append(written, f) /\ (Failed \/ UNCHANGED patch)
      /\ UNCHANGED <<aside, planned, originals, setAside, told, theirs>>
  BY <1>0 DEF Write, Tried
<1>2. /\ f \in Paths /\ TodoOK(f) /\ Tail(todo) \in Seq(Paths) /\ f \in Range(todo)
      /\ IsInjective(Tail(todo)) /\ Range(Tail(todo)) = Range(todo) \ {f}
  BY <1>0, <1>1, PatchRows, RowPops DEF PatchInv, PatchTypes, ListsOK
<1>3. /\ f \in DOMAIN planned /\ f \notin Range(written) \cup Range(setAside) \cup put
      /\ f \notin theirs => file[f] = patch.files[f]
  BY <1>2 DEF TodoOK
<1>4. /\ written' \in Seq(Paths) /\ IsInjective(written') /\ Range(written)' = Range(written) \cup {f}
  BY <1>1, <1>2, <1>3, RowGrows DEF PatchInv, PatchTypes, ListsOK
<1>5. planned[f] = "new" /\ PlannedOK /\ ListsOK /\ PatchTypes /\ \A g \in Paths : PathOK(g)
  BY <1>1, <1>3 DEF PatchInv, PlannedOK
<1>6. patch'.files = patch.files /\ patch' \in PatchRecs
  BY <1>1, <1>5, FailedKeeps DEF PatchTypes
<1>7. PICK c \in Held : file' = [file EXCEPT ![f] = c] /\ c \in PrefixesOfNew \cup {file[f]}
                        /\ (step' = "write" => c = "new")
  <2>1. file = [file EXCEPT ![f] = file[f]] /\ file[f] \in Held
    BY <1>2, <1>5 DEF PatchTypes
  <2> QED BY <2>1, <1>0 DEF Write, Held, PrefixesOfNew, Torn
<1>8. file'[f] = c /\ file' \in [Paths -> Held] /\ \A g \in Paths \ {f} : file'[g] = file[g]
  BY <1>2, <1>5, <1>7 DEF PatchTypes
<1>9. \/ step' = "write" /\ todo' = Tail(todo)
      \/ step' = "undo" /\ todo' = <<>>
  BY <1>1 DEF Write
<1>10. todo' \in Seq(Paths) /\ IsInjective(todo') /\ f \notin Range(todo)'
  BY <1>2, <1>9, NoRow
<1>11. PatchTypes' /\ PlannedOK' /\ ListsOK'
  <2>1. PatchTypes'
    BY <1>1, <1>4, <1>5, <1>6, <1>8, <1>9, <1>10 DEF PatchTypes, Stages
  <2>2. PlannedOK'
    BY <1>1, <1>5, <1>6 DEF PlannedOK
  <2>3. ListsOK'
    BY <1>1, <1>4, <1>5, <1>9, <1>10 DEF ListsOK
  <2> QED BY <2>1, <2>2, <2>3
<1>12. PathOK(f)'
  <2>1. WrittenOK(f)'
    BY <1>1, <1>3, <1>5, <1>6, <1>7, <1>8, <1>9 DEF WrittenOK, None
  <2>2. f \notin Range(setAside)' /\ f \in Range(written)'
    BY <1>1, <1>3, <1>4
  <2> QED BY <2>1, <2>2, <1>10 DEF PathOK
<1>13. ASSUME NEW g \in Paths \ {f} PROVE PathOK(g)'
  <2>1. SamePath(g)
    BY <1>1, <1>4, <1>8 DEF SamePath, SameLists
  <2>2. CASE step' = "write" /\ todo' = Tail(todo)
    <3>1. g \in Range(todo)' <=> g \in Range(todo)
      BY <2>2, <1>2
    <3> QED BY <2>1, <2>2, <3>1, <1>1, <1>5, <1>6, OthersGoOn
  <2>3. CASE step' = "undo" /\ todo' = <<>>
    BY <2>1, <2>3, <1>1, <1>5, <1>6, OthersAreUndone DEF ListsOK
  <2> QED BY <2>2, <2>3, <1>9
<1> QED BY <1>11, <1>12, <1>13 DEF PatchInv

(* A file moved aside is listed so; where that fails the patch ends.       *)
LEMMA MoveAsideKeeps ==
  ASSUME PatchInv, MoveAside PROVE PatchInv'
<1>0. PICK f \in Paths : f = Head(todo) /\ todo # <<>>
  BY PatchRows DEF MoveAside
<1>1. /\ step = "write" /\ todo # <<>> /\ planned[f] = None /\ (Failed \/ UNCHANGED patch)
      /\ UNCHANGED <<planned, originals, written, told, theirs, put>>
  BY <1>0 DEF MoveAside
<1>2. /\ f \in Paths /\ TodoOK(f) /\ Tail(todo) \in Seq(Paths) /\ f \in Range(todo)
      /\ IsInjective(Tail(todo)) /\ Range(Tail(todo)) = Range(todo) \ {f}
  BY <1>0, <1>1, PatchRows, RowPops DEF PatchInv, PatchTypes, ListsOK
<1>3. /\ f \in DOMAIN planned /\ f \notin Range(written) \cup Range(setAside) \cup put
      /\ f \notin theirs => file[f] = patch.files[f]
  BY <1>2 DEF TodoOK
<1>4. PlannedOK /\ ListsOK /\ PatchTypes /\ \A g \in Paths : PathOK(g)
  BY DEF PatchInv
<1>5. patch'.files = patch.files /\ patch' \in PatchRecs
  BY <1>1, <1>4, FailedKeeps DEF PatchTypes
<1>6. CASE /\ file[f] # None /\ aside' = [aside EXCEPT ![f] = file[f]]
           /\ file' = [file EXCEPT ![f] = None] /\ step' = step
           /\ setAside' = Append(setAside, f) /\ todo' = Tail(todo)
  <2>1. /\ setAside' \in Seq(Paths) /\ IsInjective(setAside')
        /\ Range(setAside)' = Range(setAside) \cup {f}
    <3>1. setAside \in Seq(Paths) /\ IsInjective(setAside) /\ f \notin Range(setAside)
      BY <1>3, <1>4 DEF PatchTypes, ListsOK
    <3>2. /\ Append(setAside, f) \in Seq(Paths) /\ IsInjective(Append(setAside, f))
          /\ Range(Append(setAside, f)) = Range(setAside) \cup {f}
      BY <3>1, RowGrows
    <3> QED BY <3>2, <1>6
  <2>2. /\ file'[f] = None /\ file' \in [Paths -> Held] /\ \A g \in Paths \ {f} : file'[g] = file[g]
        /\ aside'[f] = file[f] /\ aside' \in [Paths -> Held]
        /\ \A g \in Paths \ {f} : aside'[g] = aside[g]
    BY <1>2, <1>4, <1>6 DEF PatchTypes, Held
  <2>3. PatchTypes'
    BY <2>1, <2>2, <1>1, <1>2, <1>4, <1>5, <1>6 DEF PatchTypes
  <2>4. PlannedOK'
    BY <1>1, <1>4, <1>5, <1>6 DEF PlannedOK
  <2>5. ListsOK'
    BY <2>1, <1>1, <1>2, <1>4, <1>6 DEF ListsOK
  <2>6. PathOK(f)'
    <3>1. AsideOK(f)'
      BY <2>2, <1>1, <1>3, <1>5, <1>6 DEF AsideOK
    <3>2. f \notin Range(written)' /\ f \in Range(setAside)' /\ f \notin Range(todo)'
      BY <2>1, <1>1, <1>2, <1>3, <1>6
    <3> QED BY <3>1, <3>2 DEF PathOK
  <2>7. ASSUME NEW g \in Paths \ {f} PROVE PathOK(g)'
    <3>1. SamePath(g)
      BY <2>1, <2>2, <1>1 DEF SamePath, SameLists
    <3>2. g \in Range(todo)' <=> g \in Range(todo)
      BY <1>2, <1>6
    <3> QED BY <3>1, <3>2, <1>1, <1>4, <1>5, <1>6, OthersGoOn
  <2> QED BY <2>3, <2>4, <2>5, <2>6, <2>7 DEF PatchInv
<1>7. CASE step' = "undo" /\ todo' = <<>> /\ UNCHANGED <<aside, file, setAside>>
  <2>1. todo' \in Seq(Paths) /\ IsInjective(todo')
    BY <1>7, NoRow
  <2>2. PatchTypes'
    BY <2>1, <1>1, <1>4, <1>5, <1>7 DEF PatchTypes, Stages
  <2>3. PlannedOK'
    BY <1>1, <1>4, <1>5, <1>7 DEF PlannedOK
  <2>4. ListsOK'
    BY <2>1, <1>1, <1>4, <1>7 DEF ListsOK
  <2>5. ASSUME NEW g \in Paths PROVE PathOK(g)'
    <3>1. SamePath(g)
      BY <1>1, <1>7 DEF SamePath, SameLists
    <3> QED BY <3>1, <1>1, <1>4, <1>5, <1>7, OthersAreUndone DEF ListsOK
  <2> QED BY <2>2, <2>3, <2>4, <2>5 DEF PatchInv
<1> QED BY <1>0, <1>6, <1>7 DEF MoveAside

(* Once all is written nothing is undone any more.                         *)
LEMMA AsideGoesKeeps ==
  ASSUME PatchInv, AsideGoes PROVE PatchInv'
<1>1. /\ step = "write" /\ todo = <<>> /\ (Failed \/ UNCHANGED patch)
      /\ UNCHANGED <<file, planned, originals, todo, written, told, theirs, put>>
  BY DEF AsideGoes
<1>2. PlannedOK /\ ListsOK /\ PatchTypes /\ \A g \in Paths : PathOK(g)
  BY DEF PatchInv
<1>3. patch'.files = patch.files /\ patch' \in PatchRecs
  BY <1>1, <1>2, FailedKeeps DEF PatchTypes
<1>4. Range(todo) = {} /\ Range(todo)' = {}
  BY <1>1, NoRow
<1>5. CASE setAside = <<>> /\ step' = "applied" /\ UNCHANGED <<aside, setAside>>
  <2>1. PatchTypes' /\ PlannedOK' /\ ListsOK'
    BY <1>1, <1>2, <1>3, <1>5 DEF PatchTypes, PlannedOK, ListsOK, Stages
  <2>2. ASSUME NEW g \in Paths PROVE PathOK(g)'
    <3>1. PathOK(g) /\ Range(setAside)' = {} /\ Range(setAside) = {}
      BY <1>2, <1>5, NoRow
    <3>2. WrittenOK(g) => WrittenOK(g)'
      BY <1>1, <1>3, <1>5 DEF WrittenOK
    <3>3. RestOK(g) => RestOK(g)'
      BY <1>1, <1>3, <1>5 DEF RestOK
    <3> QED BY <3>1, <3>2, <3>3, <1>1, <1>4 DEF PathOK
  <2> QED BY <2>1, <2>2 DEF PatchInv
<1>6. CASE setAside # <<>>
  <2>1. PICK f \in Paths : f = Head(setAside)
    BY <1>6, PatchRows
  <2>2. /\ setAside' = Tail(setAside) /\ step' = step
        /\ aside' = [aside EXCEPT ![f] = None] \/ UNCHANGED aside
    BY <2>1, <1>6 DEF AsideGoes
  <2>3. /\ AsideOK(f) /\ setAside' \in Seq(Paths) /\ IsInjective(setAside')
        /\ Range(setAside)' = Range(setAside) \ {f} /\ f \in Range(setAside)
    BY <2>1, <2>2, <1>2, <1>6, PatchRows, RowPops DEF PatchTypes, ListsOK
  <2>4. aside' \in [Paths -> Held] /\ \A g \in Paths \ {f} : aside'[g] = aside[g]
    BY <2>2, <1>2 DEF PatchTypes, Held
  <2>5. PatchTypes' /\ PlannedOK' /\ ListsOK'
    BY <2>2, <2>3, <2>4, <1>1, <1>2, <1>3 DEF PatchTypes, PlannedOK, ListsOK
  <2>6. PathOK(f)'
    <3>1. f \notin Range(written)' /\ f \notin Range(setAside)' /\ f \notin Range(todo)'
      BY <2>3, <1>1, <1>2, <1>4 DEF PathOK, WrittenOK
    <3>2. RestOK(f)'
      BY <2>2, <2>3, <1>1, <1>2, <1>3 DEF RestOK, AsideOK, PatchTypes
    <3> QED BY <3>1, <3>2 DEF PathOK
  <2>7. ASSUME NEW g \in Paths \ {f} PROVE PathOK(g)'
    <3>1. SamePath(g)
      BY <2>3, <2>4, <1>1 DEF SamePath, SameLists
    <3> QED BY <3>1, <2>2, <1>1, <1>2, <1>3, <1>4, OthersGoOn
  <2> QED BY <2>5, <2>6, <2>7 DEF PatchInv
<1> QED BY <1>5, <1>6 DEF AsideGoes

(* A file moved aside is back, or kept aside and told.                     *)
LEMMA RestoreAsideKeeps ==
  ASSUME PatchInv, RestoreAside PROVE PatchInv'
<1>0. PICK f \in Paths : f = Head(setAside) /\ setAside # <<>>
  BY PatchRows DEF RestoreAside
<1>1. /\ step = "undo" /\ setAside' = Tail(setAside) /\ (Failed \/ UNCHANGED patch)
      /\ UNCHANGED <<step, planned, originals, todo, written, theirs, put>>
      /\ \/ /\ file[f] = None /\ file' = [file EXCEPT ![f] = aside[f]]
            /\ \/ aside' = [aside EXCEPT ![f] = None] /\ told' = told
               \/ aside' = aside /\ told' = told \cup {f}
         \/ told' = told \cup {f} /\ UNCHANGED <<file, aside>>
  BY <1>0 DEF RestoreAside
<1>2. PlannedOK /\ ListsOK /\ PatchTypes /\ \A g \in Paths : PathOK(g)
  BY DEF PatchInv
<1>3. patch'.files = patch.files /\ patch' \in PatchRecs
  BY <1>1, <1>2, FailedKeeps DEF PatchTypes
<1>4. /\ AsideOK(f) /\ setAside' \in Seq(Paths) /\ IsInjective(setAside')
      /\ Range(setAside)' = Range(setAside) \ {f} /\ f \in Range(setAside)
  BY <1>0, <1>1, <1>2, PatchRows, RowPops DEF PatchTypes, ListsOK
<1>5. Range(todo) = {} /\ Range(todo)' = {} /\ todo = <<>>
  BY <1>1, <1>2, NoRow DEF ListsOK
<1>6. /\ aside' \in [Paths -> Held] /\ \A g \in Paths \ {f} : aside'[g] = aside[g]
      /\ file' \in [Paths -> Held] /\ \A g \in Paths \ {f} : file'[g] = file[g]
      /\ told \subseteq told' /\ told' \subseteq told \cup {f}
      /\ \/ file[f] = None /\ file'[f] = aside[f] /\ (aside'[f] = aside[f] \/ aside'[f] = None)
         \/ file'[f] = file[f] /\ aside'[f] = aside[f] /\ f \in told'
  BY <1>1, <1>2 DEF PatchTypes, Held
<1>7. PatchTypes' /\ PlannedOK' /\ ListsOK'
  BY <1>1, <1>2, <1>3, <1>4, <1>6 DEF PatchTypes, PlannedOK, ListsOK
<1>8. PathOK(f)'
  <2>1. f \notin Range(written)' /\ f \notin Range(setAside)' /\ f \notin Range(todo)'
    BY <1>1, <1>2, <1>4, <1>5 DEF PathOK, WrittenOK
  <2>2. RestOK(f)'
    BY <1>1, <1>2, <1>3, <1>4, <1>6 DEF RestOK, AsideOK, AsBefore, None
  <2> QED BY <2>1, <2>2 DEF PathOK
<1>9. ASSUME NEW g \in Paths \ {f} PROVE PathOK(g)'
  <2>1. SamePath(g)
    BY <1>1, <1>4, <1>6 DEF SamePath, SameLists
  <2> QED BY <2>1, <1>1, <1>2, <1>3, <1>5, OthersGoOn
<1> QED BY <1>7, <1>8, <1>9 DEF PatchInv

(* A look at a written file: it is to be put back, or it is not hk's any   *)
(* more, or is told.                                                       *)
LEMMA RollBackLookKeeps ==
  ASSUME PatchInv, RollBackLook PROVE PatchInv'
<1>0. PICK f \in Paths : f = Head(written) /\ written # <<>>
  BY PatchRows DEF RollBackLook
<1>1. /\ step = "undo" /\ setAside = <<>> /\ (Failed \/ UNCHANGED patch)
      /\ UNCHANGED <<file, aside, planned, originals, todo, setAside, theirs, put>>
      /\ \/ /\ MustUndo(originals[f], file[f]) /\ step' = "put back"
            /\ UNCHANGED <<written, told>>
         \/ /\ ~MustUndo(originals[f], file[f]) \/ f \in told'
            /\ told \subseteq told' /\ told' \subseteq told \cup {f}
            /\ written' = Tail(written) /\ UNCHANGED step
  BY <1>0 DEF RollBackLook
<1>2. PlannedOK /\ ListsOK /\ PatchTypes /\ \A g \in Paths : PathOK(g)
  BY DEF PatchInv
<1>3. patch'.files = patch.files /\ patch' \in PatchRecs
  BY <1>1, <1>2, FailedKeeps DEF PatchTypes
<1>4. /\ WrittenOK(f) /\ Tail(written) \in Seq(Paths) /\ IsInjective(Tail(written))
      /\ Range(Tail(written)) = Range(written) \ {f} /\ f \in Range(written)
  BY <1>0, <1>1, <1>2, PatchRows, RowPops DEF PatchTypes, ListsOK
<1>5. Range(todo) = {} /\ Range(todo)' = {} /\ todo = <<>>
  BY <1>1, <1>2, NoRow DEF ListsOK
<1>6. f \notin theirs => originals[f] = patch.files[f]
  BY <1>1, <1>2, <1>4 DEF WrittenOK, PlannedOK
<1>7. CASE /\ MustUndo(originals[f], file[f]) /\ step' = "put back" /\ UNCHANGED <<written, told>>
  <2>1. originals[f] = None => f \notin put
    BY <1>4, <1>7 DEF MustUndo, WrittenOK, PrefixesOfNew, Torn
  <2>2. PatchTypes' /\ PlannedOK' /\ ListsOK'
    BY <1>0, <1>1, <1>2, <1>3, <1>7, <2>1 DEF PatchTypes, PlannedOK, ListsOK, Stages
  <2>3. ASSUME NEW g \in Paths PROVE PathOK(g)'
    <3>1. SamePath(g)
      BY <1>1, <1>7 DEF SamePath, SameLists
    <3> QED BY <3>1, <1>1, <1>2, <1>3, <1>5, <1>7, OthersGoOn
  <2> QED BY <2>2, <2>3 DEF PatchInv
<1>8. CASE /\ ~MustUndo(originals[f], file[f]) \/ f \in told'
           /\ told \subseteq told' /\ told' \subseteq told \cup {f}
           /\ written' = Tail(written) /\ UNCHANGED step
  <2>1. PatchTypes' /\ PlannedOK' /\ ListsOK'
    BY <1>1, <1>2, <1>3, <1>4, <1>8 DEF PatchTypes, PlannedOK, ListsOK
  <2>2. PathOK(f)'
    <3>1. f \notin Range(written)' /\ f \notin Range(setAside)' /\ f \notin Range(todo)'
      BY <1>1, <1>4, <1>5, <1>8 DEF WrittenOK
    <3>2. f \notin theirs \cup told' => file'[f] = patch'.files[f]
      BY <1>1, <1>3, <1>4, <1>6, <1>8 DEF WrittenOK, MustUndo
    <3>3. f \in put => file'[f] = "other"
      BY <1>1, <1>4 DEF WrittenOK
    <3>4. RestOK(f)'
      BY <3>2, <3>3, <1>1, <1>4, <1>8 DEF RestOK, WrittenOK
    <3> QED BY <3>1, <3>4 DEF PathOK
  <2>3. ASSUME NEW g \in Paths \ {f} PROVE PathOK(g)'
    <3>1. SamePath(g)
      BY <1>1, <1>4, <1>8 DEF SamePath, SameLists
    <3> QED BY <3>1, <1>1, <1>2, <1>3, <1>5, <1>8, OthersGoOn
  <2> QED BY <2>1, <2>2, <2>3 DEF PatchInv
<1> QED BY <1>1, <1>7, <1>8

(* A file that is put back is as before, or told.                          *)
LEMMA RollBackWriteKeeps ==
  ASSUME PatchInv, RollBackWrite PROVE PatchInv'
<1>1. PlannedOK /\ ListsOK /\ PatchTypes /\ \A g \in Paths : PathOK(g)
  BY DEF PatchInv
<1>2. PICK f \in Paths : /\ f = Head(written) /\ written # <<>>
                         /\ originals[f] = None => f \notin put
  BY <1>1, PatchRows DEF RollBackWrite, ListsOK
<1>3. /\ step = "put back" /\ step' = "undo" /\ written' = Tail(written)
      /\ (Failed \/ UNCHANGED patch)
      /\ UNCHANGED <<aside, planned, originals, todo, setAside, theirs, put>>
      /\ \/ file' = [file EXCEPT ![f] = originals[f]] /\ told' = told
         \/ /\ told' = told \cup {f}
            /\ file' = file \/ \E c \in Torn \cup {originals[f]} : file' = [file EXCEPT ![f] = c]
  BY <1>2 DEF RollBackWrite
<1>4. patch'.files = patch.files /\ patch' \in PatchRecs
  BY <1>1, <1>3, FailedKeeps DEF PatchTypes
<1>5. /\ WrittenOK(f) /\ written' \in Seq(Paths) /\ IsInjective(written')
      /\ Range(written)' = Range(written) \ {f} /\ f \in Range(written)
  BY <1>1, <1>2, <1>3, PatchRows, RowPops DEF PatchInv, PatchTypes, ListsOK
<1>6. Range(todo) = {} /\ Range(todo)' = {} /\ todo = <<>> /\ Range(setAside) = {}
  BY <1>1, <1>3, NoRow DEF ListsOK
<1>7. originals[f] \in Held /\ (f \notin theirs => originals[f] = patch.files[f])
  BY <1>1, <1>3, <1>5 DEF WrittenOK, PlannedOK
<1>8. /\ file' \in [Paths -> Held] /\ \A g \in Paths \ {f} : file'[g] = file[g]
      /\ told \subseteq told' /\ told' \subseteq told \cup {f}
      /\ file'[f] = originals[f] \/ f \in told'
  BY <1>1, <1>3, <1>7 DEF PatchTypes, Held, Torn, PrefixesOfNew
<1>9. PatchTypes' /\ PlannedOK' /\ ListsOK'
  BY <1>1, <1>3, <1>4, <1>5, <1>8 DEF PatchTypes, PlannedOK, ListsOK, Stages
<1>10. PathOK(f)'
  <2>1. f \notin Range(written)' /\ f \notin Range(setAside)' /\ f \notin Range(todo)'
    BY <1>3, <1>5, <1>6
  <2>2. f \notin theirs \cup told' => file'[f] = patch'.files[f]
    BY <1>4, <1>7, <1>8
  <2>3. RestOK(f)'
    BY <2>2, <1>2, <1>3, <1>5 DEF RestOK, WrittenOK
  <2> QED BY <2>1, <2>3 DEF PathOK
<1>11. ASSUME NEW g \in Paths \ {f} PROVE PathOK(g)'
  <2>1. SamePath(g)
    BY <1>3, <1>5, <1>8 DEF SamePath, SameLists
  <2> QED BY <2>1, <1>1, <1>3, <1>4, <1>6, OthersGoOn
<1> QED BY <1>9, <1>10, <1>11 DEF PatchInv

(* What is told decides how the patch ends.                                *)
LEMMA UndoEndsKeeps ==
  ASSUME PatchInv, UndoEnds PROVE PatchInv'
<1>1. /\ step = "undo" /\ setAside = <<>> /\ written = <<>>
      /\ step' = (IF told = {} THEN "rejected" ELSE "rollback failed")
      /\ UNCHANGED <<file, aside, patch, planned, originals, todo, written, setAside, told>>
      /\ UNCHANGED <<theirs, put>>
  BY DEF UndoEnds
<1>2. PlannedOK /\ ListsOK /\ PatchTypes /\ \A g \in Paths : PathOK(g)
  BY DEF PatchInv
<1>3. PatchTypes' /\ PlannedOK' /\ ListsOK'
  BY <1>1, <1>2 DEF PatchTypes, PlannedOK, ListsOK, Stages
<1>4. Range(todo) = {} /\ Range(written) = {} /\ Range(setAside) = {}
  BY <1>1, <1>2, NoRow DEF ListsOK
<1>5. \A g \in Paths : PathOK(g)'
  BY <1>1, <1>2, <1>4 DEF PathOK, RestOK, AsBefore
<1> QED BY <1>3, <1>5 DEF PatchInv

(* A write of another process is theirs, and put if it is over hk's, unless *)
(* hk has looked.                                                          *)
LEMMA OtherWritesKeeps ==
  ASSUME PatchInv, NEW f \in Paths, OtherWrites(f) PROVE PatchInv'
<1>1. /\ step \in {"plan", "write", "undo", "put back"} /\ file' = [file EXCEPT ![f] = "other"]
      /\ patch' = [patch EXCEPT !.writes = @ - 1] /\ theirs' = theirs \cup {f}
      /\ put' = (IF f \in Range(written) \cup Range(setAside) /\ ~LookedAt(f) THEN put \cup {f}
                 ELSE put)
      /\ UNCHANGED <<aside, step, planned, originals, todo, written, setAside, told>>
  BY DEF OtherWrites
<1>2. PlannedOK /\ ListsOK /\ PatchTypes /\ \A g \in Paths : PathOK(g)
  BY DEF PatchInv
<1>3. patch'.files = patch.files /\ patch' \in PatchRecs
  <2>1. patch \in PatchRecs /\ patch' = [patch EXCEPT !.writes = @ - 1]
    BY <1>1, <1>2 DEF PatchTypes
  <2> QED BY <2>1, CountKeeps DEF PatchRecs
<1>4. /\ file' \in [Paths -> Held] /\ file'[f] = "other"
      /\ \A g \in Paths \ {f} : file'[g] = file[g]
  BY <1>1, <1>2 DEF PatchTypes, Held
<1>5. PatchTypes' /\ PlannedOK'
  BY <1>1, <1>2, <1>3, <1>4 DEF PatchTypes, PlannedOK
<1>6. ListsOK'
  <2>1. step = "plan" => Range(written) = {} /\ Range(setAside) = {}
    BY <1>2, NoRow DEF ListsOK
  <2>2. step = "put back" => (originals[Head(written)] = None => Head(written) \notin put')
    BY <1>1, <1>2 DEF ListsOK, LookedAt
  <2> QED BY <2>1, <2>2, <1>1, <1>2 DEF ListsOK
<1>7. PathOK(f)'
  <2>1. TodoOK(f) => TodoOK(f)'
    BY <1>1 DEF TodoOK
  <2>2. WrittenOK(f) => WrittenOK(f)'
    BY <1>1, <1>4 DEF WrittenOK
  <2>3. AsideOK(f) /\ f \in Range(setAside) => AsideOK(f)'
    <3>1. f \in Range(setAside) => ~LookedAt(f)
      BY <1>2, NoRow DEF ListsOK, LookedAt
    <3> QED BY <3>1, <1>1, <1>4 DEF AsideOK
  <2>4. RestOK(f) /\ f \notin Range(written) \cup Range(setAside) => RestOK(f)'
    BY <1>1, <1>3, <1>4 DEF RestOK
  <2> QED BY <2>1, <2>2, <2>3, <2>4, <1>1, <1>2 DEF PathOK
<1>8. ASSUME NEW g \in Paths \ {f} PROVE PathOK(g)'
  <2>1. SamePath(g)
    BY <1>1, <1>4 DEF SamePath, SameLists
  <2> QED BY <2>1, <1>1, <1>2, <1>3, OthersGoOn
<1> QED BY <1>5, <1>6, <1>7, <1>8 DEF PatchInv

(* The files are listed in an order, each once.                            *)
LEMMA TouchedOnce ==
  ASSUME NEW hunks \in Seq([path : Paths, op : {"modify", "create", "delete"}]),
         NEW s \in TouchedIn(hunks)
  PROVE  s \in Seq(Paths) /\ IsInjective(s) /\ Range(s) = Touched(hunks) /\ Touched(hunks) \subseteq Paths
<1>1. Touched(hunks) \subseteq Paths
  <2>1. \A n \in DOMAIN hunks : hunks[n] \in [path : Paths, op : {"modify", "create", "delete"}]
    <3> DEFINE Hunks == [path : Paths, op : {"modify", "create", "delete"}]
    <3>1. hunks \in Seq(Hunks)
      OBVIOUS
    <3> HIDE DEF Hunks
    <3>2. \A n \in DOMAIN hunks : hunks[n] \in Hunks
      BY <3>1
    <3> QED BY <3>2 DEF Hunks
  <2>2. \A n \in DOMAIN hunks : hunks[n].path \in Paths
    BY <2>1
  <2> QED BY <2>2 DEF Touched
<1>2. PICK n \in 0 .. Len(hunks) : s \in [1 .. n -> Touched(hunks)]
  BY DEF TouchedIn
<1>3. /\ Range(s) = Touched(hunks) /\ DOMAIN s = 1 .. n
      /\ \A m, o \in DOMAIN s : m < o => s[m] # s[o]
  <2>1. Len(hunks) \in Nat /\ DOMAIN hunks = 1 .. Len(hunks)
    OBVIOUS
  <2>2. \A m, o \in DOMAIN s : m < o =>
          \E k \in DOMAIN hunks : hunks[k].path = s[m] /\ \A l \in 1 .. k : hunks[l].path # s[o]
    BY DEF TouchedIn
  <2> QED BY <2>1, <2>2, <1>2 DEF TouchedIn
<1>4. s \in Seq(Paths)
  <2>1. n \in Nat /\ s \in [1 .. n -> Paths]
    BY <1>1, <1>2
  <2> QED BY <2>1, SeqDef
<1>5. IsInjective(s)
  BY <1>3 DEF IsInjective
<1> QED BY <1>1, <1>3, <1>4, <1>5

(* What is planned for each of them.                                       *)
LEMMA WorkedOut ==
  ASSUME NEW hunks \in Seq([path : Paths, op : {"modify", "create", "delete"}])
  PROVE  Worked(hunks) \in [Touched(hunks) -> {None, "new"}]
<1>1. ASSUME NEW f \in Touched(hunks) PROVE Contents(hunks, f, Len(hunks)) \in {None, "new"}
  <2>1. {m \in 1 .. Len(hunks) : hunks[m].path = f} # {}
    BY DEF Touched
  <2> QED BY <2>1 DEF Contents, After
<1> QED BY <1>1 DEF Worked

(* The plan begins with all files as before.                               *)
LEMMA PlanPatchKeeps ==
  ASSUME PatchInv, PlanPatch PROVE PatchInv'
<1>1. /\ step = "plan"
      /\ UNCHANGED <<file, aside, patch, written, setAside, told, theirs, put>>
  BY DEF PlanPatch
<1>2. PlannedOK /\ ListsOK /\ PatchTypes /\ \A g \in Paths : PathOK(g)
  BY DEF PatchInv
<1>3. /\ todo = <<>> /\ written = <<>> /\ setAside = <<>> /\ told = {} /\ put = {}
      /\ Range(todo) = {} /\ Range(written) = {} /\ Range(setAside) = {}
  BY <1>1, <1>2, NoRow DEF ListsOK
<1>4. \A g \in Paths : g \in theirs \/ file[g] = patch.files[g]
  BY <1>1, <1>2, <1>3 DEF PathOK, RestOK
<1>5. CASE step' = "rejected" /\ UNCHANGED <<planned, originals, todo>>
  <2>1. PatchTypes' /\ PlannedOK' /\ ListsOK'
    BY <1>1, <1>2, <1>3, <1>5 DEF PatchTypes, PlannedOK, ListsOK, Stages
  <2>2. \A g \in Paths : PathOK(g)'
    BY <1>1, <1>2, <1>3, <1>5 DEF PathOK, RestOK
  <2> QED BY <2>1, <2>2 DEF PatchInv
<1>6. CASE /\ step' = "write" /\ planned' = Worked(patch.hunks)
           /\ originals' = [f \in Touched(patch.hunks) |-> file[f]]
           /\ todo' \in TouchedIn(patch.hunks)
  <2>1. patch.hunks \in Seq([path : Paths, op : {"modify", "create", "delete"}])
    BY <1>2 DEF PatchTypes, PatchRecs
  <2>2. /\ todo' \in Seq(Paths) /\ IsInjective(todo') /\ Range(todo)' = Touched(patch.hunks)
        /\ Touched(patch.hunks) \subseteq Paths
    BY <2>1, <1>6, TouchedOnce
  <2>3. planned' \in [Touched(patch.hunks) -> {None, "new"}]
    BY <2>1, <1>6, WorkedOut
  <2>4. PatchTypes'
    BY <2>2, <1>1, <1>2, <1>6 DEF PatchTypes, Stages
  <2>5. PlannedOK'
    BY <2>2, <2>3, <1>1, <1>2, <1>4, <1>6 DEF PlannedOK, PatchTypes
  <2>6. ListsOK'
    BY <2>2, <1>1, <1>2, <1>3, <1>6 DEF ListsOK
  <2>7. ASSUME NEW g \in Paths PROVE PathOK(g)'
    <3>1. g \in Range(todo)' => TodoOK(g)'
      BY <2>2, <2>3, <1>1, <1>3, <1>4 DEF TodoOK
    <3>2. g \notin Range(todo)' => RestOK(g)'
      BY <2>2, <2>3, <1>1, <1>3, <1>4, <1>6 DEF RestOK
    <3> QED BY <3>1, <3>2, <1>1, <1>3 DEF PathOK
  <2> QED BY <2>4, <2>5, <2>6, <2>7 DEF PatchInv
<1> QED BY <1>5, <1>6 DEF PlanPatch

(* The invariant holds of every patch and its files to begin with.         *)
LEMMA PatchInitOK == ASSUME PatchInit PROVE PatchInv
<1>1. /\ step = "plan" /\ patch \in Patches /\ file = patch.files
      /\ aside = [f \in Paths |-> None]
      /\ todo = <<>> /\ written = <<>> /\ setAside = <<>> /\ told = {} /\ theirs = {} /\ put = {}
  BY DEF PatchInit, PatchNew
<1>2. patch \in PatchRecs
  <2>1. patch \in [files : [Paths -> {None, "old"}], fails : Nat, writes : Nat,
                   hunks : Seq([path : Paths, op : {"modify", "create", "delete"}])]
    BY <1>1, PatchesAssumption
  <2> DEFINE P == Seq([path : Paths, op : {"modify", "create", "delete"}])
             F == [Paths -> {None, "old"}]
  <2>2. patch \in [files : F, fails : Nat, writes : Nat, hunks : P]
    BY <2>1
  <2>3. SUFFICES patch \in [files : F, fails : Int, writes : Int, hunks : P]
    BY DEF PatchRecs
  <2> HIDE DEF P, F
  <2> QED BY <2>2
<1>3. PatchTypes
  <2>1. patch.files \in [Paths -> {None, "old"}]
    BY <1>2 DEF PatchRecs
  <2> QED BY <2>1, <1>1, <1>2, NoRow DEF PatchTypes, Held, Stages
<1>4. PlannedOK /\ ListsOK
  BY <1>1, NoRow DEF PlannedOK, ListsOK
<1>5. \A f \in Paths : PathOK(f)
  BY <1>1, NoRow DEF PathOK, RestOK
<1> QED BY <1>3, <1>4, <1>5 DEF PatchInv

(* Every step keeps the invariant of ApplyPatch.                           *)
LEMMA PatchNextOK == ASSUME PatchInv, [PatchNext]_patchVars PROVE PatchInv'
<1>1. CASE UNCHANGED patchVars
  BY <1>1 DEF patchVars, PatchInv, PatchTypes, PatchRecs, PlannedOK, ListsOK, PathOK, TodoOK, WrittenOK,
     AsideOK, RestOK, AsBefore
<1>2. CASE PatchNext
  BY <1>2, PlanPatchKeeps, WriteKeeps, MoveAsideKeeps, AsideGoesKeeps, RestoreAsideKeeps,
     RollBackLookKeeps, RollBackWriteKeeps, UndoEndsKeeps, OtherWritesKeeps DEF PatchNext
<1> QED BY <1>1, <1>2

(* The invariant says how each file is at the end.                         *)
LEMMA PatchInvUndoes == ASSUME PatchInv PROVE PatchUndone
<1>1. PlannedOK /\ ListsOK /\ PatchTypes /\ \A g \in Paths : PathOK(g)
  BY DEF PatchInv
<1>2. CASE step \in {"rejected", "rollback failed"}
  <2>1. \A f \in Paths : RestOK(f)
    BY <1>1, <1>2, NoRow DEF ListsOK, PathOK
  <2>2. AllOrNothing
    BY <2>1, <1>1, <1>2 DEF AllOrNothing, ListsOK, RestOK, PatchTypes
  <2>3. OthersFilesStay
    BY <2>1, <1>1, <1>2 DEF OthersFilesStay, RestOK, PatchTypes
  <2> QED BY <2>2, <2>3 DEF PatchUndone
<1>3. CASE step = "applied"
  <2>1. Range(todo) = {} /\ Range(setAside) = {}
    BY <1>1, <1>3, NoRow DEF ListsOK
  <2>2. \A f \in DOMAIN planned \ theirs : file[f] = planned[f]
    BY <2>1, <1>1, <1>3 DEF PathOK, WrittenOK, RestOK, PlannedOK
  <2> QED BY <2>2, <1>3 DEF PatchUndone, AllOrNothing, OthersFilesStay
<1> QED BY <1>2, <1>3 DEF PatchUndone, AllOrNothing, OthersFilesStay

(* However many files a patch touches, writes fail and other processes     *)
(* write meanwhile: a patch that is rejected leaves every file as it was,  *)
(* one that cannot be undone names the files it left otherwise, one that   *)
(* is applied leaves every file as it says, and what others put where hk   *)
(* had created or deleted a file stays, unless they do so between hk's look *)
(* at the file and its removal (ApplyPatch).                               *)
THEOREM PatchesAreUndone == PatchSpec => []PatchUndone
<1>1. PatchInv => PatchUndone
  BY PatchInvUndoes
<1> QED BY <1>1, PatchInitOK, PatchNextOK, PTL DEF PatchSpec

=============================================================================
