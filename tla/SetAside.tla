------------------------------ MODULE SetAside -------------------------------
(***************************************************************************)
(* How hk stashes what GitStatus reads (git.rs): the intended files apart, *)
(* the other changes as an entry of the paths that have some, or of all    *)
(* there is, or, where the worktree is back to HEAD, of the paths whose     *)
(* staged edit is gone from it.  Afterwards the steps run.                 *)
(***************************************************************************)
EXTENDS GitStatus

VARIABLE setAside   \* how stashing went, its entries, stashed_paths, and the
                    \* tree that it left

asideVars == <<statusVars, setAside>>

NoEntry == [n \in {} |-> Nil]
NotYet  == [result |-> "none", paths |-> {}]

AsideInit == StatusInit /\ setAside = NotYet
AsideIdle == StatusIdle /\ setAside = NotYet

(* stash_intent_to_add: the files go, and their entries in the index.      *)
WithoutIntended ==
  LET ita == intent_to_add(reading.status)
      gone(f) == [n \in Names |-> IF n \in ita THEN Nil ELSE f[n]]
  IN [checkout EXCEPT !.index = gone(@), !.work = gone(@)]

(* What git diff-files and git ls-files -o list.                           *)
DiffersFromIndex(t) == {n \in Names : There(t.index[n]) /\ t.work[n] # t.index[n]}
NotInIndex(t)       == {n \in Names : ~There(t.index[n]) /\ There(t.work[n])}

(* push_private_stash: the entry has the worktree's contents of the tracked *)
(* paths (all that differ, if none are given) and of the untracked ones;   *)
(* then the former are as in the index, and the latter gone.               *)
PrivateStash(t, paths, all, untr) ==
  LET tracked == IF all THEN DiffersFromIndex(t) ELSE paths
      new     == IF all /\ untr THEN NotInIndex(t) ELSE {}
  IN [entry |-> [n \in tracked \cup new |-> t.work[n]],
      tree |-> [t EXCEPT !.work = [n \in Names |-> IF n \in new THEN Nil
                                                   ELSE IF n \in tracked THEN t.index[n] ELSE @[n]]]]

(* Mutant of Reverted: where the worktree is HEAD's, nothing is stashed.    *)
RevertedMutant(t, paths) == {}

(* stash_reverted_paths: a staged change of the mode alone is none.        *)
Reverted(t, paths) == {n \in paths : Contents(t.head[n]) # Contents(t.index[n])}

(* push_stash_inner.                                                       *)
Pushed(t, paths, all, untr) ==
  LET tracked == paths \ reading.status.untracked
  IN IF all \/ (tracked = {} /\ untr) THEN PrivateStash(t, {}, TRUE, untr)
     ELSE IF tracked = {} THEN [entry |-> NoEntry, tree |-> t]
     ELSE IF \A n \in tracked : t.work[n] = t.head[n]
     THEN PrivateStash(t, Reverted(t, tracked), FALSE, untr)
     ELSE PrivateStash(t, tracked, FALSE, untr)

(* stash_unstaged_inner.  git writes no tree with a conflict: the intended *)
(* files come back, and the run ends.  Before the first commit nothing is  *)
(* stashed.                                                                *)
StashUnstaged ==
  LET s     == reading.status
      ita   == intent_to_add(s)
      t     == WithoutIntended
      paths == files_to_stash(s, reading.untr) \ ita
      all   == stash_everything(s, reading.untr)
      got   == Pushed(t, paths, all \/ paths = {}, reading.untr)
      told  == (IF got.entry = NoEntry THEN {} ELSE paths) \cup ita
      stashed(e, p, t2) ==
        setAside' = [result |-> "ok", entry |-> e, paths |-> p, tree |-> t2,
                  intended |-> [n \in ita |-> checkout.work[n]]]
  IN /\ reading.by \in {"git", "git as libgit2"} /\ setAside.result = "none"
     /\ IF ~checkout.born THEN setAside' = [NotYet EXCEPT !.result = "skipped"]
        ELSE IF paths = {} /\ ~all THEN stashed(NoEntry, ita, t)
        ELSE IF \E n \in Names : Unmerged(n) THEN setAside' = [NotYet EXCEPT !.result = "failed"]
        ELSE stashed(got.entry, told, got.tree)
     /\ UNCHANGED statusVars

AsideNext == (ReadChanges /\ UNCHANGED setAside) \/ StashUnstaged
AsideSpec == AsideInit /\ [][AsideNext]_asideVars

(***************************************************************************)
(* Properties.                                                             *)
(***************************************************************************)
OnlyModeReverted(n) ==
  OnDisk(n) = InHead(n) /\ InIndex(n) # InHead(n) /\ Contents(InIndex(n)) = Contents(InHead(n))

(* Once hk has stashed, each file of the worktree is as it is staged, and   *)
(* the intended and untracked ones are gone, but for a mode that is back to *)
(* HEAD's; what was there is in an entry, and nothing else in the tree     *)
(* changed (git.rs 1656-1660, 2119-2130).                                  *)
StepsSeeStaged ==
  LET work == setAside.tree.work
      index == setAside.tree.index
  IN setAside.result = "ok" =>
       \A n \in Names :
         /\ There(work[n]) /\ ~OnlyModeReverted(n) =>
              IF There(index[n]) THEN work[n] = index[n] ELSE ~reading.untr
         /\ work[n] # OnDisk(n) =>
              \/ n \in DOMAIN setAside.entry /\ setAside.entry[n] = OnDisk(n)
              \/ n \in DOMAIN setAside.intended /\ setAside.intended[n] = OnDisk(n)
         /\ index[n] # InIndex(n) => n \in DOMAIN setAside.intended

(* The paths that no longer count as unstaged are those that were stashed   *)
(* (hook.rs 1494-1495), again but for such a mode.                         *)
ToldAreStashed ==
  \A n \in setAside.paths :
    n \in DOMAIN setAside.entry \cup DOMAIN setAside.intended \/ OnlyModeReverted(n)

StashTakesAll == StatusesAgree /\ AllChangesAreSetAside /\ StepsSeeStaged /\ ToldAreStashed
=============================================================================
