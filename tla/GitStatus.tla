------------------------------ MODULE GitStatus ------------------------------
(***************************************************************************)
(* How hk reads what changed (git.rs): from the entries of git's status,   *)
(* classified in git's own way or as libgit2 would classify them, or from  *)
(* libgit2 itself; in one go or path by path; and which of it hk sets      *)
(* aside before its steps run.                                             *)
(***************************************************************************)
EXTENDS Integers, FiniteSets, FiniteSetsExt

CONSTANTS Names,       \* the paths of the tree
          Trees        \* the trees looked at: of each path what HEAD, the index
                       \* and the worktree have, and the paths that are not UTF-8

VARIABLES checkout,    \* one of them
          reading      \* what was read of it, and how, or NotRead

statusVars == <<checkout, reading>>

(* What a path may have: nothing, a file (v2 has some more lines than v1,   *)
(* few enough for a rename, and x1 is v1 made executable), an empty file,  *)
(* or a symlink; in the index also an intent to add one, or a conflict.    *)
Nil       == "absent"
There(o)  == o # Nil
TypeOf(o) == IF o = "link" THEN "link" ELSE "file"
Contents(o) == IF o = "x1" THEN "v1" ELSE o
Alike(x, y) == Contents(x) = Contents(y) \/ {Contents(x), Contents(y)} = {"v1", "v2"}

InHead(n)  == checkout.head[n]
InIndex(n) == checkout.index[n]
OnDisk(n)  == checkout.work[n]
path_exists(n) == There(OnDisk(n))
Intended(n) == InIndex(n) = "intent"
Unmerged(n) == InIndex(n) = "conflict"

-----------------------------------------------------------------------------
(* git status --porcelain=v2 --renames -- S (external).  An intent to add  *)
(* is not in the index yet, and an empty file for what the worktree makes  *)
(* of it.  A path that went and one that came with a like object are a     *)
(* rename: from HEAD to the index, or, if the new one is only intended,    *)
(* from the index to the worktree.                                         *)
Added(n)    == IF Intended(n) THEN Nil ELSE InIndex(n)
Recorded(n) == IF Intended(n) THEN "empty" ELSE InIndex(n)

StagedMove(o, n) ==
  /\ There(InHead(o)) /\ ~There(Added(o)) /\ ~There(InHead(n)) /\ There(Added(n))
  /\ Alike(InHead(o), Added(n))
WorkMove(o, n) ==
  /\ There(InIndex(o)) /\ ~path_exists(o) /\ Intended(n) /\ path_exists(n)
  /\ Alike(Recorded(o), OnDisk(n))

Letter(from, to) ==
  CASE from = to                     -> " "
    [] from # to /\ ~There(from)      -> "A"
    [] There(from) /\ ~There(to)      -> "D"
    [] OTHER -> IF TypeOf(from) = TypeOf(to) THEN "M" ELSE "T"

IndexLetter(n, S) ==
  IF \E o \in S : StagedMove(o, n) THEN "R"
  ELSE IF \E o \in S : StagedMove(n, o) THEN " " ELSE Letter(InHead(n), Added(n))
WorkLetter(n, S) ==
  IF \E o \in S : WorkMove(o, n) THEN "R"
  ELSE IF ~There(InIndex(n)) \/ \E o \in S : WorkMove(n, o) THEN " "
  ELSE IF Intended(n) /\ path_exists(n) THEN "A" ELSE Letter(Recorded(n), OnDisk(n))

Entry(n, x, y) == [path |-> n, index |-> x, worktree |-> y, unmerged |-> FALSE,
                   orig |-> {}, changed |-> FALSE]
EntriesOf(n, S) ==
  IF Unmerged(n) THEN {[Entry(n, "U", "U") EXCEPT !.unmerged = TRUE]}
  ELSE LET x == IndexLetter(n, S)
           y == WorkLetter(n, S)
           from == {o \in S : StagedMove(o, n) \/ WorkMove(o, n)}
       IN (IF x = " " /\ y = " " THEN {}
           ELSE {[Entry(n, x, y) EXCEPT !.orig = from,
                                        !.changed = x = "R" /\ \E o \in from : Contents(InHead(o)) # Contents(Added(n))]})
          \cup (IF ~There(InIndex(n)) /\ path_exists(n) THEN {Entry(n, "?", "?")} ELSE {})

-----------------------------------------------------------------------------
(* What hk knows of a tree.                                                *)
NoStatus ==
  [staged |-> {}, unstaged |-> {}, untracked |-> {}, modified |-> {},
   stagedAdded |-> {}, stagedModified |-> {}, stagedDeleted |-> {}, stagedRenamed |-> {},
   unstagedModified |-> {}, unstagedDeleted |-> {}, unstagedRenamed |-> {},
   intentToAdd |-> {}, unmerged |-> {}, skippedUnstaged |-> {}, skippedUntracked |-> {}]

(* Mutant of extend: that something was skipped is forgotten.              *)
extendMutant(s, t) == [k \in DOMAIN s |->
  IF k \in {"skippedUnstaged", "skippedUntracked"} THEN s[k] ELSE s[k] \cup t[k]]

extend(s, t) == [k \in DOMAIN s |-> s[k] \cup t[k]]

(* parse_porcelain_status leaves out the paths that are not UTF-8, and      *)
(* status_with_untracked, without them, the untracked ones.                *)
Printed(S, untr)  == {e \in UNION {EntriesOf(n, S) : n \in S} : e.index # "?" \/ untr}
Parsed(S, untr)   == {e \in Printed(S, untr) : e.path \notin checkout.odd}
Skipped(S, untr)  == Printed(S, untr) \ Parsed(S, untr)

PathsOf(E, P(_)) == {e.path : e \in {x \in E : P(x)}}
Exists(e) == path_exists(e.path)
IsModified(c) == c \in {"M", "T", "A", "R"}

from_entries(E) ==
  LET indexed(c) == PathsOf(E, LAMBDA e : e.index \in c)
      worked(c)  == PathsOf(E, LAMBDA e : e.worktree \in c)
  IN [NoStatus EXCEPT
        !.unmerged  = PathsOf(E, LAMBDA e : e.unmerged /\ Exists(e)),
        !.staged    = PathsOf(E, LAMBDA e : IsModified(e.index) /\ e.worktree # "D" /\ Exists(e)),
        !.stagedAdded = indexed({"A"}), !.stagedModified = indexed({"M", "T"}),
        !.stagedDeleted = indexed({"D"}), !.stagedRenamed = indexed({"R"}),
        !.unstaged  = PathsOf(E, LAMBDA e : IsModified(e.worktree) /\ Exists(e)),
        !.untracked = PathsOf(E, LAMBDA e : e.worktree = "?" /\ Exists(e)),
        !.intentToAdd = PathsOf(E, LAMBDA e : /\ e.index \in {" ", "D"}
                                              /\ e.worktree \in {"A", "R"} /\ Exists(e)),
        !.modified  = PathsOf(E, LAMBDA e : /\ IsModified(e.index) \/ IsModified(e.worktree)
                                            /\ Exists(e)),
        !.unstagedModified = worked({"M", "T"}), !.unstagedDeleted = worked({"D"}),
        !.unstagedRenamed = worked({"R"})]

(* An intended file is added to the index, empty, and then modified.       *)
IntendedOnly(e) == e.index = " " /\ e.worktree \in {"A", "R"}

(* Mutant of MovedAway: the file that a rename in the worktree took away    *)
(* is not told.                                                            *)
MovedAwayMutant(e) == {}

MovedAway(e) == IF IntendedOnly(e) /\ e.worktree = "R" THEN e.orig \ checkout.odd ELSE {}

AsLibgit2(e) ==
  IF IntendedOnly(e)
  THEN [e EXCEPT !.index = "A", !.worktree = IF OnDisk(e.path) = "empty" THEN " " ELSE "M"]
  ELSE e

from_entries_libgit2(E) ==
  LET merged == {AsLibgit2(e) : e \in {x \in E : ~x.unmerged}}
      both   == PathsOf(E, LAMBDA e : e.unmerged /\ Exists(e))
      indexed(c) == PathsOf(merged, LAMBDA e : e.index \in c)
      worked(c)  == PathsOf(merged, LAMBDA e : e.worktree \in c)
  IN [NoStatus EXCEPT
        !.unmerged = both,
        !.staged   = both \cup PathsOf(merged, LAMBDA e : e.index \notin {" ", "?"} /\ Exists(e)),
        !.unstaged = both \cup PathsOf(merged, LAMBDA e : e.worktree \notin {" ", "?"} /\ Exists(e)),
        !.intentToAdd = PathsOf(E, LAMBDA e : /\ e.index \in {" ", "D"} /\ ~e.unmerged
                                              /\ e.worktree \in {"A", "R"} /\ Exists(e)),
        !.stagedAdded = indexed({"A"}),
        !.stagedModified = indexed({"M", "T"}) \cup PathsOf(merged, LAMBDA e : e.changed),
        !.stagedDeleted = indexed({"D"}), !.stagedRenamed = indexed({"R"}),
        !.untracked = worked({"?"}), !.modified = worked({"M", "T"}),
        !.unstagedModified = worked({"M", "T"}),
        !.unstagedDeleted = worked({"D"}) \cup UNION {MovedAway(e) : e \in E}]

(* libgit2's statuses (external): HEAD and the index, where an intended     *)
(* file is an empty one that was added, then the index and the worktree,   *)
(* without renames; a conflict is neither new nor modified.                *)
read_status_libgit2(untr) ==
  LET whole == {n \in Names : ~Unmerged(n)}
      moved(n) == \E o \in Names : StagedMove(o, n)
      gone(n)  == \E o \in Names : StagedMove(n, o)
      staged(c) == {n \in whole : ~moved(n) /\ ~gone(n) /\ Letter(InHead(n), Recorded(n)) \in c}
      worked(c) == {n \in whole : There(InIndex(n)) /\ Letter(Recorded(n), OnDisk(n)) \in c}
      renamed  == {n \in Names : moved(n)}
      listed   == renamed \cup staged({"A", "M", "T", "D"}) \cup (Names \ whole)
  IN [NoStatus EXCEPT
        !.staged = {n \in listed : path_exists(n)},
        !.stagedAdded = staged({"A"}), !.stagedDeleted = staged({"D"}),
        !.stagedModified = staged({"M", "T"})
           \cup {n \in renamed : \E o \in Names : StagedMove(o, n) /\ Contents(InHead(o)) # Contents(Added(n))},
        !.stagedRenamed = renamed,
        !.unstaged = {n \in worked({"M", "T", "D"}) \cup (Names \ whole) : path_exists(n)},
        !.untracked = IF untr THEN {n \in Names : ~There(InIndex(n)) /\ path_exists(n)} ELSE {},
        !.modified = worked({"M", "T"}), !.unstagedModified = worked({"M", "T"}),
        !.unstagedDeleted = worked({"D"})]

(* git status, with the flags of what was skipped as sets of paths.        *)
read_status_cli(as, S, untr) ==
  [(IF as = "libgit2" THEN from_entries_libgit2(Parsed(S, untr)) ELSE from_entries(Parsed(S, untr)))
   EXCEPT !.skippedUnstaged  = PathsOf(Skipped(S, untr), LAMBDA e : e.worktree \notin {" ", "?"}),
          !.skippedUntracked = PathsOf(Skipped(S, untr), LAMBDA e : e.worktree = "?")]

(* status_of_paths without libgit2: as many paths at a time as a command   *)
(* line has room for, one here.                                            *)
status_of_paths(untr) ==
  FoldSet(LAMBDA n, s : extend(s, read_status_cli("git", {n}, untr)), NoStatus, Names)

-----------------------------------------------------------------------------
NotRead == [by |-> "nobody"]

StatusInit == checkout \in Trees /\ reading = NotRead
StatusIdle == checkout = <<>> /\ reading = NotRead

ReadChanges ==
  /\ reading = NotRead /\ checkout # <<>>
  /\ \E untr \in BOOLEAN, by \in {"git", "git as libgit2", "libgit2", "path by path"} :
       /\ by = "libgit2" => checkout.odd = {}
       /\ reading' = [by |-> by, untr |-> untr, status |->
            CASE by = "git"            -> read_status_cli("git", Names, untr)
              [] by = "git as libgit2" -> read_status_cli("libgit2", Names, untr)
              [] by = "libgit2"        -> read_status_libgit2(untr)
              [] by = "path by path"   -> status_of_paths(untr)]
  /\ UNCHANGED checkout

has_unstaged_changes(s, untr) ==
  \/ s.unstaged # {} \/ s.skippedUnstaged # {} \/ s.intentToAdd # {}
  \/ untr /\ (s.untracked # {} \/ s.skippedUntracked # {})

(* stash_unstaged_inner: the files it stashes, those it sets aside because *)
(* they are only intended (`git diff` finds them when some path was left   *)
(* out), and whether it stashes whatever there is.                         *)
intent_to_add(s) ==
  s.intentToAdd \cup {n \in Names : s.skippedUnstaged # {} /\ Intended(n) /\ path_exists(n)}

(* Mutant of stash_everything: untracked paths that were skipped are        *)
(* forgotten.                                                              *)
stash_everythingMutant(s, untr) == s.skippedUnstaged # {} \/ (untr /\ s.untracked # {})

stash_everything(s, untr) ==
  s.skippedUnstaged # {} \/ (untr /\ (s.skippedUntracked # {} \/ s.untracked # {}))

files_to_stash(s, untr) ==
  s.unmerged \cup s.unstaged \cup intent_to_add(s) \cup (IF untr THEN s.untracked ELSE {})

(***************************************************************************)
(* Properties.                                                             *)
(***************************************************************************)
(* A file that is there and is not what the index has.                     *)
Changed(n, untr) ==
  /\ path_exists(n)
  /\ IF There(InIndex(n)) THEN Intended(n) \/ OnDisk(n) # InIndex(n) ELSE untr

(* Whatever reads the status for the stash, each file that was changed and *)
(* not staged is stashed, an intended one apart from the others, no other  *)
(* file is, and hk looks into stashing if any is, conflicts aside (git.rs  *)
(* 1661-1710).                                                             *)
AllChangesAreSetAside ==
  LET s == reading.status
      changed == {n \in Names : Changed(n, reading.untr)}
  IN reading.by \in {"git", "git as libgit2", "path by path"} =>
       /\ changed \subseteq files_to_stash(s, reading.untr)
                            \cup IF stash_everything(s, reading.untr) THEN checkout.odd ELSE {}
       /\ files_to_stash(s, reading.untr) \subseteq changed
       /\ {n \in changed : Intended(n)} = intent_to_add(s)
       /\ {n \in changed : ~Unmerged(n)} # {} => has_unstaged_changes(s, reading.untr)
       /\ checkout.odd = {} /\ changed = {} => ~has_unstaged_changes(s, reading.untr)

(* A status reads the same whether libgit2 reads it or git, classified in  *)
(* libgit2's way (git.rs 4046-4048), where no intended file is gone or     *)
(* replaces one of HEAD.                                                   *)
StatusesAgree ==
  reading.by = "libgit2" /\ (\A n \in Names : Intended(n) => path_exists(n) /\ ~There(InHead(n))) =>
    reading.status = [read_status_cli("libgit2", Names, reading.untr)
                     EXCEPT !.intentToAdd = {}, !.unmerged = {}]

StatusTellsAll == AllChangesAreSetAside /\ StatusesAgree
=============================================================================
