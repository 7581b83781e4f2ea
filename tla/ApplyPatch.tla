----------------------------- MODULE ApplyPatch ------------------------------
(***************************************************************************)
(* A patch that a check_diff printed, applied to its files (step/diff.rs): *)
(* every file's new contents are worked out before any is written, and     *)
(* what was written is put back when a write fails.  Others may write to   *)
(* the files meanwhile.  JobLocks takes its outcome as one choice.         *)
(***************************************************************************)
EXTENDS Naturals, Sequences, FiniteSets, SequencesExt

CONSTANTS Paths,
          Patches     \* what is looked at: the files and the file patches when it
                      \* begins, and how many failures and writes of others follow

(* Contents: none for no file; of hk's "new" ones, "empty" and "part" are  *)
(* what a write that fails leaves.                                         *)
None == "none"
Torn == {"empty", "part"}
PrefixesOfNew == Torn \cup {"new"}

ASSUME PatchesAssumption ==
  Patches \subseteq
    [files : [Paths -> {None, "old"}], fails : Nat, writes : Nat,
     hunks : Seq([path : Paths, op : {"modify", "create", "delete"}])]

VARIABLES file,       \* the files, and where a deleted one was moved aside to
          aside,
          patch,      \* the instance, with what is left of its bounds
          step,       \* where apply_patch is
          planned,    \* its locals: each touched file's contents to be, and those
          originals,  \* it had; the files left to do, done, moved aside and not
          todo,       \* restored
          written,
          setAside,
          told,
          theirs,     \* history: the files others wrote to, and of these the ones
          put         \* where they did so after hk's write or deletion, other than
                      \* between roll_back's look at the file and what it does then

patchVars == <<file, aside, patch, step, planned, originals, todo, written, setAside,
               told, theirs, put>>

PatchNew ==
  /\ planned = <<>> /\ originals = <<>> /\ todo = <<>> /\ written = <<>> /\ setAside = <<>>
  /\ told = {} /\ theirs = {} /\ put = {}

PatchInit ==
  /\ step = "plan" /\ patch \in Patches
  /\ file = patch.files /\ aside = [f \in Paths |-> None]
  /\ PatchNew

(* No patch is applied.                                                    *)
PatchIdle == step = "none" /\ patch = <<>> /\ file = <<>> /\ aside = <<>> /\ PatchNew

(***************************************************************************)
(* The file patches one by one, each over what those before it left: a     *)
(* file may have several.                                                  *)
(***************************************************************************)
After(op) == IF op = "delete" THEN None ELSE "new"

Fits(op, current) == (op = "create") = (current = None)

Touched(hunks) == {hunks[n].path : n \in DOMAIN hunks}

(* A file's contents after the first n of them.                            *)
Contents(hunks, f, n) ==
  LET its == {m \in 1 .. n : hunks[m].path = f}
  IN IF its = {} THEN file[f] ELSE After(hunks[Max(its)].op)

AllFit(hunks) ==
  \A n \in DOMAIN hunks : Fits(hunks[n].op, Contents(hunks, hunks[n].path, n - 1))

Worked(hunks) == [f \in Touched(hunks) |-> Contents(hunks, f, Len(hunks))]

(* The files, in the order in which they are first named.                  *)
TouchedIn(hunks) ==
  {s \in UNION {[1 .. n -> Touched(hunks)] : n \in 0 .. Len(hunks)} :
     /\ Range(s) = Touched(hunks)
     /\ \A m, n \in DOMAIN s : m < n =>
          \E k \in DOMAIN hunks : hunks[k].path = s[m] /\ \A l \in 1 .. k : hunks[l].path # s[n]}

(* Hunks whose context is not found, and what hk refuses to patch, end it  *)
(* like a file that is not there.                                          *)
PlanPatch ==
  /\ step = "plan"
  /\ \/ step' = "rejected" /\ UNCHANGED <<planned, originals, todo>>
     \/ /\ patch.hunks # <<>> /\ AllFit(patch.hunks)
        /\ step' = "write" /\ planned' = Worked(patch.hunks)
        /\ originals' = [f \in Touched(patch.hunks) |-> file[f]]
        /\ todo' \in TouchedIn(patch.hunks)
  /\ UNCHANGED <<file, aside, patch, written, setAside, told, theirs, put>>

MayFail == patch.fails > 0
Failed  == patch' = [patch EXCEPT !.fails = @ - 1]

(* Mutant of Tried: a file is listed once it is written.                   *)
TriedMutant(f, whole) == IF whole THEN Append(written, f) ELSE written

(* A file to write is listed before the write, one to delete once it is    *)
(* moved aside.                                                            *)
Tried(f, whole) == Append(written, f)

Write ==
  /\ step = "write" /\ todo # <<>>
  /\ LET f == Head(todo)
     IN /\ planned[f] # None
        /\ put' = put \ {f}
        /\ \/ /\ file' = [file EXCEPT ![f] = "new"] /\ todo' = Tail(todo)
              /\ written' = Tried(f, TRUE)
              /\ UNCHANGED <<step, patch>>
           \/ /\ MayFail /\ Failed /\ step' = "undo" /\ todo' = <<>>
              /\ file' \in {file} \cup {[file EXCEPT ![f] = c] : c \in Torn}
              /\ written' = Tried(f, FALSE)
  /\ UNCHANGED <<aside, planned, originals, setAside, told, theirs>>

MoveAside ==
  /\ step = "write" /\ todo # <<>>
  /\ LET f == Head(todo)
     IN /\ planned[f] = None
        /\ \/ /\ file[f] # None
              /\ aside' = [aside EXCEPT ![f] = file[f]]
              /\ file' = [file EXCEPT ![f] = None]
              /\ setAside' = Append(setAside, f) /\ todo' = Tail(todo)
              /\ UNCHANGED <<step, patch>>
           \/ /\ IF file[f] = None THEN UNCHANGED patch ELSE MayFail /\ Failed
              /\ step' = "undo" /\ todo' = <<>>
              /\ UNCHANGED <<aside, file, setAside>>
  /\ UNCHANGED <<planned, originals, written, told, theirs, put>>

(* All is written: the files moved aside go, or stay with a warning.       *)
AsideGoes ==
  /\ step = "write" /\ todo = <<>>
  /\ IF setAside = <<>>
     THEN step' = "applied" /\ UNCHANGED <<aside, patch, setAside>>
     ELSE /\ setAside' = Tail(setAside)
          /\ \/ aside' = [aside EXCEPT ![Head(setAside)] = None] /\ UNCHANGED patch
             \/ MayFail /\ Failed /\ UNCHANGED aside
          /\ UNCHANGED step
  /\ UNCHANGED <<file, planned, originals, todo, written, told, theirs, put>>

(* restore_aside: a hard link, which replaces no file, then the removal of *)
(* the other name.                                                         *)
RestoreAside ==
  /\ step = "undo" /\ setAside # <<>>
  /\ LET f == Head(setAside)
     IN \/ /\ file[f] = None
           /\ file' = [file EXCEPT ![f] = aside[f]]
           /\ \/ aside' = [aside EXCEPT ![f] = None] /\ UNCHANGED <<told, patch>>
              \/ MayFail /\ Failed /\ told' = told \cup {f} /\ UNCHANGED aside
        \/ /\ IF file[f] # None THEN UNCHANGED patch ELSE MayFail /\ Failed
           /\ told' = told \cup {f} /\ UNCHANGED <<file, aside>>
  /\ setAside' = Tail(setAside)
  /\ UNCHANGED <<step, planned, originals, todo, written, theirs, put>>

(* Mutant of MustUndo: a file hk was creating is removed whatever it holds. *)
MustUndoMutant(original, current) == original # current

(* roll_back: has a file that hk tried to write what hk may have done to it? *)
MustUndo(original, current) ==
  IF original # None THEN current # original ELSE current \in PrefixesOfNew

RollBackLook ==
  /\ step = "undo" /\ setAside = <<>> /\ written # <<>>
  /\ LET f == Head(written)
     IN \/ /\ MustUndo(originals[f], file[f])
           /\ step' = "put back" /\ UNCHANGED <<written, told, patch>>
        \/ /\ ~MustUndo(originals[f], file[f])
           /\ written' = Tail(written) /\ UNCHANGED <<step, told, patch>>
        \/ /\ MayFail /\ Failed
           /\ told' = told \cup {f} /\ written' = Tail(written) /\ UNCHANGED step
  /\ UNCHANGED <<file, aside, planned, originals, todo, setAside, theirs, put>>

(* Then the file is rewritten or removed, whatever it is by now.  Where that *)
(* fails the file may be as it was, torn, or whole but for its permissions. *)
RollBackWrite ==
  /\ step = "put back"
  /\ LET f == Head(written)
     IN \/ /\ file' = [file EXCEPT ![f] = originals[f]] /\ UNCHANGED <<told, patch>>
        \/ /\ MayFail /\ Failed /\ told' = told \cup {f}
           /\ \/ UNCHANGED file
              \/ /\ originals[f] # None
                 /\ \E c \in Torn \cup {originals[f]} : file' = [file EXCEPT ![f] = c]
  /\ step' = "undo" /\ written' = Tail(written)
  /\ UNCHANGED <<aside, planned, originals, todo, setAside, theirs, put>>

UndoEnds ==
  /\ step = "undo" /\ setAside = <<>> /\ written = <<>>
  /\ step' = IF told = {} THEN "rejected" ELSE "rollback failed"
  /\ UNCHANGED <<file, aside, patch, planned, originals, todo, written, setAside, told,
                 theirs, put>>

(* hk has looked at a file that it will rewrite or remove next.            *)
LookedAt(f) == step = "put back" /\ f = Head(written)

(* Another process writes or creates a file.                               *)
OtherWrites(f) ==
  /\ step \in {"plan", "write", "undo", "put back"} /\ patch.writes > 0 /\ file[f] # "other"
  /\ file' = [file EXCEPT ![f] = "other"]
  /\ patch' = [patch EXCEPT !.writes = @ - 1]
  /\ theirs' = theirs \cup {f}
  /\ put' = IF f \in Range(written) \cup Range(setAside) /\ ~LookedAt(f) THEN put \cup {f}
            ELSE put
  /\ UNCHANGED <<aside, step, planned, originals, todo, written, setAside, told>>

PatchNext == \/ PlanPatch \/ Write \/ MoveAside \/ AsideGoes \/ RestoreAside \/ RollBackLook
             \/ RollBackWrite \/ UndoEnds \/ \E f \in Paths : OtherWrites(f)

PatchSpec == PatchInit /\ [][PatchNext]_patchVars

(***************************************************************************)
(* Properties.                                                             *)
(***************************************************************************)
(* A file that is as it was before the patch, wherever it is kept.         *)
AsBefore(f) == file[f] = patch.files[f] \/ aside[f] = patch.files[f]

(* A patch that is rejected leaves every file as it was; one that cannot be *)
(* undone names the files it left otherwise, of which a deleted one is kept *)
(* aside; one that is applied leaves every file as it says (diff.rs 155).  *)
AllOrNothing ==
  /\ step = "rejected" => \A f \in Paths \ theirs : file[f] = patch.files[f]
  /\ step = "rollback failed" =>
       /\ told # {}
       /\ \A f \in Paths \ (theirs \cup told) : file[f] = patch.files[f]
       /\ \A f \in told : planned[f] = None /\ f \notin theirs => AsBefore(f)
  /\ step = "applied" => \A f \in DOMAIN planned \ theirs : file[f] = planned[f]

(* What another process put where hk had created or deleted a file stays   *)
(* when hk undoes its patch, and the file that hk deleted there is not lost *)
(* (diff.rs 315, 343), unless it is put there between roll_back's look at  *)
(* the file and the removal of it (diff.rs 350, 367).                      *)
OthersFilesStay ==
  step \in {"rejected", "rollback failed"} =>
    \A f \in put :
      (originals[f] = None \/ planned[f] = None) =>
        /\ file[f] = "other"
        /\ originals[f] # None => aside[f] # None

PatchUndone == AllOrNothing /\ OthersFilesStay
=============================================================================
