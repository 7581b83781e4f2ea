------------------------------- MODULE Restore -------------------------------
(* What becomes of each file when a hook run puts back the changes it had  *)
(* stashed (git.rs, pop_unstaged_stash): the steps ran on the files as     *)
(* they were staged, and what they left meets the user's unstaged edits.   *)
(* StashJournal says when this happens, and what a crash of it costs; here *)
(* one run does it to the end, and the files have contents.                *)
EXTENDS Merge, FiniteSets

CONSTANT Scenes  \* what a run may start from

(* What is at a path: nothing, a file that is text or not, a symlink, or   *)
(* something that takes the place of one of its directories.               *)
Absent  == [kind |-> "none", text |-> <<>>, exec |-> FALSE]
Blocked == [Absent EXCEPT !.kind = "blocked"]
Regular(e) == e.kind \in {"text", "binary"}

VARIABLES
  stash,     \* head, index0 and work: the file as committed, staged and edited
             \* when it was stashed; given: whether the steps were given it
  progress,     \* "steps", "restore", and then, of the entry, "dropped", "kept"
                \* or (kept with the files not checked) "unchecked"
  index,     \* what is staged
  tree,      \* what is in the worktree
  plan,      \* what restoring does with each path
  waiting,      \* the paths still to restore
  merged,    \* the paths that now hold more than the stash
  left_out,  \* the paths left as a step made them
  failed,    \* whether restoring anything failed
  output     \* what the steps left of each path

restoreVars == <<stash, progress, index, tree, plan, waiting, merged, left_out, failed, output>>

(* The paths the stash set aside.                                          *)
Paths == DOMAIN stash.work

(* Whether git takes what is there for this entry, with core.fileMode or   *)
(* without.                                                                *)
Matches(there, entry) ==
  /\ there.kind = entry.kind \/ (there.kind = "blocked" /\ entry.kind = "none")
  /\ there.text = entry.text
  /\ Regular(entry) /\ stash.fileMode => there.exec = entry.exec

IsUntracked(p) == stash.index0[p] = Absent
StagedDeleted(p) == index[p] = Absent /\ stash.head[p] # Absent

(* Stashing left the worktree as it was staged.                            *)
RestoreBegin ==
  /\ index = stash.index0
  /\ tree = stash.index0
  /\ plan = [p \in Paths |-> "none"]
  /\ waiting = {}
  /\ merged = {}
  /\ left_out = {}
  /\ failed = FALSE
  /\ output = tree

RestoreInit == stash \in Scenes /\ progress = "steps" /\ RestoreBegin

(* Nothing is stashed, for a module that has more than this to check.      *)
RestoreIdle ==
  /\ stash = [given |-> <<>>, writes |-> <<>>, stages |-> FALSE, fileMode |-> FALSE,
              head |-> <<>>, index0 |-> <<>>, work |-> <<>>]
  /\ progress = "dropped"
  /\ RestoreBegin

-----------------------------------------------------------------------------
(* The steps change any of the files, and hk stages some of what they do.  *)
StepWrites(p) ==
  /\ progress = "steps"
  /\ \E e \in stash.writes[p] : tree' = [tree EXCEPT ![p] = e]
  /\ UNCHANGED <<stash, progress, index, plan, waiting, merged, left_out, failed, output>>

StageOutput(p) ==
  /\ progress = "steps" /\ stash.stages
  /\ tree[p].kind \notin {"none", "blocked"}
  /\ index' = [index EXCEPT ![p] = tree[p]]
  /\ UNCHANGED <<stash, progress, tree, plan, waiting, merged, left_out, failed, output>>

-----------------------------------------------------------------------------
(* restore_plan: a path no step touched can be restored, and a regular     *)
(* file a step changed can be merged.                                      *)
PlanFor(p) ==
  LET old == stash.index0[p]
      new == stash.work[p]
  IN IF StagedDeleted(p) /\ ~ IsUntracked(p) THEN "none"
     ELSE IF tree[p] = Blocked THEN "conflict"
     ELSE IF Matches(tree[p], new) THEN "unchanged"
     ELSE IF Matches(tree[p], old) THEN "restore"
     ELSE IF Regular(old) /\ Regular(new) /\ Regular(tree[p]) THEN "merge"
     ELSE "conflict"

(* If hk cannot compare the files with the stash, it restores nothing.     *)
Plan ==
  /\ progress = "steps"
  /\ output' = tree
  /\ \/ LET all == [p \in Paths |-> PlanFor(p)]
            conflicts == {p \in Paths : all[p] = "conflict"}
        IN /\ plan' = all
           /\ waiting' = {p \in Paths : all[p] \in {"restore", "merge"}}
           /\ left_out' = conflicts
           /\ failed' = (conflicts # {})
           /\ progress' = "restore"
     \/ /\ failed' = TRUE
        /\ progress' = "kept"
        /\ UNCHANGED <<plan, waiting, left_out>>
  /\ UNCHANGED <<stash, index, tree, merged>>

-----------------------------------------------------------------------------
(* Whether what was stashed at a path is its deletion or a symlink, or     *)
(* replaces one: it is restored whatever the steps left.                   *)
NothingToMerge(p) ==
  \/ IsUntracked(p)
  \/ stash.work[p] = Absent
  \/ "link" \in {stash.work[p].kind, stash.index0[p].kind}

(* The mode a restored file gets: the stashed one, unless only a step      *)
(* changed it.                                                             *)
WithMode(p) ==
  IF stash.fileMode /\ ~ (plan[p] = "merge" /\ stash.index0[p].exec = stash.work[p].exec)
  THEN [tree[p] EXCEPT !.exec = stash.work[p].exec]
  ELSE tree[p]

(* Whether what a step made of a path is to be merged as its output: hk    *)
(* staged it, or was given the path and leaves its output in the worktree. *)
StepOutput(p, now) ==
  \/ IF stash.stages THEN index[p] \notin {Absent, stash.head[p]}
     ELSE stash.given[p] /\ ~ Matches(tree[p], index[p])
  \/ plan[p] = "merge" /\ Matches(now, index[p])

(* A symlink's blob is the path it leads to, which is text.                *)
TextOf(e) == IF e.kind \in {"text", "link"} THEN e.text ELSE NoText

(* resolve_restore_text: an edit that only adds to the end of what was     *)
(* staged goes to the end of the output, and the final newline is as the   *)
(* user left it when it is all that was changed.                           *)
Tail0(staged, work) ==
  IF IsPrefix(staged, work) THEN SubSeq(work, Len(staged) + 1, Len(work))
  ELSE IF EndsInNL(staged) /\ work = Front(staged) THEN <<>>
  ELSE NoText

WithoutNLs(text) == SubSeq(text, 1, Max({0} \cup {k \in DOMAIN text : text[k] # NL}))

MergedOrTailed(base, tail, work, fixer) ==
  IF tail # NoText THEN fixer \o tail ELSE ThreeWayMerge(base, fixer, work)

EndedAsEdited(text, staged, work) ==
  LET added == NoText \notin {work, staged} /\ work = Append(staged, NL)
      cut   == NoText \notin {work, staged} /\ staged = Append(work, NL)
  IN CASE added /\ ~ EndsInNL(staged) /\ ~ EndsInNL(text) -> Append(text, NL)
       [] cut /\ ~ EndsInNL(work) -> WithoutNLs(text)
       [] OTHER -> text

ResolveText(head, staged, work, fixer) ==
  LET base == IF staged # NoText THEN staged ELSE IF head # NoText THEN head ELSE <<>>
      tail == IF NoText \in {fixer, work, staged} THEN NoText ELSE Tail0(staged, work)
  IN EndedAsEdited(MergedOrTailed(base, tail, work, fixer), staged, work)

Put(p, e) == tree' = [tree EXCEPT ![p] = e]
File(e, text) == [e EXCEPT !.kind = "text", !.text = text]
Unread    == failed' = TRUE /\ UNCHANGED <<merged, left_out>>
Restored  == UNCHANGED <<merged, left_out, failed>>
IsMerged(p) == merged' = merged \cup {p} /\ UNCHANGED <<left_out, failed>>
LeaveOut(p) == left_out' = left_out \cup {p} /\ failed' = TRUE /\ UNCHANGED merged

(* merge_step_change: a change that is not the output of a step is merged  *)
(* only when it is to other lines than the edits.                          *)
MergeTexts(p, now, base, change, work) ==
  IF NoText \in {base, change, work} \/ HunksOverlap(base, change, work)
  THEN Put(p, now) /\ LeaveOut(p)
  ELSE Put(p, File(now, ThreeWayMerge(base, change, work))) /\ IsMerged(p)

MergeStepChange(p, now) ==
  MergeTexts(p, now, TextOf(stash.index0[p]), TextOf(now), TextOf(stash.work[p]))

(* Where the steps' output is read: the worktree, or else what is staged.  *)
OutputRead(p, now) == IF stash.stages /\ plan[p] # "merge" THEN index[p] ELSE now

(* An output that is not text cannot be merged with the edits.             *)
MergedFile(p, now, fixer) ==
  File(now, ResolveText(TextOf(stash.head[p]), TextOf(stash.index0[p]), TextOf(stash.work[p]), fixer))

MergeOutput(p, now, out) ==
  LET work == stash.work[p]
      same == plan[p] # "merge" /\ out.text = stash.index0[p].text
  IN IF ~ stash.stages /\ "binary" \in {out.kind, work.kind} THEN Put(p, now) /\ LeaveOut(p)
     ELSE IF work.kind = "binary" THEN Put(p, [work EXCEPT !.exec = now.exec]) /\ Restored
     ELSE IF TextOf(out) = NoText /\ ~ same THEN Put(p, now) /\ Unread
     ELSE /\ Put(p, MergedFile(p, now, TextOf(out)))
          /\ IF TextOf(out) = NoText THEN Restored ELSE IsMerged(p)

RestoreOne(p, now) ==
  IF NothingToMerge(p) THEN Put(p, stash.work[p]) /\ Restored
  ELSE IF StepOutput(p, now) THEN MergeOutput(p, now, OutputRead(p, now))
  ELSE IF plan[p] = "merge" THEN MergeStepChange(p, now)
  ELSE Put(p, [stash.work[p] EXCEPT !.exec = now.exec]) /\ Restored

Restore(p) ==
  /\ progress = "restore" /\ p \in waiting
  /\ waiting' = waiting \ {p}
  /\ RestoreOne(p, WithMode(p))
  /\ UNCHANGED <<stash, progress, index, plan, output>>

(* A file or git object cannot be read or a file not be written.           *)
RestoreFails(p) ==
  /\ progress = "restore" /\ p \in waiting
  /\ waiting' = waiting \ {p}
  /\ failed' = TRUE
  /\ UNCHANGED <<stash, progress, index, tree, plan, merged, left_out, output>>

(* Mutant of Verify: only the paths that could not be restored are kept.   *)
VerifyMutant ==
  /\ progress = "restore" /\ waiting = {}
  /\ progress' = IF failed THEN "kept" ELSE "dropped"
  /\ UNCHANGED <<stash, index, tree, plan, waiting, merged, left_out, failed, output>>

(* The entry goes once every path is as stashed, merged, or was to be left.*)
Verify ==
  LET expected == merged \cup left_out \cup {p \in Paths : StagedDeleted(p) \/ plan[p] = "unchanged"}
      others   == {p \in Paths \ expected : ~ Matches(tree[p], stash.work[p])}
  IN /\ progress = "restore" /\ waiting = {}
     /\ left_out' = left_out \cup others
     /\ failed' = (failed \/ others # {})
     /\ progress' = IF failed' THEN "kept" ELSE "dropped"
     /\ UNCHANGED <<stash, index, tree, plan, waiting, merged, output>>

(* Mutant of VerifyFails: a check that fails is no failure to restore.     *)
VerifyFailsMutant ==
  /\ progress = "restore" /\ waiting = {}
  /\ progress' = IF failed THEN "kept" ELSE "dropped"
  /\ UNCHANGED <<stash, index, tree, plan, waiting, merged, left_out, failed, output>>

(* The files cannot be checked: the entry is kept, and of the paths that   *)
(* were to be restored none is looked at.                                  *)
VerifyFails ==
  /\ progress = "restore" /\ waiting = {}
  /\ failed' = TRUE
  /\ progress' = "unchecked"
  /\ UNCHANGED <<stash, index, tree, plan, waiting, merged, left_out, output>>

RestoreNext ==
  \/ \E p \in Paths : \/ StepWrites(p) \/ StageOutput(p)
                      \/ Restore(p) \/ RestoreFails(p)
  \/ Plan \/ Verify \/ VerifyFails

RestoreSpec == RestoreInit /\ [][RestoreNext]_restoreVars

-----------------------------------------------------------------------------
(* What a merge is to be: the base with hunks of both applied, at the same *)
(* place those of ws before those of fs.                                   *)
Applied(base, ws, fs) ==
  LET lines == Lines(base)
      Inserted(hs, k) == LET here == {h \in hs : h.start = k}
                         IN IF here = {} THEN <<>> ELSE (CHOOSE h \in here : TRUE).lines
      Covered(k) == \E h \in ws \cup fs : h.start <= k /\ k < h.end
      At(k) == Inserted(ws, k) \o Inserted(fs, k)
               \o (IF k = Len(lines) \/ Covered(k) THEN <<>> ELSE <<lines[k + 1]>>)
  IN FlattenSeq(FlattenSeq([k \in 1..(Len(lines) + 1) |-> At(k - 1)]))

(* The text of a step's output that was merged with the edits to a path.   *)
MergedText(p) == OutputRead(p, output[p]).text
BaseOf(p) == stash.index0[p].text
WorkHunks(p) == ToSet(DiffHunks(BaseOf(p), stash.work[p].text))
StepHunks(p) == ToSet(DiffHunks(BaseOf(p), MergedText(p)))
TextMerges == {p \in merged : stash.index0[p].kind = "text"}

(* A file whose lines all end in a newline, the last one not being blank.  *)
WholeLines(text) == text = <<>> \/ (EndsInNL(text) /\ text = Append(WithoutNLs(text), NL))

(* When a step's output and the user's edits change different lines of a   *)
(* file, the restored file has both, whichever way hk merges them          *)
(* (three_way_merge_hunks and the rules of resolve_restore_text).          *)
MergesBoth ==
  \A p \in TextMerges :
     ~ HunksOverlap(BaseOf(p), MergedText(p), stash.work[p].text)
       => tree[p].text = Applied(BaseOf(p), WorkHunks(p), StepHunks(p))

(* What may be left of a step's change to a file: some of its hunks, and   *)
(* of a deletion its end.                                                  *)
PartsOf(hs) ==
  SUBSET (hs \cup UNION {{[h EXCEPT !.start = k] : k \in h.start..(h.end - 1)} :
                          h \in {g \in hs : g.lines = <<>>}})
EditsApplied(p) ==
  \E fs \in PartsOf(StepHunks(p)) :
     tree[p].text \in {Applied(BaseOf(p), WorkHunks(p), fs), Applied(BaseOf(p), fs, WorkHunks(p))}

(* The user's changes to a path are in the worktree: as they were stashed, *)
(* or every edit of them applied to what the steps left.                   *)
EditsAreBack(p) ==
  \/ Matches(tree[p], stash.work[p])
  \/ p \in TextMerges /\ EditsApplied(p)
  \/ StagedDeleted(p) /\ ~ IsUntracked(p)

(* The user is told of every file whose edits are not back: once hk drops  *)
(* the stash entry, all that it held (of files that are whole lines) is in *)
(* the worktree, whatever the steps did; and when it has checked the files, *)
(* keeps the entry for some paths and says that the others were restored,  *)
(* they were (the check takes an untracked file whose deletion is staged   *)
(* for one of them).  Where the check itself fails, hk says the same, and  *)
(* it need not be so (git.rs 3422, 3444).                                  *)
Told(p) == p \in left_out \/ (failed /\ StagedDeleted(p))
EditsKept ==
  progress = "dropped" \/ (progress = "kept" /\ left_out # {}) =>
    \A p \in Paths :
       ~ Told(p) /\ WholeLines(BaseOf(p)) /\ WholeLines(stash.work[p].text) => EditsAreBack(p)

(* Of any file.                                                            *)
EveryEditKept == progress = "dropped" => \A p \in Paths : EditsAreBack(p)

(* What a step wrote and hk did not stage is not dropped without a word    *)
(* either: it is in the restored file, or the entry is kept.  (Of a file   *)
(* with nothing staged of the user's: see StepOutput.)                     *)
StepChangeIsBack(p) ==
  \/ Matches(tree[p], output[p])
  \/ p \in TextMerges /\ tree[p].text = Applied(BaseOf(p), WorkHunks(p), StepHunks(p))
  \/ Matches(output[p], stash.index0[p]) \/ Matches(output[p], index[p])
StepChangeKept ==
  progress = "dropped" =>
    \A p \in Paths : stash.stages /\ index[p] \in {Absent, stash.head[p]} => StepChangeIsBack(p)
=============================================================================
