-------------------------------- MODULE Merge --------------------------------
(* The merge of what a step made of a file with the edits hk had stashed   *)
(* (merge.rs): both are compared with the text they started from, line by  *)
(* line, and the edits win where the two change the same lines.  A text is *)
(* a sequence of characters, of which NL ends a line; only the last line   *)
(* may lack it.                                                            *)
EXTENDS Integers, SequencesExt

CONSTANTS NL,     \* the character that ends a line
          NoText  \* where there is no text: Rust's None

ASSUME NoTextAssumption == NoText # <<>>

EndsInNL(text) == text # <<>> /\ Last(text) = NL

(* The lines of a text, each with the newline that ends it.                *)
Lines(text) ==
  FoldLeft(LAMBDA ls, c : IF ls = <<>> \/ EndsInNL(Last(ls)) THEN Append(ls, <<c>>)
                          ELSE Append(Front(ls), Append(Last(ls), c)),
           <<>>, text)

(* How many lines what follows line i of one text and line j of the other  *)
(* have in common: the length of their longest common subsequence.         *)
InCommon(from, to) ==
  LET dp[i \in 0..Len(from), j \in 0..Len(to)] ==
        IF i = Len(from) \/ j = Len(to) THEN 0
        ELSE IF from[i + 1] = to[j + 1] THEN dp[i + 1, j + 1] + 1
        ELSE Max({dp[i + 1, j], dp[i, j + 1]})
  IN dp

(* The pairs of lines the walk over both takes to be the same: where they  *)
(* differ it drops the line of the first, unless keeping it saves more.    *)
SameLines(from, to) ==
  LET dp == InCommon(from, to)
      walk[i \in 0..Len(from), j \in 0..Len(to)] ==
        IF i = Len(from) \/ j = Len(to) THEN <<>>
        ELSE IF from[i + 1] = to[j + 1] THEN <<<<i, j>>>> \o walk[i + 1, j + 1]
        ELSE IF dp[i + 1, j] >= dp[i, j + 1] THEN walk[i + 1, j]
        ELSE walk[i, j + 1]
  IN walk[0, 0]

(* What lies between two matched lines, the ends of the texts counting as  *)
(* matched, where it is not empty.                                         *)
Gaps(ms, to) ==
  LET Between(k) == [start |-> ms[k][1] + 1, end |-> ms[k + 1][1],
                     lines |-> SubSeq(to, ms[k][2] + 2, ms[k + 1][2])]
  IN SelectSeq([k \in 1..(Len(ms) - 1) |-> Between(k)],
               LAMBDA h : h.start < h.end \/ h.lines # <<>>)

(* What other changed: the lines of base from start up to end became these *)
(* lines.                                                                  *)
LineHunks(from, to) ==
  Gaps(<<<<-1, -1>>>> \o SameLines(from, to) \o <<<<Len(from), Len(to)>>>>, to)
DiffHunks(base, other) == LineHunks(Lines(base), Lines(other))

Intersect(f, w) == f.start < w.end /\ w.start < f.end

(* Mutant of HunksOverlap: an insertion touches no line.                   *)
HunksOverlapMutant(base, fixer, work) ==
  \E f \in ToSet(DiffHunks(base, fixer)), w \in ToSet(DiffHunks(base, work)) : Intersect(f, w)

(* Whether both change the same lines or insert at the same place.         *)
HunksOverlap(base, fixer, work) ==
  \E f \in ToSet(DiffHunks(base, fixer)), w \in ToSet(DiffHunks(base, work)) :
     f.start = w.start \/ Intersect(f, w)

(* The hunks still to apply once the base is used up to line at: those the *)
(* applied ones did not reach into, and what is left of a fixer's deletion *)
(* when they took the front of it.                                         *)
Behind(h, at) == h.start < at
Remaining(fs, at) ==
  LET Some(h) == ~ Behind(h, at) \/ (h.lines = <<>> /\ h.end > at)
      kept    == SelectSeq(fs, Some)
  IN [k \in DOMAIN kept |-> [kept[k] EXCEPT !.start = Max({@, at})]]
Ahead(ws, at) == SelectSeq(ws, LAMBDA h : ~ Behind(h, at))

(* Mutants of TakesWork: the first hunk goes first, whatever it reaches    *)
(* into; edits go before what a step changed above them.                   *)
TakesFirstMutant(fs, ws) ==
  /\ ws # <<>>
  /\ fs # <<>> => ws[1].start <= fs[1].start
TakesWorkMutant(fs, ws) == ws # <<>>

(* Whether the next hunk to apply is one of the edits: where both change   *)
(* the same lines it is, and otherwise what comes first, edits before the  *)
(* step's change.                                                          *)
TakesWork(fs, ws) ==
  /\ ws # <<>>
  /\ fs # <<>> => Intersect(fs[1], ws[1]) \/ ws[1].start <= fs[1].start

(* One round of the merge: drop the hunks already passed, and apply one.   *)
Apply(from, m, h) == m.text \o SubSeq(from, m.at + 1, h.start) \o h.lines
Round(from, m, fs, ws) ==
  IF fs = <<>> /\ ws = <<>> THEN m
  ELSE IF TakesWork(fs, ws)
  THEN [at |-> ws[1].end, text |-> Apply(from, m, ws[1]), fs |-> fs, ws |-> Tail(ws)]
  ELSE [at |-> fs[1].end, text |-> Apply(from, m, fs[1]), fs |-> Tail(fs), ws |-> ws]

MergeHunks(from, fs, ws) ==
  LET last == FoldLeft(LAMBDA m, k : Round(from, m, Remaining(m.fs, m.at), Ahead(m.ws, m.at)),
                       [at |-> 0, text |-> <<>>, fs |-> fs, ws |-> ws], fs \o ws)
  IN FlattenSeq(last.text \o SubSeq(from, last.at + 1, Len(from)))

(* The merged text; without a fixer's or an edited text, the other one.    *)
ThreeWayMerge(base, fixer, work) ==
  CASE fixer = NoText /\ work = NoText -> base
    [] fixer = NoText /\ work # NoText -> work
    [] fixer # NoText /\ work \in {NoText, base} -> fixer
    [] OTHER -> MergeHunks(Lines(base), DiffHunks(base, fixer), DiffHunks(base, work))
=============================================================================
