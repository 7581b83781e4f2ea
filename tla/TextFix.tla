------------------------------- MODULE TextFix -------------------------------
(***************************************************************************)
(* What hk's own fixers make of a text (cli/util): trailing blanks go, the *)
(* file ends with one line ending, all line endings are the most frequent  *)
(* one.  Each has a check that a hook runs to see whether the fixer is     *)
(* needed, and a hook runs them one after the other.  Texts and their      *)
(* lines are those of Merge.                                               *)
(***************************************************************************)
EXTENDS Merge, FiniteSets

CONSTANTS Blank,      \* a space or a tab
          Return,     \* a carriage return
          FixTexts    \* the texts to fix

VARIABLES given,      \* the text as the user wrote it
          text,       \* what it has become
          hookRuns    \* how often the fixers went over it

textVars == <<given, text, hookRuns>>

TrimEnd(s, chars) == SubSeq(s, 1, Max({0} \cup {i \in DOMAIN s : s[i] \notin chars}))

-----------------------------------------------------------------------------
(* trailing_whitespace.rs.  A line without what ends it; a carriage return  *)
(* alone ends none.                                                        *)
Terminator(line) == CASE IsSuffix(<<Return, NL>>, line) -> <<Return, NL>>
                      [] ~IsSuffix(<<Return, NL>>, line) /\ EndsInNL(line) -> <<NL>>
                      [] OTHER -> <<>>
Body(line) == SubSeq(line, 1, Len(line) - Len(Terminator(line)))

(* Mutant of FixLine: what is before a stray carriage return stays.        *)
FixLineMutant(line) == TrimEnd(Body(line), {Blank}) \o Terminator(line)

FixLine(line) ==
  LET body == TrimEnd(Body(line), {Blank})
  IN IF Terminator(line) = <<NL>> /\ IsSuffix(<<Return>>, body)
     THEN TrimEnd(Front(body), {Blank}) \o <<Return, NL>>
     ELSE body \o Terminator(line)

HasTrailingWhitespace(t) == \E i \in DOMAIN Lines(t) : FixLine(Lines(t)[i]) # Lines(t)[i]
StripTrailingWhitespace(t) == FlattenSeq([i \in DOMAIN Lines(t) |-> FixLine(Lines(t)[i])])

-----------------------------------------------------------------------------
(* mixed_line_ending.rs: the lines that end so, of all that end.           *)
EndingWith(t, ending) == Cardinality({i \in DOMAIN Lines(t) : Terminator(Lines(t)[i]) = ending})
HasMixedEndings(t) == EndingWith(t, <<NL>>) > 0 /\ EndingWith(t, <<Return, NL>>) > 0

(* The most frequent ending; on a tie, or without any, the newline.  The   *)
(* fixer of the end of a file (dominant_terminator) counts as well.        *)
Dominant(t) ==
  IF EndingWith(t, <<Return, NL>>) > EndingWith(t, <<NL>>) THEN <<Return, NL>> ELSE <<NL>>

NormalizeEndings(t) ==
  LET line(i) == Lines(t)[i]
  IN FlattenSeq([i \in DOMAIN Lines(t) |->
       IF Terminator(line(i)) = <<>> THEN line(i) ELSE Body(line(i)) \o Dominant(t)])

-----------------------------------------------------------------------------
(* end_of_file_fixer.rs: of a text that is not empty, the last four bytes   *)
(* tell whether one ending ends it.                                        *)
LastFour(t) == SubSeq(t, Max({1, Len(t) - 3}), Len(t))

(* Mutant of EndsProperly: the carriage return of the ending is taken for  *)
(* a stray one.                                                            *)
EndsProperlyMutant(t) ==
  t = <<>> \/ (EndsInNL(t) /\ (Len(t) > 1 => t[Len(t) - 1] \notin {NL, Return}))

EndsProperly(t) ==
  LET tail   == LastFour(t)
      before == IF IsSuffix(<<Return, NL>>, tail) THEN Front(Front(tail)) ELSE Front(tail)
  IN t = <<>> \/ (EndsInNL(tail) /\ (before # <<>> => Last(before) \notin {NL, Return}))

NormalizeEnd(t) == TrimEnd(t, {Return, NL}) \o Dominant(t)

-----------------------------------------------------------------------------
Fixers == {"trim", "end", "mix"}

Complains(f, t) == CASE f = "trim" -> HasTrailingWhitespace(t)
                     [] f = "end"  -> ~EndsProperly(t)
                     [] f = "mix"  -> HasMixedEndings(t)
FixedBy(f, t) == CASE f = "trim" -> StripTrailingWhitespace(t)
                   [] f = "end"  -> IF EndsProperly(t) THEN t ELSE NormalizeEnd(t)
                   [] f = "mix"  -> IF HasMixedEndings(t) THEN NormalizeEndings(t) ELSE t

TextInit == given \in FixTexts /\ text = given /\ hookRuns = 0
TextIdle == given = <<>> /\ text = <<>> /\ hookRuns = 3

(* A hook runs the three, in the order of its steps.                       *)
RunFixers ==
  /\ hookRuns < 3 /\ hookRuns' = hookRuns + 1
  /\ \E order \in SetToSeqs(Fixers) : text' = FoldLeft(LAMBDA t, f : FixedBy(f, t), text, order)
  /\ UNCHANGED given

(***************************************************************************)
(* Properties.                                                             *)
(***************************************************************************)
Words(t) == SelectSeq(t, LAMBDA c : c \notin {Blank, Return, NL})

(* A check complains exactly if its fixer changes the file, which keeps its *)
(* words, and is satisfied afterwards, but for a text with stray carriage  *)
(* returns, whose endings become mixed again (trailing_whitespace.rs 92-94). *)
Stray(t) == {i \in DOMAIN t : t[i] = Return /\ (i = Len(t) \/ t[i + 1] # NL)}

FixSatisfiesCheck ==
  \A f \in Fixers :
    /\ Complains(f, text) <=> FixedBy(f, text) # text
    /\ Words(FixedBy(f, text)) = Words(text)
    /\ f # "mix" \/ Stray(text) = {} => ~Complains(f, FixedBy(f, text))

(* A hook that fixes comes through when it runs again: after two runs, in   *)
(* whatever order its fixers run, none of them complains.                  *)
HookSettles == Stray(given) = {} /\ hookRuns >= 2 => \A f \in Fixers : ~Complains(f, text)

FixersAgree == given # <<>> => FixSatisfiesCheck /\ HookSettles
=============================================================================
