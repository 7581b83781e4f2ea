------------------------------ MODULE MCRestore ------------------------------
(* Files to restore: texts of up to three lines, and what is not text.     *)
EXTENDS Restore

CONSTANTS p1, p2

Text(t)   == [kind |-> "text", text |-> t, exec |-> FALSE]
Script(t) == [Text(t) EXCEPT !.exec = TRUE]
Binary(t) == [Text(t) EXCEPT !.kind = "binary"]
Link(t)   == [Text(t) EXCEPT !.kind = "link"]

X == <<"x", NL>>
Y == <<"y", NL>>
Short  == {<<>>, X, Y} \cup {s \o t : s, t \in {X, Y}}
Long   == {s \o t \o u : s, t, u \in {X, Y}}
Ragged == {<<>>, <<"x">>, X, <<"x", "y">>, <<"x", NL, NL>>, <<"y", NL, NL>>, <<"y", NL, "x">>}

TextScene(h, i, w, given, stages, writes) ==
  [head |-> p1 :> Text(h), index0 |-> p1 :> Text(i), work |-> p1 :> Text(w),
   given |-> p1 :> given, stages |-> stages, fileMode |-> TRUE,
   writes |-> p1 :> {Text(t) : t \in writes}]

(* One text file that is staged or not, given to the steps or not, in a    *)
(* run that stages or not: every edit, and every change of a step.         *)
TextScenes(bases, texts) ==
  {TextScene(h, i, w, g, s, texts) :
     h \in {<<>>, X}, i \in bases, w \in texts, g \in BOOLEAN, s \in BOOLEAN}
Merges == {TextScene(h, i, w, TRUE, s, Short \cup Long) :
             h \in {<<>>, X \o Y \o X}, i \in {X \o Y \o X}, w \in Short \cup Long, s \in BOOLEAN}

(* Two files of any kind, in a repository that tells which are executable, *)
(* or not.                                                                 *)
KindScene(h, i, w, given, stages, mode) ==
  LET e == Binary(<<"b">>) 
      Both(e1, e2) == p1 :> e1 @@ p2 :> e2
  IN [head |-> Both(h, Text(X)), index0 |-> Both(i, Text(X)), work |-> Both(w, Text(Y)),
      given |-> Both(given, TRUE), stages |-> stages, fileMode |-> mode,
      writes |-> Both({Absent, Blocked, Text(X \o Y), Script(X), e, Link(<<"x">>)}, {})]
Things == {Absent, Text(X), Script(X), Text(Y), Binary(<<"b">>), Binary(<<"c">>), Link(<<"x">>)}
Handled == {<<TRUE, TRUE>>, <<TRUE, FALSE>>, <<FALSE, TRUE>>}  \* given, stages
KindScenes ==
  {KindScene(h, i, w, x[1], x[2], TRUE) :
     h \in {Absent, Text(X), Text(Y)}, i \in Things, w \in Things, x \in Handled}
  \cup {KindScene(Text(X), i, w, x[1], x[2], FALSE) :
          i \in Things, w \in Things, x \in Handled}

(* Of those, the ones with something to stash.                             *)
Edited(scenes) ==
  {s \in scenes : \E p \in DOMAIN s.work :
     LET old == s.index0[p]
         new == s.work[p]
     IN p = p1 /\ IF s.fileMode THEN old # new ELSE old # [new EXCEPT !.exec = old.exec]}

AllScenes    == Edited(TextScenes(Short, Short) \cup Merges \cup KindScenes)
RaggedScenes == Edited(TextScenes(Ragged, Ragged))
=============================================================================
