------------------------------ MODULE MCStaging ------------------------------
(* Staging with three steps over two files.                                *)
EXTENDS Staging

CONSTANTS g1, g2, s1, s2, s3

(* What the three fixers may change, up to the names of steps and files.   *)
AllFixes ==
  LET Run(a, b, c) == [s \in Fixers |-> CASE s = s1 -> a [] s = s2 -> b [] s = s3 -> c]
  IN {Run({g1}, {g1}, {g1}), Run({g1}, {g1}, {g2}), Run({g1}, {g1}, Fixable),
      Run({g1}, {g2}, Fixable), Run({g1}, Fixable, Fixable), Run(Fixable, Fixable, Fixable)}
=============================================================================
