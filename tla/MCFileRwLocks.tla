---------------------------- MODULE MCFileRwLocks ----------------------------
(* What keeps steps out of each other's files: FileRwLocks on small sets,  *)
(* with the history of its write counts, and the staging of fixes.         *)
EXTENDS WriteHistory, MCStaging

(* Either jobs lock files, or steps stage them.                            *)
MCInit == \/ HInit /\ StageIdle
          \/ HInit /\ known = {} /\ StageInit
MCNext == \/ mine = NoFixes /\ HNext /\ UNCHANGED stageVars
          \/ mine # NoFixes /\ StageNext /\ UNCHANGED hvars
MCSpec == MCInit /\ [][MCNext]_<<hvars, stageVars>> /\ Fairness /\ StageFairness

=============================================================================
