---------------------------- MODULE WriteHistory -----------------------------
(* FileRwLocks with the history its write counts stand for: which files    *)
(* were locked to write since a job noted their counts.                    *)
EXTENDS FileRwLocks

VARIABLE touched  (* task -> files locked to write, by any job, since it noted *)

hvars == <<vars, touched>>

HInit == Init /\ touched = [j \in Jobs |-> {}]

(* A new note forgets the past; a write lock taken by anyone is remembered. *)
HNext ==
  /\ Next
  /\ touched' = [j \in Jobs |->
       IF noted'[j] # noted[j] THEN {}
       ELSE touched[j] \cup
            UNION {req'[i].files : i \in {i \in Holders' \ Holders : req'[i].mode = "write"}}]

HSpec == HInit /\ [][HNext]_hvars

(* A job that reads files again can tell from their counts whether a write *)
(* lock was taken since it noted them (file_rw_locks.rs:211-213).          *)
CountsTellOfWriters ==
  \A j \in Jobs : pc[j] = "holding" =>
    \A f \in req[j].files : noted[j][f] # -1 /\ req[j].mode = "read" =>
      (writes[f] # noted[j][f] <=> f \in touched[j])

=============================================================================
