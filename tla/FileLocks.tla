------------------------------ MODULE FileLocks ------------------------------
(***************************************************************************)
(* What the file locks of a hook run promise to its jobs, without the      *)
(* table that keeps the promise: a job asks for a whole set of files in    *)
(* one mode and either waits holding nothing or holds all of it; jobs that *)
(* hold locks never conflict; and a job is kept waiting only by a job that *)
(* holds locks it needs.  FileRwLocks implements this specification.       *)
(***************************************************************************)

CONSTANTS Files,  (* the files of the run *)
          Jobs    (* the tasks that lock them *)

Modes    == {"read", "write"}
Requests == [mode : Modes, files : SUBSET Files]

(* Two requests conflict when they share a file and one of them writes.    *)
Conflict(r, s) == /\ r.files \cap s.files # {}
                  /\ \/ r.mode = "write"
                     \/ s.mode = "write"

VARIABLES phase,  (* job -> out of the locks, waiting, or holding *)
          want    (* job -> the request it waits for or holds *)

lockVars == <<phase, want>>

Phases == {"out", "waiting", "holding"}

Holding == {j \in Jobs : phase[j] = "holding"}
Waiting == {j \in Jobs : phase[j] = "waiting"}

(* No two holders conflict.                                                *)
Compatible == \A i, j \in Holding : i # j => ~Conflict(want[i], want[j])

(* No waiter could start.                                                  *)
Maximal == \A w \in Waiting : \E h \in Holding : Conflict(want[w], want[h])

Init == /\ phase = [j \in Jobs |-> "out"]
        /\ want \in [Jobs -> Requests]

(* A job asks: it gets the whole request at once or starts to wait.        *)
AskFor(j, r) == /\ phase[j] = "out"
                /\ want' = [want EXCEPT ![j] = r]
                /\ \E p \in {"waiting", "holding"} : phase' = [phase EXCEPT ![j] = p]

Ask(j) == \E r \in Requests : AskFor(j, r)

(* A job returns its locks or gives up waiting, and waiters get theirs.    *)
(* What it wanted is of no account from then on.                           *)
Leave(j) == /\ phase[j] # "out"
            /\ \E W \in SUBSET (Waiting \ {j}) :
                 phase' = [i \in Jobs |-> IF i = j THEN "out"
                                          ELSE IF i \in W THEN "holding"
                                          ELSE phase[i]]
            /\ \E r \in Requests : want' = [want EXCEPT ![j] = r]

(* What holds after every step: it names the waiters a step let in.        *)
Settled == Compatible' /\ Maximal'

Next == /\ \E j \in Jobs : Ask(j) \/ Leave(j)
        /\ Settled

Spec == Init /\ [][Next]_lockVars
=============================================================================
