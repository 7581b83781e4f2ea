----------------------------- MODULE OrderedFix ------------------------------
(***************************************************************************)
(* How hk's text fixers run over a list of files (cli/util/text_files.rs): *)
(* threads read the files ahead, at most RESULTS_AHEAD of them, and the    *)
(* calling thread writes what is to be fixed, in the order of the list.  A *)
(* first pass over the list finds the files that it has more than once.    *)
(***************************************************************************)
EXTENDS Integers, Sequences, FiniteSets

CONSTANTS Crew,       \* the threads the machine has room for
          MinShare,   \* MIN_FILES_PER_THREAD
          AheadMax,   \* RESULTS_AHEAD
          FixLists    \* the lists looked at: the files named in them, whether
                      \* a path can be identified, the contents of the files
                      \* and those that can be written

(* The files of a list are those there are, or a path that leads to none.  *)
ASSUME FixListsOK ==
  /\ AheadMax \in Nat \ {0}
  /\ \A l \in FixLists :
       /\ DOMAIN l.disk \subseteq Nat \ {0} /\ l.disk \in [DOMAIN l.disk -> {"clean", "dirty", "odd"}]
       /\ l.files \in Seq({0} \cup DOMAIN l.disk)

VARIABLES fixList,     \* one of them
          onDisk,      \* the contents of its files
          round,       \* fix_in_order: identify, fix, alone (one by one), over
          ahead,       \* Progress: claimed, emitted, stop
          crew,        \* where each thread is, and the index it claimed
          channel,     \* the results on their way
          caller,      \* where the calling thread is; `got`, the result it handles
          held,        \* the results that wait for an earlier one, with their index
          identities,  \* the file each entry names
          failedAt     \* the index fix_in_order failed at, or 0

fixVars == <<fixList, onDisk, round, ahead, crew, channel, caller, held, identities, failedAt>>

(* A file is a number; NoFile stands for a path that leads to none, and    *)
(* UnknownFile for one that could not be identified.                       *)
NoFile      == 0
UnknownFile == -1
ListLen     == Len(fixList.files)
Started ==
  LET share == ListLen \div MinShare
  IN IF share <= 1 THEN {} ELSE {w \in Crew : Cardinality({v \in Crew : v < w}) < share}

(* What fix answers for a file as it is now: an error for one that cannot  *)
(* be decoded, and a fix made of half of what another thread is writing.   *)
FixOf(f, contents) ==
  IF f = NoFile THEN "same"
  ELSE CASE contents[f] = "clean"  -> "same"
         [] contents[f] = "dirty"  -> "clean"
         [] contents[f] = "torn"   -> "garbage"
         [] OTHER                  -> "error"

(* The loop that the fixers are to be like: one file after the other, up   *)
(* to the first error; what it has made after each entry.                  *)
LoopFixes(s, k) ==
  LET f == fixList.files[k]
      r == FixOf(f, s.disk)
  IN IF s.failed # 0 \/ r = "same" THEN s
     ELSE IF r = "error" \/ f \notin fixList.writable THEN [s EXCEPT !.failed = k]
     ELSE [s EXCEPT !.disk[f] = r]
Looped[k \in 0 .. ListLen] ==
  IF k = 0 THEN [disk |-> fixList.disk, failed |-> 0] ELSE LoopFixes(Looped[k - 1], k)

CrewIdle == [w \in Crew |-> [at |-> "off", item |-> 0]]

FixBegin ==
  /\ ahead = [claimed |-> 0, emitted |-> 0, stop |-> FALSE]
  /\ crew = CrewIdle /\ channel = <<>> /\ held = {}
  /\ caller = [at |-> "begin", got |-> "none"] /\ identities = <<>> /\ failedAt = 0

FixInit == FixBegin /\ fixList \in FixLists /\ onDisk = fixList.disk /\ round = "identify"

(* Nothing is fixed.                                                       *)
FixIdle ==
  /\ FixBegin /\ round = "over" /\ onDisk = <<>>
  /\ fixList = [files |-> <<>>, unknown |-> {}, disk |-> <<>>, writable |-> {}]

CallerTo(at) == caller' = [caller EXCEPT !.at = at]

(***************************************************************************)
(* for_each_in_order: the threads.                                         *)
(***************************************************************************)
BeginPass ==
  /\ round # "over" /\ caller.at = "begin"
  /\ ahead' = [claimed |-> 0, emitted |-> 0, stop |-> FALSE]
  /\ crew' = [w \in Crew |-> [at |-> IF round # "alone" /\ w \in Started THEN "claim" ELSE "off",
                              item |-> 0]]
  /\ CallerTo(IF round = "alone" \/ Started = {} THEN "loop" ELSE "recv")
  /\ UNCHANGED <<fixList, onDisk, round, channel, held, identities, failedAt>>

(* Mutant of Room: threads read as far ahead as they like.                 *)
RoomMutant == TRUE

Room == ahead.claimed < ahead.emitted + AheadMax

ClaimFile(w) ==
  /\ crew[w].at = "claim"
  /\ IF ahead.stop \/ ahead.claimed >= ListLen
     THEN crew' = [crew EXCEPT ![w].at = "gone"] /\ UNCHANGED ahead
     ELSE IF ~Room
     THEN crew' = [crew EXCEPT ![w].at = "asleep"] /\ UNCHANGED ahead
     ELSE /\ ahead' = [ahead EXCEPT !.claimed = @ + 1]
          /\ crew' = [crew EXCEPT ![w] = [at |-> "work", item |-> ahead.claimed + 1]]
  /\ UNCHANGED <<fixList, onDisk, round, channel, caller, held, identities, failedAt>>

(* Mutant of IsFirst: a file is fixed wherever it is named.                *)
IsFirstMutant(i) == TRUE

(* Whether the list names this file here for the first time.               *)
IsFirst(i) ==
  identities[i] = NoFile \/ \A k \in 1 .. i - 1 : identities[k] # identities[i]

(* What the pass asks of one entry of the list.                            *)
ReadAndFix(i) ==
  IF round = "identify" \/ (round = "fix" /\ ~IsFirst(i)) THEN "same"
  ELSE FixOf(fixList.files[i], onDisk)

DoItem(w) ==
  /\ crew[w].at = "work"
  /\ channel' = Append(channel, [item |-> crew[w].item, got |-> ReadAndFix(crew[w].item)])
  /\ crew' = [crew EXCEPT ![w].at = "claim"]
  /\ UNCHANGED <<fixList, onDisk, round, ahead, caller, held, identities, failedAt>>

(***************************************************************************)
(* The calling thread.                                                     *)
(***************************************************************************)
NextItem == ahead.emitted + 1
AllGone  == \A w \in Crew : crew[w].at \in {"off", "gone"}

ReceiveResult ==
  /\ caller.at = "recv" /\ channel # <<>>
  /\ channel' = Tail(channel) /\ held' = held \cup {Head(channel)}
  /\ CallerTo("drain")
  /\ UNCHANGED <<fixList, onDisk, round, ahead, crew, identities, failedAt>>

(* The next result in order, if it is there; its entry is written or the   *)
(* run ends with its error.  An identity is noted.                         *)
Emitted(r) ==
  LET at == IF r = "same" THEN "next"
            ELSE IF r = "error" \/ fixList.files[NextItem] \notin fixList.writable THEN "failed"
            ELSE "writing"
  IN /\ caller' = [at |-> at, got |-> r]
     /\ onDisk' = IF at = "writing" THEN [onDisk EXCEPT ![fixList.files[NextItem]] = "torn"] ELSE onDisk
     /\ identities' = IF round # "identify" THEN identities
               ELSE Append(identities, IF NextItem \in fixList.unknown THEN UnknownFile
                                ELSE fixList.files[NextItem])

EmitNext ==
  /\ caller.at = "drain"
  /\ IF \E r \in held : r.item = NextItem
     THEN \E r \in held :
            /\ r.item = NextItem /\ held' = held \ {r}
            /\ Emitted(r.got)
     ELSE CallerTo("recv") /\ UNCHANGED <<onDisk, held, identities>>
  /\ UNCHANGED <<fixList, round, ahead, crew, channel, failedAt>>

WriteEnds ==
  /\ caller.at = "writing"
  /\ onDisk' = [onDisk EXCEPT ![fixList.files[NextItem]] = caller.got]
  /\ CallerTo("next")
  /\ UNCHANGED <<fixList, round, ahead, crew, channel, held, identities, failedAt>>

(* `emitted` moves under the mutex, and the threads are woken after it.    *)
CountOne ==
  /\ caller.at = "next"
  /\ ahead' = [ahead EXCEPT !.emitted = NextItem]
  /\ CallerTo(IF Started = {} \/ round = "alone" THEN "loop" ELSE "notify")
  /\ UNCHANGED <<fixList, onDisk, round, crew, channel, held, identities, failedAt>>

(* Mutant of Woken: nobody is woken.                                       *)
WokenMutant == crew

Woken == [w \in Crew |-> IF crew[w].at = "asleep" THEN [crew[w] EXCEPT !.at = "claim"] ELSE crew[w]]

NotifyAll ==
  /\ caller.at = "notify" /\ crew' = Woken /\ CallerTo("drain")
  /\ UNCHANGED <<fixList, onDisk, round, ahead, channel, held, identities, failedAt>>

StopCrew ==
  /\ caller.at = "failed" /\ failedAt' = NextItem
  /\ ahead' = [ahead EXCEPT !.stop = TRUE]
  /\ CallerTo("stopped")
  /\ UNCHANGED <<fixList, onDisk, round, crew, channel, held, identities>>

NotifyStop ==
  /\ caller.at = "stopped" /\ crew' = Woken /\ CallerTo("join")
  /\ UNCHANGED <<fixList, onDisk, round, ahead, channel, held, identities, failedAt>>

(* Too few files for threads, or files that cannot be told apart.          *)
LoopOne ==
  /\ caller.at = "loop"
  /\ IF ahead.emitted < ListLen
     THEN Emitted(ReadAndFix(NextItem))
     ELSE CallerTo("join") /\ UNCHANGED <<onDisk, identities>>
  /\ UNCHANGED <<fixList, round, ahead, crew, channel, held, failedAt>>

(* The channel is empty and closed: the threads are through.               *)
AllReceived ==
  /\ caller.at = "recv" /\ channel = <<>> /\ AllGone
  /\ CallerTo("join")
  /\ UNCHANGED <<fixList, onDisk, round, ahead, crew, channel, held, identities, failedAt>>

(* The scope joins its threads; fix_in_order goes on to fix what it knows, *)
(* or one by one when there is a path it could not identify.               *)
EndPass ==
  /\ caller.at = "join" /\ AllGone
  /\ round' = IF round = "identify"
             THEN IF \E i \in DOMAIN identities : identities[i] = UnknownFile THEN "alone" ELSE "fix"
             ELSE "over"
  /\ channel' = <<>> /\ held' = {}
  /\ crew' = CrewIdle /\ CallerTo("begin")
  /\ UNCHANGED <<fixList, onDisk, ahead, identities, failedAt>>

MainActs == \/ BeginPass \/ ReceiveResult \/ EmitNext \/ WriteEnds \/ CountOne \/ NotifyAll
            \/ StopCrew \/ NotifyStop \/ LoopOne \/ AllReceived \/ EndPass

FixNext == MainActs \/ \E w \in Crew : ClaimFile(w) \/ DoItem(w)

FixSpec == FixInit /\ [][FixNext]_fixVars

(***************************************************************************)
(* Properties.                                                             *)
(***************************************************************************)
(* When the fixer is through, the files are what a sequential loop over    *)
(* the list would have made of them, and it stopped at the same entry if   *)
(* at any, whatever is named twice and however the threads were scheduled  *)
(* (text_files.rs 77-87, 190-193).                                         *)
LikeASequentialLoop ==
  round = "over" => onDisk = Looped[ListLen].disk /\ failedAt = Looped[ListLen].failed

(* No more than RESULTS_AHEAD results are read and not handled             *)
(* (text_files.rs 191-192).                                                *)
HeldIsBounded ==
  Cardinality(held) + Len(channel) + Cardinality({w \in Crew : crew[w].at = "work"}) <= AheadMax

(* Until it is through somebody can go on: no thread sleeps unseen when    *)
(* there is room, or after the last was told to stop, and the caller waits *)
(* for none that sleeps (text_files.rs 233-249, 264-274).                  *)
FixerGoesOn ==
  \/ caller.at = "recv" /\ (channel # <<>> \/ AllGone)
  \/ caller.at = "join" /\ AllGone
  \/ caller.at \notin {"recv", "join"}
  \/ \E w \in Crew : crew[w].at \in {"claim", "work"}
NoFixerHangs == round # "over" => FixerGoesOn /\ ENABLED FixNext

FixersKeepOrder == LikeASequentialLoop /\ HeldIsBounded /\ NoFixerHangs
=============================================================================
