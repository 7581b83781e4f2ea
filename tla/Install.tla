------------------------------- MODULE Install -------------------------------
(***************************************************************************)
(* Installing hk's hooks (cli/install.rs, cli/uninstall.rs): as entries of *)
(* git's configuration, of the user or of the repository, or as scripts in *)
(* the hooks directory.  Each write is a git command or a file of its own; *)
(* a lock file keeps those apart that write to the repository, and nothing *)
(* those that write to the user's configuration.                           *)
(***************************************************************************)
EXTENDS Naturals, Sequences, FiniteSets, SequencesExt

CONSTANTS Installers,   \* processes of hk
          Events,       \* git hooks that hk.pkl may enable
          Commands,     \* the sequences of commands looked at, by process, with
                        \* the hooks to begin with and the bound on what else
                        \* happens: failures and hooks the user writes
          Scopes        \* {"global", "local"}

VARIABLES entry,      \* by scope: the keys hook.hk-<event>.command and .event
          script,     \* the hooks directory: no file, hk's or another's
          lock,       \* who holds the config lock
          inst,       \* where each process is, with its locals
          spare,      \* what is left of the bounds
          meant,      \* history: what the repository's last installation was for
          lost        \* history: hk took away a hook it did not write, unforced,
                      \* that was there when it looked

installVars == <<entry, script, lock, inst, spare, meant, lost>>

(* A command: the events of hk.pkl, and its flags; git tells its version.  *)
Local(events, legacy, forceLocal, force) ==
  [does |-> "install", scope |-> "local", events |-> events, legacy |-> legacy,
   forceLocal |-> forceLocal, force |-> force]
Global(events) ==
  [does |-> "install", scope |-> "global", events |-> events, legacy |-> FALSE,
   forceLocal |-> FALSE, force |-> FALSE]
Uninstall(scope) ==
  [does |-> "uninstall", scope |-> scope, events |-> {}, legacy |-> FALSE,
   forceLocal |-> FALSE, force |-> FALSE]

AnyCommand ==
  {Local(E, legacy, forceLocal, force) :
     E \in SUBSET Events, legacy, forceLocal, force \in BOOLEAN}
  \cup {Global(E) : E \in SUBSET Events} \cup {Uninstall(s) : s \in Scopes}

ConfigKeys == {"command", "event"} \X Events

ASSUME InstallAssumption ==
  /\ Scopes = {"global", "local"} /\ "free" \notin Installers
  /\ IsFiniteSet(Events) /\ "none" \notin Events
  /\ \A c \in Commands :
       /\ c.entry \in [Scopes -> SUBSET ConfigKeys]
       /\ c.script \in [Events -> {"none", "hk", "other"}]
       /\ c.todo \in [Installers -> Seq(AnyCommand)]

NewInst == [at |-> "off", todo |-> <<>>, cmd |-> Uninstall("none"), skip |-> FALSE,
            keys |-> {}, write |-> <<>>, sure |-> TRUE, hooks |-> {}, target |-> "none",
            unseen |-> FALSE]

Unknown == [whole |-> FALSE, keys |-> {}, scripts |-> {}, once |-> FALSE]

InstallInit ==
  \E c \in Commands :
    /\ entry = c.entry /\ script = c.script /\ lock = "free"
    /\ inst = [p \in Installers |-> [NewInst EXCEPT !.todo = c.todo[p]]]
    /\ spare = c.spare /\ meant = Unknown /\ lost = FALSE

(* No process installs anything.                                           *)
InstallIdle ==
  /\ entry = <<>> /\ script = <<>> /\ lock = "free" /\ inst = <<>> /\ spare = <<>>
  /\ meant = Unknown /\ lost = FALSE

At(p) == inst[p].at
Cmd(p) == inst[p].cmd
Goto(p, at) == inst' = [inst EXCEPT ![p].at = at]

(* Any end of the process lets go of the lock.                             *)
Unlocked(p) == IF lock = p THEN "free" ELSE lock

InstallEnds(p) ==
  /\ inst' = [inst EXCEPT ![p].at = "off", ![p].keys = {}, ![p].write = <<>>,
                          ![p].hooks = {}, ![p].target = "none", ![p].unseen = FALSE]
  /\ lock' = Unlocked(p)

(* A write to the user's configuration: who looked at it before is not sure *)
(* of it any more.                                                         *)
Touch(p, f) ==
  IF Cmd(p).scope = "global"
  THEN /\ inst' = [q \in Installers |-> IF q = p THEN f ELSE [inst[q] EXCEPT !.sure = FALSE]]
       /\ meant' = [meant EXCEPT !.once = FALSE]
  ELSE inst' = [inst EXCEPT ![p] = f] /\ UNCHANGED meant

(***************************************************************************)
(* The commands.                                                           *)
(***************************************************************************)
BeginCommand(p) ==
  /\ At(p) = "off" /\ inst[p].todo # <<>>
  /\ LET c == Head(inst[p].todo)
     IN inst' = [inst EXCEPT ![p] = [NewInst EXCEPT !.cmd = c, !.todo = Tail(inst[p].todo),
                   !.at = CASE c.scope = "global" -> "list"
                            [] c.scope # "global" /\ c.does = "uninstall" -> "lock"
                            [] OTHER -> IF c.forceLocal THEN "check" ELSE "look"]]
  /\ UNCHANGED <<entry, script, lock, spare, meant, lost>>

(* has_global_hk_hooks, before any lock.                                   *)
HasGlobal == \E e \in Events : <<"command", e>> \in entry["global"]

LookAtGlobal(p) ==
  /\ At(p) = "look"
  /\ inst' = [inst EXCEPT ![p].at = IF HasGlobal THEN "lock" ELSE "check",
                          ![p].skip = HasGlobal]
  /\ UNCHANGED <<entry, script, lock, spare, meant, lost>>

(* check_legacy_targets: every target first, or nothing is changed.        *)
CheckTargets(p) ==
  /\ At(p) = "check"
  /\ IF Cmd(p).legacy /\ ~Cmd(p).force /\ \E e \in Cmd(p).events : script[e] = "other"
     THEN InstallEnds(p)
     ELSE Goto(p, "lock") /\ UNCHANGED lock
  /\ UNCHANGED <<entry, script, spare, meant, lost>>

(* Mutant of MayLock: a lock that is held is no obstacle.                  *)
MayLockMutant == TRUE

(* lock_local_config.                                                      *)
MayLock == lock = "free"

LockConfig(p) ==
  /\ At(p) = "lock" /\ MayLock
  /\ lock' = p /\ meant' = Unknown
  /\ inst' = [inst EXCEPT ![p].at = "scripts", ![p].hooks = Events]
  /\ UNCHANGED <<entry, script, spare, lost>>

(* Mutant of IsShim: a hook that runs hk, whoever wrote it, is hk's.        *)
IsShimMutant(e) == script[e] # "none"

(* is_hk_shim, of a hook that can be read.                                 *)
IsShim(e) == script[e] = "hk"

(* remove_local_shims reads the hooks one by one, in any order, and goes    *)
(* back to remove those that are hk's.                                     *)
ReadScript(p) ==
  /\ At(p) = "scripts"
  /\ IF inst[p].hooks = {} THEN Goto(p, "list")
     ELSE \E e \in inst[p].hooks :
       LET read == [inst[p] EXCEPT !.hooks = @ \ {e}]
       IN inst' = [inst EXCEPT ![p] =
            IF IsShim(e) THEN [read EXCEPT !.at = "remove", !.target = e] ELSE read]
  /\ UNCHANGED <<entry, script, lock, spare, meant, lost>>

(* The hook that p has looked at is replaced or removed, whatever it is by *)
(* now; what p could not have seen is not counted as lost.                 *)
Takes(p, becomes, unforced) ==
  LET e == inst[p].target
  IN /\ script' = [script EXCEPT ![e] = becomes]
     /\ lost' = (lost \/ (script[e] = "other" /\ unforced /\ ~inst[p].unseen))

RemoveScript(p) ==
  /\ At(p) = "remove"
  /\ Takes(p, "none", TRUE)
  /\ inst' = [inst EXCEPT ![p].at = "scripts", ![p].target = "none", ![p].unseen = FALSE]
  /\ UNCHANGED <<entry, lock, spare, meant>>

(* remove_config_entries lists the keys, then removes each; a key that is  *)
(* gone by then is an error.                                               *)
ListKeys(p) ==
  /\ At(p) = "list"
  /\ inst' = [inst EXCEPT ![p].at = "unset", ![p].keys = entry[Cmd(p).scope]]
  /\ UNCHANGED <<entry, script, lock, spare, meant, lost>>

RemoveKey(p) ==
  /\ At(p) = "unset"
  /\ \E k \in inst[p].keys :
       IF k \in entry[Cmd(p).scope]
       THEN /\ entry' = [entry EXCEPT ![Cmd(p).scope] = @ \ {k}]
            /\ Touch(p, [inst[p] EXCEPT !.keys = @ \ {k}])
            /\ UNCHANGED lock
       ELSE InstallEnds(p) /\ UNCHANGED <<entry, meant>>
  /\ UNCHANGED <<script, spare, lost>>

(* What is left to write: the two keys of each event, or its script.       *)
KeysOf(events) ==
  LET order == SetToSeq(events)
  IN [i \in 1 .. 2 * Cardinality(events) |->
        <<IF i % 2 = 1 THEN "command" ELSE "event", order[(i + 1) \div 2]>>]

InstallNow(p) ==
  /\ At(p) = "unset" /\ inst[p].keys = {}
  /\ LET c == Cmd(p)
     IN inst' = [inst EXCEPT ![p].at = "write", ![p].write =
          IF c.does = "uninstall" \/ inst[p].skip THEN <<>>
          ELSE IF c.legacy THEN SetToSeq(c.events) ELSE KeysOf(c.events)]
  /\ UNCHANGED <<entry, script, lock, spare, meant, lost>>

WriteKey(p) ==
  /\ At(p) = "write" /\ inst[p].write # <<>> /\ ~Cmd(p).legacy
  /\ entry' = [entry EXCEPT ![Cmd(p).scope] = @ \cup {Head(inst[p].write)}]
  /\ Touch(p, [inst[p] EXCEPT !.write = Tail(@)])
  /\ UNCHANGED <<script, lock, spare, lost>>

(* Mutant of Refused: the first look is enough.                            *)
RefusedMutant(p, e) == FALSE

(* install_local_shims looks at the file again before it replaces it.      *)
Refused(p, e) == script[e] = "other" /\ ~Cmd(p).force

LookAtHook(p) ==
  /\ At(p) = "write" /\ inst[p].write # <<>> /\ Cmd(p).legacy
  /\ LET e == Head(inst[p].write)
     IN IF Refused(p, e) THEN InstallEnds(p)
        ELSE inst' = [inst EXCEPT ![p].at = "replace", ![p].target = e] /\ UNCHANGED lock
  /\ UNCHANGED <<entry, script, spare, meant, lost>>

(* The script is written to a file of its own and renamed over the hook.   *)
WriteScript(p) ==
  /\ At(p) = "replace"
  /\ Takes(p, "hk", ~Cmd(p).force)
  /\ inst' = [inst EXCEPT ![p].at = "write", ![p].write = Tail(@), ![p].target = "none",
                          ![p].unseen = FALSE]
  /\ UNCHANGED <<entry, lock, spare, meant>>

(* What the repository's hooks are to be once the command is through.      *)
InstallDone(p) ==
  /\ At(p) = "write" /\ inst[p].write = <<>>
  /\ LET c    == Cmd(p)
         kept == c.does = "install" /\ ~inst[p].skip
     IN meant' = IF c.scope = "global" THEN meant
                 ELSE [whole |-> TRUE,
                       keys |-> IF kept /\ ~c.legacy THEN {"command", "event"} \X c.events ELSE {},
                       scripts |-> IF kept /\ c.legacy THEN c.events ELSE {},
                       once |-> c.does = "install" /\ ~c.forceLocal /\ inst[p].sure]
  /\ InstallEnds(p)
  /\ UNCHANGED <<entry, script, spare, lost>>

(* Any read or write may fail; what was done until then stays.             *)
InstallFails(p) ==
  /\ At(p) # "off" /\ spare.fails > 0
  /\ spare' = [spare EXCEPT !.fails = @ - 1]
  /\ InstallEnds(p)
  /\ UNCHANGED <<entry, script, meant, lost>>

(* The user, or another hook manager, writes a hook, which a process that  *)
(* has looked at the old one does not see.                                 *)
OtherHook(e) ==
  /\ spare.writes > 0 /\ script[e] # "other"
  /\ script' = [script EXCEPT ![e] = "other"]
  /\ spare' = [spare EXCEPT !.writes = @ - 1]
  /\ inst' = [p \in Installers |-> [inst[p] EXCEPT !.unseen = @ \/ inst[p].target = e]]
  /\ UNCHANGED <<entry, lock, meant, lost>>

InstallStep(p) ==
  \/ BeginCommand(p) \/ LookAtGlobal(p) \/ CheckTargets(p) \/ LockConfig(p)
  \/ ReadScript(p) \/ RemoveScript(p) \/ ListKeys(p) \/ RemoveKey(p)
  \/ InstallNow(p) \/ WriteKey(p) \/ LookAtHook(p) \/ WriteScript(p)
  \/ InstallDone(p) \/ InstallFails(p)

InstallNext == (\E p \in Installers : InstallStep(p)) \/ \E e \in Events : OtherHook(e)

InstallSpec == InstallInit /\ [][InstallNext]_installVars

(***************************************************************************)
(* Properties.                                                             *)
(***************************************************************************)
(* Once the lock is free, the repository has the hooks of the last command *)
(* that was through with it, all of them and no others, of one kind: no    *)
(* part of another's, nothing of what a failed one left (install.rs 144).  *)
HooksAreWhole ==
  lock = "free" /\ meant.whole =>
    /\ entry["local"] = meant.keys
    /\ \A e \in Events : script[e] = "hk" => e \in meant.scripts
    /\ \A e \in meant.scripts : script[e] # "none"

(* git runs hk for an event when some scope has a command for it, the      *)
(* repository's before the user's, and some scope has the event.           *)
FromConfig(e) == \A kind \in {"command", "event"} : \E s \in Scopes : <<kind, e>> \in entry[s]

(* After `hk install`, unless it was told --force-local, no event runs hk  *)
(* twice, as long as nobody wrote to the user's configuration since it     *)
(* looked there (install.rs 28).                                           *)
FiresOnce ==
  lock = "free" /\ meant.whole /\ meant.once =>
    \A e \in Events : ~(script[e] = "hk" /\ FromConfig(e))

(* And no hook that another wrote is replaced, unless by --force, or       *)
(* removed, but for one written between hk's last look at the hook and the *)
(* rename or removal that follows (install.rs 550, 750).                   *)
InstallsKeepOrder == HooksAreWhole /\ FiresOnce /\ ~lost
=============================================================================
