----------------------------- MODULE ConfigCache -----------------------------
(***************************************************************************)
(* The cache of the evaluated configuration (config.rs, cache.rs): what    *)
(* hk.pkl imports and what it evaluates to are kept in files named by a    *)
(* hash of what they came from.  Processes of hk load it side by side while *)
(* the user edits the sources.                                             *)
(***************************************************************************)
EXTENDS Naturals, Sequences, FiniteSets, SequencesExt, Functions, TLC

CONSTANTS Loaders,    \* processes of hk
          Modules,    \* the files hk.pkl may import, a set of numbers above 0,
                      \* ordered as the module graph lists them
          Instances   \* what is looked at: the sources when it begins, the versions
                      \* of each that the user may write, the environments hk is
                      \* run in (the variables that are set), the processes run
                      \* with HK_CACHE=0, and how many loads of each process,
                      \* edits and torn writes there are

VARIABLES sources,    \* the files: hk.pkl and the modules
          imports,    \* the cached analyses, by the contents of hk.pkl
          configs,    \* the cached configurations, by their key
          load,       \* where each process is, with its locals
          world,      \* the instance, with what is left of its bounds
          raced       \* history: an edit fell between two looks at the same files

cacheVars == <<sources, imports, configs, load, world, raced>>

HkPkl  == 0
Files == {HkPkl} \cup Modules

(* A source: what it imports, whether it has a glob import (it matches any *)
(* module), whether it imports from elsewhere, the variables it reads, those *)
(* it goes on to read when one of these is set, and the ones it exports.   *)
Missing == [id |-> "missing", imports |-> {}, glob |-> FALSE, remote |-> FALSE,
            reads |-> {}, more |-> {}, sets |-> {}]

Matches(s)     == {m \in Modules : s[m] # Missing}
Imported(s, f) == s[f].imports \cup (IF s[f].glob THEN Matches(s) ELSE {})

(* The files hk.pkl reaches.                                               *)
Graph(s) ==
  LET reach[n \in 0 .. Cardinality(Modules)] ==
        IF n = 0 THEN {HkPkl}
        ELSE reach[n - 1] \cup UNION {Imported(s, f) : f \in reach[n - 1]}
  IN reach[Cardinality(Modules)]

Broken(s, paths) == \E f \in paths : s[f] = Missing

(***************************************************************************)
(* Evaluation: it tells the sources apart that it reads, and their names   *)
(* where a glob import makes keys of them.                                 *)
(***************************************************************************)
EnvReads(s, env) ==
  LET first == UNION {s[f].reads : f \in Graph(s)}
  IN first \cup (IF first \cap env # {} THEN UNION {s[f].more : f \in Graph(s)} ELSE {})

Values(names, env) == [v \in names |-> v \in env]

Evaluated(s, env) ==
  [files |-> Restrict(s, Graph(s)), env |-> Values(EnvReads(s, env), env)]

Exports(config) == config.files[HkPkl].sets

(***************************************************************************)
(* The keys.                                                               *)
(***************************************************************************)
Digest(s, paths) == Restrict(s, {HkPkl} \cup paths)

(* Contents alone, in the order of the graph, so that checkouts share them; *)
(* with their paths once something is imported that cannot be hashed.      *)
FilesKey(s, paths, untracked) ==
  IF untracked THEN Digest(s, paths)
  ELSE [k \in 1 .. Cardinality({HkPkl} \cup paths) |->
          s[SetToSortSeq({HkPkl} \cup paths, <)[k]]]

ConfigKey(l, values) == [untracked |-> l.untracked, files |-> l.files, env |-> values]

Untracked(s, paths) == \E f \in paths : s[f].remote

Idle == [at |-> "idle", env |-> {}, root |-> Missing, known |-> FALSE,
         an |-> <<>>, untracked |-> FALSE, files |-> <<>>, values |-> <<>>,
         config |-> <<>>, want |-> <<>>, edited |-> FALSE]

Empty == [k \in {} |-> {}]

CacheInit ==
  /\ imports = Empty /\ configs = Empty
  /\ load = [p \in Loaders |-> Idle]
  /\ raced = FALSE
  /\ world \in Instances /\ sources = world.sources

(* No process loads anything.                                              *)
CacheIdle ==
  /\ imports = Empty /\ configs = Empty /\ load = Empty
  /\ raced = FALSE /\ world = Empty /\ sources = Empty

(***************************************************************************)
(* A load.  A write of the cache leaves the new entry, or a torn one that  *)
(* reads as none.                                                          *)
(***************************************************************************)
With(cache, key, entry) ==
  [k \in DOMAIN cache \cup {key} |-> IF k = key THEN entry ELSE cache[k]]

WriteImports(key, an) ==
  \/ imports' = With(imports, key, an) /\ UNCHANGED world
  \/ /\ world.torn > 0
     /\ imports' = Restrict(imports, DOMAIN imports \ {key})
     /\ world' = [world EXCEPT !.torn = @ - 1]

WriteConfig(key, config) ==
  \/ configs' = With(configs, key, config) /\ UNCHANGED world
  \/ /\ world.torn > 0
     /\ configs' = Restrict(configs, DOMAIN configs \ {key})
     /\ world' = [world EXCEPT !.torn = @ - 1]

(* The analysis is kept under the contents of hk.pkl alone.                *)
BeginLoad(p) ==
  /\ load[p].at = "idle" /\ world.loads[p] > 0 /\ ~raced
  /\ \E env \in world.envs :
       LET root == sources[HkPkl]
           hit  == p \notin world.off /\ root \in DOMAIN imports
       IN load' = [load EXCEPT ![p] =
            [Idle EXCEPT !.at = IF hit THEN "check" ELSE "analyze",
                         !.env = env, !.root = root,
                         !.an = IF hit THEN imports[root] ELSE [names |-> {}],
                         !.want = IF Broken(sources, Graph(sources)) THEN Empty
                                  ELSE Evaluated(sources, env)]]
  /\ world' = [world EXCEPT !.loads[p] = @ - 1]
  /\ UNCHANGED <<sources, imports, configs, raced>>

LoadFails(p) == load' = [load EXCEPT ![p] = Idle]

(* What a load that is through is remembered by.                           *)
Loaded(l, config) ==
  [Idle EXCEPT !.at = "loaded", !.config = config, !.want = l.want, !.edited = l.edited]

(* analyze_imports walks the sources, then reads them again for the digest. *)
Analyze(p) ==
  /\ load[p].at = "analyze"
  /\ LET graph == Graph(sources)
     IN IF Broken(sources, graph) THEN LoadFails(p)
        ELSE load' = [load EXCEPT ![p].at = "digest", ![p].an =
                  [paths |-> graph \ {HkPkl}, untracked |-> Untracked(sources, graph),
                   glob |-> \E f \in graph : sources[f].glob,
                   matches |-> Matches(sources), names |-> load[p].an.names]]
  /\ UNCHANGED <<sources, imports, configs, world, raced>>

(* The first analysis is looked at like a cached one; the second is not.   *)
TakeDigest(p) ==
  /\ load[p].at = "digest"
  /\ LET an == [digest |-> Digest(sources, load[p].an.paths)] @@ load[p].an
     IN /\ load' = [load EXCEPT ![p].at = IF load[p].known THEN "look" ELSE "check", ![p].an = an]
        /\ WriteImports(load[p].root, an)
  /\ UNCHANGED <<sources, configs, raced>>

(* Mutant of Stale: only the sources known are looked at.                  *)
StaleMutant(an, s) == an.digest # Digest(s, an.paths)

(* is_stale.                                                               *)
Stale(an, s) ==
  \/ an.digest # Digest(s, an.paths)
  \/ an.glob /\ an.matches # Matches(s)

CheckStale(p) ==
  /\ load[p].at = "check"
  /\ load' = [load EXCEPT ![p].known = TRUE,
                ![p].at = IF Stale(load[p].an, sources) THEN "analyze" ELSE "look"]
  /\ UNCHANGED <<sources, imports, configs, world, raced>>

(* The values of the variables that evaluations of this hk.pkl were seen to *)
(* read; the files are hashed once, here.                                  *)
LookUp(p) ==
  /\ load[p].at = "look"
  /\ LET l     == load[p]
         paths == {HkPkl} \cup l.an.paths
     IN \/ ~l.an.untracked /\ Broken(sources, paths) /\ LoadFails(p)
        \/ /\ l.an.untracked \/ Untracked(sources, paths) \/ ~Broken(sources, paths)
           /\ LET remote == l.an.untracked \/ Untracked(sources, paths)
                  m == [l EXCEPT !.untracked = remote,
                                 !.files = FilesKey(sources, paths, remote),
                                 !.values = Values(l.an.names, l.env)]
                  key == ConfigKey(m, m.values)
              IN load' = [load EXCEPT ![p] =
                   IF p \notin world.off /\ key \in DOMAIN configs
                   THEN Loaded(l, configs[key])
                   ELSE [m EXCEPT !.at = "evaluate"]]
  /\ UNCHANGED <<sources, imports, configs, world, raced>>

(* read: the configuration, which exports its variables at once.           *)
Evaluate(p) ==
  /\ load[p].at = "evaluate"
  /\ IF Broken(sources, Graph(sources)) THEN LoadFails(p)
     ELSE LET config == Evaluated(sources, load[p].env)
          IN load' = [load EXCEPT ![p].at = "save", ![p].config = config,
                        ![p].env = load[p].env \cup Exports(config)]
  /\ UNCHANGED <<sources, imports, configs, world, raced>>

(* Mutant of Seen: the variables are read after hk.pkl has exported its own. *)
SeenMutant(l) == Values(DOMAIN l.config.env \cup DOMAIN l.values, l.env)

(* What the evaluation saw of the environment, over what was looked up.    *)
Seen(l) == l.config.env @@ l.values

SaveConfig(p) ==
  /\ load[p].at = "save"
  /\ WriteConfig(ConfigKey(load[p], Seen(load[p])), load[p].config)
  /\ load' = [load EXCEPT ![p] = IF DOMAIN Seen(load[p]) = load[p].an.names
                                 THEN Loaded(load[p], load[p].config)
                                 ELSE [load[p] EXCEPT !.at = "names", !.values = Seen(load[p])]]
  /\ UNCHANGED <<sources, imports, raced>>

SaveNames(p) ==
  /\ load[p].at = "names"
  /\ WriteImports(load[p].root, [load[p].an EXCEPT !.names = DOMAIN load[p].values])
  /\ load' = [load EXCEPT ![p] = Loaded(load[p], load[p].config)]
  /\ UNCHANGED <<sources, configs, raced>>

(* The command runs, and the next one begins.                              *)
NextLoad(p) ==
  /\ load[p].at = "loaded" /\ load' = [load EXCEPT ![p] = Idle]
  /\ UNCHANGED <<sources, imports, configs, world, raced>>

(***************************************************************************)
(* The user writes, removes or renames a source, at any time.              *)
(***************************************************************************)
EditTo(s) ==
  /\ world.edits > 0 /\ s # sources
  /\ sources' = s /\ world' = [world EXCEPT !.edits = @ - 1]
  /\ raced' = (raced \/ \E p \in Loaders : load[p].at \in {"digest", "evaluate"})
  /\ load' = [p \in Loaders |-> [load[p] EXCEPT
                !.edited = @ \/ load[p].at \notin {"idle", "loaded"}]]
  /\ UNCHANGED <<imports, configs>>

EditSources ==
  \/ \E f \in Files : \E c \in world.versions[f] : EditTo([sources EXCEPT ![f] = c])
  \/ \E f, g \in Modules :
       /\ sources[f] # Missing
       /\ EditTo([sources EXCEPT ![f] = Missing, ![g] = sources[f]])

LoadStep(p) == \/ BeginLoad(p) \/ Analyze(p) \/ TakeDigest(p) \/ CheckStale(p) \/ LookUp(p)
               \/ Evaluate(p) \/ SaveConfig(p) \/ SaveNames(p) \/ NextLoad(p)

CacheNext == EditSources \/ \E p \in Loaders : LoadStep(p)

CacheSpec == CacheInit /\ [][CacheNext]_cacheVars

(***************************************************************************)
(* Properties.                                                             *)
(***************************************************************************)
(* Files that were renamed and nothing else are the same to a configuration *)
(* whose imports can all be hashed: it is kept by contents (see the README). *)
SameButNames(c, d) ==
  /\ c.env = d.env
  /\ LET Contents(s) == FilesKey(s, DOMAIN s \ {HkPkl}, \E f \in DOMAIN s : s[f].remote)
     IN Contents(c.files) = Contents(d.files)

(* A load during which nobody edits yields what the sources and the        *)
(* environment evaluate to, whatever was loaded, edited, torn or cached    *)
(* before, and no configuration where they do not evaluate: as long as no  *)
(* edit ever fell between the analysis of the imports and its digest, or   *)
(* between the hash of the sources and their evaluation (config.rs 502-560, *)
(* docs/pkl_introduction.md 229).                                          *)
ConfigIsCurrent ==
  \A p \in DOMAIN load :
    load[p].at = "loaded" /\ ~load[p].edited /\ ~raced =>
      load[p].want # Empty /\ SameButNames(load[p].config, load[p].want)
=============================================================================
