---------------------------- MODULE PsidPlugins ----------------------------
(***************************************************************************)
(* Loading and unloading the plugins of the psid                           *)
(* (bin/daemon/psidplugin.c, phases 5 to 7 of PSID_shutdown()).            *)
(*                                                                         *)
(* A plugin holds references to the plugins it depends on (depends), each  *)
(* of them one back to those that need it (triggers); a plugin loaded by   *)
(* an administrator triggers itself.  A plugin that has lost its last      *)
(* trigger is finalized, calls PSIDplugin_unload() when it is ready, and   *)
(* the main loop evicts it, which takes the trigger from the plugins it    *)
(* depended on.  Removing by force walks up the triggers, gives each       *)
(* plugin a time limit and cuts loops.                                     *)
(*                                                                         *)
(* Every handler runs to its end in the daemon's single thread, so it is   *)
(* an operator that maps the structures s to the new ones.  A finalize     *)
(* method that calls PSIDplugin_unload() at once acts like none.  Versions,*)
(* errors of dlopen() and malloc(), the plugins' keys are left out.        *)
(***************************************************************************)
EXTENDS Integers, Sequences, FiniteSets, SequencesExt, Relation

CONSTANTS
  Plugin,   \* the plugins
  Async,    \* those whose finalize method ends later, by PSIDplugin_unload()
  Faulty,   \* those whose initialize method may fail
  Graphs,   \* the dependencies to look at, functions from Plugin to Seq(Plugin)
  Patient   \* do administrators not ask for a plugin that is being removed by
            \* force?

ASSUME PluginsAssumption ==
  /\ IsFiniteSet(Plugin) /\ Async \subseteq Plugin /\ Faulty \subseteq Plugin
  /\ Patient \in BOOLEAN
  /\ Graphs \subseteq [Plugin -> Seq(Plugin)]
  /\ \A g \in Graphs, p \in Plugin : ~ Contains(g[p], p)

\* Does p need q, directly or not, in g?
Closure(g) == TransitiveClosure([p, q \in Plugin |-> Contains(g[p], q)], Plugin)

Needs(g, p, q) == Closure(g)[p, q]

VARIABLES
  requires,   \* requires[p]: what plugin p lists as its dependencies
  plugins,    \* the daemon's pluginList and the members of its plugins
  forced,     \* plugins an administrator removed by force and nobody asked for
              \* since
  phase,      \* of PSID_shutdown(): 4 or less is 4, exit() is 8
  stuck       \* a call that fails to end, or finds no victim

vars == <<requires, plugins, forced, phase, stuck>>

Loaded == ToSet(plugins.list)

(* The number of plugins there are bounds every recursion and repetition.  *)
Num == Cardinality(Plugin)

(* grace is "unset", "marked" by a walk that forces the plugin, "running"  *)
(* from its finalize on, and "over".                                       *)
Structures ==
  [list : Seq(Plugin), triggers : [Plugin -> Seq(Plugin)],
   depends : [Plugin -> Seq(Plugin)], finalized : [Plugin -> BOOLEAN],
   unload : [Plugin -> BOOLEAN],
   grace : [Plugin -> {"unset", "marked", "running", "over"}],
   distance : [Plugin -> Nat], cleared : [Plugin -> BOOLEAN]]

(* A loop over the members of a list.                                      *)
ForEach(op(_, _), c, list) ==
  LET after[k \in 0 .. Len(list)] ==
        IF k = 0 THEN c ELSE op(after[k - 1], list[k])
  IN  after[Len(list)]

(* The members of a plugin as newPlugin() sets them.                       *)
newPlugin(s, p) ==
  [s EXCEPT !.triggers[p] = <<>>, !.depends[p] = <<>>, !.finalized[p] = FALSE,
            !.unload[p] = FALSE, !.grace[p] = "unset", !.distance[p] = 0,
            !.cleared[p] = FALSE]

registerPlugin(s, p) == [newPlugin(s, p) EXCEPT !.list = <<p>> \o @]

addRef(list, p) == IF Contains(list, p) THEN list ELSE Append(list, p)

remRef(list, p) ==
  IF Contains(list, p) THEN RemoveAt(list, CHOOSE i \in DOMAIN list : list[i] = p)
  ELSE list

(* Finalizes p unless it is finalized or triggered.                        *)
Mut_finalizePlugin(s, p) ==
  IF s.finalized[p] \/ s.triggers[p] # <<>> THEN s
  ELSE [s EXCEPT !.finalized[p] = TRUE, !.unload[p] = @ \/ p \notin Async]

finalizePlugin(s, p) ==
  IF s.finalized[p] \/ s.triggers[p] # <<>> THEN s
  ELSE [s EXCEPT
          !.finalized[p] = TRUE,
          !.unload[p] = @ \/ p \notin Async,
          !.grace[p] = IF p \notin Async \/ @ = "unset" THEN @ ELSE "running"]

unloadPlugin(s, p) == [finalizePlugin(s, p) EXCEPT !.unload[p] = TRUE]

remTrigger(s, p, trigger) ==
  IF Contains(s.triggers[p], trigger)
  THEN finalizePlugin([s EXCEPT !.triggers[p] = remRef(@, trigger)], p)
  ELSE s

remDepend(s, p, depend) == [s EXCEPT !.depends[p] = remRef(@, depend)]

(* Evicts p from the daemon.  Once it is gone, nothing of it remains.      *)
Released(s, p) ==
  ForEach(LAMBDA t, d : remDepend(remTrigger(t, d, p), p, d), s, s.depends[p])

doUnload(s, p) ==
  IF ~ s.unload[p] \/ s.triggers[p] # <<>> THEN s
  ELSE newPlugin([Released(s, p) EXCEPT !.list = remRef(@, p)], p)

(* A plugin that is on its way out is not given to anyone.                 *)
Mut_Usable(s, p) == ~ s.unload[p]

Usable(s, p) == ~ s.finalized[p]

(* Plugin p gets the trigger t, itself if an administrator asks for p.     *)
Triggered(s, p, t) ==
  LET u == [s EXCEPT !.triggers[p] = addRef(@, t)]
  IN  IF t = p THEN u ELSE [u EXCEPT !.depends[t] = addRef(@, p)]

(* What PSIDplugin_load() returns; deep tells that it would recurse on.    *)
Reply(s, ok) == [s |-> s, ok |-> ok, deep |-> FALSE]

Replies == [s : Structures, ok : BOOLEAN, deep : BOOLEAN]

LoadedAlready(s, p, t) ==
  IF Usable(s, p) THEN Reply(Triggered(s, p, t), TRUE) ELSE Reply(s, FALSE)

(* One plugin p requires; load is the call one level down.                 *)
Required(load, r, d, p) == IF r.ok THEN load[r.s][d][p] ELSE r

LoadedNow(load, s, p, t, bad) ==
  LET r == ForEach(LAMBDA r, d : Required(load, r, d, p),
                   Reply(registerPlugin(s, p), TRUE), requires[p])
  IN  IF r.ok /\ p \notin bad THEN Reply(Triggered(r.s, p, t), TRUE)
      ELSE [s |-> unloadPlugin([r.s EXCEPT !.finalized[p] = TRUE], p),
            ok |-> FALSE, deep |-> r.deep]

(* Loads p for t, if it has to, together with all p requires; initialize() *)
(* of the plugins in bad fails.  A plugin is in the list before what it    *)
(* depends on, hence a loop ends at a plugin not initialized yet, and the  *)
(* recursion, of which left levels may follow, before left is 0.           *)
PSIDplugin_load(s, p, t, bad) ==
  LET load[left \in 0 .. Num] ==
        [u \in Structures |-> [q \in Plugin |-> [v \in Plugin |->
           IF Contains(u.list, q) THEN LoadedAlready(u, q, v)
           ELSE IF left = 0 THEN [s |-> u, ok |-> FALSE, deep |-> TRUE]
           ELSE LoadedNow(load[left - 1], u, q, v, bad)]]]
  IN  load[Num][s][p][t]

(* A walk up the triggers: w.loop tells that a plugin is not bound to go,  *)
(* all is for the caller's own triggers, deep as in Replies.               *)
Walks == [s : Structures, loop : BOOLEAN, all : BOOLEAN, deep : BOOLEAN]

(* Passes plugins bound to go and those met on a shorter way.              *)
Passed(s, p, distance) ==
  s.unload[p] \/ s.cleared[p] \/ s.distance[p] \in 1 .. distance - 1

Pass(s, p) == IF s.unload[p] THEN [s EXCEPT !.cleared[p] = TRUE] ELSE s

(* A plugin finalized earlier gets a time limit.                           *)
Limited(s, p, distance) ==
  [s EXCEPT !.distance[p] = distance, !.cleared[p] = TRUE,
            !.grace[p] = IF @ = "unset" THEN "running" ELSE @]

Forced(s, p, distance) ==
  remTrigger([s EXCEPT !.distance[p] = distance, !.grace[p] = "marked"], p, p)

(* One trigger t; walk is the call one level down.                         *)
Up(walk, v, t) ==
  IF v.s.unload[t] THEN v
  ELSE LET u == walk[v][t] IN [u EXCEPT !.all = v.all /\ u.s.cleared[t]]

(* A plugin is cleared once all its triggers are.                          *)
Walked(walk, w, p, distance) ==
  LET f == Forced(w.s, p, distance)
      v == ForEach(LAMBDA v, t : Up(walk, v, t), [w EXCEPT !.s = f, !.all = TRUE],
                   f.triggers[p])
  IN  [v EXCEPT !.s = [v.s EXCEPT !.cleared[p] = v.all], !.loop = @ \/ ~ v.all, !.all = w.all]

(* Walks from p; the path of a walk visits no plugin twice, hence no more  *)
(* than Num plugins.                                                       *)
walkDepGraph(w, p) ==
  LET walk[left \in 0 .. Num] ==
        [v \in Walks |-> [q \in Plugin |->
           LET distance == Num + 1 - left
           IN  IF Passed(v.s, q, distance) THEN [v EXCEPT !.s = Pass(@, q)]
               ELSE IF left = 0 THEN [v EXCEPT !.deep = TRUE]
               ELSE IF v.s.finalized[q] THEN [v EXCEPT !.s = Limited(@, q, distance)]
               ELSE Walked(walk[left - 1], v, q, distance)]]
  IN  walk[Num][w][p]

(* The plugins not cleared that are farthest away; the first one listed is *)
(* taken.                                                                  *)
Farthest(s) ==
  LET D == {i \in DOMAIN s.list : s.distance[s.list[i]] > 0 /\ ~ s.cleared[s.list[i]]}
  IN  {i \in D : \A j \in D : s.distance[s.list[j]] <= s.distance[s.list[i]]}

findMaxDistPlugin(s) ==
  s.list[CHOOSE i \in Farthest(s) : \A j \in Farthest(s) : i <= j]

(* Takes all its triggers from the victim.                                 *)
Mut_KickOut(s, victim) ==
  [ForEach(LAMBDA t, q : remTrigger(t, victim, q), s, s.triggers[victim])
     EXCEPT !.cleared[victim] = TRUE]

KickOut(s, victim) ==
  [ForEach(LAMBDA t, q : remTrigger(remDepend(t, q, victim), victim, q),
           s, s.triggers[victim])
     EXCEPT !.cleared[victim] = TRUE]

(* One round of forceUnloadPlugin(); again tells that another one follows. *)
Round(r, p) ==
  LET w == walkDepGraph([s |-> r.s, loop |-> FALSE, all |-> TRUE, deep |-> FALSE], p)
  IN  IF w.loop /\ Farthest(w.s) # {}
      THEN [s |-> KickOut(w.s, findMaxDistPlugin(w.s)), again |-> TRUE,
            ok |-> r.ok /\ ~ w.deep]
      ELSE [s |-> w.s, again |-> FALSE, ok |-> r.ok /\ ~ w.loop /\ ~ w.deep]

(* A loop that has not ended when it has been repeated that often does not *)
(* end: each round clears a plugin, each pass below evicts one.            *)
Repeated == [i \in 1 .. Num + 1 |-> i]

forceUnloadPlugin(s, p) ==
  LET r == ForEach(LAMBDA r, i : IF r.again THEN Round(r, p) ELSE r,
                   [s |-> s, again |-> TRUE, ok |-> TRUE], Repeated)
  IN  [s |-> r.s, ok |-> r.ok /\ ~ r.again]

(* The number of plugins that still do something.                          *)
PSIDplugin_getNum(s) == Cardinality({p \in ToSet(s.list) : ~ s.unload[p]})

(* One pass over all plugins, and passes until no plugin asks for its      *)
(* eviction.  A pass that evicts none although one asks is repeated for    *)
(* ever.                                                                   *)
Finalize(r, p) ==
  LET s == IF r.s.finalized[p] THEN r.s ELSE remTrigger(r.s, p, p)
  IN  [s |-> doUnload(s, p), rerun |-> r.rerun \/ s.unload[p]]

FinalizePass(s) == ForEach(Finalize, [s |-> s, rerun |-> FALSE], s.list)

PSIDplugin_finalizeAll(s) ==
  LET r == ForEach(LAMBDA r, i : IF r.rerun THEN FinalizePass(r.s) ELSE r,
                   [s |-> s, rerun |-> TRUE], Repeated)
  IN  [s |-> r.s, ok |-> ~ r.rerun]

Mut_ForceUnload(r, p) ==
  IF r.s.finalized[p] THEN r
  ELSE LET f == forceUnloadPlugin(r.s, p) IN [f EXCEPT !.ok = @ /\ r.ok]

ForceUnload(r, p) ==
  IF r.s.grace[p] # "unset" \/ r.s.unload[p] THEN r
  ELSE LET f == forceUnloadPlugin(r.s, p) IN [f EXCEPT !.ok = @ /\ r.ok]

PSIDplugin_forceUnloadAll(s) == ForEach(ForceUnload, [s |-> s, ok |-> TRUE], s.list)

(* What the main loop does with one plugin, and with all.                  *)
Mut_Handled(s, p) == doUnload(s, p)

Handled(s, p) ==
  doUnload(IF s.finalized[p] /\ ~ s.unload[p] /\ s.grace[p] = "over"
           THEN unloadPlugin(s, p) ELSE s, p)

AllHandled(s) == ForEach(Handled, s, s.list)
-----------------------------------------------------------------------------
Init ==
  /\ requires \in Graphs
  /\ plugins = [list |-> <<>>,
                triggers |-> [p \in Plugin |-> <<>>],
                depends |-> [p \in Plugin |-> <<>>],
                finalized |-> [p \in Plugin |-> FALSE],
                unload |-> [p \in Plugin |-> FALSE],
                grace |-> [p \in Plugin |-> "unset"],
                distance |-> [p \in Plugin |-> 0],
                cleared |-> [p \in Plugin |-> FALSE]]
  /\ forced = {} /\ phase = 4 /\ stuck = FALSE

Running == phase < 8 /\ ~ stuck

(* PSP_PLUGIN_LOAD of an administrator.  Nobody asks for plugins once the  *)
(* daemon shuts down.                                                      *)
Load(p) ==
  /\ Running /\ phase = 4
  /\ Patient => \A q \in Loaded : q = p \/ Needs(requires, p, q)
                                => ~ plugins.cleared[q]
  /\ \E bad \in SUBSET Faulty :
       LET r == PSIDplugin_load(plugins, p, p, bad)
       IN  /\ plugins' = r.s /\ stuck' = r.deep
           /\ forced' = IF r.ok
                        THEN {q \in forced : q # p /\ ~ Needs(requires, p, q)}
                        ELSE forced
  /\ UNCHANGED <<requires, phase>>

(* PSP_PLUGIN_REMOVE, or the plugin calls PSIDplugin_finalize() for itself.*)
PSIDplugin_finalize(p) ==
  /\ Running /\ p \in Loaded
  /\ plugins' = remTrigger(plugins, p, p)
  /\ UNCHANGED <<requires, forced, phase, stuck>>

(* PSP_PLUGIN_FORCEREMOVE.                                                 *)
ForceRemove(p) ==
  /\ Running /\ p \in Loaded
  /\ LET f == forceUnloadPlugin(plugins, p)
     IN  plugins' = f.s /\ stuck' = ~ f.ok
  /\ forced' = forced \cup {p}
  /\ UNCHANGED <<requires, phase>>

(* A plugin is through with what its finalize method has begun.  The code  *)
(* lets a plugin call it at any time, also while it is triggered; those of *)
(* the repository (psslurm.c 135, 947, pelogue.c 63, 204, psaccountscript.c*)
(* 394, 492) do so only out of their finalize methods and what these have  *)
(* started, which is what the guard says.                                  *)
PSIDplugin_unload(p) ==
  /\ Running /\ p \in Loaded \cap Async /\ plugins.finalized[p]
  /\ plugins' = unloadPlugin(plugins, p)
  /\ UNCHANGED <<requires, forced, phase, stuck>>

GraceOver(p) ==
  /\ Running /\ plugins.grace[p] = "running"
  /\ plugins' = [plugins EXCEPT !.grace[p] = "over"]
  /\ UNCHANGED <<requires, forced, phase, stuck>>

handlePlugins ==
  /\ Running
  /\ plugins' = AllHandled(plugins)
  /\ forced' = forced \cap ToSet(plugins'.list)
  /\ UNCHANGED <<requires, phase, stuck>>

(* The phases of PSID_shutdown() that are about plugins.  A phase that     *)
(* leaves no plugin runs into the next one, up to the last, which calls    *)
(* exit(), or is repeated as long as there are plugins.                    *)
PSID_shutdown ==
  LET r == IF phase = 4 THEN PSIDplugin_finalizeAll(plugins)
           ELSE IF phase = 5 THEN PSIDplugin_forceUnloadAll(plugins)
           ELSE [s |-> plugins, ok |-> TRUE]
  IN  /\ Running
      /\ plugins' = r.s /\ stuck' = ~ r.ok
      /\ phase' = IF PSIDplugin_getNum(r.s) = 0 THEN 8
                  ELSE IF phase = 6 THEN 6 ELSE phase + 1
      /\ forced' = IF phase' = 8 THEN {} ELSE forced \cap ToSet(r.s.list)
      /\ UNCHANGED requires

Next ==
  \/ \E p \in Plugin :
       \/ Load(p) \/ PSIDplugin_finalize(p) \/ ForceRemove(p)
       \/ PSIDplugin_unload(p) \/ GraceOver(p)
  \/ handlePlugins
  \/ PSID_shutdown

Spec == Init /\ [][Next]_vars

(* The main loop calls its actions again and again, time passes.  A plugin *)
(* may forget to call PSIDplugin_unload().  The two implications are weak  *)
(* fairness; TLC would take long to find out when the steps are enabled.   *)
FairSpec ==
  /\ Spec
  /\ (<>[](Running /\ AllHandled(plugins) # plugins)
        => []<><<handlePlugins>>_vars)
  /\ (<>[](Running /\ (phase = 5 \/ (phase = 6 /\ PSIDplugin_getNum(plugins) = 0)))
        => []<><<PSID_shutdown>>_vars)
  /\ \A p \in Plugin : WF_vars(GraceOver(p))
-----------------------------------------------------------------------------
TypeOK ==
  /\ requires \in [Plugin -> Seq(Plugin)] /\ forced \subseteq Loaded
  /\ phase \in 4 .. 8 /\ stuck \in BOOLEAN
  /\ IsInjective(plugins.list) /\ Loaded \subseteq Plugin
  /\ \A p \in Plugin :
       /\ plugins.distance[p] \in 0 .. Num
       /\ p \notin Loaded => newPlugin(plugins, p) = plugins
       /\ plugins.grace[p] = "marked" /\ plugins.finalized[p] => plugins.unload[p]

(* References come in pairs and lead to loaded plugins: whoever is in the  *)
(* triggers of a plugin has it in its depends, and vice versa, so that no  *)
(* reference to memory that is freed is left.                              *)
RefsMatch ==
  \A p, q \in Plugin : p # q =>
    /\ Contains(plugins.triggers[p], q) <=> Contains(plugins.depends[q], p)
    /\ Contains(plugins.triggers[p], q) => {p, q} \subseteq Loaded

(* A plugin at work finds at work what it requires, unless the two are in  *)
(* a loop that was cut.                                                    *)
Provided ==
  \A q \in Loaded, p \in Plugin :
    /\ ~ plugins.finalized[q] /\ Contains(requires[q], p)
    /\ ~ Needs(requires, p, q)
    => p \in Loaded /\ ~ plugins.finalized[p]

(* Removing by force always finds a victim, shutting down does not call    *)
(* doUnload() in vain for ever.                                            *)
NeverStuck == ~ stuck

(* What is removed by force goes away, or somebody asks for it again.      *)
ForcedOut == \A p \in Plugin : p \in forced ~> p \notin forced

(* A daemon that shuts down gets rid of all plugins and calls exit().      *)
ShutdownEnds == phase > 4 ~> phase = 8
=============================================================================
