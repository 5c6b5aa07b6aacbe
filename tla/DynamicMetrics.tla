---------------------------- MODULE DynamicMetrics ----------------------------
(***************************************************************************)
(* The metrics a plugin's manifest declares (metrics/dynamic.go): one      *)
(* collector per metric in the Prometheus registry, under a name that      *)
(* joins the plugin's name and the metric's.  Every operation holds        *)
(* DynamicMetrics.mu from start to end, so each is one step.               *)
(*                                                                         *)
(* The registry is external (client_golang).  It knows a collector by its  *)
(* full name, whoever created it, and it remembers for the life of the     *)
(* process the help and labels a full name was first registered with.      *)
(*                                                                         *)
(* Who calls these operations, and when, is in PluginMetrics.              *)
(***************************************************************************)
EXTENDS Naturals

CONSTANTS
  Plugins,     \* plugin names
  Metrics,     \* metric names as manifests give them
  FullNames,   \* names in the registry
  FullName,    \* per plugin and metric: "epbf_plugin_<plugin>_<metric>"
  Shapes,      \* what a metric declares beside its name: help and labels
  Manifests,   \* what manifests declare: a shape per metric; None for a metric
               \* without an entry or of a type (summary) without a collector
  None         \* no shape

\* Joining is injective for one plugin (a common prefix), not for two: metric
\* b_c of plugin a has the full name of metric c of plugin a_b.
ASSUME FullNameAssumption ==
  /\ FullName \in [Plugins -> [Metrics -> FullNames]]
  /\ \A p \in Plugins, m, n \in Metrics :
       FullName[p][m] = FullName[p][n] => m = n

ASSUME NoneAssumption == None \notin Shapes

ASSUME ManifestsAssumption == Manifests \subseteq [Metrics -> Shapes \cup {None}]

VARIABLES
  registered,  \* full names with a collector in the registry
  shape,       \* the registry's memory: per full name its first shape
  known,       \* plugins with an entry in pluginMetrics
  collectors,  \* per plugin the metrics with a collector in its entry
  declared     \* history: per plugin the manifest registered last

dynamic == <<registered, shape, known, collectors, declared>>

\* No metrics, or no manifest yet.
NoMetrics == [m \in Metrics |-> None]

DynamicTypeOK ==
  /\ registered \subseteq FullNames
  /\ shape \in [FullNames -> Shapes \cup {None}]
  /\ known \subseteq Plugins
  /\ collectors \in [Plugins -> SUBSET Metrics]
  /\ declared \in [Plugins -> Manifests \cup {NoMetrics}]

DynamicInit ==
  /\ registered = {}
  /\ shape = [f \in FullNames |-> None]
  /\ known = {}
  /\ collectors = [p \in Plugins |-> {}]
  /\ declared = [p \in Plugins |-> NoMetrics]

------------------------------------------------------------------------------
(* The registry.                                                           *)

Names(p, S) == {FullName[p][m] : m \in S}

\* Mutant of Accepts: the registry takes a name it already has.
AcceptsTwice(names, f, s) == shape[f] \in {None, s}

\* Register: refused when the name is in use, or was ever used for a collector
\* with another help text or other labels.
Accepts(names, f, s) == f \notin names /\ shape[f] \in {None, s}

\* Mutant of Unregistered: the collectors stay in the registry.
NothingUnregistered(p) == registered

\* The names left after unregisterPluginMetricsLocked(p).
Unregistered(p) == registered \ Names(p, collectors[p])

------------------------------------------------------------------------------
(* DynamicMetrics.                                                         *)

\* RegisterPluginMetrics of a manifest with metrics: drop the collectors of an
\* earlier registration, then register one per metric; a metric the registry
\* refuses is logged and left out.  The metrics of one plugin have names of
\* their own, so the order of the loop over them does not matter.
RegisterPluginMetrics(p, manifest) ==
  LET names == Unregistered(p)
      taken == {m \in Metrics : /\ manifest[m] # None
                                /\ Accepts(names, FullName[p][m], manifest[m])} IN
  /\ registered' = names \cup Names(p, taken)
  /\ shape' = [f \in FullNames |->
                 IF f \in Names(p, taken)
                 THEN manifest[CHOOSE m \in taken : FullName[p][m] = f]
                 ELSE shape[f]]
  /\ known' = known \cup {p}
  /\ collectors' = [collectors EXCEPT ![p] = taken]
  /\ declared' = [declared EXCEPT ![p] = manifest]

\* Mutant of Unregister: the registry is cleared, the plugin's collectors stay.
UnregisterKeepsCollectors(p) ==
  /\ registered' = Unregistered(p)
  /\ known' = known \ {p}
  /\ declared' = [declared EXCEPT ![p] = NoMetrics]
  /\ UNCHANGED <<shape, collectors>>

\* Mutant of Unregister: the plugin is left without a set of collectors.
UnregisterToNil(p) ==
  /\ registered' = Unregistered(p)
  /\ known' = known \ {p}
  /\ collectors' = [q \in Plugins \ {p} |-> collectors[q]]
  /\ declared' = [declared EXCEPT ![p] = NoMetrics]
  /\ UNCHANGED shape

\* Unregister the plugin's collectors and drop its entry.
Unregister(p) ==
  /\ registered' = Unregistered(p)
  /\ known' = known \ {p}
  /\ collectors' = [collectors EXCEPT ![p] = {}]
  /\ declared' = [declared EXCEPT ![p] = NoMetrics]
  /\ UNCHANGED shape

\* UnregisterPluginMetrics; and RegisterPluginMetrics of a manifest without a
\* usable list of metrics, which returns right after dropping what was there.
UnregisterPluginMetrics(p) ==
  IF p \in known THEN Unregister(p) ELSE UNCHANGED dynamic

------------------------------------------------------------------------------
\* The registry holds exactly the collectors that plugins hold: whatever a
\* plugin counts is exposed, and nothing is left behind that would block the
\* name for the next registration.
RegistryIsUnion ==
  registered = UNION {Names(p, collectors[p]) : p \in Plugins}

\* A collector in the registry is held by one plugin, although the registry
\* goes by name and two plugins' metrics can have the same name: so removing a
\* plugin's metrics never takes away another's.
OneHolder ==
  \A p, q \in Plugins :
    p # q => Names(p, collectors[p]) \cap Names(q, collectors[q]) = {}

\* Only plugins with an entry hold collectors, and what they hold was declared
\* by the manifest they registered last, with the help and labels it is
\* exposed with.
HeldAsDeclared ==
  \A p \in Plugins : \A m \in collectors[p] :
    /\ p \in known
    /\ declared[p][m] # None
    /\ shape[FullName[p][m]] = declared[p][m]

==============================================================================
