---------------------------- MODULE PluginMetrics ----------------------------
(***************************************************************************)
(* Who registers and removes plugins' metrics: Runtime.StartPlugin and     *)
(* Runtime.RemovePlugin (plugin/runtime.go), called by builds, enable and  *)
(* delete requests (plugin/service.go), over the collector                 *)
(* (metrics/collector.go) and DynamicMetrics.                              *)
(*                                                                         *)
(* The table knows a plugin by its id, and so does the runtime; metrics    *)
(* are known by the plugin's name, which a build takes from the manifest   *)
(* and may change.  Each step below is one SQL statement or one call that  *)
(* holds a lock, and the steps of the goroutines interleave freely.        *)
(***************************************************************************)
EXTENDS DynamicMetrics, Naturals

CONSTANTS
  Ids,         \* plugin ids; each is handed out once
  NoId,        \* the id of an idle goroutine slot
  NoName,      \* no plugin name
  Workers,     \* goroutines: builds, enable and delete requests
  MaxBegun     \* bound: how many builds and requests are begun

ASSUME NoIdAssumption == NoId \notin Ids
ASSUME NoNameAssumption == NoName \notin Plugins
ASSUME BegunAssumption == MaxBegun \in Nat

VARIABLES
  begun,       \* how many builds and requests have begun
  used,        \* ids handed out
  row,         \* the plugins table: name, manifest and whether there is an object
  runtime,     \* Runtime.pluginRuntimes: the name in the plugin's entry
  worker,      \* per goroutine its next step and its locals
  met          \* history: two goroutines were under way for one plugin

tables == <<begun, used, row>>
vars == <<dynamic, tables, runtime, worker, met>>

------------------------------------------------------------------------------
Steps == {"record", "register", "store", "forget", "dynamic", "delete"}

NoRow == [name |-> NoName, manifest |-> NoMetrics, built |-> FALSE]
Idle == [pc |-> "idle", id |-> NoId, name |-> NoName, manifest |-> NoMetrics]

Rows == [name : Plugins, manifest : Manifests \cup {NoMetrics}, built : BOOLEAN]
Locals == [pc : Steps, id : Ids, name : Plugins \cup {NoName},
           manifest : Manifests \cup {NoMetrics}]

TypeOK ==
  /\ DynamicTypeOK
  /\ begun \in 0..MaxBegun
  /\ used \subseteq Ids
  /\ row \in [Ids -> Rows \cup {NoRow}]
  /\ runtime \in [Ids -> Plugins \cup {NoName}]
  /\ worker \in [Workers -> Locals \cup {Idle}]
  /\ met \in BOOLEAN

Init ==
  /\ DynamicInit
  /\ begun = 0
  /\ used = {}
  /\ row = [p \in Ids |-> NoRow]
  /\ runtime = [p \in Ids |-> NoName]
  /\ worker = [w \in Workers |-> Idle]
  /\ met = FALSE

------------------------------------------------------------------------------
Listed == {p \in Ids : row[p] # NoRow}

\* The UNIQUE constraint on plugins.name.
NameTaken(p, n) == \E q \in Ids \ {p} : row[q].name = n

At(w, step) == worker[w].pc = step
Goto(w, step) == worker' = [worker EXCEPT ![w].pc = step]
End(w) == worker' = [worker EXCEPT ![w] = Idle]

\* No goroutine is under way for the plugin.
Quiet(p) == \A w \in Workers : worker[w].id # p

\* A goroutine begins on plugin p.
Begin(w, p, step, name, manifest) ==
  /\ At(w, "idle")
  /\ begun < MaxBegun
  /\ begun' = begun + 1
  /\ worker' = [worker EXCEPT ![w] = [pc |-> step, id |-> p, name |-> name,
                                      manifest |-> manifest]]
  /\ met' = (met \/ ~Quiet(p))

------------------------------------------------------------------------------
(* Builds: LoadPlugin inserts a row and spawns one, RebuildPlugin spawns   *)
(* one for a row.                                                          *)

Add(w, p, n) ==
  /\ p \notin used
  /\ ~NameTaken(p, n)
  /\ used' = used \cup {p}
  /\ row' = [row EXCEPT ![p] = [name |-> n, manifest |-> NoMetrics, built |-> FALSE]]
  /\ Begin(w, p, "record", NoName, NoMetrics)
  /\ UNCHANGED <<dynamic, runtime>>

Rebuild(w, p) ==
  /\ p \in Listed
  /\ Begin(w, p, "record", NoName, NoMetrics)
  /\ UNCHANGED <<dynamic, used, row, runtime>>

\* PluginRepo.Update with the manifest's name: an UPDATE that matches no row
\* succeeds, and the build goes on.
Record(w, n, manifest) ==
  LET p == worker[w].id IN
  /\ At(w, "record")
  /\ ~(p \in Listed /\ NameTaken(p, n))
  /\ row' = IF p \in Listed
            THEN [row EXCEPT ![p] = [name |-> n, manifest |-> manifest, built |-> TRUE]]
            ELSE row
  /\ worker' = [worker EXCEPT ![w] = [@ EXCEPT !.pc = "register", !.name = n,
                                               !.manifest = manifest]]
  /\ UNCHANGED <<dynamic, begun, used, runtime, met>>

\* The build fails, or the UPDATE does; or, further down, a delete request
\* fails to read or to delete the row.
Fails(w) ==
  /\ At(w, "record") \/ At(w, "delete")
  /\ End(w)
  /\ UNCHANGED <<dynamic, tables, runtime, met>>

------------------------------------------------------------------------------
(* EnablePlugin reads the row, stores a status, and starts the plugin that *)
(* the row it read describes when it names an object.                      *)

Enable(w, p) ==
  /\ p \in Listed
  /\ row[p].built
  /\ Begin(w, p, "register", row[p].name, row[p].manifest)
  /\ UNCHANGED <<dynamic, used, row, runtime>>

------------------------------------------------------------------------------
(* Runtime.StartPlugin.                                                    *)

\* Mutant of Register: a plugin with metrics is not registered again.
RegisterOnce(w) ==
  LET n == worker[w].name IN
  /\ At(w, "register")
  /\ IF n \in known THEN UNCHANGED dynamic
     ELSE RegisterPluginMetrics(n, worker[w].manifest)
  /\ Goto(w, "store")
  /\ UNCHANGED <<tables, runtime, met>>

\* A manifest that declares nothing may have no list of metrics at all.
Register(w) ==
  LET n == worker[w].name IN
  /\ At(w, "register")
  /\ \/ RegisterPluginMetrics(n, worker[w].manifest)
     \/ worker[w].manifest = NoMetrics /\ UnregisterPluginMetrics(n)
  /\ Goto(w, "store")
  /\ UNCHANGED <<tables, runtime, met>>

\* Mutant of Store: an entry that is there keeps its name.
StoreOnce(w) ==
  LET p == worker[w].id IN
  /\ At(w, "store")
  /\ runtime' = IF runtime[p] = NoName THEN [runtime EXCEPT ![p] = worker[w].name]
                ELSE runtime
  /\ End(w)
  /\ UNCHANGED <<dynamic, tables, met>>

\* The entry is stored, under Runtime.mu, whether or not the program could be
\* downloaded and loaded.
Store(w) ==
  LET p == worker[w].id IN
  /\ At(w, "store")
  /\ runtime' = [runtime EXCEPT ![p] = worker[w].name]
  /\ End(w)
  /\ UNCHANGED <<dynamic, tables, met>>

------------------------------------------------------------------------------
(* DeletePlugin: Runtime.RemovePlugin, then the row.                       *)

\* RemovePlugin reads the entry without Runtime.mu; without one there is
\* nothing to remove.
Remove(w, p) ==
  /\ p \in used
  /\ Begin(w, p, IF runtime[p] = NoName THEN "delete" ELSE "forget", runtime[p], NoMetrics)
  /\ UNCHANGED <<dynamic, used, row, runtime>>

\* It drops whatever entry the plugin has by then.
Forget(w) ==
  /\ At(w, "forget")
  /\ runtime' = [runtime EXCEPT ![worker[w].id] = NoName]
  /\ Goto(w, "dynamic")
  /\ UNCHANGED <<dynamic, tables, met>>

\* RemovePluginMetrics, by the name in the entry: the metrics of the manifest.
\* The series it deletes before, those of the fixed metrics with that label, are
\* left out.
RemoveDynamic(w) ==
  LET n == worker[w].name IN
  /\ At(w, "dynamic")
  /\ UnregisterPluginMetrics(n)
  /\ Goto(w, "delete")
  /\ UNCHANGED <<tables, runtime, met>>

DeleteRow(w) ==
  /\ At(w, "delete")
  /\ row' = [row EXCEPT ![worker[w].id] = NoRow]
  /\ End(w)
  /\ UNCHANGED <<dynamic, begun, used, runtime, met>>

------------------------------------------------------------------------------
Step(w) ==
  \/ \E n \in Plugins, manifest \in Manifests : Record(w, n, manifest)
  \/ Fails(w)
  \/ Register(w) \/ Store(w)
  \/ Forget(w) \/ RemoveDynamic(w) \/ DeleteRow(w)

Next ==
  \E w \in Workers :
    \/ \E p \in Ids : \/ \E n \in Plugins : Add(w, p, n)
                      \/ Rebuild(w, p) \/ Enable(w, p) \/ Remove(w, p)
    \/ Step(w)

Spec == Init /\ [][Next]_vars

------------------------------------------------------------------------------
\* As long as no two goroutines met on one plugin, the metrics exposed for a
\* plugin that runs are those of the manifest in its row, under the name in its
\* row, whatever the goroutines of the other plugins build, rename, enable and
\* delete meanwhile.
ExposedAsRecorded ==
  ~met => \A p \in Listed :
            Quiet(p) /\ runtime[p] # NoName =>
              /\ runtime[p] = row[p].name
              /\ declared[row[p].name] = row[p].manifest

\* A runtime entry carries another row's name only while a build renames its
\* plugin, or after goroutines met on one: so a delete, which removes metrics
\* by the name in the entry, does not take those of another plugin.
EntriesKeepToNames ==
  ~met => \A p \in Listed, q \in Ids :
            p # q /\ runtime[q] = row[p].name => ~Quiet(q)

==============================================================================
