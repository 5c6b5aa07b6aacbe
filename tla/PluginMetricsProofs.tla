------------------------- MODULE PluginMetricsProofs -------------------------
(***************************************************************************)
(* Proofs about the plugins' metrics, for any plugins, metrics, ids and    *)
(* goroutines, and any naming that is injective for one plugin.            *)
(***************************************************************************)
EXTENDS PluginMetrics, TLAPS

\* The full names of some of a plugin's metrics.
LEMMA NamesElement ==
  ASSUME NEW p \in Plugins, NEW S \in SUBSET Metrics, NEW f
  PROVE  f \in Names(p, S) <=> \E m \in S : f = FullName[p][m]
BY DEF Names

\* The metric a full name of a plugin stands for is the only one.
LEMMA NamesInjective ==
  ASSUME NEW p \in Plugins, NEW S \in SUBSET Metrics, NEW m \in S
  PROVE  (CHOOSE n \in S : FullName[p][n] = FullName[p][m]) = m
<1>1. \A n \in S : FullName[p][n] = FullName[p][m] => n = m
  BY FullNameAssumption
<1>2. \E n \in S : FullName[p][n] = FullName[p][m]
  OBVIOUS
<1>3. LET c == CHOOSE n \in S : FullName[p][n] = FullName[p][m]
      IN  c \in S /\ FullName[p][c] = FullName[p][m]
  BY <1>2
<1>. QED
  BY <1>1, <1>3

\* What holds of the registry and the entries for the metrics.
DynamicInv ==
  /\ DynamicTypeOK /\ RegistryIsUnion /\ OneHolder /\ HeldAsDeclared
  /\ \A n \in Plugins \ known : declared[n] = NoMetrics

\* What a registration does to the names a plugin holds, stated once for the
\* conjuncts of the invariant.
LEMMA RegisterStep ==
  ASSUME DynamicInv, NEW p \in Plugins, NEW manifest \in Manifests \cup {NoMetrics},
         RegisterPluginMetrics(p, manifest)
  PROVE  /\ DynamicInv'
         /\ \A q \in Plugins \ {p} : Names(q, collectors[q]) \subseteq registered'
<1> DEFINE names == Unregistered(p)
           taken == {m \in Metrics : /\ manifest[m] # None
                                     /\ Accepts(names, FullName[p][m], manifest[m])}
<1>0. /\ registered' = names \cup Names(p, taken)
      /\ shape' = [f \in FullNames |->
                     IF f \in Names(p, taken)
                     THEN manifest[CHOOSE m \in taken : FullName[p][m] = f]
                     ELSE shape[f]]
      /\ known' = known \cup {p}
      /\ collectors' = [collectors EXCEPT ![p] = taken]
      /\ declared' = [declared EXCEPT ![p] = manifest]
  BY DEF RegisterPluginMetrics
<1>1. /\ taken \in SUBSET Metrics
      /\ \A m \in taken : /\ FullName[p][m] \in FullNames
                          /\ FullName[p][m] \notin names
                          /\ manifest[m] \in Shapes
                          /\ shape[FullName[p][m]] \in {None, manifest[m]}
  BY FullNameAssumption, ManifestsAssumption DEF Accepts, NoMetrics
<1>2. \A m \in taken : shape'[FullName[p][m]] = manifest[m]
  <2>1. SUFFICES ASSUME NEW m \in taken PROVE shape'[FullName[p][m]] = manifest[m]
    OBVIOUS
  <2>2. (CHOOSE n \in taken : FullName[p][n] = FullName[p][m]) = m
    BY <1>1, NamesInjective
  <2>3. FullName[p][m] \in Names(p, taken) /\ FullName[p][m] \in FullNames
    BY <1>1 DEF Names
  <2>. HIDE DEF taken
  <2>. QED
    BY <1>0, <2>2, <2>3
<1>3. \A f \in FullNames : f \notin Names(p, taken) => shape'[f] = shape[f]
  <2>. HIDE DEF taken
  <2>. QED
    BY <1>0
\* The names left are those of the other plugins.
<1>4. names = UNION {Names(q, collectors[q]) : q \in Plugins \ {p}}
  BY DEF DynamicInv, DynamicTypeOK, RegistryIsUnion, OneHolder, Unregistered
<1>5. \A f \in Names(p, taken) : f \notin names
  BY <1>1 DEF Names
<1>6. \A q \in Plugins \ {p} : collectors'[q] = collectors[q]
  BY <1>0 DEF DynamicInv, DynamicTypeOK
<1>7. collectors'[p] = taken
  BY <1>0 DEF DynamicInv, DynamicTypeOK
<1>. HIDE DEF names, taken
<1>8. DynamicTypeOK'
  <2>1. Names(p, taken) \subseteq FullNames
    BY <1>1 DEF Names
  <2>2. names \subseteq FullNames
    BY DEF names, Unregistered, DynamicInv, DynamicTypeOK
  <2>3. \A f \in FullNames : shape'[f] \in Shapes \cup {None}
    <3>1. SUFFICES ASSUME NEW f \in FullNames PROVE shape'[f] \in Shapes \cup {None}
      OBVIOUS
    <3>2. CASE f \in Names(p, taken)
      BY <1>1, <1>2, <3>2 DEF Names
    <3>3. CASE f \notin Names(p, taken)
      BY <1>3, <3>3 DEF DynamicInv, DynamicTypeOK
    <3>. QED
      BY <3>2, <3>3
  <2>4. shape' \in [FullNames -> Shapes \cup {None}]
    BY <1>0, <2>3
  <2>. QED
    BY <1>0, <1>1, <2>1, <2>2, <2>4 DEF DynamicInv, DynamicTypeOK
<1>9. RegistryIsUnion'
  BY <1>0, <1>4, <1>6, <1>7 DEF RegistryIsUnion, Names
<1>10. OneHolder'
  <2>1. \A q \in Plugins \ {p} : Names(p, taken) \cap Names(q, collectors[q]) = {}
    BY <1>4, <1>5
  <2>2. \A q \in Plugins \ {p} : Names(q, collectors'[q]) = Names(q, collectors[q])
    BY <1>6
  <2>3. Names(p, collectors'[p]) = Names(p, taken)
    BY <1>7
  <2>4. OneHolder
    BY DEF DynamicInv
  <2>5. \A q \in Plugins : Names(q, collectors[q])' = Names(q, collectors'[q])
    BY DEF Names
  <2>. QED
    BY <2>1, <2>2, <2>3, <2>4, <2>5 DEF OneHolder
<1>11. HeldAsDeclared'
  <2>1. SUFFICES ASSUME NEW q \in Plugins, NEW m \in collectors'[q]
                 PROVE  /\ q \in known'
                        /\ declared'[q][m] # None
                        /\ shape'[FullName[q][m]] = declared'[q][m]
    BY DEF HeldAsDeclared
  <2>2. CASE q = p
    <3>1. m \in taken /\ declared'[p] = manifest
      BY <2>1, <2>2, <1>0, <1>7 DEF DynamicInv, DynamicTypeOK
    <3>2. manifest[m] # None
      BY <3>1 DEF taken
    <3>. QED
      BY <2>2, <3>1, <3>2, <1>0, <1>2
  <2>3. CASE q # p
    <3>1. m \in collectors[q] /\ declared'[q] = declared[q] /\ m \in Metrics
      BY <2>1, <2>3, <1>0, <1>6 DEF DynamicInv, DynamicTypeOK
    <3>2. FullName[q][m] \in FullNames /\ FullName[q][m] \in names
      BY <3>1, <2>3, <1>4, FullNameAssumption DEF Names
    <3>3. shape'[FullName[q][m]] = shape[FullName[q][m]]
      BY <3>2, <1>3, <1>5
    <3>. QED
      BY <3>1, <3>3, <1>0 DEF DynamicInv, HeldAsDeclared
  <2>. QED
    BY <2>2, <2>3
<1>12. \A n \in Plugins \ known' : declared'[n] = NoMetrics
  BY <1>0 DEF DynamicInv, DynamicTypeOK
<1>. QED
  BY <1>8, <1>9, <1>10, <1>11, <1>12, <1>4, <1>0 DEF DynamicInv

\* The same for the removal of a plugin's metrics.
LEMMA UnregisterStep ==
  ASSUME DynamicInv, NEW p \in Plugins, Unregister(p)
  PROVE  /\ DynamicInv'
         /\ \A q \in Plugins \ {p} : Names(q, collectors[q]) \subseteq registered'
<1>1. /\ registered' = registered \ Names(p, collectors[p])
      /\ known' = known \ {p}
      /\ collectors' = [collectors EXCEPT ![p] = {}]
      /\ declared' = [declared EXCEPT ![p] = NoMetrics]
      /\ shape' = shape
  BY DEF Unregister, Unregistered
<1>2. registered' = UNION {Names(q, collectors[q]) : q \in Plugins \ {p}}
  BY <1>1 DEF DynamicInv, DynamicTypeOK, RegistryIsUnion, OneHolder
<1>3. /\ \A q \in Plugins \ {p} : collectors'[q] = collectors[q]
      /\ collectors'[p] = {}
      /\ Names(p, {}) = {}
  BY <1>1 DEF DynamicInv, DynamicTypeOK, Names
<1>4. DynamicTypeOK'
  BY <1>1 DEF DynamicInv, DynamicTypeOK
<1>5. RegistryIsUnion'
  BY <1>2, <1>3 DEF RegistryIsUnion, Names
<1>6. OneHolder'
  BY <1>3 DEF OneHolder, DynamicInv, Names
<1>7. HeldAsDeclared'
  BY <1>1, <1>3 DEF HeldAsDeclared, DynamicInv, DynamicTypeOK
<1>8. \A n \in Plugins \ known' : declared'[n] = NoMetrics
  BY <1>1 DEF DynamicInv, DynamicTypeOK
<1>. QED
  BY <1>2, <1>4, <1>5, <1>6, <1>7, <1>8 DEF DynamicInv

\* What does not touch the metrics keeps what holds of them.
LEMMA DynamicUntouched ==
  ASSUME DynamicInv, UNCHANGED dynamic
  PROVE  DynamicInv'
<1>1. DynamicTypeOK' /\ HeldAsDeclared'
  BY DEF dynamic, DynamicInv, DynamicTypeOK, HeldAsDeclared
<1>2. RegistryIsUnion'
  BY DEF dynamic, DynamicInv, RegistryIsUnion, Names
<1>3. OneHolder'
  BY DEF dynamic, DynamicInv, OneHolder, Names
<1>. QED
  BY <1>1, <1>2, <1>3 DEF DynamicInv, dynamic

------------------------------------------------------------------------------
\* Past the record step and before the delete step a goroutine has a name.
Naming == {"register", "store", "forget", "dynamic"}
Named == \A w \in Workers : worker[w].pc \in Naming => worker[w].name \in Plugins

WorkersOK == worker \in [Workers -> Locals \cup {Idle}] /\ Named

\* A goroutine under way has locals, and an idle one has none.
LEMMA AtLocals ==
  ASSUME TypeOK, NEW w \in Workers
  PROVE  /\ worker[w].pc # "idle" => worker[w] \in Locals
         /\ worker[w].pc = "idle" => worker[w] = Idle
         /\ worker[w].id = NoId <=> worker[w] = Idle
BY NoIdAssumption DEF TypeOK, Locals, Idle, Steps

\* A goroutine that begins.
LEMMA Begins ==
  ASSUME TypeOK, Named, NEW w \in Workers, NEW p \in Ids, NEW step \in Steps,
         NEW name \in Plugins \cup {NoName}, NEW manifest \in Manifests \cup {NoMetrics},
         step \in Naming => name \in Plugins,
         Begin(w, p, step, name, manifest)
  PROVE  /\ WorkersOK' /\ begun' \in 0..MaxBegun /\ met' \in BOOLEAN
         /\ worker[w] = Idle
         /\ worker'[w].pc = step /\ worker'[w].id = p
         /\ worker'[w].name = name /\ worker'[w].manifest = manifest
         /\ \A v \in Workers \ {w} : worker'[v] = worker[v]
<1>1. worker[w] = Idle
  BY AtLocals DEF Begin, At
<1>2. /\ worker' = [worker EXCEPT ![w] = [pc |-> step, id |-> p, name |-> name,
                                         manifest |-> manifest]]
      /\ begun < MaxBegun /\ begun' = begun + 1
      /\ met' = (met \/ ~Quiet(p))
  BY DEF Begin
<1>3. begun' \in 0..MaxBegun
  BY <1>2, BegunAssumption DEF TypeOK
<1>4. /\ worker'[w] = [pc |-> step, id |-> p, name |-> name, manifest |-> manifest]
      /\ \A v \in Workers \ {w} : worker'[v] = worker[v]
  BY <1>2 DEF TypeOK
<1>5. worker' \in [Workers -> Locals \cup {Idle}]
  BY <1>2 DEF TypeOK, Locals
<1>6. Named'
  BY <1>4 DEF Named
<1>7. met' \in BOOLEAN
  BY <1>2 DEF TypeOK
<1>. QED
  BY <1>1, <1>3, <1>4, <1>5, <1>6, <1>7 DEF WorkersOK

\* A goroutine that goes on to its next step.
LEMMA Goes ==
  ASSUME TypeOK, Named, NEW w \in Workers, worker[w].pc # "idle", NEW step \in Steps,
         step \in Naming => worker[w].name \in Plugins,
         Goto(w, step)
  PROVE  /\ WorkersOK'
         /\ worker'[w].pc = step /\ worker'[w].id = worker[w].id
         /\ worker'[w].name = worker[w].name /\ worker'[w].manifest = worker[w].manifest
         /\ \A v \in Workers \ {w} : worker'[v] = worker[v]
<1>1. worker[w] \in Locals
  BY AtLocals
<1>2. /\ worker'[w] = [worker[w] EXCEPT !.pc = step]
      /\ \A v \in Workers \ {w} : worker'[v] = worker[v]
      /\ worker' \in [Workers -> Locals \cup {Idle}]
  BY <1>1 DEF Goto, TypeOK, Locals
<1>3. /\ worker'[w].pc = step /\ worker'[w].id = worker[w].id
      /\ worker'[w].name = worker[w].name /\ worker'[w].manifest = worker[w].manifest
  BY <1>1, <1>2 DEF Locals
<1>4. Named'
  BY <1>2, <1>3 DEF Named
<1>. QED
  BY <1>2, <1>3, <1>4 DEF WorkersOK

\* A goroutine that ends.
LEMMA Ends ==
  ASSUME TypeOK, Named, NEW w \in Workers, End(w)
  PROVE  /\ WorkersOK'
         /\ worker'[w] = Idle
         /\ \A v \in Workers \ {w} : worker'[v] = worker[v]
<1>1. /\ worker'[w] = Idle
      /\ \A v \in Workers \ {w} : worker'[v] = worker[v]
      /\ worker' \in [Workers -> Locals \cup {Idle}]
  BY DEF End, TypeOK
<1>2. Named'
  BY <1>1 DEF Named, Idle, Naming
<1>. QED
  BY <1>1, <1>2 DEF WorkersOK

\* A step leaves the metrics alone, or registers or removes one name's.
LEMMA DynamicStep ==
  ASSUME TypeOK, Named, DynamicInv, [Next]_vars
  PROVE  DynamicInv'
<1>1. \/ UNCHANGED dynamic
      \/ \E w \in Workers : Register(w) \/ RemoveDynamic(w)
  BY DEF Next, Step, vars, Add, Rebuild, Enable, Remove, Record, Fails,
         Store, Forget, DeleteRow
<1>2. CASE UNCHANGED dynamic
  BY <1>2, DynamicUntouched
<1>3. ASSUME NEW n \in Plugins, UnregisterPluginMetrics(n)
      PROVE  DynamicInv'
  BY <1>3, UnregisterStep, DynamicUntouched DEF UnregisterPluginMetrics
<1>4. ASSUME NEW w \in Workers, Register(w)
      PROVE  DynamicInv'
  <2>1. worker[w].name \in Plugins /\ worker[w].manifest \in Manifests \cup {NoMetrics}
    BY <1>4, AtLocals DEF Register, At, Named, Naming, Locals
  <2>. QED
    BY <2>1, <1>3, <1>4, RegisterStep DEF Register
<1>5. ASSUME NEW w \in Workers, RemoveDynamic(w)
      PROVE  DynamicInv'
  <2>1. worker[w].name \in Plugins
    BY <1>5 DEF RemoveDynamic, At, Named, Naming
  <2>. QED
    BY <2>1, <1>3, <1>5 DEF RemoveDynamic
<1>. QED
  BY <1>1, <1>2, <1>4, <1>5

\* Every step keeps the types.
LEMMA TypeStep ==
  ASSUME TypeOK, Named, DynamicInv, [Next]_vars
  PROVE  TypeOK' /\ Named'
<1>1. DynamicTypeOK'
  BY DynamicStep DEF DynamicInv
<1>2. CASE UNCHANGED vars
  BY <1>1, <1>2 DEF vars, tables, TypeOK, Named
<1>3. CASE Next
  <2>1. ASSUME NEW w \in Workers, NEW p \in Ids, NEW n \in Plugins, Add(w, p, n)
        PROVE  TypeOK' /\ Named'
    <3>1. WorkersOK' /\ begun' \in 0..MaxBegun /\ met' \in BOOLEAN
      BY <2>1, Begins DEF Add, Steps, Naming
    <3>. QED
      BY <1>1, <2>1, <3>1 DEF Add, TypeOK, WorkersOK, Rows
  <2>2. ASSUME NEW w \in Workers, NEW p \in Ids, Rebuild(w, p)
        PROVE  TypeOK' /\ Named'
    <3>1. WorkersOK' /\ begun' \in 0..MaxBegun /\ met' \in BOOLEAN
      BY <2>2, Begins DEF Rebuild, Steps, Naming
    <3>. QED
      BY <1>1, <2>2, <3>1 DEF Rebuild, TypeOK, WorkersOK
  <2>3. ASSUME NEW w \in Workers, NEW p \in Ids, Enable(w, p)
        PROVE  TypeOK' /\ Named'
    <3>1. row[p].name \in Plugins /\ row[p].manifest \in Manifests \cup {NoMetrics}
      BY <2>3 DEF Enable, Listed, TypeOK, Rows
    <3>2. WorkersOK' /\ begun' \in 0..MaxBegun /\ met' \in BOOLEAN
      BY <2>3, <3>1, Begins DEF Enable, Steps, Naming
    <3>. QED
      BY <1>1, <2>3, <3>2 DEF Enable, TypeOK, WorkersOK
  <2>4. ASSUME NEW w \in Workers, NEW p \in Ids, Remove(w, p)
        PROVE  TypeOK' /\ Named'
    <3>1. WorkersOK' /\ begun' \in 0..MaxBegun /\ met' \in BOOLEAN
      <4>1. runtime[p] \in Plugins \cup {NoName}
        BY DEF TypeOK
      <4>2. CASE runtime[p] = NoName
        BY <2>4, <4>1, <4>2, Begins DEF Remove, Steps, Naming
      <4>3. CASE runtime[p] # NoName
        BY <2>4, <4>1, <4>3, Begins DEF Remove, Steps, Naming
      <4>. QED
        BY <4>2, <4>3
    <3>. QED
      BY <1>1, <2>4, <3>1 DEF Remove, TypeOK, WorkersOK
  <2>5. ASSUME NEW w \in Workers, NEW n \in Plugins, NEW manifest \in Manifests,
               Record(w, n, manifest)
        PROVE  TypeOK' /\ Named'
    <3>1. worker[w] \in Locals
      BY <2>5, AtLocals DEF Record, At
    <3>2. WorkersOK'
      <4>1. worker' \in [Workers -> Locals \cup {Idle}]
        BY <2>5, <3>1 DEF Record, TypeOK, Locals, Steps
      <4>2. Named'
        BY <2>5, <3>1 DEF Record, TypeOK, Named, Locals
      <4>. QED
        BY <4>1, <4>2 DEF WorkersOK
    <3>3. row' \in [Ids -> Rows \cup {NoRow}]
      BY <2>5 DEF Record, TypeOK, Rows
    <3>. QED
      BY <1>1, <2>5, <3>2, <3>3 DEF Record, TypeOK, WorkersOK
  <2>6. ASSUME NEW w \in Workers, Fails(w)
        PROVE  TypeOK' /\ Named'
    BY <1>1, <2>6, Ends DEF Fails, TypeOK, WorkersOK, tables
  <2>7. ASSUME NEW w \in Workers, Register(w)
        PROVE  TypeOK' /\ Named'
    <3>1. WorkersOK'
      BY <2>7, Goes DEF Register, At, Named, Naming, Steps
    <3>. QED
      BY <1>1, <2>7, <3>1 DEF Register, TypeOK, WorkersOK, tables
  <2>10. ASSUME NEW w \in Workers, Store(w)
         PROVE  TypeOK' /\ Named'
    <3>1. worker[w].name \in Plugins
      BY <2>10 DEF Store, At, Named, Naming
    <3>. QED
      BY <1>1, <2>10, <3>1, Ends DEF Store, TypeOK, WorkersOK, tables
  <2>11. ASSUME NEW w \in Workers, Forget(w)
         PROVE  TypeOK' /\ Named'
    <3>1. WorkersOK'
      BY <2>11, Goes DEF Forget, At, Named, Naming, Steps
    <3>. QED
      BY <1>1, <2>11, <3>1 DEF Forget, TypeOK, WorkersOK, tables
  <2>13. ASSUME NEW w \in Workers, RemoveDynamic(w)
         PROVE  TypeOK' /\ Named'
    <3>1. WorkersOK'
      BY <2>13, Goes DEF RemoveDynamic, At, Named, Naming, Steps
    <3>. QED
      BY <1>1, <2>13, <3>1 DEF RemoveDynamic, TypeOK, WorkersOK, tables
  <2>14. ASSUME NEW w \in Workers, DeleteRow(w)
         PROVE  TypeOK' /\ Named'
    BY <1>1, <2>14, Ends DEF DeleteRow, TypeOK, WorkersOK
  <2>. QED
    BY <1>3, <2>1, <2>2, <2>3, <2>4, <2>5, <2>6, <2>7, <2>10, <2>11,
       <2>13, <2>14 DEF Next, Step
<1>. QED
  BY <1>2, <1>3

------------------------------------------------------------------------------
\* Names are unique among the rows, and an id not handed out is unknown.
UniqueNames == \A p, q \in Listed : row[p].name = row[q].name => p = q
FreshIds == \A p \in Ids \ used : row[p] = NoRow /\ runtime[p] = NoName /\ Quiet(p)

\* Each plugin has one goroutine, its entry is right unless one starts it, and
\* each goroutine holds what the row says.
Apart ==
  \A v, w \in Workers : v # w /\ worker[v].id = worker[w].id => worker[v].id = NoId

Starting == {"register", "store"}
Right(p) ==
  runtime[p] # NoName =>
    /\ p \in Listed
    /\ runtime[p] = row[p].name
    /\ declared[row[p].name] = row[p].manifest
NotStarting(p) == \A w \in Workers : worker[w].id = p => worker[w].pc \notin Starting
EntriesRight == \A p \in Ids : NotStarting(p) => Right(p)

\* What a goroutine that has its plugin to itself holds is what the row says.
Fits(w) ==
  LET p == worker[w].id IN
  /\ worker[w].pc \in Naming \cup {"record"} => p \in Listed
  /\ worker[w].pc \in Naming => worker[w].name = row[p].name
  /\ worker[w].pc \in Starting => worker[w].manifest = row[p].manifest
  /\ worker[w].pc = "store" =>
       declared[worker[w].name] = worker[w].manifest
  /\ worker[w].pc \in {"dynamic", "delete"} => runtime[p] = NoName

Isolated == ~met => Apart /\ EntriesRight /\ \A w \in Workers : Fits(w)

\* Names stay unique, and ids that were not handed out unknown.
LEMMA RowStep ==
  ASSUME TypeOK, Named, UniqueNames, FreshIds, [Next]_vars
  PROVE  UniqueNames' /\ FreshIds'
<1>1. CASE UNCHANGED vars
  BY <1>1 DEF vars, tables, UniqueNames, FreshIds, Listed, Quiet
<1>2. ASSUME NEW w \in Workers, NEW p \in Ids, NEW n \in Plugins, Add(w, p, n)
      PROVE  UniqueNames' /\ FreshIds'
  <2>1. /\ worker'[w].id = p /\ \A v \in Workers \ {w} : worker'[v] = worker[v]
    BY <1>2, Begins DEF Add, Steps, Naming
  <2>2. UniqueNames'
    BY <1>2 DEF Add, UniqueNames, Listed, NameTaken, TypeOK
  <2>3. FreshIds'
    BY <1>2, <2>1 DEF Add, FreshIds, Quiet, TypeOK
  <2>. QED
    BY <2>2, <2>3
<1>3. ASSUME NEW w \in Workers, NEW p \in Ids, NEW step \in Steps,
             NEW name \in Plugins \cup {NoName}, NEW manifest \in Manifests \cup {NoMetrics},
             step \in Naming => name \in Plugins, p \in used,
             Begin(w, p, step, name, manifest), UNCHANGED <<row, runtime, used>>
      PROVE  UniqueNames' /\ FreshIds'
  <2>1. /\ worker'[w].id = p /\ \A v \in Workers \ {w} : worker'[v] = worker[v]
    <3>1. Begin(w, p, step, name, manifest) /\ (step \in Naming => name \in Plugins)
      BY <1>3
    <3>. QED
      BY <3>1, Begins
  <2>2. UniqueNames'
    BY <1>3 DEF UniqueNames, Listed
  <2>3. FreshIds'
    BY <1>3, <2>1 DEF FreshIds, Quiet
  <2>. QED
    BY <2>2, <2>3
<1>4. ASSUME NEW w \in Workers, NEW p \in Ids, Rebuild(w, p) \/ Enable(w, p) \/ Remove(w, p)
      PROVE  UniqueNames' /\ FreshIds'
  <2>1. p \in used
    BY <1>4 DEF Rebuild, Enable, Remove, FreshIds, Listed
  <2>2. CASE Rebuild(w, p)
    BY <2>1, <2>2, <1>3 DEF Rebuild, Steps, Naming
  <2>3. CASE Enable(w, p)
    <3>1. row[p].name \in Plugins /\ row[p].manifest \in Manifests \cup {NoMetrics}
      BY <2>3 DEF Enable, Listed, TypeOK, Rows
    <3>. QED
      BY <2>1, <2>3, <3>1, <1>3 DEF Enable, Steps, Naming
  <2>4. CASE Remove(w, p)
    <3>1. runtime[p] \in Plugins \cup {NoName}
      BY DEF TypeOK
    <3>2. CASE runtime[p] = NoName
      BY <2>1, <2>4, <3>1, <3>2, <1>3 DEF Remove, Steps, Naming
    <3>3. CASE runtime[p] # NoName
      BY <2>1, <2>4, <3>1, <3>3, <1>3 DEF Remove, Steps, Naming
    <3>. QED
      BY <3>2, <3>3
  <2>. QED
    BY <1>4, <2>2, <2>3, <2>4
\* The steps of a goroutine under way concern an id handed out.
<1>5. ASSUME NEW w \in Workers, worker[w].id \in used,
             worker'[w].id \in {worker[w].id, NoId},
             \A v \in Workers \ {w} : worker'[v] = worker[v],
             used' = used,
             \A q \in Ids \ {worker[w].id} : row'[q] = row[q] /\ runtime'[q] = runtime[q]
      PROVE  FreshIds'
  BY <1>5, NoIdAssumption DEF FreshIds, Quiet
<1>6. \A w \in Workers : worker[w].pc # "idle" => worker[w].id \in used
  BY AtLocals DEF FreshIds, Quiet, Locals
<1>7. ASSUME NEW w \in Workers, NEW n \in Plugins, NEW manifest \in Manifests,
             Record(w, n, manifest)
      PROVE  UniqueNames' /\ FreshIds'
  <2>1. worker[w].id \in used /\ worker[w] \in Locals
    BY <1>6, <1>7, AtLocals DEF Record, At
  <2>2. worker'[w].id = worker[w].id /\ \A v \in Workers \ {w} : worker'[v] = worker[v]
    BY <1>7, <2>1 DEF Record, TypeOK, Locals
  <2>3. \A q \in Ids \ {worker[w].id} : row'[q] = row[q] /\ runtime'[q] = runtime[q]
    BY <1>7 DEF Record, TypeOK
  <2>4. FreshIds'
    BY <2>1, <2>2, <2>3, <1>5, <1>7 DEF Record
  <2>5. UniqueNames'
    <3>1. CASE worker[w].id \in Listed
      BY <1>7, <2>3, <3>1 DEF Record, UniqueNames, Listed, NameTaken, TypeOK
    <3>2. CASE worker[w].id \notin Listed
      BY <1>7, <3>2 DEF Record, UniqueNames, Listed
    <3>. QED
      BY <3>1, <3>2
  <2>. QED
    BY <2>4, <2>5
<1>8. ASSUME NEW w \in Workers,
             Register(w) \/ Forget(w) \/ RemoveDynamic(w)
      PROVE  UniqueNames' /\ FreshIds'
  <2>1. /\ worker[w].pc # "idle" /\ worker[w].name \in Plugins
        /\ \E step \in Steps : Goto(w, step)
    BY <1>8 DEF Register, Forget, RemoveDynamic, At, Named, Naming, Steps
  <2>2. worker'[w].id = worker[w].id /\ \A v \in Workers \ {w} : worker'[v] = worker[v]
    BY <2>1, Goes
  <2>3. /\ used' = used /\ row' = row
        /\ \A q \in Ids \ {worker[w].id} : runtime'[q] = runtime[q]
    BY <1>8 DEF Register, Forget, RemoveDynamic, tables, TypeOK
  <2>4. FreshIds'
    BY <2>1, <2>2, <2>3, <1>5, <1>6
  <2>. QED
    BY <2>3, <2>4 DEF UniqueNames, Listed
<1>9. ASSUME NEW w \in Workers, Fails(w) \/ Store(w) \/ DeleteRow(w)
      PROVE  UniqueNames' /\ FreshIds'
  <2>1. worker[w].id \in used /\ End(w)
    BY <1>6, <1>9 DEF Fails, Store, DeleteRow, At
  <2>2. worker'[w].id = NoId /\ \A v \in Workers \ {w} : worker'[v] = worker[v]
    BY <2>1, Ends DEF Idle
  <2>3. /\ used' = used
        /\ \A q \in Ids \ {worker[w].id} : row'[q] = row[q] /\ runtime'[q] = runtime[q]
    BY <1>9 DEF Fails, Store, DeleteRow, tables, TypeOK
  <2>4. FreshIds'
    BY <2>1, <2>2, <2>3, <1>5
  <2>5. \A q \in Ids : row'[q] \in {row[q], NoRow}
    BY <1>9 DEF Fails, Store, DeleteRow, tables, TypeOK
  <2>6. UniqueNames'
    BY <2>5 DEF UniqueNames, Listed
  <2>. QED
    BY <2>4, <2>6
<1>. QED
  BY <1>1, <1>2, <1>4, <1>7, <1>8, <1>9 DEF Next, Step

Own == Apart /\ EntriesRight /\ \A w \in Workers : Fits(w)

\* A goroutine with its plugin to itself that touches only this plugin's row,
\* entry and the metrics of its name, and leaves them fit, keeps all fit.
LEMMA Frame ==
  ASSUME TypeOK, Named, UniqueNames, Own,
         NEW w \in Workers, NEW p \in Ids,
         worker[w].id = p \/ (worker[w] = Idle /\ Quiet(p)),
         worker'[w].id \in {p, NoId},
         \A v \in Workers \ {w} : worker'[v] = worker[v],
         \A q \in Ids \ {p} : row'[q] = row[q] /\ runtime'[q] = runtime[q],
         \A n \in Plugins : declared'[n] # declared[n] => n = row[p].name,
         Fits(w)', NotStarting(p)' => Right(p)'
  PROVE  Own'
<1>1. \A v \in Workers \ {w} : worker[v].id # p
  BY NoIdAssumption DEF Own, Apart, Quiet
<1>2. Apart'
  BY <1>1 DEF Own, Apart
<1>3. ASSUME NEW q \in Ids \ {p}, NEW n \in Plugins, n = row[q].name
      PROVE  declared'[n] = declared[n]
  <2>1. CASE p \in Listed
    <3>1. q \in Listed
      BY <1>3, NoNameAssumption DEF Listed, NoRow
    <3>. QED
      BY <1>3, <2>1, <3>1 DEF UniqueNames
  <2>2. CASE p \notin Listed
    BY <1>3, <2>2, NoNameAssumption DEF Listed, NoRow
  <2>. QED
    BY <2>1, <2>2
<1>4. \A q \in Ids \ {p} : (q \in Listed <=> q \in Listed') 
  BY DEF Listed
<1>5. EntriesRight'
  <2>1. SUFFICES ASSUME NEW q \in Ids, q # p, NotStarting(q)' PROVE Right(q)'
    BY DEF EntriesRight
  <2>2. NotStarting(q)
    BY <2>1, NoIdAssumption DEF NotStarting, Idle
  <2>3. Right(q)
    BY <2>2 DEF Own, EntriesRight
  <2>4. /\ row'[q] = row[q] /\ runtime'[q] = runtime[q]
        /\ runtime[q] \in Plugins \cup {NoName}
    BY <2>1 DEF TypeOK
  <2>. QED
    BY <2>1, <2>3, <2>4, <1>3, <1>4 DEF Right
<1>6. ASSUME NEW v \in Workers PROVE Fits(v)'
  <2>1. CASE v = w
    BY <2>1
  <2>2. CASE v # w
    <3>1. worker'[v] = worker[v] /\ Fits(v)
      BY <2>2 DEF Own
    <3>2. CASE worker[v] = Idle
      BY <3>1, <3>2 DEF Fits, Idle, Naming, Starting
    <3>3. CASE worker[v] # Idle
      <4>1. worker[v].id \in Ids \ {p}
        BY <1>1, <2>2, <3>3 DEF TypeOK, Locals
      <4>2. worker[v].pc \in Naming =>
              declared'[worker[v].name] = declared[worker[v].name]
        BY <3>1, <4>1, <1>3 DEF Named, Fits
      <4>. QED
        BY <3>1, <4>1, <4>2, <1>4 DEF Fits, Naming
    <3>. QED
      BY <3>2, <3>3
  <2>. QED
    BY <2>1, <2>2
<1>. QED
  BY <1>2, <1>5, <1>6 DEF Own

\* Goroutines that begin.
LEMMA OwnBegins ==
  ASSUME TypeOK, Named, UniqueNames, FreshIds, Own, ~met',
         NEW w \in Workers, NEW p \in Ids,
         \/ \E n \in Plugins : Add(w, p, n)
         \/ Rebuild(w, p) \/ Enable(w, p) \/ Remove(w, p)
  PROVE  Own'
<1>1. Quiet(p)
  BY DEF Add, Rebuild, Enable, Remove, Begin
<1>2. NotStarting(p) /\ Right(p)
  BY <1>1 DEF NotStarting, Quiet, Own, EntriesRight
<1>3. ASSUME NEW n \in Plugins, Add(w, p, n)
      PROVE  Own'
  <2>1. /\ worker[w] = Idle
        /\ worker'[w].pc = "record" /\ worker'[w].id = p
        /\ \A v \in Workers \ {w} : worker'[v] = worker[v]
    BY <1>3, Begins DEF Add, Steps, Naming
  <2>2. /\ \A q \in Ids \ {p} : row'[q] = row[q] /\ runtime'[q] = runtime[q]
        /\ row'[p].name = n /\ runtime'[p] = runtime[p] /\ declared' = declared
    BY <1>3 DEF Add, TypeOK, dynamic
  <2>3. runtime'[p] = NoName
    BY <1>3, <2>2 DEF Add, FreshIds
  <2>4. p \in Listed'
    BY <2>2, NoNameAssumption DEF Listed, NoRow
  <2>5. Fits(w)' /\ Right(p)'
    BY <2>1, <2>3, <2>4 DEF Fits, Naming, Starting, Right
  <2>. QED
    BY <1>1, <2>1, <2>2, <2>5, Frame
<1>4. CASE Rebuild(w, p)
  <2>1. /\ worker[w] = Idle
        /\ worker'[w].pc = "record" /\ worker'[w].id = p
        /\ \A v \in Workers \ {w} : worker'[v] = worker[v]
    BY <1>4, Begins DEF Rebuild, Steps, Naming
  <2>2. row' = row /\ runtime' = runtime /\ declared' = declared /\ p \in Listed
    BY <1>4 DEF Rebuild, dynamic
  <2>3. Fits(w)' /\ Right(p)'
    BY <1>2, <2>1, <2>2 DEF Fits, Naming, Starting, Right, Listed
  <2>. QED
    BY <1>1, <2>1, <2>2, <2>3, Frame
<1>5. CASE Enable(w, p)
  <2>1. row[p].name \in Plugins /\ row[p].manifest \in Manifests \cup {NoMetrics}
    BY <1>5 DEF Enable, Listed, TypeOK, Rows
  <2>2. /\ worker[w] = Idle
        /\ worker'[w].pc = "register" /\ worker'[w].id = p
        /\ worker'[w].name = row[p].name /\ worker'[w].manifest = row[p].manifest
        /\ \A v \in Workers \ {w} : worker'[v] = worker[v]
    BY <1>5, <2>1, Begins DEF Enable, Steps, Naming
  <2>3. row' = row /\ runtime' = runtime /\ declared' = declared /\ p \in Listed
    BY <1>5 DEF Enable, dynamic
  <2>4. Fits(w)' /\ ~NotStarting(p)'
    BY <2>2, <2>3 DEF Fits, Naming, Starting, NotStarting, Listed
  <2>. QED
    BY <1>1, <2>2, <2>3, <2>4, Frame
<1>6. CASE Remove(w, p)
  <2>1. runtime[p] \in Plugins \cup {NoName}
    BY DEF TypeOK
  <2>2. row' = row /\ runtime' = runtime /\ declared' = declared
    BY <1>6 DEF Remove, dynamic
  <2>3. Right(p)'
    BY <1>2, <2>2 DEF Right, Listed
  <2>4. CASE runtime[p] = NoName
    <3>1. /\ worker[w] = Idle
          /\ worker'[w].pc = "delete" /\ worker'[w].id = p
          /\ \A v \in Workers \ {w} : worker'[v] = worker[v]
      BY <1>6, <2>1, <2>4, Begins DEF Remove, Steps, Naming
    <3>2. Fits(w)'
      BY <2>2, <2>4, <3>1 DEF Fits, Naming, Starting
    <3>. QED
      BY <1>1, <2>2, <2>3, <3>1, <3>2, Frame
  <2>5. CASE runtime[p] # NoName
    <3>1. /\ worker[w] = Idle
          /\ worker'[w].pc = "forget" /\ worker'[w].id = p
          /\ worker'[w].name = runtime[p]
          /\ \A v \in Workers \ {w} : worker'[v] = worker[v]
      BY <1>6, <2>1, <2>5, Begins DEF Remove, Steps, Naming
    <3>2. Fits(w)'
      BY <1>2, <2>2, <2>5, <3>1 DEF Fits, Naming, Starting, Right, Listed
    <3>. QED
      BY <1>1, <2>2, <2>3, <3>1, <3>2, Frame
  <2>. QED
    BY <2>4, <2>5
<1>. QED
  BY <1>3, <1>4, <1>5, <1>6

\* A goroutine under way.
LEMMA OwnSteps ==
  ASSUME TypeOK, Named, DynamicInv, UniqueNames, Own,
         NEW w \in Workers, NEW p, p = worker[w].id, Step(w)
  PROVE  Own'
<1>1. ASSUME worker[w].pc # "idle"
      PROVE  p \in Ids /\ worker[w] \in Locals /\ worker[w] # Idle
  BY <1>1, AtLocals DEF Locals, Idle
<1>2. ASSUME worker[w].pc # "idle", worker[w].pc \notin Starting
      PROVE  NotStarting(p) /\ Right(p)
  <2>1. NotStarting(p)
    BY <1>1, <1>2, NoIdAssumption DEF NotStarting, Own, Apart
  <2>. QED
    BY <1>1, <1>2, <2>1 DEF Own, EntriesRight
<1>3. Fits(w)
  BY DEF Own
<1>4. ASSUME NEW n \in Plugins, NEW manifest \in Manifests, Record(w, n, manifest)
      PROVE  Own'
  <2>1. worker[w].pc = "record" /\ p \in Ids /\ worker[w] \in Locals
    BY <1>1, <1>4 DEF Record, At
  <2>2. p \in Listed
    BY <1>3, <2>1 DEF Fits
  <2>3. /\ worker'[w].pc = "register" /\ worker'[w].id = p
        /\ worker'[w].name = n /\ worker'[w].manifest = manifest
        /\ \A v \in Workers \ {w} : worker'[v] = worker[v]
    BY <1>4, <2>1 DEF Record, TypeOK, Locals
  <2>4. /\ row'[p] = [name |-> n, manifest |-> manifest, built |-> TRUE]
        /\ \A q \in Ids \ {p} : row'[q] = row[q] /\ runtime'[q] = runtime[q]
        /\ declared' = declared
    BY <1>4, <2>1, <2>2 DEF Record, TypeOK, dynamic
  <2>5. p \in Listed' /\ row'[p].name = n /\ row'[p].manifest = manifest
    BY <2>1, <2>4, NoNameAssumption DEF Listed, NoRow
  <2>6. Fits(w)' /\ ~NotStarting(p)'
    BY <2>3, <2>5 DEF Fits, Naming, Starting, NotStarting
  <2>. QED
    BY <2>1, <2>3, <2>4, <2>6, Frame
<1>5. CASE Fails(w)
  <2>1. worker[w].pc \in {"record", "delete"} /\ p \in Ids
    BY <1>1, <1>5 DEF Fails, At
  <2>2. worker'[w] = Idle /\ \A v \in Workers \ {w} : worker'[v] = worker[v]
    BY <1>5, Ends DEF Fails
  <2>3. row' = row /\ runtime' = runtime /\ declared' = declared
    BY <1>5 DEF Fails, tables, dynamic
  <2>4. Right(p)
    BY <1>2, <2>1 DEF Starting
  <2>5. Fits(w)' /\ Right(p)'
    BY <2>2, <2>3, <2>4 DEF Fits, Naming, Starting, Right, Listed, Idle
  <2>6. worker'[w].id = NoId
    BY <2>2 DEF Idle
  <2>. QED
    BY <2>1, <2>2, <2>3, <2>5, <2>6, Frame
<1>6. CASE Register(w)
  <2>1. worker[w].pc = "register" /\ p \in Ids /\ worker[w].name \in Plugins
    BY <1>1, <1>6 DEF Register, At, Named, Naming
  <2>2. /\ p \in Listed /\ worker[w].name = row[p].name
        /\ worker[w].manifest = row[p].manifest
    BY <1>3, <2>1 DEF Fits, Naming, Starting
  <2>3. /\ worker'[w].pc = "store" /\ worker'[w].id = p
        /\ worker'[w].name = worker[w].name /\ worker'[w].manifest = worker[w].manifest
        /\ \A v \in Workers \ {w} : worker'[v] = worker[v]
    BY <1>6, <2>1, Goes DEF Register, Steps, Naming
  <2>4. row' = row /\ runtime' = runtime
    BY <1>6 DEF Register, tables
  <2>5. declared' = [declared EXCEPT ![worker[w].name] = worker[w].manifest]
    <3>1. CASE RegisterPluginMetrics(worker[w].name, worker[w].manifest)
      BY <3>1 DEF RegisterPluginMetrics
    <3>2. CASE worker[w].manifest = NoMetrics /\ UnregisterPluginMetrics(worker[w].name)
      <4>1. CASE worker[w].name \in known
        BY <3>2, <4>1 DEF UnregisterPluginMetrics, Unregister
      <4>2. CASE worker[w].name \notin known
        <5>1. declared[worker[w].name] = NoMetrics /\ declared' = declared
          BY <2>1, <3>2, <4>2 DEF UnregisterPluginMetrics, DynamicInv, dynamic
        <5>. QED
          BY <3>2, <5>1 DEF DynamicInv, DynamicTypeOK
      <4>. QED
        BY <4>1, <4>2
    <3>. QED
      BY <1>6, <3>1, <3>2 DEF Register
  <2>6. /\ declared'[worker[w].name] = worker[w].manifest
        /\ \A n \in Plugins : declared'[n] # declared[n] => n = row[p].name
    BY <2>1, <2>2, <2>5 DEF DynamicInv, DynamicTypeOK
  <2>7. Fits(w)' /\ ~NotStarting(p)'
    BY <2>2, <2>3, <2>4, <2>6 DEF Fits, Naming, Starting, NotStarting, Listed
  <2>. QED
    BY <2>1, <2>3, <2>4, <2>6, <2>7, Frame
<1>8. CASE Store(w)
  <2>1. worker[w].pc = "store" /\ p \in Ids
    BY <1>1, <1>8 DEF Store, At
  <2>2. /\ p \in Listed /\ worker[w].name = row[p].name
        /\ declared[row[p].name] = row[p].manifest
    BY <1>3, <2>1 DEF Fits, Naming, Starting
  <2>3. worker'[w] = Idle /\ \A v \in Workers \ {w} : worker'[v] = worker[v]
    BY <1>8, Ends DEF Store
  <2>4. /\ row' = row /\ declared' = declared /\ runtime'[p] = row[p].name
        /\ \A q \in Ids \ {p} : runtime'[q] = runtime[q]
    BY <1>8, <2>1, <2>2 DEF Store, tables, dynamic, TypeOK
  <2>5. Fits(w)' /\ Right(p)'
    BY <2>2, <2>3, <2>4 DEF Fits, Naming, Starting, Right, Listed, Idle
  <2>6. worker'[w].id = NoId
    BY <2>3 DEF Idle
  <2>. QED
    BY <2>1, <2>3, <2>4, <2>5, <2>6, Frame
<1>9. CASE Forget(w)
  <2>1. worker[w].pc = "forget" /\ p \in Ids /\ worker[w].name \in Plugins
    BY <1>1, <1>9 DEF Forget, At, Named, Naming
  <2>2. /\ worker'[w].pc = "dynamic" /\ worker'[w].id = p
        /\ worker'[w].name = worker[w].name
        /\ \A v \in Workers \ {w} : worker'[v] = worker[v]
    BY <1>9, <2>1, Goes DEF Forget, Steps, Naming
  <2>3. /\ row' = row /\ declared' = declared /\ runtime'[p] = NoName
        /\ \A q \in Ids \ {p} : runtime'[q] = runtime[q]
    BY <1>9, <2>1 DEF Forget, tables, dynamic, TypeOK
  <2>4. Fits(w)' /\ Right(p)'
    BY <1>3, <2>1, <2>2, <2>3 DEF Fits, Naming, Starting, Right, Listed
  <2>. QED
    BY <2>1, <2>2, <2>3, <2>4, Frame
<1>11. CASE RemoveDynamic(w)
  <2>1. worker[w].pc = "dynamic" /\ p \in Ids /\ worker[w].name \in Plugins
    BY <1>1, <1>11 DEF RemoveDynamic, At, Named, Naming
  <2>2. /\ worker'[w].pc = "delete" /\ worker'[w].id = p
        /\ \A v \in Workers \ {w} : worker'[v] = worker[v]
    BY <1>11, <2>1, Goes DEF RemoveDynamic, Steps, Naming
  <2>3. worker[w].name = row[p].name /\ runtime[p] = NoName
    BY <1>3, <2>1 DEF Fits, Naming
  <2>4. row' = row /\ runtime' = runtime
    BY <1>11 DEF RemoveDynamic, tables
  <2>5. \A n \in Plugins : declared'[n] # declared[n] => n = row[p].name
    BY <1>11, <2>3 DEF RemoveDynamic, UnregisterPluginMetrics, Unregister, dynamic,
                       DynamicInv, DynamicTypeOK
  <2>6. Fits(w)' /\ Right(p)'
    BY <2>2, <2>3, <2>4 DEF Fits, Naming, Starting, Right
  <2>. QED
    BY <2>1, <2>2, <2>4, <2>5, <2>6, Frame
<1>12. CASE DeleteRow(w)
  <2>1. worker[w].pc = "delete" /\ p \in Ids
    BY <1>1, <1>12 DEF DeleteRow, At
  <2>2. worker'[w] = Idle /\ \A v \in Workers \ {w} : worker'[v] = worker[v]
    BY <1>12, Ends DEF DeleteRow
  <2>3. /\ \A q \in Ids \ {p} : row'[q] = row[q]
        /\ runtime' = runtime /\ declared' = declared /\ runtime[p] = NoName
    BY <1>3, <1>12, <2>1 DEF DeleteRow, dynamic, TypeOK, Fits
  <2>4. Fits(w)' /\ Right(p)'
    BY <2>2, <2>3 DEF Fits, Naming, Starting, Right, Idle
  <2>5. worker'[w].id = NoId
    BY <2>2 DEF Idle
  <2>. QED
    BY <2>1, <2>2, <2>3, <2>4, <2>5, Frame
<1>. QED
  BY <1>4, <1>5, <1>6, <1>8, <1>9, <1>11, <1>12 DEF Step

------------------------------------------------------------------------------
Inv ==
  /\ TypeOK /\ Named /\ DynamicInv
  /\ UniqueNames /\ FreshIds
  /\ ~met => Own

\* Inv holds in every reachable state.
LEMMA InvAlways == Spec => []Inv
<1>1. Init => Inv
  <2> SUFFICES ASSUME Init PROVE Inv
    OBVIOUS
  <2>1. DynamicInv
    BY DEF Init, DynamicInit, DynamicInv, DynamicTypeOK, RegistryIsUnion, OneHolder,
           HeldAsDeclared, Names
  <2>2. TypeOK /\ Named
    <3>1. begun \in 0..MaxBegun
      BY BegunAssumption DEF Init
    <3>2. TypeOK
      BY <2>1, <3>1 DEF Init, TypeOK, DynamicInv
    <3>. QED
      BY <3>2 DEF Init, Named, Naming, Idle
  <2>4. UniqueNames /\ FreshIds
    BY NoIdAssumption DEF Init, UniqueNames, FreshIds, Listed, Quiet, Idle
  <2>5. Own
    BY DEF Init, Own, Apart, EntriesRight, Right, Fits, Naming, Starting, Idle
  <2>. QED
    BY <2>1, <2>2, <2>4, <2>5 DEF Inv
<1>2. ASSUME Inv, [Next]_vars PROVE Inv'
  <2>1. TypeOK' /\ Named' /\ DynamicInv'
    BY <1>2, TypeStep, DynamicStep DEF Inv
  <2>3. UniqueNames' /\ FreshIds'
    BY <1>2, RowStep DEF Inv
  <2>4. ASSUME ~met' PROVE Own'
    <3>1. ~met
      BY <1>2, <2>4 DEF Inv, TypeOK, Next, Step, vars, Add, Rebuild, Enable, Remove, Begin,
         Record, Fails, Register, Store, Forget, RemoveDynamic,
         DeleteRow
    <3>2. CASE UNCHANGED vars
      <4>1. Own
        BY <1>2, <3>1 DEF Inv
      <4>2. Apart' /\ EntriesRight'
        BY <3>2, <4>1 DEF vars, dynamic, tables, Own, Apart, EntriesRight, NotStarting,
                          Right, Listed
      <4>3. \A w \in Workers : Fits(w)'
        BY <3>2, <4>1 DEF vars, dynamic, tables, Own, Fits, Listed
      <4>. QED
        BY <4>2, <4>3 DEF Own
    <3>3. CASE Next
      BY <1>2, <2>4, <3>1, <3>3, OwnBegins, OwnSteps DEF Inv, Next
    <3>. QED
      BY <1>2, <3>2, <3>3
  <2>. QED
    BY <2>1, <2>3, <2>4 DEF Inv
<1>. QED
  BY <1>1, <1>2, PTL DEF Spec

\* Builds, enable and delete requests keep every variable's type, however
\* their steps interleave.
THEOREM TypeCorrect == Spec => []TypeOK
<1>1. Inv => TypeOK
  BY DEF Inv
<1>. QED
  BY <1>1, InvAlways, PTL

\* The registry holds exactly the collectors that plugins hold.
THEOREM RegistryStaysUnion == Spec => []RegistryIsUnion
<1>1. Inv => RegistryIsUnion
  BY DEF Inv, DynamicInv
<1>. QED
  BY <1>1, InvAlways, PTL

\* A collector in the registry is held by one plugin.
THEOREM HoldersStayDisjoint == Spec => []OneHolder
<1>1. Inv => OneHolder
  BY DEF Inv, DynamicInv
<1>. QED
  BY <1>1, InvAlways, PTL

\* What a plugin holds, its last manifest declared, with the shape exposed.
THEOREM HeldStaysDeclared == Spec => []HeldAsDeclared
<1>1. Inv => HeldAsDeclared
  BY DEF Inv, DynamicInv
<1>. QED
  BY <1>1, InvAlways, PTL

\* A quiet plugin's entry is right as long as no goroutines met on a plugin.
LEMMA QuietIsRight ==
  ASSUME Inv, ~met, NEW p \in Ids, Quiet(p)
  PROVE  Right(p)
BY DEF Inv, Own, EntriesRight, NotStarting, Quiet

\* Without goroutines that meet on a plugin, a running plugin exposes what its
\* row says.
THEOREM ExposureFollowsRows == Spec => []ExposedAsRecorded
<1>1. Inv => ExposedAsRecorded
  BY QuietIsRight DEF ExposedAsRecorded, Right, Listed
<1>. QED
  BY <1>1, InvAlways, PTL

\* ... and a delete finds the name of its own plugin in the runtime entry.
THEOREM EntriesStayWithNames == Spec => []EntriesKeepToNames
<1>1. Inv => EntriesKeepToNames
  <2>1. SUFFICES ASSUME Inv, ~met, NEW p \in Listed, NEW q \in Ids, p # q,
                        runtime[q] = row[p].name, Quiet(q)
                 PROVE  FALSE
    BY DEF EntriesKeepToNames
  <2>2. Right(q)
    BY <2>1, QuietIsRight
  <2>3. p \in Ids /\ row[p].name \in Plugins
    BY <2>1 DEF Inv, TypeOK, Listed, Rows
  <2>4. q \in Listed /\ row[q].name = row[p].name
    BY <2>1, <2>2, <2>3, NoNameAssumption DEF Right
  <2>. QED
    BY <2>1, <2>3, <2>4 DEF Inv, UniqueNames
<1>. QED
  BY <1>1, InvAlways, PTL

==============================================================================
