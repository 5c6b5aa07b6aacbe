------------------------ MODULE PluginLifecycleProofs ------------------------
(***************************************************************************)
(* Theorems about PluginLifecycle, for every set of plugins, repositories, *)
(* requests, builds and faults.                                            *)
(***************************************************************************)
EXTENDS PluginLifecycle, TLAPS

\* The database helpers leave a well-typed status column, keep the set of
\* listed ids, and write only the row they are told to.
LEMMA SetStatusFacts ==
  ASSUME NEW p, NEW s \in Statuses, TypeOK, SetStatus(p, s)
  PROVE  /\ status' \in [Plugins -> Statuses \cup {"none"}]
         /\ Listed' = Listed
         /\ \A q \in Plugins : q # p => status'[q] = status[q]
         /\ \A q \in Plugins : status'[q] # status[q] => status'[q] = s
         /\ \A q \in Plugins : (status[q] = "none") <=> (status'[q] = "none")
         /\ p \in Listed => status'[p] = s
<1>1. status \in [Plugins -> Statuses \cup {"none"}]
  BY DEF TypeOK
<1>2. s # "none"
  BY DEF Statuses
<1>3. CASE status[p] = "none"
  BY <1>1, <1>3 DEF SetStatus, Listed
<1>4. CASE status[p] # "none"
  <2>1. status' = [status EXCEPT ![p] = s]
    BY <1>4 DEF SetStatus
  <2>2. \A q \in Plugins : q # p => status'[q] = status[q]
    BY <1>1, <2>1
  <2>3. p \in Plugins => status'[p] = s
    BY <1>1, <2>1
  <2>4. status' \in [Plugins -> Statuses \cup {"none"}]
    BY <1>1, <2>1
  <2> QED
    BY <1>1, <1>2, <1>4, <2>2, <2>3, <2>4 DEF Listed
<1> QED
  BY <1>3, <1>4

\* The row of p is recorded: it gets a name no other row has, and a key.
LEMMA RecordRowFacts ==
  ASSUME TypeOK, NEW p \in Plugins, RecordRow(p)
  PROVE  /\ Listed' = Listed
         /\ status' \in [Plugins -> Statuses \cup {"none"}]
         /\ name' \in [Plugins -> Names] /\ key' \in [Plugins -> BOOLEAN]
         /\ p \in Listed => status'[p] = "stopped"
         /\ \A q \in Plugins : status'[q] # status[q] => status'[q] = "stopped"
         /\ \A q \in Plugins : q # p => status'[q] = status[q]
         /\ \A q \in Plugins : key'[q] # key[q] => q = p /\ p \in Listed
<1>1. ManifestName[repo[p]] \in Names
  BY NamesAssumption DEF TypeOK
<1>2. name' \in [Plugins -> Names] /\ key' \in [Plugins -> BOOLEAN]
  BY <1>1 DEF RecordRow, TypeOK
<1>3. \A q \in Plugins : key'[q] # key[q] => q = p /\ p \in Listed
  BY DEF RecordRow, TypeOK
<1>4. SetStatus(p, "stopped") /\ "stopped" \in Statuses
  BY DEF RecordRow, Statuses
<1> QED
  BY <1>2, <1>3, <1>4, SetStatusFacts

\* A goroutine that is running has a plugin.
LEMMA RunningHasPlugin ==
  ASSUME TypeOK
  PROVE  /\ \A b \in Builds : build[b].pc # "idle" => build[b].id \in Plugins
         /\ \A r \in Requests : req[r].pc # "idle" => req[r].id \in Plugins
  BY DEF TypeOK, IdleBuild, IdleReq

------------------------------------------------------------------------------
(* Type correctness: one lemma per group of actions.                       *)

LEMMA BuildType ==
  ASSUME TypeOK, NEW b \in Builds, BuildStep(b)
  PROVE  TypeOK'
<1> USE DEF BuildAt, BuildGoto, EndBuild, Lapse, CutOff, Recovered, table
<1>0. /\ build[b].pc # "idle" /\ build[b].id \in Plugins
  BY RunningHasPlugin DEF BuildStep, BuildBegin, BuildBeginFails, BuildFails,
     BuildLoad, BuildCompile, BuildUpload, BuildRecord, BuildRecordFails,
     BuildFetch, BuildAttach, BuildStore
<1>1. \A step \in BuildSteps :
        BuildGoto(b, step)
          => build' \in [Builds -> [pc : BuildSteps, id : Plugins] \cup {IdleBuild}]
  BY <1>0 DEF TypeOK, IdleBuild
<1>2. EndBuild(b)
        => build' \in [Builds -> [pc : BuildSteps, id : Plugins] \cup {IdleBuild}]
  BY DEF TypeOK
<1>3. CASE BuildBegin(b)
  BY <1>1, <1>3, SetStatusFacts DEF BuildBegin, TypeOK, Statuses, BuildSteps
<1>4. CASE BuildBeginFails(b)
  <2>1. status' \in [Plugins -> Statuses \cup {"none"}]
    BY <1>4, SetStatusFacts DEF BuildBeginFails, TypeOK, Statuses
  <2> QED
    BY <1>0, <1>2, <1>4, <2>1 DEF BuildBeginFails, TypeOK
<1>5. CASE BuildFails(b)
  <2>1. uploaded' \subseteq Plugins
    BY <1>0, <1>5 DEF BuildFails, TypeOK
  <2>2. status' \in [Plugins -> Statuses \cup {"none"}] /\ lapsed' \subseteq Plugins
    BY <1>0, <1>5, SetStatusFacts DEF BuildFails, RecordError, TypeOK, Statuses
  <2> QED
    BY <1>2, <1>5, <2>1, <2>2 DEF BuildFails, TypeOK
<1>6. CASE BuildLoad(b)
  BY <1>1, <1>6 DEF BuildLoad, TypeOK, BuildSteps
<1>7. CASE BuildCompile(b)
  BY <1>1, <1>7 DEF BuildCompile, TypeOK, BuildSteps
<1>8. CASE BuildUpload(b)
  BY <1>0, <1>1, <1>8 DEF BuildUpload, TypeOK, BuildSteps
<1>9. CASE BuildRecord(b)
  BY <1>0, <1>1, <1>9, RecordRowFacts DEF BuildRecord, TypeOK, BuildSteps
<1>10. CASE BuildRecordFails(b)
  <2>1. /\ status' \in [Plugins -> Statuses \cup {"none"}]
        /\ name' \in [Plugins -> Names] /\ key' \in [Plugins -> BOOLEAN]
        /\ unstarted' \subseteq Plugins
    BY <1>0, <1>10, RecordRowFacts DEF BuildRecordFails, TypeOK
  <2> QED
    BY <1>0, <1>2, <1>10, <2>1 DEF BuildRecordFails, TypeOK
<1>11. CASE BuildFetch(b)
  BY <1>1, <1>11 DEF BuildFetch, FetchOutcomes, TypeOK, BuildSteps
<1>12. CASE BuildAttach(b)
  BY <1>0, <1>1, <1>12 DEF BuildAttach, TypeOK, BuildSteps
<1>13. CASE BuildStore(b)
  BY <1>2, <1>13 DEF BuildStore, TypeOK
<1> QED
  BY <1>3, <1>4, <1>5, <1>6, <1>7, <1>8, <1>9, <1>10, <1>11, <1>12, <1>13
     DEF BuildStep

LEMMA NewRequestType ==
  ASSUME TypeOK, NEW r \in Requests, NEW p \in Plugins, NewRequest(r, p)
  PROVE  TypeOK'
<1> USE DEF ReqAt, table
<1>1. \A step \in ReqSteps :
        Accept(r, p, step)
          => /\ req' \in [Requests -> [pc : ReqSteps, id : Plugins, key : BOOLEAN]
                                      \cup {IdleReq}]
             /\ met' \subseteq Plugins /\ disturbed' \subseteq Plugins
  BY DEF Accept, TypeOK
<1>2. CASE EnableGet(r, p)
  BY <1>1, <1>2 DEF EnableGet, TypeOK, ReqSteps
<1>3. CASE DisableStatus(r, p)
  BY <1>1, <1>3, SetStatusFacts DEF DisableStatus, TypeOK, ReqSteps, Statuses
<1>4. CASE DeleteRuntime(r, p)
  BY <1>1, <1>4 DEF DeleteRuntime, TypeOK, ReqSteps
<1>5. CASE RebuildGet(r, p)
  BY <1>1, <1>5 DEF RebuildGet, TypeOK, ReqSteps
<1> QED
  BY <1>2, <1>3, <1>4, <1>5 DEF NewRequest

LEMMA ReqType ==
  ASSUME TypeOK, NEW r \in Requests, ReqStep(r)
  PROVE  TypeOK'
<1> USE DEF ReqAt, Lapse, CutOff, Recovered, table
<1>0. /\ req[r].pc # "idle" /\ req[r].id \in Plugins
  BY RunningHasPlugin DEF ReqStep, EnableStatus, EnableFetch, EnableAttach,
     EnableStore, DisableRuntime, DeleteGet, DeleteObjects, DeleteRow,
     RebuildStatus, StatusFails
<1>1. \A step \in ReqSteps :
        ReqGoto(r, step)
          => req' \in [Requests -> [pc : ReqSteps, id : Plugins, key : BOOLEAN]
                                   \cup {IdleReq}]
  BY <1>0 DEF ReqGoto, TypeOK, IdleReq
<1>2. EndReq(r)
        => req' \in [Requests -> [pc : ReqSteps, id : Plugins, key : BOOLEAN]
                                 \cup {IdleReq}]
  BY DEF EndReq, TypeOK
<1>3. CASE EnableStatus(r)
  BY <1>1, <1>2, <1>3, SetStatusFacts
     DEF EnableStatus, EnableNext, TypeOK, ReqSteps, Statuses
<1>4. CASE EnableFetch(r)
  BY <1>1, <1>4 DEF EnableFetch, FetchOutcomes, TypeOK, ReqSteps
<1>5. CASE EnableAttach(r)
  BY <1>0, <1>1, <1>5 DEF EnableAttach, TypeOK, ReqSteps
<1>6. CASE EnableStore(r)
  BY <1>2, <1>6 DEF EnableStore, TypeOK
<1>7. CASE DisableRuntime(r)
  BY <1>2, <1>7 DEF DisableRuntime, TypeOK
<1>8. CASE DeleteGet(r)
  BY <1>0, <1>1, <1>2, <1>8 DEF DeleteGet, TypeOK, ReqSteps
<1>9. CASE DeleteObjects(r)
  BY <1>0, <1>1, <1>9 DEF DeleteObjects, TypeOK, ReqSteps
<1>10. CASE DeleteRow(r)
  BY <1>0, <1>2, <1>10 DEF DeleteRow, TypeOK
<1>11. CASE RebuildStatus(r)
  <2>1. \A b \in Builds :
          Spawn(b, req[r].id)
            => build' \in [Builds -> [pc : BuildSteps, id : Plugins] \cup {IdleBuild}]
    BY <1>0 DEF Spawn, TypeOK, BuildSteps
  <2> QED
    BY <1>2, <1>11, <2>1, SetStatusFacts DEF RebuildStatus, TypeOK, Statuses
<1>12. CASE StatusFails(r)
  <2>1. status' \in [Plugins -> Statuses \cup {"none"}]
    BY <1>12, SetStatusFacts DEF StatusFails, TypeOK, Statuses
  <2>2. lapsed' \subseteq Plugins /\ unstarted' \subseteq Plugins
    BY <1>0, <1>12 DEF StatusFails, TypeOK
  <2> QED
    BY <1>2, <1>12, <2>1, <2>2 DEF StatusFails, TypeOK
<1> QED
  BY <1>3, <1>4, <1>5, <1>6, <1>7, <1>8, <1>9, <1>10, <1>11, <1>12 DEF ReqStep

LEMMA ProcessType ==
  ASSUME TypeOK, ProcessStep
  PROVE  TypeOK'
<1> USE DEF Lapse, CutOff, Recovered, table, memory
<1>1. CASE Crash
  <2>1. InFlight \subseteq Plugins
    BY RunningHasPlugin DEF InFlight
  <2> QED
    BY <1>1, <2>1 DEF Crash, TypeOK
<1>2. CASE Restart
  BY <1>2 DEF Restart, TypeOK, Listed
<1>3. CASE BootDone
  BY <1>3 DEF BootDone, TypeOK
<1>4. ASSUME NEW p \in Plugins, BootSkip(p) PROVE TypeOK'
  BY <1>4 DEF BootSkip, TypeOK
<1>5. ASSUME NEW p \in Plugins, BootStart(p) PROVE TypeOK'
  <2>1. status' \in [Plugins -> Statuses \cup {"none"}] /\ lapsed' \subseteq Plugins
    BY <1>5, SetStatusFacts DEF BootStart, TypeOK, Statuses
  <2> QED
    BY <1>5, <2>1 DEF BootStart, TypeOK
<1> QED
  BY <1>1, <1>2, <1>3, <1>4, <1>5 DEF ProcessStep

\* Every variable keeps its type in every reachable state.
THEOREM TypeCorrect == Spec => []TypeOK
<1>1. Init => TypeOK
  <2> SUFFICES ASSUME Init PROVE TypeOK
    OBVIOUS
  <2>1. (CHOOSE g \in Repos : TRUE) \in Repos
    BY NamesAssumption
  <2>2. (CHOOSE n \in Names : TRUE) \in Names
    BY <2>1, NamesAssumption
  <2> QED
    BY <2>1, <2>2 DEF Init, TypeOK
<1>2. TypeOK /\ [Next]_vars => TypeOK'
  <2> SUFFICES ASSUME TypeOK, [Next]_vars PROVE TypeOK'
    OBVIOUS
  <2>1. ASSUME NEW p \in Plugins, NEW g \in Repos, AddPlugin(p, g) PROVE TypeOK'
    BY <2>1, NamesAssumption
       DEF AddPlugin, InsertRow, BuildAt, Spawn, TypeOK, Statuses, BuildSteps
  <2>2. CASE UNCHANGED vars
    BY <2>2 DEF vars, table, memory, TypeOK
  <2>3. ASSUME NEW p \in Plugins, NEW g \in Repos, AddPluginFails(p, g) PROVE TypeOK'
    BY <2>3, NamesAssumption
       DEF AddPluginFails, InsertRow, Lapse, memory, TypeOK, Statuses
  <2>4. ASSUME NEW p \in Plugins, DisableStatusFails(p) PROVE TypeOK'
    <3>1. status' \in [Plugins -> Statuses \cup {"none"}]
      BY <2>4, SetStatusFacts DEF DisableStatusFails, Statuses
    <3> QED
      BY <2>4, <3>1 DEF DisableStatusFails, memory, TypeOK
  <2> QED
    BY <2>1, <2>2, <2>3, <2>4, BuildType, NewRequestType, ReqType, ProcessType DEF Next
<1> QED
  BY <1>1, <1>2, PTL DEF Spec

------------------------------------------------------------------------------
(* The table implements PluginRegistry.                                    *)

\* Every step registers, renames or removes one plugin, or is invisible in
\* the registry.
LEMMA RegistryStep ==
  ASSUME TypeOK, [Next]_vars
  PROVE  [Registry!Next]_(Registry!vars)
<1> DEFINE Same == UNCHANGED <<used, Listed, name>>
<1>0. Same => UNCHANGED Registry!vars
  BY DEF Registry!vars
<1>1. ASSUME NEW p \in Plugins, NEW g \in Repos,
             AddPlugin(p, g) \/ AddPluginFails(p, g)
      PROVE  Registry!Register(p, RepoName[g]) /\ RepoName[g] \in Names
  <2>0. InsertRow(p, g)
    BY <1>1 DEF AddPlugin, AddPluginFails
  <2>1. RepoName[g] \in Names
    BY NamesAssumption
  <2>2. Listed' = Listed \cup {p}
    BY <2>0 DEF InsertRow, Listed, TypeOK
  <2>3. Registry!Free(p, RepoName[g])
    BY <2>0 DEF InsertRow, NameTaken, Registry!Free
  <2> QED
    BY <2>0, <2>1, <2>2, <2>3 DEF InsertRow, Registry!Register
<1>2. ASSUME NEW b \in Builds, BuildStep(b)
      PROVE  Same \/ \E p \in Plugins, n \in Names : Registry!Rename(p, n)
  <2>1. ASSUME BuildAt(b, "record"), RecordRow(build[b].id), UNCHANGED used
        PROVE  Same \/ \E p \in Plugins, n \in Names : Registry!Rename(p, n)
    <3> DEFINE p == build[b].id
               n == ManifestName[repo[p]]
    <3>1. p \in Plugins
      BY <2>1, RunningHasPlugin DEF BuildAt
    <3>2. n \in Names
      BY <3>1, NamesAssumption DEF TypeOK
    <3>3. Listed' = Listed
      BY <2>1, <3>1, RecordRowFacts
    <3>4. CASE p \in Listed
      <4>1. Registry!Rename(p, n)
        BY <2>1, <3>3, <3>4 DEF RecordRow, NameTaken, Registry!Rename, Registry!Free
      <4> QED
        BY <3>1, <3>2, <4>1
    <3>5. CASE p \notin Listed
      BY <2>1, <3>3, <3>5 DEF RecordRow
    <3> QED
      BY <3>4, <3>5
  <2>2. CASE BuildRecord(b) \/ BuildRecordFails(b)
    BY <2>1, <2>2 DEF BuildRecord, BuildRecordFails, Listed
  <2>3. CASE BuildBegin(b) \/ BuildBeginFails(b)
    BY <2>3, SetStatusFacts DEF BuildBegin, BuildBeginFails, Statuses, Listed
  <2>4. CASE BuildFails(b)
    BY <2>4, SetStatusFacts DEF BuildFails, RecordError, Statuses, Listed
  <2>5. CASE \/ BuildLoad(b) \/ BuildCompile(b) \/ BuildUpload(b)
             \/ BuildFetch(b) \/ BuildAttach(b) \/ BuildStore(b)
    BY <2>5 DEF BuildLoad, BuildCompile, BuildUpload, BuildFetch, BuildAttach,
       BuildStore, table, Listed
  <2> QED
    BY <1>2, <2>2, <2>3, <2>4, <2>5 DEF BuildStep
<1>3. ASSUME NEW r \in Requests, NEW p \in Plugins, NewRequest(r, p)
      PROVE  Same
  <2>1. CASE DisableStatus(r, p)
    BY <2>1, SetStatusFacts DEF DisableStatus, Statuses
  <2> QED
    BY <1>3, <2>1 DEF NewRequest, EnableGet, DeleteRuntime, RebuildGet, table, Listed
<1>4. ASSUME NEW r \in Requests, ReqStep(r)
      PROVE  Same \/ \E p \in Plugins : Registry!Remove(p)
  <2>1. CASE EnableStatus(r) \/ StatusFails(r)
    BY <2>1, SetStatusFacts DEF EnableStatus, StatusFails, Statuses, Listed
  <2>2. CASE RebuildStatus(r)
    BY <2>2, SetStatusFacts DEF RebuildStatus, Statuses
  <2>3. CASE DeleteRow(r)
    <3> DEFINE p == req[r].id
    <3>1. p \in Plugins
      BY <2>3, RunningHasPlugin DEF DeleteRow, ReqAt
    <3>2. CASE status' = [status EXCEPT ![p] = "none"]
      <4>1. Listed' = Listed \ {p}
        BY <3>1, <3>2 DEF Listed, TypeOK
      <4>2. UNCHANGED <<used, name>>
        BY <2>3 DEF DeleteRow
      <4>3. CASE p \in Listed
        BY <3>1, <4>1, <4>2, <4>3 DEF Registry!Remove
      <4>4. CASE p \notin Listed
        BY <4>1, <4>2, <4>4
      <4> QED
        BY <4>3, <4>4
    <3>3. CASE UNCHANGED status
      BY <2>3, <3>3 DEF DeleteRow, Listed
    <3> QED
      BY <2>3, <3>2, <3>3 DEF DeleteRow
  <2> QED
    BY <1>4, <2>1, <2>2, <2>3
       DEF ReqStep, EnableFetch, EnableAttach, EnableStore, DisableRuntime,
           DeleteGet, DeleteObjects, table, Listed
<1>5. ASSUME ProcessStep
      PROVE  Same
  <2>1. ASSUME NEW p \in Plugins, BootStart(p) PROVE Same
    BY <2>1, SetStatusFacts DEF BootStart, Statuses, Listed
  <2> QED
    BY <1>5, <2>1 DEF ProcessStep, Crash, Restart, BootDone, BootSkip, table, Listed
<1>6. UNCHANGED vars => Same
  BY DEF vars, table, Listed
<1>7. ASSUME NEW p \in Plugins, DisableStatusFails(p) PROVE Same
  BY <1>7, SetStatusFacts DEF DisableStatusFails, Statuses
<1> QED
  BY <1>0, <1>1, <1>2, <1>3, <1>4, <1>5, <1>6, <1>7 DEF Next, Registry!Next

\* The plugins table implements the registry: ids handed out once, unique
\* names, removal is final, under every interleaving and every fault.
THEOREM TableImplementsRegistry == Spec => ImplementsRegistry
<1>1. Init => Registry!Init
  <2> SUFFICES ASSUME Init PROVE Registry!Init
    OBVIOUS
  <2>1. (CHOOSE n \in Names : TRUE) \in Names
    BY NamesAssumption
  <2> QED
    BY <2>1 DEF Init, Registry!Init, Listed
<1>2. TypeOK /\ [Next]_vars => [Registry!Next]_(Registry!vars)
  BY RegistryStep
<1> QED
  BY <1>1, <1>2, TypeCorrect, PTL DEF Spec, ImplementsRegistry, Registry!Spec

\* A deleted row never comes back: no UPDATE of a build or request that
\* outlives the delete recreates it.
THEOREM DeletionIsFinal == Spec => NoResurrection
<1>1. ASSUME TypeOK, [Next]_vars
      PROVE  [\A p \in used : status[p] = "none" => status'[p] = "none"]_vars
  <2>1. ASSUME NEW p \in used, status[p] = "none" PROVE status'[p] = "none"
    <3>1. p \in Plugins /\ p \notin Listed
      BY <1>1, <2>1 DEF TypeOK, Listed
    <3>2. p \notin Listed'
      BY <1>1, <3>1, RegistryStep
         DEF Registry!Next, Registry!vars, Registry!Register, Registry!Rename,
             Registry!Remove
    <3> QED
      BY <3>1, <3>2 DEF Listed
  <2> QED
    BY <2>1
<1> QED
  BY <1>1, TypeCorrect, PTL DEF Spec, NoResurrection

\* No two rows carry the same name.
THEOREM NamesStayUnique == Spec => []UniqueNames
<1>1. Init => UniqueNames
  BY DEF Init, UniqueNames, Listed
<1>2. TypeOK /\ UniqueNames /\ [Next]_vars => UniqueNames'
  <2> SUFFICES ASSUME TypeOK, UniqueNames, [Next]_vars
               PROVE  UniqueNames'
    OBVIOUS
  <2>1. name \in [Plugins -> Names] /\ Listed \subseteq Plugins
    BY DEF TypeOK, Listed
  <2>2. CASE UNCHANGED Registry!vars
    BY <2>2 DEF Registry!vars, UniqueNames
  <2>3. ASSUME NEW p \in Plugins, NEW n \in Names,
               Registry!Register(p, n) \/ Registry!Rename(p, n)
        PROVE  UniqueNames'
    <3>1. Listed' \subseteq Listed \cup {p} /\ name' = [name EXCEPT ![p] = n]
      BY <2>3 DEF Registry!Register, Registry!Rename
    <3>2. \A q \in Listed \ {p} : name[q] # n
      BY <2>3 DEF Registry!Register, Registry!Rename, Registry!Free
    <3> QED
      BY <2>1, <3>1, <3>2 DEF UniqueNames
  <2>4. ASSUME NEW p \in Plugins, Registry!Remove(p)
        PROVE  UniqueNames'
    BY <2>4 DEF Registry!Remove, UniqueNames
  <2> QED
    BY <2>2, <2>3, <2>4, RegistryStep DEF Registry!Next
<1> QED
  BY <1>1, <1>2, TypeCorrect, PTL DEF Spec

------------------------------------------------------------------------------
(* Rows that wait for a build have one.                                    *)

\* A step of a build: the build named by the invariant either goes on, or
\* ends and writes a status that no longer waits, or lapses.
LEMMA BuildKeepsWaiting ==
  ASSUME TypeOK, WaitingHasBuild, NEW b \in Builds, BuildStep(b)
  PROVE  WaitingHasBuild'
<1> USE DEF BuildAt, BuildGoto, EndBuild, Lapse, BuildOf, table
<1>0. /\ build \in [Builds -> [pc : BuildSteps, id : Plugins] \cup {IdleBuild}]
      /\ status \in [Plugins -> Statuses \cup {"none"}]
  BY DEF TypeOK
<1>1. /\ build[b].pc # "idle" /\ build[b].id \in Plugins
      /\ build[b] \in [pc : BuildSteps, id : Plugins]
  BY RunningHasPlugin
     DEF TypeOK, IdleBuild, BuildStep, BuildBegin, BuildBeginFails, BuildFails, BuildLoad,
         BuildCompile, BuildUpload, BuildRecord, BuildRecordFails, BuildFetch,
         BuildAttach, BuildStore
<1>2. \A c \in Builds \ {b} : build'[c] = build[c]
  BY <1>0 DEF BuildStep, BuildBegin, BuildBeginFails, BuildFails, BuildLoad,
         BuildCompile, BuildUpload, BuildRecord, BuildRecordFails, BuildFetch,
         BuildAttach, BuildStore
<1>3. ASSUME NEW step, BuildGoto(b, step)
      PROVE  build'[b].id = build[b].id /\ build'[b].pc = step
  BY <1>0, <1>1, <1>3
<1>4. CASE BuildBegin(b)
  <2>1. build'[b].id = build[b].id /\ build'[b].pc = "load"
    BY <1>3, <1>4 DEF BuildBegin
  <2>2. \A q \in Plugins : status'[q] # status[q] => status'[q] = "building"
    BY <1>4, SetStatusFacts DEF BuildBegin, Statuses
  <2>3. build[b].id \in Listed => status'[build[b].id] = "building"
    BY <1>4, SetStatusFacts DEF BuildBegin, Statuses
  <2>4. \A q \in Plugins : q # build[b].id => status'[q] = status[q]
    BY <1>4, SetStatusFacts DEF BuildBegin, Statuses
  <2>5. build[b].id \notin Listed => status'[build[b].id] = "none"
    BY <1>1, <1>4 DEF BuildBegin, SetStatus, Listed
  <2> QED
    BY <1>0, <1>1, <1>2, <1>4, <2>1, <2>2, <2>3, <2>4, <2>5
       DEF BuildBegin, WaitingHasBuild
<1>5. CASE BuildFails(b)
  <2>1. CASE SetStatus(build[b].id, "error")
    BY <1>0, <1>1, <1>2, <1>5, <2>1, SetStatusFacts
       DEF BuildFails, RecordError, WaitingHasBuild, Statuses, Listed
  <2>2. CASE UNCHANGED status /\ Lapse({build[b].id})
    BY <1>0, <1>2, <1>5, <2>2 DEF BuildFails, WaitingHasBuild
  <2> QED
    BY <1>5, <2>1, <2>2 DEF BuildFails, RecordError
<1>6. CASE BuildBeginFails(b) \/ BuildRecordFails(b)
  <2>1. /\ build[b].id \in lapsed' /\ lapsed \subseteq lapsed'
        /\ \A q \in Plugins : q # build[b].id => status'[q] = status[q]
    BY <1>1, <1>6, SetStatusFacts, RecordRowFacts
       DEF BuildBeginFails, BuildRecordFails, Statuses
  <2> QED
    BY <1>2, <2>1 DEF WaitingHasBuild
<1>7. CASE BuildLoad(b) \/ BuildCompile(b) \/ BuildUpload(b)
  <2>1. /\ build'[b].id = build[b].id
        /\ build'[b].pc \in {"compile", "upload", "record"}
        /\ build[b].pc # "begin"
        /\ UNCHANGED <<status, lapsed>>
    BY <1>0, <1>3, <1>7 DEF BuildLoad, BuildCompile, BuildUpload
  <2> QED
    BY <1>0, <1>2, <2>1 DEF WaitingHasBuild, BuildOf
<1>8. CASE BuildRecord(b)
  <2>1. RecordRow(build[b].id) /\ UNCHANGED lapsed
    BY <1>8 DEF BuildRecord
  <2> QED
    BY <1>1, <1>2, <2>1, RecordRowFacts DEF WaitingHasBuild, Listed
<1>9. CASE BuildFetch(b) \/ BuildAttach(b) \/ BuildStore(b)
  BY <1>0, <1>2, <1>9 DEF BuildFetch, BuildAttach, BuildStore, WaitingHasBuild
<1> QED
  BY <1>4, <1>5, <1>6, <1>7, <1>8, <1>9 DEF BuildStep

LEMMA ReqKeepsWaiting ==
  ASSUME TypeOK, WaitingHasBuild, NEW r \in Requests, ReqStep(r)
  PROVE  WaitingHasBuild'
<1> USE DEF BuildOf, table
<1>1. CASE RebuildStatus(r)
  <2>1. PICK b \in Builds : BuildAt(b, "idle") /\ Spawn(b, req[r].id)
    BY <1>1 DEF RebuildStatus
  <2>2. /\ build'[b] = [pc |-> "begin", id |-> req[r].id]
        /\ \A c \in Builds \ {b} : build'[c] = build[c]
        /\ build[b].pc = "idle"
    BY <2>1 DEF Spawn, BuildAt, TypeOK
  <2> QED
    BY <1>1, <2>2, SetStatusFacts DEF RebuildStatus, WaitingHasBuild, Statuses
<1>2. CASE EnableStatus(r)
  BY <1>2, SetStatusFacts DEF EnableStatus, WaitingHasBuild, Statuses
<1>3. CASE DeleteRow(r)
  BY <1>3 DEF DeleteRow, WaitingHasBuild, TypeOK, Lapse
<1>4. CASE DeleteGet(r)
  BY <1>4 DEF DeleteGet, WaitingHasBuild, Lapse
<1>5. CASE StatusFails(r)
  <2>1. UNCHANGED build /\ lapsed \subseteq lapsed'
    BY <1>5 DEF StatusFails, Lapse
  <2>2. \A q \in Plugins : status'[q] = status[q] \/ status'[q] = "ready" \/ q \in lapsed'
    BY <1>5, SetStatusFacts DEF StatusFails, Statuses, Lapse
  <2> QED
    BY <2>1, <2>2 DEF WaitingHasBuild
<1> QED
  BY <1>1, <1>2, <1>3, <1>4, <1>5
     DEF ReqStep, EnableFetch, EnableAttach, EnableStore, DisableRuntime,
         DeleteObjects, WaitingHasBuild

LEMMA ProcessKeepsWaiting ==
  ASSUME TypeOK, WaitingHasBuild, ProcessStep
  PROVE  WaitingHasBuild'
<1> USE DEF BuildOf, table, memory
<1>1. CASE Crash
  <2>1. \A b \in Builds : build[b].pc # "idle" => build[b].id \in lapsed'
    BY <1>1 DEF Crash, InFlight, Lapse
  <2> QED
    BY <1>1, <2>1 DEF Crash, WaitingHasBuild, Lapse
<1>2. CASE Restart
  BY <1>2 DEF Restart, WaitingHasBuild, Lapse
<1>3. ASSUME NEW p \in Plugins, BootStart(p) PROVE WaitingHasBuild'
  <2>1. CASE SetStatus(p, "ready")
    BY <1>3, <2>1, SetStatusFacts DEF BootStart, WaitingHasBuild, Statuses, Lapse
  <2>2. CASE UNCHANGED status
    BY <1>3, <2>2 DEF BootStart, WaitingHasBuild, Lapse
  <2> QED
    BY <1>3, <2>1, <2>2 DEF BootStart
<1> QED
  BY <1>1, <1>2, <1>3 DEF ProcessStep, BootDone, BootSkip, WaitingHasBuild

\* A row is left pending or building for ever only by a database error, a
\* name conflict or a crash: otherwise a build is on its way.
THEOREM WaitingRowsHaveBuilds == Spec => []WaitingHasBuild
<1>1. Init => WaitingHasBuild
  BY DEF Init, WaitingHasBuild
<1>2. TypeOK /\ WaitingHasBuild /\ [Next]_vars => WaitingHasBuild'
  <2> SUFFICES ASSUME TypeOK, WaitingHasBuild, [Next]_vars
               PROVE  WaitingHasBuild'
    OBVIOUS
  <2>1. ASSUME NEW p \in Plugins, NEW g \in Repos, AddPlugin(p, g)
        PROVE  WaitingHasBuild'
    <3>1. PICK b \in Builds : BuildAt(b, "idle") /\ Spawn(b, p)
      BY <2>1 DEF AddPlugin
    <3>2. /\ build'[b] = [pc |-> "begin", id |-> p]
          /\ \A c \in Builds \ {b} : build'[c] = build[c]
          /\ build[b].pc = "idle"
      BY <3>1 DEF Spawn, BuildAt, TypeOK
    <3> QED
      BY <2>1, <3>2 DEF AddPlugin, InsertRow, WaitingHasBuild, BuildOf, TypeOK
  <2>2. ASSUME NEW r \in Requests, NEW p \in Plugins, NewRequest(r, p)
        PROVE  WaitingHasBuild'
    <3>1. CASE DisableStatus(r, p)
      BY <3>1, SetStatusFacts DEF DisableStatus, WaitingHasBuild, BuildOf, Statuses
    <3> QED
      BY <2>2, <3>1
         DEF NewRequest, EnableGet, DeleteRuntime, RebuildGet, WaitingHasBuild,
             BuildOf, table
  <2>3. CASE UNCHANGED vars
    BY <2>3 DEF vars, table, memory, WaitingHasBuild, BuildOf
  <2>4. ASSUME NEW p \in Plugins, NEW g \in Repos, AddPluginFails(p, g)
        PROVE  WaitingHasBuild'
    BY <2>4 DEF AddPluginFails, InsertRow, Lapse, memory, WaitingHasBuild, BuildOf,
       TypeOK
  <2>5. ASSUME NEW p \in Plugins, DisableStatusFails(p)
        PROVE  WaitingHasBuild'
    BY <2>5, SetStatusFacts
       DEF DisableStatusFails, memory, WaitingHasBuild, BuildOf, Statuses
  <2> QED
    BY <2>1, <2>2, <2>3, <2>4, <2>5, BuildKeepsWaiting, ReqKeepsWaiting, ProcessKeepsWaiting
       DEF Next
<1> QED
  BY <1>1, <1>2, TypeCorrect, PTL DEF Spec

------------------------------------------------------------------------------
(* Rows that name an artifact have it.                                     *)

\* What ArtifactForKey and ArtifactForRecord grant for plugin p.
Backed(p) == p \in uploaded \/ RequestOf(p, {"delRow"}) \/ p \in lapsed

LEMMA ArtifactInvIsBacked ==
  ArtifactInv <=> /\ InUse
                  /\ \A p \in Listed : key[p] \/ BuildOf(p, {"record"}) => Backed(p)
  BY DEF ArtifactInv, ArtifactForKey, ArtifactForRecord, Backed

LEMMA BuildKeepsArtifact ==
  ASSUME TypeOK, ArtifactInv, NEW b \in Builds, BuildStep(b)
  PROVE  ArtifactInv'
<1> USE DEF BuildAt, BuildGoto, EndBuild, Lapse, table
<1> DEFINE pb == build[b].id
<1>0. /\ build \in [Builds -> [pc : BuildSteps, id : Plugins] \cup {IdleBuild}]
      /\ build[b].pc # "idle" /\ pb \in Plugins
      /\ build[b] \in [pc : BuildSteps, id : Plugins]
  BY RunningHasPlugin
     DEF TypeOK, IdleBuild, BuildStep, BuildBegin, BuildBeginFails, BuildFails, BuildLoad,
         BuildCompile, BuildUpload, BuildRecord, BuildRecordFails, BuildFetch,
         BuildAttach, BuildStore
<1>1. /\ \A c \in Builds \ {b} : build'[c] = build[c]
      /\ build'[b].pc # "idle" => build'[b].id = pb
      /\ UNCHANGED <<req, used>>
  BY <1>0 DEF BuildStep, BuildBegin, BuildBeginFails, BuildFails, BuildLoad,
         BuildCompile, BuildUpload, BuildRecord, BuildRecordFails, BuildFetch,
         BuildAttach, BuildStore, IdleBuild
<1>2. Listed' = Listed
  <2>1. CASE BuildBegin(b) \/ BuildBeginFails(b)
    BY <2>1, SetStatusFacts DEF BuildBegin, BuildBeginFails, Statuses, Listed
  <2>2. CASE BuildFails(b)
    BY <2>2, SetStatusFacts DEF BuildFails, RecordError, Statuses, Listed
  <2>3. CASE BuildRecord(b) \/ BuildRecordFails(b)
    BY <1>0, <2>3, RecordRowFacts DEF BuildRecord, BuildRecordFails, Listed
  <2> QED
    BY <2>1, <2>2, <2>3
       DEF BuildStep, BuildLoad, BuildCompile, BuildUpload, BuildFetch,
           BuildAttach, BuildStore, Listed
<1>3. uploaded \subseteq uploaded' /\ lapsed \subseteq lapsed'
  BY DEF BuildStep, BuildBegin, BuildBeginFails, BuildFails, RecordError, BuildLoad,
         BuildCompile, BuildUpload, BuildRecord, BuildRecordFails, BuildFetch,
         BuildAttach, BuildStore
<1>4. InUse'
  BY <1>0, <1>1, <1>2 DEF InUse, ArtifactInv
<1>5. \A p \in Plugins : Backed(p) => Backed(p)'
  BY <1>1, <1>3 DEF Backed, RequestOf
<1>6. \A p \in Plugins : BuildOf(p, {"record"})' =>
         BuildOf(p, {"record"}) \/ (p = pb /\ pb \in uploaded')
  <2> SUFFICES ASSUME NEW p \in Plugins, NEW c \in Builds,
                      build'[c].id = p, build'[c].pc = "record"
               PROVE  BuildOf(p, {"record"}) \/ (p = pb /\ pb \in uploaded')
    BY DEF BuildOf
  <2>1. CASE c # b
    BY <1>1, <2>1 DEF BuildOf
  <2>2. CASE c = b
    <3>1. BuildUpload(b)
      BY <1>0, <2>2
         DEF BuildStep, BuildBegin, BuildBeginFails, BuildFails, BuildLoad,
             BuildCompile, BuildRecord, BuildRecordFails, BuildFetch,
             FetchOutcomes, BuildAttach, BuildStore, IdleBuild
    <3> QED
      BY <1>0, <1>1, <2>2, <3>1 DEF BuildUpload
  <2> QED
    BY <2>1, <2>2
<1>7. \A p \in Plugins : key'[p] => key[p] \/ BuildOf(p, {"record"})
  <2>1. CASE BuildRecord(b) \/ BuildRecordFails(b)
    BY <1>0, <2>1, RecordRowFacts DEF BuildRecord, BuildRecordFails, BuildOf
  <2> QED
    BY <2>1 DEF BuildStep, BuildBegin, BuildBeginFails, BuildFails, BuildLoad,
         BuildCompile, BuildUpload, BuildFetch, BuildAttach, BuildStore
<1>8. ASSUME NEW p \in Listed', key'[p] \/ BuildOf(p, {"record"})'
      PROVE  Backed(p)'
  <2>1. p \in Plugins /\ p \in Listed
    BY <1>2, <1>8 DEF Listed
  <2>2. CASE key[p] \/ BuildOf(p, {"record"})
    BY <1>5, <2>1, <2>2, ArtifactInvIsBacked
  <2>3. CASE p \in uploaded'
    BY <2>3 DEF Backed
  <2> QED
    BY <1>6, <1>7, <1>8, <2>1, <2>2, <2>3
<1> QED
  BY <1>4, <1>8 DEF ArtifactInv, ArtifactForKey, ArtifactForRecord, Backed

LEMMA ReqKeepsArtifact ==
  ASSUME TypeOK, ArtifactInv, NEW r \in Requests,
         ReqStep(r) \/ \E p \in Plugins : NewRequest(r, p)
  PROVE  ArtifactInv'
<1> USE DEF ReqAt, ReqGoto, EndReq, Lapse, table
<1> DEFINE pr == req[r].id
<1>0. req \in [Requests -> [pc : ReqSteps, id : Plugins, key : BOOLEAN] \cup {IdleReq}]
  BY DEF TypeOK
<1>1. ASSUME NEW p \in Plugins, NewRequest(r, p)
      PROVE  ArtifactInv'
  <2>1. Listed' = Listed
    BY <1>1, SetStatusFacts
       DEF NewRequest, EnableGet, DisableStatus, DeleteRuntime, RebuildGet,
           Statuses, Listed
  <2>2. UNCHANGED <<used, build, key, uploaded, lapsed>> /\ req[r].pc = "idle"
    BY <1>1 DEF NewRequest, EnableGet, DisableStatus, DeleteRuntime, RebuildGet
  <2>3. \A q \in Requests \ {r} : req'[q] = req[q]
    BY <1>0, <1>1 DEF NewRequest, EnableGet, DisableStatus, DeleteRuntime, RebuildGet, Accept
  <2>4. req'[r].id = p /\ p \in used
    BY <1>0, <1>1
       DEF NewRequest, EnableGet, DisableStatus, DeleteRuntime, RebuildGet, Accept,
           ArtifactInv, InUse
  <2>5. \A q \in Plugins : Backed(q) => Backed(q)'
    BY <2>2, <2>3 DEF Backed, RequestOf
  <2>6. InUse'
    BY <2>1, <2>2, <2>3, <2>4 DEF InUse, ArtifactInv
  <2> QED
    BY <2>1, <2>2, <2>5, <2>6
       DEF ArtifactInv, ArtifactForKey, ArtifactForRecord, Backed, BuildOf, Listed
<1>2. ASSUME ReqStep(r)
      PROVE  ArtifactInv'
  <2>0. /\ req[r] \in [pc : ReqSteps, id : Plugins, key : BOOLEAN]
        /\ req[r].pc # "idle" /\ pr \in Plugins /\ pr \in used
    BY <1>0, <1>2, RunningHasPlugin
       DEF ReqStep, EnableStatus, EnableFetch, EnableAttach, EnableStore,
           DisableRuntime, DeleteGet, DeleteObjects, DeleteRow, RebuildStatus,
           StatusFails, ArtifactInv, InUse, IdleReq
  <2>1. /\ \A q \in Requests \ {r} : req'[q] = req[q]
        /\ req'[r].pc # "idle" => req'[r].id = pr
        /\ UNCHANGED used /\ lapsed \subseteq lapsed'
    BY <1>0, <1>2, <2>0
       DEF ReqStep, EnableStatus, EnableNext, EnableFetch, EnableAttach, EnableStore,
           DisableRuntime, DeleteGet, DeleteObjects, DeleteRow, RebuildStatus,
           StatusFails, IdleReq
  <2>2. Listed' \subseteq Listed
    <3>1. CASE DeleteRow(r)
      BY <3>1 DEF DeleteRow, Listed, TypeOK
    <3>2. CASE EnableStatus(r) \/ RebuildStatus(r) \/ StatusFails(r)
      BY <3>2, SetStatusFacts
         DEF EnableStatus, RebuildStatus, StatusFails, Statuses, Listed
    <3> QED
      BY <1>2, <3>1, <3>2
         DEF ReqStep, EnableFetch, EnableAttach, EnableStore, DisableRuntime,
             DeleteGet, DeleteObjects, Listed
  <2>3. \A c \in Builds : \/ build'[c] = build[c]
                          \/ build'[c] = [pc |-> "begin", id |-> pr]
    <3>1. CASE RebuildStatus(r)
      BY <3>1 DEF RebuildStatus, Spawn, TypeOK
    <3> QED
      BY <1>2, <3>1
         DEF ReqStep, EnableStatus, EnableFetch, EnableAttach, EnableStore,
             DisableRuntime, DeleteGet, DeleteObjects, DeleteRow, StatusFails
  <2>4. \A p \in Plugins : key'[p] => key[p]
    BY <1>2 DEF ReqStep, EnableStatus, EnableFetch, EnableAttach, EnableStore,
         DisableRuntime, DeleteGet, DeleteObjects, DeleteRow, RebuildStatus,
         StatusFails, TypeOK
  <2>5. InUse'
    BY <2>0, <2>1, <2>2, <2>3 DEF InUse, ArtifactInv
  <2>6. \A p \in Listed' : Backed(p) => Backed(p)'
    <3> SUFFICES ASSUME NEW p \in Listed', Backed(p) PROVE Backed(p)'
      OBVIOUS
    <3>1. CASE DeleteObjects(r)
      <4>1. req'[r].pc = "delRow" /\ req'[r].id = pr
        BY <1>0, <2>0, <3>1 DEF DeleteObjects
      <4>2. \A q \in Requests : req[q].pc = "delRow" => req'[q] = req[q]
        BY <2>1, <3>1 DEF DeleteObjects
      <4> QED
        BY <2>1, <3>1, <4>1, <4>2 DEF DeleteObjects, Backed, RequestOf
    <3>2. CASE DeleteRow(r)
      <4>1. p = pr => pr \in lapsed'
        BY <3>2 DEF DeleteRow, Listed, TypeOK
      <4>2. UNCHANGED uploaded
        BY <3>2 DEF DeleteRow
      <4> QED
        BY <2>1, <4>1, <4>2 DEF Backed, RequestOf
    <3>3. CASE UNCHANGED uploaded /\ req[r].pc # "delRow"
      BY <2>1, <3>3 DEF Backed, RequestOf
    <3> QED
      BY <1>2, <3>1, <3>2, <3>3
         DEF ReqStep, EnableStatus, EnableFetch, EnableAttach, EnableStore,
             DisableRuntime, DeleteGet, RebuildStatus, StatusFails
  <2>7. \A p \in Plugins : BuildOf(p, {"record"})' => BuildOf(p, {"record"})
    BY <2>3 DEF BuildOf
  <2>8. Listed' \subseteq Plugins
    BY DEF Listed
  <2> QED
    BY <2>2, <2>4, <2>5, <2>6, <2>7, <2>8
       DEF ArtifactInv, ArtifactForKey, ArtifactForRecord, Backed
<1> QED
  BY <1>1, <1>2

LEMMA ProcessKeepsArtifact ==
  ASSUME TypeOK, ArtifactInv, ProcessStep
  PROVE  ArtifactInv'
<1> USE DEF Lapse, table, memory
<1>1. CASE Crash
  <2>1. \A r \in Requests : req[r].pc # "idle" => req[r].id \in lapsed'
    BY <1>1 DEF Crash, InFlight
  <2>2. \A p \in Plugins : Backed(p) => p \in uploaded' \/ p \in lapsed'
    BY <1>1, <2>1 DEF Crash, Backed, RequestOf
  <2>3. /\ Listed' = Listed /\ UNCHANGED <<key, used>>
        /\ \A b \in Builds : build'[b].pc = "idle"
        /\ \A r \in Requests : req'[r].pc = "idle"
    BY <1>1 DEF Crash, Listed, IdleBuild, IdleReq
  <2> QED
    BY <2>2, <2>3
       DEF ArtifactInv, InUse, ArtifactForKey, ArtifactForRecord, Backed, BuildOf, Listed
<1>2. ASSUME NEW p \in Plugins, BootStart(p) PROVE ArtifactInv'
  <2>1. Listed' = Listed
    BY <1>2, SetStatusFacts DEF BootStart, Statuses, Listed
  <2>2. /\ UNCHANGED <<used, name, repo, key, uploaded, build, req>>
        /\ lapsed \subseteq lapsed'
    BY <1>2 DEF BootStart
  <2> QED
    BY <2>1, <2>2
       DEF ArtifactInv, InUse, ArtifactForKey, ArtifactForRecord, BuildOf, RequestOf
<1>3. CASE Restart \/ BootDone \/ \E p \in Plugins : BootSkip(p)
  BY <1>3 DEF Restart, BootDone, BootSkip, ArtifactInv, InUse, ArtifactForKey,
     ArtifactForRecord, BuildOf, RequestOf, Listed
<1> QED
  BY <1>1, <1>2, <1>3 DEF ProcessStep

LEMMA ArtifactInvHolds == Spec => []ArtifactInv
<1>1. Init => ArtifactInv
  BY DEF Init, ArtifactInv, InUse, ArtifactForKey, ArtifactForRecord, Listed,
     IdleBuild, IdleReq
<1>2. TypeOK /\ ArtifactInv /\ [Next]_vars => ArtifactInv'
  <2> SUFFICES ASSUME TypeOK, ArtifactInv, [Next]_vars
               PROVE  ArtifactInv'
    OBVIOUS
  <2>1. ASSUME NEW p \in Plugins, NEW g \in Repos, AddPlugin(p, g)
        PROVE  ArtifactInv'
    <3>1. PICK b \in Builds : BuildAt(b, "idle") /\ Spawn(b, p)
      BY <2>1 DEF AddPlugin
    <3>2. /\ build'[b] = [pc |-> "begin", id |-> p]
          /\ \A c \in Builds \ {b} : build'[c] = build[c]
          /\ build[b].pc = "idle"
      BY <3>1 DEF Spawn, BuildAt, TypeOK
    <3>3. /\ Listed' = Listed \cup {p} /\ p \notin Listed
          /\ key'[p] = FALSE
          /\ \A q \in Plugins \ {p} : key'[q] = key[q]
          /\ used' = used \cup {p} /\ p \notin used
          /\ UNCHANGED <<uploaded, req, lapsed>>
      BY <2>1 DEF AddPlugin, InsertRow, Listed, TypeOK, ArtifactInv, InUse
    <3>4. InUse'
      BY <3>2, <3>3 DEF ArtifactInv, InUse
    <3>5. \A q \in Plugins : BuildOf(q, {"record"})' <=> BuildOf(q, {"record"})
      BY <3>2 DEF BuildOf
    <3>6. ~BuildOf(p, {"record"})
      BY <3>3 DEF BuildOf, ArtifactInv, InUse
    <3> QED
      BY <3>3, <3>4, <3>5, <3>6
         DEF ArtifactInv, ArtifactForKey, ArtifactForRecord, RequestOf, Listed
  <2>2. CASE UNCHANGED vars
    BY <2>2 DEF vars, table, memory, ArtifactInv, InUse, ArtifactForKey,
       ArtifactForRecord, BuildOf, RequestOf, Listed
  <2>3. ASSUME NEW p \in Plugins, NEW g \in Repos, AddPluginFails(p, g)
        PROVE  ArtifactInv'
    <3>1. /\ Listed' = Listed \cup {p} /\ p \in lapsed' /\ lapsed \subseteq lapsed'
          /\ \A q \in Plugins \ {p} : key'[q] = key[q]
          /\ used' = used \cup {p}
          /\ UNCHANGED <<uploaded, req, build>>
      BY <2>3 DEF AddPluginFails, InsertRow, Lapse, memory, Listed, TypeOK
    <3> QED
      BY <3>1 DEF ArtifactInv, InUse, ArtifactForKey, ArtifactForRecord, BuildOf,
         RequestOf, Listed
  <2>4. ASSUME NEW p \in Plugins, DisableStatusFails(p)
        PROVE  ArtifactInv'
    <3>1. Listed' = Listed /\ UNCHANGED <<used, key, uploaded, build, req, lapsed>>
      BY <2>4, SetStatusFacts DEF DisableStatusFails, memory, Statuses
    <3> QED
      BY <3>1 DEF ArtifactInv, InUse, ArtifactForKey, ArtifactForRecord, BuildOf,
         RequestOf
  <2> QED
    BY <2>1, <2>2, <2>3, <2>4, BuildKeepsArtifact, ReqKeepsArtifact, ProcessKeepsArtifact
       DEF Next
<1> QED
  BY <1>1, <1>2, TypeCorrect, PTL DEF Spec

\* A row that names an artifact has it in the bucket, whatever deletes and
\* rebuilds overlap, until an operation on the plugin is cut short.
THEOREM ArtifactsBackRows == Spec => []ArtifactForKey
<1>1. ArtifactInv => ArtifactForKey
  BY DEF ArtifactInv
<1> QED
  BY <1>1, ArtifactInvHolds, PTL

------------------------------------------------------------------------------
(* A plugin shown as ready is enabled in the runtime.                      *)

StartSteps == {"fetch", "attach", "store"}

\* The runtime has p enabled, or a build is on its way to enable it.
Started(p) == runtime[p] = "enabled" \/ BuildOf(p, StartSteps)

\* The row of p asks for an enabled entry, no database error has cut p off
\* from it, and boot is past p.
Due(p) ==
  /\ p \in Listed /\ status[p] = "ready" /\ key[p]
  /\ p \notin unstarted
  /\ mode # "down" /\ ~(mode = "boot" /\ p \in todo)

\* Requests and builds run only while the server serves.
IdleUnlessServing ==
  mode # "serving" => /\ \A b \in Builds : build[b].pc = "idle"
                      /\ \A r \in Requests : req[r].pc = "idle"

\* Requests that have not met on a plugin come one at a time.
MetInv ==
  \A p \in Plugins \ met : \A r1, r2 \in Requests :
    req[r1].id = p /\ req[r2].id = p => r1 = r2

\* The request that is between a change of the row and the change of the
\* runtime which belongs to it is the only excuse for a plugin not started.
DueIsStarted ==
  \A p \in Plugins \ met :
    Due(p) => Started(p) \/ RequestOf(p, StartSteps \cup DeleteSteps)

\* A request about to disable p finds it not shown as ready.
DisabledNotReady ==
  \A p \in Plugins \ met : RequestOf(p, {"disRuntime"}) => status[p] # "ready"

\* An enable request that read a row without artifact may leave the runtime
\* alone: the build that has recorded one since takes care of it, unless a
\* database error cut it off.
StaleRead(p) == \E r \in Requests : req[r].id = p /\ req[r].pc = "enStatus" /\ ~req[r].key

StaleReadIsStarted ==
  \A p \in Plugins \ met :
    p \in Listed /\ key[p] /\ StaleRead(p) => Started(p) \/ p \in unstarted

ReadyInv ==
  /\ IdleUnlessServing /\ MetInv
  /\ DueIsStarted /\ DisabledNotReady /\ StaleReadIsStarted

LEMMA ReadyInvSuffices ==
  ReadyInv => ReadyMeansEnabled
<1> SUFFICES ASSUME ReadyInv, NEW p \in Listed \ (met \cup unstarted), Quiet(p),
                    status[p] = "ready", key[p]
             PROVE  runtime[p] = "enabled"
  BY DEF ReadyMeansEnabled
<1>1. p \in Plugins /\ Due(p)
  BY DEF Listed, Due, Quiet
<1>2. ~BuildOf(p, StartSteps) /\ ~RequestOf(p, StartSteps \cup DeleteSteps)
  BY DEF Quiet, BuildOf, RequestOf, StartSteps, DeleteSteps, BuildSteps, ReqSteps
<1> QED
  BY <1>1, <1>2 DEF ReadyInv, DueIsStarted, Started

------------------------------------------------------------------------------
(* Builds.                                                                 *)

\* What a step of a build does to rows and runtime: it never stores "ready",
\* sets a key only on its way to start the plugin, unless it is cut off from
\* that, and stops nothing that has been started.
LEMMA BuildStarts ==
  ASSUME TypeOK, NEW b \in Builds, BuildStep(b)
  PROVE  /\ mode = "serving" /\ UNCHANGED <<mode, todo, req, met>>
         /\ Listed' = Listed
         /\ \A p \in Plugins : p \in unstarted => p \in unstarted' \/ Started(p)'
         /\ \A p \in Plugins : status'[p] = "ready" => status[p] = "ready"
         /\ \A p \in Plugins : key'[p] /\ ~key[p]
              => status'[p] # "ready" /\ (Started(p)' \/ p \in unstarted')
         /\ \A p \in Plugins : Started(p) => Started(p)'
<1> USE DEF BuildAt, BuildGoto, EndBuild, Lapse, CutOff, Recovered, table
<1> DEFINE pb == build[b].id
<1>0. /\ build \in [Builds -> [pc : BuildSteps, id : Plugins] \cup {IdleBuild}]
      /\ build[b].pc # "idle" /\ pb \in Plugins
      /\ build[b] \in [pc : BuildSteps, id : Plugins]
  BY RunningHasPlugin
     DEF TypeOK, IdleBuild, BuildStep, BuildBegin, BuildBeginFails, BuildFails, BuildLoad,
         BuildCompile, BuildUpload, BuildRecord, BuildRecordFails, BuildFetch,
         BuildAttach, BuildStore
<1>1. /\ mode = "serving" /\ UNCHANGED <<mode, todo, req, met>>
      /\ \A c \in Builds \ {b} : build'[c] = build[c]
  BY <1>0 DEF BuildStep, BuildBegin, BuildBeginFails, BuildFails, RecordError, BuildLoad,
         BuildCompile, BuildUpload, BuildRecord, BuildRecordFails, BuildFetch,
         BuildAttach, BuildStore
<1>2. /\ Listed' = Listed
      /\ \A p \in Plugins : status'[p] = "ready" => status[p] = "ready"
  <2>1. CASE BuildBegin(b) \/ BuildBeginFails(b)
    BY <2>1, SetStatusFacts DEF BuildBegin, BuildBeginFails, Statuses, Listed
  <2>2. CASE BuildFails(b)
    BY <2>2, SetStatusFacts DEF BuildFails, RecordError, Statuses, Listed
  <2>3. CASE BuildRecord(b) \/ BuildRecordFails(b)
    BY <1>0, <2>3, RecordRowFacts DEF BuildRecord, BuildRecordFails, Listed
  <2> QED
    BY <2>1, <2>2, <2>3
       DEF BuildStep, BuildLoad, BuildCompile, BuildUpload, BuildFetch,
           BuildAttach, BuildStore, Listed
<1>3. ASSUME NEW p \in Plugins, key'[p], ~key[p]
      PROVE  status'[p] # "ready" /\ (Started(p)' \/ p \in unstarted')
  <2>1. RecordRow(pb) /\ (BuildRecord(b) \/ pb \in unstarted')
    BY <1>3 DEF BuildStep, BuildBegin, BuildBeginFails, BuildFails, BuildLoad,
       BuildCompile, BuildUpload, BuildRecord, BuildRecordFails, BuildFetch,
       BuildAttach, BuildStore
  <2>2. p = pb /\ p \in Listed /\ status'[p] = "stopped"
    BY <1>0, <1>3, <2>1, RecordRowFacts
  <2>3. BuildRecord(b) => build'[b].pc = "fetch" /\ build'[b].id = p
    BY <1>0, <2>2 DEF BuildRecord
  <2> QED
    BY <2>1, <2>2, <2>3 DEF Started, BuildOf, StartSteps
<1>4. ASSUME NEW p \in Plugins, Started(p)
      PROVE  Started(p)'
  <2>1. CASE BuildStore(b)
    <3>1. runtime'[pb] = "enabled" /\ (runtime[p] = "enabled" => runtime'[p] = "enabled")
      BY <1>0, <2>1 DEF BuildStore, TypeOK
    <3>2. \A c \in Builds \ {b} : build'[c] = build[c]
      BY <1>1
    <3> QED
      BY <1>4, <3>1, <3>2 DEF Started, BuildOf
  <2>2. CASE BuildFetch(b) \/ BuildAttach(b)
    <3>1. build'[b].pc \in StartSteps /\ build'[b].id = pb
      BY <1>0, <2>2 DEF BuildFetch, BuildAttach, FetchOutcomes, StartSteps
    <3>2. UNCHANGED runtime
      BY <2>2 DEF BuildFetch, BuildAttach
    <3> QED
      BY <1>1, <1>4, <3>1, <3>2 DEF Started, BuildOf
  <2>3. CASE build[b].pc \notin StartSteps /\ UNCHANGED runtime
    BY <1>1, <1>4, <2>3 DEF Started, BuildOf
  <2> QED
    BY <2>1, <2>2, <2>3
       DEF BuildStep, BuildBegin, BuildBeginFails, BuildFails, BuildLoad,
           BuildCompile, BuildUpload, BuildRecord, BuildRecordFails, StartSteps
<1>5. ASSUME NEW p \in Plugins, p \in unstarted, p \notin unstarted'
      PROVE  Started(p)'
  <2>1. BuildStore(b) /\ p = pb
    BY <1>5 DEF BuildStep, BuildBegin, BuildBeginFails, BuildFails, BuildLoad,
       BuildCompile, BuildUpload, BuildRecord, BuildRecordFails, BuildFetch,
       BuildAttach, BuildStore
  <2> QED
    BY <1>0, <2>1 DEF BuildStore, Started, TypeOK
<1> QED
  BY <1>1, <1>2, <1>3, <1>4, <1>5

LEMMA BuildKeepsReady ==
  ASSUME TypeOK, ReadyInv, NEW b \in Builds, BuildStep(b)
  PROVE  ReadyInv'
<1>1. IdleUnlessServing' /\ MetInv'
  BY BuildStarts DEF IdleUnlessServing, MetInv, ReadyInv
<1>2. ASSUME NEW p \in Plugins \ met, Due(p)'
      PROVE  Started(p)' \/ RequestOf(p, StartSteps \cup DeleteSteps)'
  <2>1. CASE key[p]
    <3>1. Due(p) \/ Started(p)'
      BY <1>2, <2>1, BuildStarts DEF Due
    <3>2. Due(p) => Started(p) \/ RequestOf(p, StartSteps \cup DeleteSteps)
      BY <1>2 DEF ReadyInv, DueIsStarted
    <3> QED
      BY <3>1, <3>2, BuildStarts DEF RequestOf
  <2>2. CASE ~key[p]
    BY <1>2, <2>2, BuildStarts DEF Due
  <2> QED
    BY <2>1, <2>2
<1>3. DisabledNotReady'
  BY BuildStarts DEF ReadyInv, DisabledNotReady, RequestOf
<1>4. ASSUME NEW p \in Plugins \ met, p \in Listed', key'[p], StaleRead(p)'
      PROVE  Started(p)' \/ p \in unstarted'
  <2>1. p \in Listed /\ StaleRead(p)
    BY <1>4, BuildStarts DEF StaleRead
  <2>2. CASE key[p]
    <3>1. Started(p) \/ p \in unstarted
      BY <2>1, <2>2 DEF ReadyInv, StaleReadIsStarted
    <3> QED
      BY <3>1, BuildStarts
  <2>3. CASE ~key[p]
    BY <1>4, <2>3, BuildStarts
  <2> QED
    BY <2>2, <2>3
<1> QED
  BY <1>1, <1>2, <1>3, <1>4, BuildStarts DEF ReadyInv, DueIsStarted, StaleReadIsStarted

------------------------------------------------------------------------------
(* Requests.                                                               *)

\* A step of request r alone: it is the only request of its plugin unless
\* others have met there.
LEMMA OnlyRequest ==
  ASSUME MetInv, NEW r \in Requests, NEW p \in Plugins \ met, req[r].id = p,
         \A q \in Requests \ {r} : req'[q] = req[q]
  PROVE  /\ \A S : RequestOf(p, S) <=> req[r].pc \in S
         /\ \A S : RequestOf(p, S)' <=> req'[r].id = p /\ req'[r].pc \in S
         /\ StaleRead(p) <=> req[r].pc = "enStatus" /\ ~req[r].key
         /\ StaleRead(p)' <=> req'[r].id = p /\ req'[r].pc = "enStatus" /\ ~req'[r].key
<1>1. \A q \in Requests \ {r} : req[q].id # p /\ req'[q].id # p
  BY DEF MetInv
<1> QED
  BY <1>1 DEF RequestOf, StaleRead

LEMMA AddKeepsReady ==
  ASSUME TypeOK, ReadyInv, NEW p \in Plugins, NEW g \in Repos,
         AddPlugin(p, g) \/ AddPluginFails(p, g)
  PROVE  ReadyInv'
<1>1. PICK b : /\ \A c \in Builds : c # b => build'[c] = build[c]
               /\ b \in Builds => build[b].pc = "idle" \/ UNCHANGED build
  <2>1. CASE AddPlugin(p, g)
    <3>1. PICK b \in Builds : BuildAt(b, "idle") /\ Spawn(b, p)
      BY <2>1 DEF AddPlugin
    <3> QED
      BY <3>1 DEF Spawn, BuildAt, TypeOK
  <2>2. CASE AddPluginFails(p, g)
    BY <2>2 DEF AddPluginFails, memory
  <2> QED
    BY <2>1, <2>2
<1>2. /\ mode = "serving" /\ UNCHANGED <<mode, todo, req, runtime, unstarted, met>>
      /\ InsertRow(p, g)
  BY DEF AddPlugin, AddPluginFails, InsertRow, memory
<1>3. /\ status'[p] = "pending" /\ ~key'[p]
      /\ \A q \in Plugins \ {p} : status'[q] = status[q] /\ key'[q] = key[q]
  BY <1>2 DEF InsertRow, TypeOK
<1>4. \A q \in Plugins : Started(q) => Started(q)'
  BY <1>1, <1>2 DEF Started, BuildOf, StartSteps
<1>5. \A q \in Plugins : Due(q)' => Due(q)
  BY <1>2, <1>3 DEF Due, Listed
<1>6. \A q \in Plugins : q \in Listed' /\ key'[q] => q \in Listed /\ key[q]
  BY <1>3 DEF Listed
<1>7. DisabledNotReady'
  BY <1>2, <1>3 DEF ReadyInv, DisabledNotReady, RequestOf
<1> QED
  BY <1>2, <1>4, <1>5, <1>6, <1>7
     DEF ReadyInv, IdleUnlessServing, MetInv, DueIsStarted, StaleReadIsStarted,
         RequestOf, StaleRead

\* A disable whose answer is lost: no entry is asked for any more.
LEMMA LostDisableKeepsReady ==
  ASSUME TypeOK, ReadyInv, NEW p \in Plugins, DisableStatusFails(p)
  PROVE  ReadyInv'
<1>1. /\ mode = "serving"
      /\ UNCHANGED <<mode, todo, key, build, req, runtime, unstarted, met>>
  BY DEF DisableStatusFails, memory
<1>2. /\ Listed' = Listed
      /\ \A q \in Plugins : status'[q] = "ready" => status[q] = "ready"
  BY SetStatusFacts DEF DisableStatusFails, Statuses
<1>3. \A q \in Plugins : (Due(q)' => Due(q)) /\ (Started(q) => Started(q)')
  BY <1>1, <1>2 DEF Due, Started, BuildOf
<1> QED
  BY <1>1, <1>2, <1>3
     DEF ReadyInv, IdleUnlessServing, MetInv, DueIsStarted, DisabledNotReady,
         StaleReadIsStarted, RequestOf, StaleRead

LEMMA NewRequestKeepsReady ==
  ASSUME TypeOK, ReadyInv, NEW r \in Requests, NEW p \in Plugins, NewRequest(r, p)
  PROVE  ReadyInv'
<1> USE DEF ReqAt, table
<1>1. /\ req[r] = IdleReq /\ mode = "serving"
      /\ UNCHANGED <<mode, todo, key, build, unstarted>>
  BY DEF NewRequest, EnableGet, DisableStatus, DeleteRuntime, RebuildGet, TypeOK,
     ReqSteps
<1>2. /\ req'[r].id = p /\ req'[r].key = key[p]
      /\ req'[r].pc \in {"enStatus", "disRuntime", "delGet", "rebStatus"}
      /\ \A q \in Requests \ {r} : req'[q] = req[q]
      /\ met' = IF RequestOf(p, ReqSteps) THEN met \cup {p} ELSE met
  BY DEF NewRequest, EnableGet, DisableStatus, DeleteRuntime, RebuildGet,
     Accept, TypeOK
<1>3. /\ Listed' = Listed
      /\ \A q \in Plugins : status'[q] = "ready" => status[q] = "ready"
  BY SetStatusFacts
     DEF NewRequest, EnableGet, DisableStatus, DeleteRuntime, RebuildGet,
         Statuses, Listed
<1>4. \A q \in Plugins : Due(q)' => Due(q)
  BY <1>1, <1>3 DEF Due
<1>5. \A q \in Plugins :
        Started(q) => Started(q)' \/ (q = p /\ req'[r].pc = "delGet")
  <2>1. CASE DeleteRuntime(r, p)
    BY <1>1, <2>1 DEF DeleteRuntime, Accept, Started, BuildOf, TypeOK
  <2>2. CASE UNCHANGED runtime
    BY <1>1, <2>2 DEF Started, BuildOf
  <2> QED
    BY <2>1, <2>2 DEF NewRequest, EnableGet, DisableStatus, RebuildGet
\* Nothing changes for the requests of other plugins.
<1>6. \A q \in Plugins : q # p =>
        \A c \in Requests : req[c].id = q \/ req'[c].id = q => req'[c] = req[c]
  BY <1>1, <1>2, NoPluginAssumption DEF IdleReq
\* Where no two requests have met, the new one found none.
<1>7. p \notin met' => /\ p \notin met
                      /\ \A q \in Requests : req[q].id # p
  BY <1>2, NoPluginAssumption DEF TypeOK, IdleReq, RequestOf
<1>8. p \notin met' =>
        /\ \A S : ~RequestOf(p, S)
        /\ \A S : RequestOf(p, S)' <=> req'[r].pc \in S
        /\ StaleRead(p)' <=> req'[r].pc = "enStatus" /\ ~req'[r].key
  BY <1>2, <1>7 DEF RequestOf, StaleRead
<1>9. met \subseteq met'
  BY <1>2
<1>10. DueIsStarted'
  <2> SUFFICES ASSUME NEW q \in Plugins, q \notin met', Due(q)'
               PROVE  Started(q)' \/ RequestOf(q, StartSteps \cup DeleteSteps)'
    BY DEF DueIsStarted
  <2>1. Started(q) \/ RequestOf(q, StartSteps \cup DeleteSteps)
    BY <1>4, <1>9 DEF ReadyInv, DueIsStarted
  <2>2. CASE q # p
    <3>1. Started(q) => Started(q)'
      BY <1>5, <2>2
    <3>2. RequestOf(q, StartSteps \cup DeleteSteps)
            => RequestOf(q, StartSteps \cup DeleteSteps)'
      BY <1>6, <2>2 DEF RequestOf
    <3> QED
      BY <2>1, <3>1, <3>2
  <2>3. CASE q = p
    <3>1. Started(p) /\ p \notin met'
      BY <1>8, <2>1, <2>3
    <3>2. req'[r].pc = "delGet" => RequestOf(p, StartSteps \cup DeleteSteps)'
      BY <1>8, <3>1 DEF DeleteSteps
    <3> QED
      BY <1>5, <2>3, <3>1, <3>2
  <2> QED
    BY <2>2, <2>3
<1>11. DisabledNotReady'
  <2> SUFFICES ASSUME NEW q \in Plugins, q \notin met', RequestOf(q, {"disRuntime"})'
               PROVE  status'[q] # "ready"
    BY DEF DisabledNotReady
  <2>1. CASE q # p
    <3>1. RequestOf(q, {"disRuntime"})
      BY <1>6, <2>1 DEF RequestOf
    <3>2. status[q] # "ready"
      BY <1>9, <3>1 DEF ReadyInv, DisabledNotReady
    <3> QED
      BY <1>3, <3>2
  <2>2. CASE q = p
    <3>1. req'[r].pc = "disRuntime"
      BY <1>8, <2>2
    <3>2. DisableStatus(r, p)
      BY <3>1 DEF NewRequest, EnableGet, DeleteRuntime, RebuildGet, Accept, TypeOK
    <3> QED
      BY <2>2, <3>2, SetStatusFacts DEF DisableStatus, Statuses, Listed
  <2> QED
    BY <2>1, <2>2
<1>12. StaleReadIsStarted'
  <2> SUFFICES ASSUME NEW q \in Plugins, q \notin met', q \in Listed, key[q], StaleRead(q)'
               PROVE  Started(q)' \/ q \in unstarted'
    BY <1>1, <1>3 DEF StaleReadIsStarted
  <2>1. q # p
    BY <1>2, <1>8
  <2>2. Started(q) \/ q \in unstarted
    <3>1. StaleRead(q)
      BY <1>6, <2>1 DEF StaleRead
    <3> QED
      BY <1>9, <3>1 DEF ReadyInv, StaleReadIsStarted
  <2> QED
    BY <1>1, <1>5, <2>1, <2>2
<1>13. MetInv' /\ IdleUnlessServing'
  <2>1. MetInv'
    <3> SUFFICES ASSUME NEW q \in Plugins, q \notin met', NEW r1 \in Requests,
                        NEW r2 \in Requests, req'[r1].id = q, req'[r2].id = q
                 PROVE  r1 = r2
      BY DEF MetInv
    <3>1. CASE q = p
      BY <1>2, <1>7, <3>1
    <3>2. CASE q # p
      <4>1. req[r1].id = q /\ req[r2].id = q /\ q \notin met
        BY <1>2, <1>9, <3>2
      <4> QED
        BY <4>1 DEF ReadyInv, MetInv
    <3> QED
      BY <3>1, <3>2
  <2> QED
    BY <1>1, <2>1 DEF IdleUnlessServing
<1> QED
  BY <1>10, <1>11, <1>12, <1>13 DEF ReadyInv

LEMMA ReqKeepsReady ==
  ASSUME TypeOK, ReadyInv, NEW r \in Requests, ReqStep(r)
  PROVE  ReadyInv'
<1> USE DEF ReqAt, ReqGoto, EndReq, CutOff, Recovered, table
<1>p. PICK p \in Plugins : p = req[r].id
  <2>1. req[r].pc # "idle"
    BY DEF ReqStep, EnableStatus, EnableFetch, EnableAttach, EnableStore,
         DisableRuntime, DeleteGet, DeleteObjects, DeleteRow, RebuildStatus,
         StatusFails
  <2> QED
    BY <2>1, RunningHasPlugin
<1>0. /\ mode = "serving" /\ UNCHANGED <<mode, todo, met>>
      /\ req[r].pc # "idle" /\ p \in Plugins
      /\ req[r] \in [pc : ReqSteps, id : Plugins, key : BOOLEAN]
  BY <1>p, RunningHasPlugin
     DEF ReqStep, EnableStatus, EnableFetch, EnableAttach, EnableStore,
         DisableRuntime, DeleteGet, DeleteObjects, DeleteRow, RebuildStatus,
         StatusFails, TypeOK, IdleReq
<1>1. /\ IdleUnlessServing'
      /\ \A q \in Plugins \ {p} : q \in unstarted' <=> q \in unstarted
      /\ \A q \in Plugins : key'[q] => key[q]
      /\ \A q \in Plugins \ {p} : status'[q] = status[q] /\ runtime'[q] = runtime[q]
      /\ req'[r].id = p \/ req'[r] = IdleReq
      /\ \A q \in Requests \ {r} : req'[q] = req[q]
      /\ req'[r].pc \in {"idle"} \cup StartSteps \cup DeleteSteps
  <2>1. \A q \in Plugins : key'[q] => key[q]
    BY DEF ReqStep, EnableStatus, EnableFetch, EnableAttach, EnableStore,
         DisableRuntime, DeleteGet, DeleteObjects, DeleteRow, RebuildStatus,
         StatusFails, TypeOK
  <2>2. \A q \in Plugins \ {p} : status'[q] = status[q]
    <3>1. CASE EnableStatus(r) \/ RebuildStatus(r) \/ StatusFails(r)
      BY <1>p, <1>0, <3>1, SetStatusFacts
         DEF EnableStatus, RebuildStatus, StatusFails, Statuses
    <3>2. CASE DeleteRow(r)
      BY <1>p, <1>0, <3>2 DEF DeleteRow, TypeOK
    <3> QED
      BY <3>1, <3>2 DEF ReqStep, EnableFetch, EnableAttach, EnableStore,
         DisableRuntime, DeleteGet, DeleteObjects
  <2>3. \A q \in Plugins \ {p} : runtime'[q] = runtime[q]
    BY <1>p, <1>0 DEF ReqStep, EnableStatus, EnableFetch, EnableAttach, EnableStore,
         DisableRuntime, DeleteGet, DeleteObjects, DeleteRow, RebuildStatus,
         StatusFails, TypeOK
  <2>4. \A q \in Requests \ {r} : req'[q] = req[q]
    BY DEF ReqStep, EnableStatus, EnableNext, EnableFetch, EnableAttach, EnableStore,
         DisableRuntime, DeleteGet, DeleteObjects, DeleteRow, RebuildStatus,
         StatusFails, TypeOK
  <2>5. req'[r].id = p \/ req'[r] = IdleReq
    BY <1>p, <1>0 DEF ReqStep, EnableStatus, EnableNext, EnableFetch,
         EnableAttach, EnableStore, DisableRuntime, DeleteGet, DeleteObjects,
         DeleteRow, RebuildStatus, StatusFails, TypeOK
  <2>6. req'[r].pc \in {"idle"} \cup StartSteps \cup DeleteSteps
    BY <1>p, <1>0 DEF ReqStep, EnableStatus, EnableNext, EnableFetch, FetchOutcomes,
         EnableAttach, EnableStore, DisableRuntime, DeleteGet, DeleteObjects,
         DeleteRow, RebuildStatus, StatusFails, TypeOK, IdleReq, StartSteps, DeleteSteps
  <2>7. \A q \in Plugins \ {p} : q \in unstarted' <=> q \in unstarted
    BY <1>p DEF ReqStep, EnableStatus, EnableFetch, EnableAttach, EnableStore,
         DisableRuntime, DeleteGet, DeleteObjects, DeleteRow, RebuildStatus,
         StatusFails
  <2> QED
    BY <1>p, <1>0, <2>1, <2>2, <2>3, <2>4, <2>5, <2>6, <2>7 DEF IdleUnlessServing
<1>2. \A q : BuildOf(q, StartSteps) => BuildOf(q, StartSteps)'
  <2>1. CASE RebuildStatus(r)
    <3>1. PICK b \in Builds : BuildAt(b, "idle") /\ Spawn(b, req[r].id)
      BY <2>1 DEF RebuildStatus
    <3>2. \A c \in Builds \ {b} : build'[c] = build[c]
      BY <3>1 DEF Spawn, TypeOK
    <3> QED
      BY <3>1, <3>2 DEF BuildOf, BuildAt, StartSteps
  <2>2. CASE UNCHANGED build
    BY <2>2 DEF BuildOf
  <2> QED
    BY <2>1, <2>2
       DEF ReqStep, EnableStatus, EnableFetch, EnableAttach, EnableStore,
           DisableRuntime, DeleteGet, DeleteObjects, DeleteRow, StatusFails
\* Nothing changes for the requests of other plugins.
<1>3. \A q \in Plugins : q # p =>
        \A c \in Requests : req[c].id = q \/ req'[c].id = q => req'[c] = req[c]
  BY <1>p, <1>1, NoPluginAssumption DEF IdleReq
<1>4. p \notin met =>
        /\ \A S : RequestOf(p, S) <=> req[r].pc \in S
        /\ \A S : RequestOf(p, S)' <=> req'[r].id = p /\ req'[r].pc \in S
        /\ StaleRead(p) <=> req[r].pc = "enStatus" /\ ~req[r].key
        /\ StaleRead(p)' <=> req'[r].id = p /\ req'[r].pc = "enStatus" /\ ~req'[r].key
  BY <1>p, <1>1, OnlyRequest DEF ReadyInv
<1>5. p \notin met /\ Due(p)' => Started(p)' \/ req'[r].pc \in StartSteps \cup DeleteSteps
  <2> SUFFICES ASSUME p \notin met, Due(p)', req'[r].pc = "idle"
               PROVE  Started(p)'
    BY <1>1
  <2>1. p \in Plugins /\ key[p] /\ status'[p] = "ready" /\ p \in Listed' /\ p \notin unstarted'
    BY <1>p, <1>0, <1>1 DEF Due
  <2>2. CASE EnableStatus(r)
    <3>1. UNCHANGED <<runtime, unstarted>> /\ ~req[r].key /\ req[r].pc = "enStatus"
      BY <1>p, <1>0, <2>2 DEF EnableStatus, EnableNext, TypeOK
    <3>2. p \in Listed
      BY <2>1, <2>2, <1>0, SetStatusFacts DEF EnableStatus, Statuses
    <3>3. StaleRead(p)
      BY <1>4, <3>1
    <3>4. Started(p)
      BY <2>1, <3>1, <3>2, <3>3 DEF ReadyInv, StaleReadIsStarted
    <3> QED
      BY <1>2, <3>1, <3>4 DEF Started
  <2>3. CASE EnableStore(r)
    BY <1>p, <1>0, <2>3 DEF EnableStore, Started, TypeOK
  <2>4. CASE DisableRuntime(r)
    <3>1. RequestOf(p, {"disRuntime"}) /\ status[p] = "ready"
      BY <1>p, <1>0, <2>1, <2>4, <1>4 DEF DisableRuntime
    <3> QED
      BY <1>p, <1>0, <3>1 DEF ReadyInv, DisabledNotReady
  <2>5. CASE DeleteGet(r)
    <3>1. p \notin Listed \/ p \in unstarted'
      BY <1>p, <1>0, <2>1, <2>5 DEF DeleteGet, TypeOK
    <3> QED
      BY <2>1, <2>5, <3>1 DEF DeleteGet, Due, Listed
  <2>6. CASE DeleteRow(r)
    <3>1. status'[p] = "none" \/ p \in unstarted'
      BY <1>p, <1>0, <2>6 DEF DeleteRow, TypeOK
    <3> QED
      BY <2>1, <3>1 DEF Due
  <2>7. CASE RebuildStatus(r)
    <3>1. status'[p] # "ready"
      BY <1>p, <1>0, <2>7, SetStatusFacts DEF RebuildStatus, Statuses, Listed
    <3> QED
      BY <2>1, <3>1
  <2>8. CASE StatusFails(r)
    <3>1. SetStatus(p, "building") => status'[p] # "ready"
      BY <1>0, <2>1, SetStatusFacts DEF Statuses, Listed
    <3>2. /\ UNCHANGED <<status, runtime, unstarted>>
          /\ req[r].pc \in {"enStatus", "rebStatus"}
      BY <1>p, <1>0, <2>1, <2>8, <3>1 DEF StatusFails
    <3>3. Due(p)
      BY <1>p, <1>0, <2>1, <3>2 DEF Due, Listed
    <3>4. Started(p)
      BY <1>p, <1>0, <1>4, <3>2, <3>3
         DEF ReadyInv, DueIsStarted, StartSteps, DeleteSteps
    <3> QED
      BY <1>2, <3>2, <3>4 DEF Started
  <2>9. ~EnableFetch(r) /\ ~EnableAttach(r) /\ ~DeleteObjects(r)
    BY <1>p, <1>0 DEF EnableFetch, FetchOutcomes, EnableAttach, DeleteObjects, TypeOK
  <2> QED
    BY <2>2, <2>3, <2>4, <2>5, <2>6, <2>7, <2>8, <2>9 DEF ReqStep
<1>6. DueIsStarted'
  <2> SUFFICES ASSUME NEW q \in Plugins, q \notin met, Due(q)'
               PROVE  Started(q)' \/ RequestOf(q, StartSteps \cup DeleteSteps)'
    BY <1>0 DEF DueIsStarted
  <2>1. CASE q = p
    <3>1. req'[r].pc \in StartSteps \cup DeleteSteps => req'[r].id = p
      BY <1>1 DEF IdleReq, StartSteps, DeleteSteps
    <3> QED
      BY <1>4, <1>5, <2>1, <3>1
  <2>2. CASE q # p
    <3>1. Due(q)
      BY <1>0, <1>1, <2>2 DEF Due, Listed
    <3>2. Started(q) \/ RequestOf(q, StartSteps \cup DeleteSteps)
      BY <3>1 DEF ReadyInv, DueIsStarted
    <3> QED
      <4>1. Started(q) => Started(q)'
        BY <1>1, <1>2, <2>2 DEF Started
      <4>2. RequestOf(q, StartSteps \cup DeleteSteps)
              => RequestOf(q, StartSteps \cup DeleteSteps)'
        BY <1>3, <2>2 DEF RequestOf
      <4> QED
        BY <3>2, <4>1, <4>2
  <2> QED
    BY <2>1, <2>2
<1>7. DisabledNotReady'
  <2> SUFFICES ASSUME NEW q \in Plugins, q \notin met, RequestOf(q, {"disRuntime"})'
               PROVE  status'[q] # "ready"
    BY <1>0 DEF DisabledNotReady
  <2>1. q # p
    BY <1>1, <1>4 DEF StartSteps, DeleteSteps
  <2> QED
    <3>1. RequestOf(q, {"disRuntime"})
      BY <1>3, <2>1 DEF RequestOf
    <3>2. status[q] # "ready"
      BY <3>1 DEF ReadyInv, DisabledNotReady
    <3> QED
      BY <1>1, <2>1, <3>2
<1>8. StaleReadIsStarted'
  <2> SUFFICES ASSUME NEW q \in Plugins, q \notin met, q \in Listed', key'[q], StaleRead(q)'
               PROVE  Started(q)' \/ q \in unstarted'
    BY <1>0 DEF StaleReadIsStarted
  <2>1. q # p
    BY <1>1, <1>4 DEF StartSteps, DeleteSteps
  <2>2. Started(q) \/ q \in unstarted
    <3>1. StaleRead(q)
      BY <1>3, <2>1 DEF StaleRead
    <3>2. q \in Listed /\ key[q]
      BY <1>1, <2>1 DEF Listed
    <3> QED
      BY <3>1, <3>2 DEF ReadyInv, StaleReadIsStarted
  <2> QED
    BY <1>1, <1>2, <2>1, <2>2 DEF Started
<1>9. MetInv'
  <2> SUFFICES ASSUME NEW q \in Plugins, q \notin met, NEW r1 \in Requests,
                      NEW r2 \in Requests, req'[r1].id = q, req'[r2].id = q
               PROVE  r1 = r2
    BY <1>0 DEF MetInv
  <2>1. \A c \in Requests : req'[c].id = q => req[c].id = q
    BY <1>p, <1>1, NoPluginAssumption DEF IdleReq
  <2> QED
    BY <2>1 DEF ReadyInv, MetInv
<1> QED
  BY <1>1, <1>6, <1>7, <1>8, <1>9 DEF ReadyInv

------------------------------------------------------------------------------
(* The process.                                                            *)

LEMMA ProcessKeepsReady ==
  ASSUME TypeOK, ReadyInv, ProcessStep
  PROVE  ReadyInv'
<1> USE DEF CutOff, Recovered, table, memory, ReadyInv, IdleUnlessServing, MetInv,
            DueIsStarted, DisabledNotReady, StaleReadIsStarted
<1>1. CASE Crash
  <2>1. /\ mode' = "down"
        /\ \A b \in Builds : build'[b].pc = "idle"
        /\ \A r \in Requests : req'[r].pc = "idle" /\ req'[r].id = NoPlugin
    BY <1>1 DEF Crash, IdleBuild, IdleReq
  <2> QED
    BY <2>1, NoPluginAssumption DEF Due, RequestOf, StaleRead
<1>2. CASE Restart
  <2>1. /\ \A b \in Builds : build'[b].pc = "idle"
        /\ \A r \in Requests : req'[r].pc = "idle"
    BY <1>2 DEF Restart, ReadyInv
  <2>2. MetInv'
    BY <1>2 DEF Restart
  <2>3. \A p \in Plugins : ~Due(p)'
    BY <1>2 DEF Restart, Due, Listed
  <2> QED
    BY <2>1, <2>2, <2>3 DEF RequestOf, StaleRead
<1>3. CASE BootDone
  BY <1>3 DEF BootDone, Due, Started, BuildOf, RequestOf, StaleRead, Listed
<1>4. ASSUME NEW p \in Plugins, BootSkip(p) PROVE ReadyInv'
  <2>1. \A q \in Plugins : Due(q)' => Due(q)
    BY <1>4 DEF BootSkip, Startable, Due, Listed
  <2> QED
    BY <1>4, <2>1 DEF BootSkip, Started, BuildOf, RequestOf, StaleRead, Listed
<1>5. ASSUME NEW p \in Plugins, BootStart(p) PROVE ReadyInv'
  <2>1. /\ Listed' = Listed /\ runtime'[p] = "enabled" /\ unstarted' = unstarted \ {p}
        /\ \A q \in Plugins \ {p} : status'[q] = status[q] /\ runtime'[q] = runtime[q]
        /\ todo' = todo \ {p} /\ mode = "boot" /\ UNCHANGED <<mode, key, build, req, met>>
    BY <1>5, SetStatusFacts DEF BootStart, Statuses, Listed, TypeOK
  <2>2. \A q \in Plugins \ {p} : (Due(q)' => Due(q)) /\ (Started(q) => Started(q)')
    BY <2>1 DEF Due, Started, BuildOf
  <2>3. Started(p)'
    BY <2>1 DEF Started
  <2>4. /\ \A b \in Builds : build'[b].pc = "idle"
        /\ \A r \in Requests : req'[r].pc = "idle"
    BY <2>1
  <2> QED
    BY <2>1, <2>2, <2>3, <2>4 DEF RequestOf, StaleRead, StartSteps, DeleteSteps
<1> QED
  BY <1>1, <1>2, <1>3, <1>4, <1>5 DEF ProcessStep

LEMMA ReadyInvHolds == Spec => []ReadyInv
<1>1. Init => ReadyInv
  BY NoPluginAssumption
     DEF Init, ReadyInv, IdleUnlessServing, MetInv, DueIsStarted, DisabledNotReady,
         StaleReadIsStarted, Due, Listed, RequestOf, StaleRead, IdleReq
<1>2. TypeOK /\ ReadyInv /\ [Next]_vars => ReadyInv'
  <2> SUFFICES ASSUME TypeOK, ReadyInv, [Next]_vars
               PROVE  ReadyInv'
    OBVIOUS
  <2>1. CASE UNCHANGED vars
    BY <2>1 DEF vars, table, memory, ReadyInv, IdleUnlessServing, MetInv,
       DueIsStarted, DisabledNotReady, StaleReadIsStarted, Due, Started, StaleRead, BuildOf,
       RequestOf, Listed
  <2> QED
    BY <2>1, AddKeepsReady, LostDisableKeepsReady, BuildKeepsReady,
       NewRequestKeepsReady, ReqKeepsReady, ProcessKeepsReady DEF Next
<1> QED
  BY <1>1, <1>2, TypeCorrect, PTL DEF Spec

\* Between requests, a plugin shown as ready and built is enabled in the
\* runtime, however many requests, builds, crashes, restarts and failures
\* happen.  The excuses are of this process only: two requests for the plugin
\* in flight at once, or, until its next start, a database error in a delete
\* of it, in the boot's listing, or in place of the answer to an enable's or a
\* build's UPDATE.
THEOREM ReadyIsEnabled == Spec => []ReadyMeansEnabled
  BY ReadyInvHolds, ReadyInvSuffices, PTL

------------------------------------------------------------------------------
(* A deleted plugin leaves nothing.                                        *)

\* Only a listed plugin's row names an artifact.
KeyListed == \A p \in Plugins : key[p] => p \in Listed

\* A delete under way that nothing overlaps has the plugin for itself: no other
\* request, no build, and the runtime entry is gone.
DeleteAlone(p) ==
  RequestOf(p, DeleteSteps) =>
    /\ \A r1, r2 \in Requests : req[r1].id = p /\ req[r2].id = p => r1 = r2
    /\ ~BuildOf(p, BuildSteps)
    /\ runtime[p] = "none"
    /\ RequestOf(p, {"delRow"}) => p \notin uploaded

\* A plugin whose row is gone has no build, and no request that writes anything
\* of it; neither the runtime nor the bucket has it.
Gone(p) ==
  /\ ~BuildOf(p, BuildSteps)
  /\ \A r \in Requests : req[r].id = p => req[r].pc \in {"disRuntime"} \cup DeleteSteps
  /\ runtime[p] = "none"
  /\ p \notin uploaded

\* What the invariant grants for a plugin whose delete nothing disturbed.
Clean(p) == DeleteAlone(p) /\ (p \in used \ Listed => Gone(p))

RemovedInv ==
  /\ KeyListed
  /\ \A p \in Plugins \ disturbed : Clean(p)

\* A step that concerns another plugin leaves q clean.
LEMMA OthersStayClean ==
  ASSUME NEW q, Clean(q),
         runtime'[q] = runtime[q], q \in uploaded' => q \in uploaded,
         q \in used' => q \in used, q \in Listed => q \in Listed',
         \A c \in Builds : build'[c].id = q => build'[c] = build[c],
         \A c \in Requests : req'[c].id = q => req'[c] = req[c]
  PROVE  Clean(q)'
<1>1. \A c \in Builds : build'[c].id = q => build[c].id = q /\ build'[c].pc = build[c].pc
  OBVIOUS
<1>2. \A c \in Requests : req'[c].id = q => req[c].id = q /\ req'[c].pc = req[c].pc
  OBVIOUS
<1>3. DeleteAlone(q)'
  BY <1>1, <1>2 DEF Clean, DeleteAlone, BuildOf, RequestOf
<1>4. q \in used' \ Listed' => Gone(q)'
  BY <1>1, <1>2 DEF Clean, Gone, BuildOf
<1> QED
  BY <1>3, <1>4 DEF Clean

\* A listed plugin that no delete concerns is clean.
LEMMA ListedIsClean ==
  ASSUME NEW p, p \in Listed', ~RequestOf(p, DeleteSteps)'
  PROVE  Clean(p)'
  BY DEF Clean, DeleteAlone

LEMMA AddKeepsRemoved ==
  ASSUME TypeOK, InUse, RemovedInv, NEW p \in Plugins, NEW g \in Repos,
         AddPlugin(p, g) \/ AddPluginFails(p, g)
  PROVE  RemovedInv'
<1>1. \A c \in Builds : build'[c] = build[c] \/ build'[c].id = p
  <2>1. CASE AddPlugin(p, g)
    <3>1. PICK b \in Builds : BuildAt(b, "idle") /\ Spawn(b, p)
      BY <2>1 DEF AddPlugin
    <3> QED
      BY <3>1 DEF Spawn, TypeOK
  <2>2. CASE AddPluginFails(p, g)
    BY <2>2 DEF AddPluginFails, memory
  <2> QED
    BY <2>1, <2>2
<1>2. UNCHANGED <<uploaded, req, runtime, disturbed>> /\ InsertRow(p, g)
  BY DEF AddPlugin, AddPluginFails, memory
<1>3. /\ p \in Listed' /\ ~key'[p] /\ p \notin used /\ used' = used \cup {p}
      /\ \A q \in Plugins \ {p} : status'[q] = status[q] /\ key'[q] = key[q]
  BY <1>2 DEF InsertRow, Listed, TypeOK
<1>4. KeyListed'
  BY <1>3 DEF RemovedInv, KeyListed, Listed
<1>5. ~RequestOf(p, DeleteSteps)'
  BY <1>2, <1>3 DEF InUse, RequestOf, DeleteSteps
<1>6. ASSUME NEW q \in Plugins, q \notin disturbed
      PROVE  Clean(q)'
  <2>1. CASE q = p
    BY <1>3, <1>5, <2>1, ListedIsClean
  <2>2. CASE q # p
    <3>1. Clean(q)
      BY <1>6 DEF RemovedInv
    <3>2. q \in Listed => q \in Listed'
      BY <1>3, <2>2 DEF Listed
    <3>3. \A c \in Builds : build'[c].id = q => build'[c] = build[c]
      BY <1>1, <2>2
    <3> QED
      BY <1>2, <1>3, <2>2, <3>1, <3>2, <3>3, OthersStayClean
  <2> QED
    BY <2>1, <2>2
<1> QED
  BY <1>2, <1>4, <1>6 DEF RemovedInv

\* A disable whose answer is lost leaves rows, runtime and bucket to the rest.
LEMMA LostDisableKeepsRemoved ==
  ASSUME TypeOK, RemovedInv, NEW p \in Plugins, DisableStatusFails(p)
  PROVE  RemovedInv'
<1>1. /\ Listed' = Listed
      /\ UNCHANGED <<used, key, uploaded, build, req, runtime, disturbed>>
  BY SetStatusFacts DEF DisableStatusFails, memory, Statuses
<1>2. ASSUME NEW q \in Plugins, Clean(q) PROVE Clean(q)'
  BY <1>1, <1>2, OthersStayClean
<1> QED
  BY <1>1, <1>2 DEF RemovedInv, KeyListed

LEMMA BuildKeepsRemoved ==
  ASSUME TypeOK, InUse, RemovedInv, NEW b \in Builds, BuildStep(b)
  PROVE  RemovedInv'
<1> USE DEF BuildAt, BuildGoto, EndBuild, table
<1> DEFINE pb == build[b].id
<1>0. /\ build \in [Builds -> [pc : BuildSteps, id : Plugins] \cup {IdleBuild}]
      /\ build[b].pc \in BuildSteps /\ pb \in Plugins
      /\ build[b] \in [pc : BuildSteps, id : Plugins]
  BY RunningHasPlugin
     DEF TypeOK, IdleBuild, BuildStep, BuildBegin, BuildBeginFails, BuildFails, BuildLoad,
         BuildCompile, BuildUpload, BuildRecord, BuildRecordFails, BuildFetch,
         BuildAttach, BuildStore
<1>1. /\ \A c \in Builds \ {b} : build'[c] = build[c]
      /\ build'[b].id = pb \/ build'[b] = IdleBuild
      /\ UNCHANGED <<used, req, disturbed>>
  BY <1>0 DEF BuildStep, BuildBegin, BuildBeginFails, BuildFails, RecordError, BuildLoad,
         BuildCompile, BuildUpload, BuildRecord, BuildRecordFails, BuildFetch,
         BuildAttach, BuildStore
<1>2. Listed' = Listed
  BY BuildStarts
<1>3. \A q \in Plugins \ {pb} :
        runtime'[q] = runtime[q] /\ (q \in uploaded' <=> q \in uploaded)
  BY <1>0 DEF BuildStep, BuildBegin, BuildBeginFails, BuildFails, BuildLoad,
         BuildCompile, BuildUpload, BuildRecord, BuildRecordFails, BuildFetch,
         BuildAttach, BuildStore, TypeOK
<1>4. KeyListed'
  <2>1. \A q \in Plugins : key'[q] => key[q] \/ q \in Listed
    <3>1. CASE BuildRecord(b) \/ BuildRecordFails(b)
      BY <1>0, <3>1, RecordRowFacts DEF BuildRecord, BuildRecordFails
    <3> QED
      BY <3>1 DEF BuildStep, BuildBegin, BuildBeginFails, BuildFails, BuildLoad,
         BuildCompile, BuildUpload, BuildFetch, BuildAttach, BuildStore
  <2> QED
    BY <1>2, <2>1 DEF RemovedInv, KeyListed
<1>5. ASSUME NEW q \in Plugins, q \notin disturbed
      PROVE  Clean(q)'
  <2>0. Clean(q)
    BY <1>5 DEF RemovedInv
  <2>1. CASE q = pb
    <3>1. BuildOf(q, BuildSteps) /\ q \in used
      BY <1>0, <2>1 DEF BuildOf, InUse, BuildSteps
    <3>2. q \in Listed /\ ~RequestOf(q, DeleteSteps)
      BY <2>0, <3>1 DEF Clean, Gone, DeleteAlone
    <3> QED
      BY <1>1, <1>2, <3>2, ListedIsClean DEF RequestOf
  <2>2. CASE q # pb
    <3>1. \A c \in Builds : build'[c].id = q => build'[c] = build[c]
      BY <1>1, <1>5, <2>2, NoPluginAssumption DEF IdleBuild
    <3> QED
      BY <1>1, <1>2, <1>3, <2>0, <2>2, <3>1, OthersStayClean
  <2> QED
    BY <2>1, <2>2
<1> QED
  BY <1>1, <1>4, <1>5 DEF RemovedInv

LEMMA NewRequestKeepsRemoved ==
  ASSUME TypeOK, InUse, RemovedInv, NEW r \in Requests, NEW p \in Plugins,
         NewRequest(r, p)
  PROVE  RemovedInv'
<1> USE DEF ReqAt, table
<1>1. /\ req[r].pc = "idle" /\ \A c \in Requests \ {r} : req'[c] = req[c]
      /\ req'[r].id = p
      /\ UNCHANGED <<used, key, uploaded, build>>
  BY DEF NewRequest, EnableGet, DisableStatus, DeleteRuntime, RebuildGet, Accept, TypeOK
<1>2. Listed' = Listed
  BY SetStatusFacts DEF NewRequest, EnableGet, DisableStatus, DeleteRuntime,
     RebuildGet, Statuses, Listed
<1>3. \A q \in Plugins \ {p} : runtime'[q] = runtime[q]
  BY DEF NewRequest, EnableGet, DisableStatus, DeleteRuntime, RebuildGet, TypeOK
\* Only a new delete that finds its row and nothing in flight starts afresh.
<1>4. /\ \A q \in Plugins \ {p} : q \in disturbed => q \in disturbed'
      /\ p \in disturbed' \/ ~RequestOf(p, DeleteSteps)
      /\ p \notin disturbed \/ p \in disturbed' \/ (DeleteRuntime(r, p) /\ p \in Listed)
  BY DEF NewRequest, EnableGet, DisableStatus, DeleteRuntime, RebuildGet, Accept,
     DeleteSteps
<1>5. ASSUME p \notin disturbed'
      PROVE  Clean(p)'
  <2>0. /\ Clean(p) \/ (DeleteRuntime(r, p) /\ p \in Listed)
        /\ ~RequestOf(p, DeleteSteps)
    BY <1>4, <1>5 DEF RemovedInv
  <2>1. CASE EnableGet(r, p) \/ RebuildGet(r, p)
    <3>1. req'[r].pc \notin DeleteSteps /\ p \in Listed
      BY <2>1 DEF EnableGet, RebuildGet, Accept, TypeOK, DeleteSteps
    <3>2. ~RequestOf(p, DeleteSteps)'
      BY <1>1, <2>0, <3>1 DEF RequestOf
    <3> QED
      BY <1>2, <3>1, <3>2, ListedIsClean
  <2>2. CASE DisableStatus(r, p)
    <3>1. req'[r].pc = "disRuntime" /\ UNCHANGED runtime
      BY <2>2 DEF DisableStatus, Accept, TypeOK
    <3>4. Clean(p) \/ p \in Listed
      BY <2>0
    <3>2. ~RequestOf(p, DeleteSteps)'
      BY <1>1, <2>0, <3>1 DEF RequestOf, DeleteSteps
    <3>3. p \in used' \ Listed' => Gone(p)'
      BY <1>1, <1>2, <3>1, <3>4 DEF Clean, Gone, BuildOf
    <3> QED
      BY <3>2, <3>3 DEF Clean, DeleteAlone
  <2>3. CASE DeleteRuntime(r, p)
    <3>1. req'[r].pc = "delGet" /\ runtime'[p] = "none"
      BY <2>3 DEF DeleteRuntime, Accept, TypeOK
    <3>2. ~RequestOf(p, ReqSteps) /\ ~BuildOf(p, BuildSteps)
      BY <1>5, <2>3 DEF DeleteRuntime, Accept, DeleteSteps
    <3>3. \A c \in Requests : req'[c].id = p => c = r
      <4>1. \A c \in Requests : req[c].id # p
        BY <3>2, NoPluginAssumption DEF TypeOK, RequestOf, IdleReq
      <4> QED
        BY <1>1, <4>1
    <3>4. ~BuildOf(p, BuildSteps)'
      BY <1>1, <3>2 DEF BuildOf
    <3>5. ~RequestOf(p, {"delRow"})'
      BY <3>1, <3>3 DEF RequestOf
    <3>6. p \in used' \ Listed' => Gone(p)'
      BY <1>1, <1>2, <2>0, <3>1, <3>3, <3>4 DEF Clean, Gone, DeleteSteps
    <3> QED
      BY <3>1, <3>3, <3>4, <3>5, <3>6 DEF Clean, DeleteAlone
  <2> QED
    BY <2>1, <2>2, <2>3 DEF NewRequest
<1>6. ASSUME NEW q \in Plugins, q # p, q \notin disturbed
      PROVE  Clean(q)'
  <2>1. Clean(q)
    BY <1>6 DEF RemovedInv
  <2>2. \A c \in Requests : req'[c].id = q => req'[c] = req[c]
    BY <1>1, <1>6
  <2> QED
    BY <1>1, <1>2, <1>3, <1>6, <2>1, <2>2, OthersStayClean
<1>7. KeyListed'
  BY <1>1, <1>2 DEF RemovedInv, KeyListed
<1> QED
  BY <1>1, <1>4, <1>5, <1>6, <1>7 DEF RemovedInv

LEMMA ReqKeepsRemoved ==
  ASSUME TypeOK, InUse, RemovedInv, NEW r \in Requests, ReqStep(r)
  PROVE  RemovedInv'
<1> USE DEF ReqAt, ReqGoto, EndReq, table
<1>p. PICK p \in Plugins : p = req[r].id
  <2>1. req[r].pc # "idle"
    BY DEF ReqStep, EnableStatus, EnableFetch, EnableAttach, EnableStore,
         DisableRuntime, DeleteGet, DeleteObjects, DeleteRow, RebuildStatus,
         StatusFails
  <2> QED
    BY <2>1, RunningHasPlugin
<1>0. /\ req[r] \in [pc : ReqSteps, id : Plugins, key : BOOLEAN]
      /\ p \in Plugins /\ p \in used
  BY <1>p, RunningHasPlugin
     DEF ReqStep, EnableStatus, EnableFetch, EnableAttach, EnableStore,
         DisableRuntime, DeleteGet, DeleteObjects, DeleteRow, RebuildStatus,
         StatusFails, TypeOK, IdleReq, InUse
<1>1. /\ \A c \in Requests \ {r} : req'[c] = req[c]
      /\ req'[r].id = p \/ req'[r] = IdleReq
      /\ UNCHANGED used /\ disturbed \subseteq disturbed'
  BY <1>p, <1>0
     DEF ReqStep, EnableStatus, EnableNext, EnableFetch, EnableAttach, EnableStore,
         DisableRuntime, DeleteGet, DeleteObjects, DeleteRow, RebuildStatus,
         StatusFails, TypeOK
<1>2. \A q \in Plugins \ {p} :
        /\ runtime'[q] = runtime[q]
        /\ q \in uploaded' => q \in uploaded
        /\ q \in Listed' <=> q \in Listed
        /\ key'[q] = key[q]
  <2>1. \A q \in Plugins \ {p} : runtime'[q] = runtime[q] /\ key'[q] = key[q]
    BY <1>p, <1>0 DEF ReqStep, EnableStatus, EnableFetch, EnableAttach, EnableStore,
         DisableRuntime, DeleteGet, DeleteObjects, DeleteRow, RebuildStatus,
         StatusFails, TypeOK
  <2>2. \A q \in Plugins \ {p} : status'[q] = status[q]
    <3>1. CASE EnableStatus(r) \/ RebuildStatus(r) \/ StatusFails(r)
      BY <1>p, <1>0, <3>1, SetStatusFacts
         DEF EnableStatus, RebuildStatus, StatusFails, Statuses
    <3>2. CASE DeleteRow(r)
      BY <1>p, <1>0, <3>2 DEF DeleteRow, TypeOK
    <3> QED
      BY <3>1, <3>2 DEF ReqStep, EnableFetch, EnableAttach, EnableStore,
         DisableRuntime, DeleteGet, DeleteObjects
  <2>3. uploaded' \subseteq uploaded
    BY DEF ReqStep, EnableStatus, EnableFetch, EnableAttach, EnableStore,
         DisableRuntime, DeleteGet, DeleteObjects, DeleteRow, RebuildStatus,
         StatusFails
  <2> QED
    BY <2>1, <2>2, <2>3 DEF Listed
<1>3. \A c \in Builds : build'[c] = build[c] \/ build'[c].id = p
  <2>1. CASE RebuildStatus(r)
    BY <1>p, <2>1 DEF RebuildStatus, Spawn, TypeOK
  <2> QED
    BY <2>1 DEF ReqStep, EnableStatus, EnableFetch, EnableAttach, EnableStore,
       DisableRuntime, DeleteGet, DeleteObjects, DeleteRow, StatusFails
<1>4. ASSUME NEW q \in Plugins, q # p, q \notin disturbed
      PROVE  Clean(q)'
  <2>1. Clean(q)
    BY <1>4 DEF RemovedInv
  <2>2. /\ \A c \in Requests : req'[c].id = q => req'[c] = req[c]
        /\ \A c \in Builds : build'[c].id = q => build'[c] = build[c]
    BY <1>p, <1>1, <1>3, <1>4, NoPluginAssumption DEF IdleReq
  <2> QED
    BY <1>1, <1>2, <1>4, <2>1, <2>2, OthersStayClean
<1>5. ASSUME p \notin disturbed'
      PROVE  Clean(p)'
  <2>0. Clean(p)
    BY <1>p, <1>0, <1>1, <1>5 DEF RemovedInv
  \* A delete under way is the one of r.
  <2>1. \A c \in Requests : req[c].id = p /\ c # r =>
          req[c].pc \notin DeleteSteps /\ req[r].pc \notin DeleteSteps
    BY <1>p, <2>0 DEF Clean, DeleteAlone, RequestOf
  <2>2. req'[r].pc \notin DeleteSteps => ~RequestOf(p, DeleteSteps)'
    BY <1>p, <1>1, <2>1 DEF RequestOf
  <2>3. CASE EnableStatus(r) \/ EnableFetch(r) \/ EnableAttach(r) \/ EnableStore(r)
             \/ RebuildStatus(r) \/ StatusFails(r)
    <3>1. req[r].pc \notin {"disRuntime"} \cup DeleteSteps
      BY <2>3 DEF EnableStatus, EnableFetch, EnableAttach, EnableStore, RebuildStatus,
         StatusFails, DeleteSteps
    <3>2. req'[r].pc \notin DeleteSteps
      BY <1>p, <1>0, <2>3 DEF EnableStatus, EnableNext, EnableFetch, FetchOutcomes,
         EnableAttach, EnableStore, RebuildStatus, StatusFails, DeleteSteps, TypeOK,
         IdleReq
    <3>3. p \in Listed
      BY <1>p, <1>0, <2>0, <3>1 DEF Clean, Gone
    <3>4. Listed' = Listed
      BY <2>3, SetStatusFacts DEF EnableStatus, EnableFetch, EnableAttach,
         EnableStore, RebuildStatus, StatusFails, Statuses, Listed
    <3> QED
      BY <2>2, <3>2, <3>3, <3>4, ListedIsClean
  <2>4. CASE DisableRuntime(r)
    <3>1. req'[r] = IdleReq /\ UNCHANGED <<build, uploaded>> /\ Listed' = Listed
      BY <2>4 DEF DisableRuntime, TypeOK, Listed
    <3>2. runtime[p] = "none" => runtime'[p] = "none"
      BY <1>p, <2>4 DEF DisableRuntime
    <3>3. ~RequestOf(p, DeleteSteps)'
      BY <2>2, <3>1 DEF IdleReq, DeleteSteps
    <3>4. p \in used' \ Listed' => Gone(p)'
      <4>1. \A c \in Requests : req'[c].id = p => req'[c] = req[c]
        BY <1>p, <1>0, <1>1, <3>1, NoPluginAssumption DEF IdleReq
      <4> QED
        BY <1>1, <2>0, <3>1, <3>2, <4>1 DEF Clean, Gone, BuildOf
    <3> QED
      BY <3>3, <3>4 DEF Clean, DeleteAlone
  \* The rest are steps of a delete that has the plugin for itself.
  <2>5. CASE DeleteGet(r) \/ DeleteObjects(r) \/ DeleteRow(r)
    <3>1. req[r].pc \in DeleteSteps /\ UNCHANGED <<build, runtime>>
      BY <2>5 DEF DeleteGet, DeleteObjects, DeleteRow, DeleteSteps
    <3>2. /\ \A c \in Requests : req[c].id = p => c = r
          /\ ~BuildOf(p, BuildSteps) /\ runtime[p] = "none"
          /\ req[r].pc = "delRow" => p \notin uploaded
      BY <1>p, <2>0, <3>1 DEF Clean, DeleteAlone, RequestOf
    <3>3. \A c \in Requests : req'[c].id = p => c = r
      BY <1>p, <1>1, <3>2
    <3>4. ~BuildOf(p, BuildSteps)' /\ runtime'[p] = "none"
      BY <3>1, <3>2 DEF BuildOf
    <3>5. req'[r].pc = "delRow" \/ p \notin Listed' => p \notin uploaded'
      <4>1. CASE DeleteGet(r)
        BY <1>p, <1>0, <2>0, <4>1 DEF DeleteGet, TypeOK, IdleReq, Listed, Clean, Gone
      <4>2. CASE DeleteObjects(r)
        BY <1>p, <1>0, <1>5, <4>2 DEF DeleteObjects
      <4>3. CASE DeleteRow(r)
        BY <1>p, <1>0, <3>2, <4>3 DEF DeleteRow
      <4> QED
        BY <2>5, <4>1, <4>2, <4>3
    <3>6. \A c \in Requests : req'[c].id = p => req'[c].pc \in DeleteSteps
      BY <1>p, <1>0, <2>5, <3>3, NoPluginAssumption
         DEF DeleteGet, DeleteObjects, DeleteRow, DeleteSteps, TypeOK, IdleReq
    <3>7. DeleteAlone(p)'
      BY <3>3, <3>4, <3>5 DEF DeleteAlone, RequestOf
    <3>8. p \in used' \ Listed' => Gone(p)'
      BY <3>4, <3>5, <3>6 DEF Gone
    <3> QED
      BY <3>7, <3>8 DEF Clean
  <2> QED
    BY <2>3, <2>4, <2>5 DEF ReqStep
<1>6. KeyListed'
  <2>1. key'[p] => p \in Listed'
    <3>1. CASE DeleteRow(r)
      BY <1>p, <1>0, <3>1 DEF DeleteRow, TypeOK, RemovedInv, KeyListed, Listed
    <3>2. CASE EnableStatus(r) \/ RebuildStatus(r) \/ StatusFails(r)
      <4>1. Listed' = Listed /\ UNCHANGED key
        BY <3>2, SetStatusFacts
           DEF EnableStatus, RebuildStatus, StatusFails, Statuses, Listed
      <4> QED
        BY <1>p, <1>0, <4>1 DEF RemovedInv, KeyListed
    <3> QED
      BY <1>p, <1>0, <3>1, <3>2 DEF ReqStep, EnableFetch, EnableAttach, EnableStore,
         DisableRuntime, DeleteGet, DeleteObjects, RemovedInv, KeyListed, Listed
  <2> QED
    BY <1>2, <2>1 DEF RemovedInv, KeyListed
<1> QED
  BY <1>1, <1>4, <1>5, <1>6 DEF RemovedInv

LEMMA ProcessKeepsRemoved ==
  ASSUME TypeOK, InUse, IdleUnlessServing, RemovedInv, ProcessStep
  PROVE  RemovedInv'
<1> USE DEF table, memory
<1>1. CASE Crash
  <2>1. /\ \A c \in Builds : build'[c].pc = "idle"
        /\ \A c \in Requests : req'[c].pc = "idle" /\ req'[c].id = NoPlugin
        /\ \A q \in Plugins : runtime'[q] = "none"
        /\ UNCHANGED <<uploaded, used, status, key, disturbed>>
    BY <1>1 DEF Crash, IdleBuild, IdleReq
  <2>2. ASSUME NEW q \in Plugins, q \notin disturbed
        PROVE  Clean(q)'
    <3>1. Clean(q)
      BY <2>2 DEF RemovedInv
    <3>2. ~BuildOf(q, BuildSteps)' /\ ~RequestOf(q, DeleteSteps)'
      BY <2>1 DEF BuildOf, RequestOf, BuildSteps, DeleteSteps
    <3>3. \A c \in Requests : req'[c].id # q
      BY <2>1, NoPluginAssumption
    <3> QED
      BY <2>1, <3>1, <3>2, <3>3 DEF Clean, DeleteAlone, Gone, Listed
  <2> QED
    BY <2>1, <2>2 DEF RemovedInv, KeyListed, Listed
<1>2. CASE Restart \/ BootDone \/ \E p \in Plugins : BootSkip(p)
  <2>1. UNCHANGED <<uploaded, used, status, key, build, req, runtime, disturbed>>
    BY <1>2 DEF Restart, BootDone, BootSkip
  <2>2. ASSUME NEW q \in Plugins, Clean(q) PROVE Clean(q)'
    BY <2>1, <2>2, OthersStayClean DEF Listed
  <2> QED
    BY <2>1, <2>2 DEF RemovedInv, KeyListed, Listed
<1>3. ASSUME NEW p \in Plugins, BootStart(p) PROVE RemovedInv'
  <2>1. /\ Listed' = Listed
        /\ \A q \in Plugins \ {p} : runtime'[q] = runtime[q]
        /\ mode = "boot" /\ key[p]
        /\ UNCHANGED <<uploaded, used, key, build, req, disturbed>>
    BY <1>3, SetStatusFacts DEF BootStart, Startable, Statuses, Listed, TypeOK
  <2>2. ~RequestOf(p, DeleteSteps)' /\ p \in Listed
    BY <2>1 DEF IdleUnlessServing, RequestOf, DeleteSteps, RemovedInv, KeyListed
  <2>3. ASSUME NEW q \in Plugins, Clean(q) PROVE Clean(q)'
    <3>1. CASE q = p
      BY <2>1, <2>2, <3>1, ListedIsClean
    <3>2. CASE q # p
      BY <2>1, <2>3, <3>2, OthersStayClean
    <3> QED
      BY <3>1, <3>2
  <2> QED
    BY <2>1, <2>3 DEF RemovedInv, KeyListed
<1> QED
  BY <1>1, <1>2, <1>3 DEF ProcessStep

\* Deleting is complete: whatever failed builds, earlier requests and deletes
\* that were cut short left behind, and whatever crashes, a plugin whose row is
\* gone has no runtime entry and no object in the bucket, unless S3 refused its
\* last delete or another operation on it overlapped that delete.
THEOREM RemovalsAreComplete == Spec => []RemovalIsComplete
<1>1. Init => RemovedInv
  BY DEF Init, RemovedInv, KeyListed, Clean, DeleteAlone, Gone, RequestOf, IdleReq,
     DeleteSteps
<1>2. TypeOK /\ InUse /\ IdleUnlessServing /\ RemovedInv /\ [Next]_vars => RemovedInv'
  <2> SUFFICES ASSUME TypeOK, InUse, IdleUnlessServing, RemovedInv, [Next]_vars
               PROVE  RemovedInv'
    OBVIOUS
  <2>1. CASE UNCHANGED vars
    BY <2>1 DEF vars, table, memory, RemovedInv, KeyListed, Clean, DeleteAlone,
       Gone, BuildOf, RequestOf, Listed
  <2> QED
    BY <2>1, AddKeepsRemoved, LostDisableKeepsRemoved, BuildKeepsRemoved, NewRequestKeepsRemoved,
       ReqKeepsRemoved, ProcessKeepsRemoved DEF Next
<1>3. ArtifactInv /\ ReadyInv => InUse /\ IdleUnlessServing
  BY DEF ArtifactInv, ReadyInv
<1>4. TypeOK /\ RemovedInv => RemovalIsComplete
  BY DEF TypeOK, RemovedInv, Clean, Gone, RemovalIsComplete
<1> QED
  BY <1>1, <1>2, <1>3, <1>4, TypeCorrect, ArtifactInvHolds, ReadyInvHolds, PTL
     DEF Spec

==============================================================================
