--------------------------- MODULE PluginLifecycle ---------------------------
(***************************************************************************)
(* The life of a plugin in the monitoring server: plugin/service.go and    *)
(* plugin/runtime.go over the plugins table (storage/postgres) and the     *)
(* artifact bucket (storage/s3).                                           *)
(*                                                                         *)
(* A build is a goroutine (buildPlugin) that outlives the HTTP request     *)
(* which spawned it; delete, enable, disable and rebuild are HTTP request  *)
(* goroutines.  No lock covers an operation: each step below is one SQL    *)
(* statement, one S3 call or one critical section, and steps of different  *)
(* goroutines interleave freely.  The table and the bucket survive a crash *)
(* of the process, everything else is memory.                              *)
(***************************************************************************)
EXTENDS Naturals, FiniteSets

CONSTANTS
  Plugins,        \* plugin ids; uuid.New() hands each out at most once
  NoPlugin,       \* the id of an idle goroutine slot
  Repos,          \* git URLs a plugin can be added from
  Names,          \* plugin names
  RepoName,       \* [Repos -> Names]: extractPluginName(gitURL)
  ManifestName,   \* [Repos -> Names]: the name in the repository's manifest.yml
  Requests,       \* HTTP request goroutines (bounds concurrent requests)
  Builds,         \* build goroutines (bounds concurrent builds)
  Faults          \* the kinds of failure that may happen in this instance

FaultKinds == {"db", "s3", "git", "build", "bpf", "crash"}

ASSUME NamesAssumption ==
  /\ Repos # {}
  /\ RepoName \in [Repos -> Names]
  /\ ManifestName \in [Repos -> Names]

ASSUME NoPluginAssumption == NoPlugin \notin Plugins

ASSUME FaultsAssumption == Faults \subseteq FaultKinds

VARIABLES
  mode,      \* "down", "boot" (StartAllPlugins) or "serving" (HTTP server up)
  todo,      \* boot: ids listed by StartAllPlugins and not yet handled
  used,      \* ids handed out so far
  status,    \* the row's status column, "none" when there is no row
  name,      \* the row's name column
  repo,      \* the row's git_url column
  key,       \* whether the row's ebpf_s3_key column is set
  uploaded,  \* ids whose object plugins/<id>/ebpf.o is in the bucket
  build,     \* per build goroutine: the next step and the plugin
  req,       \* per request goroutine: the next step, plugin, and key it read
  runtime,   \* Runtime.pluginRuntimes: absent, enabled or disabled
  attached,  \* ids with an eBPF program loaded and attached to the kernel
  readers,   \* ids with an event reader whose context lasts
  lapsed,    \* history: ids whose operation was cut short (see Lapse below)
  unstarted, \* history: ids a database error cut off from their start (see
             \* CutOff below)
  met,       \* history: ids on which, since the process started, two requests
             \* were in flight at once (see Accept below)
  disturbed  \* history: ids whose last delete was overlapped by a request or a
             \* build of the plugin (see Accept below), or refused by S3

memory == <<build, req, runtime, attached, readers>>
table  == <<used, status, name, repo, key>>
vars   == <<mode, todo, table, uploaded, memory, lapsed, unstarted, met,
            disturbed>>

------------------------------------------------------------------------------
Statuses == {"pending", "building", "ready", "stopped", "error"}

BuildSteps == {"begin", "load", "compile", "upload", "record",
               "fetch", "attach", "store"}
ReqSteps   == {"delGet", "delObjects", "delRow",
               "enStatus", "fetch", "attach", "store",
               "disRuntime", "rebStatus"}

\* The state of a goroutine slot nothing runs in.
IdleBuild == [pc |-> "idle", id |-> NoPlugin]
IdleReq   == [pc |-> "idle", id |-> NoPlugin, key |-> FALSE]

TypeOK ==
  /\ mode \in {"down", "boot", "serving"}
  /\ todo \subseteq Plugins
  /\ used \subseteq Plugins
  /\ status \in [Plugins -> Statuses \cup {"none"}]
  /\ name \in [Plugins -> Names]
  /\ repo \in [Plugins -> Repos]
  /\ key \in [Plugins -> BOOLEAN]
  /\ uploaded \subseteq Plugins
  /\ build \in [Builds -> [pc : BuildSteps, id : Plugins] \cup {IdleBuild}]
  /\ req \in [Requests -> [pc : ReqSteps, id : Plugins, key : BOOLEAN]
                           \cup {IdleReq}]
  /\ runtime \in [Plugins -> {"none", "enabled", "disabled"}]
  /\ attached \subseteq Plugins
  /\ readers \subseteq Plugins
  /\ lapsed \subseteq Plugins
  /\ unstarted \subseteq Plugins
  /\ met \subseteq Plugins
  /\ disturbed \subseteq Plugins

\* The ids that have a row.
Listed == {p \in Plugins : status[p] # "none"}

Init ==
  /\ mode = "serving"
  /\ todo = {}
  /\ used = {}
  /\ status = [p \in Plugins |-> "none"]
  /\ name = [p \in Plugins |-> CHOOSE n \in Names : TRUE]
  /\ repo = [p \in Plugins |-> CHOOSE g \in Repos : TRUE]
  /\ key = [p \in Plugins |-> FALSE]
  /\ uploaded = {}
  /\ build = [b \in Builds |-> IdleBuild]
  /\ req = [r \in Requests |-> IdleReq]
  /\ runtime = [p \in Plugins |-> "none"]
  /\ attached = {}
  /\ readers = {}
  /\ lapsed = {}
  /\ unstarted = {}
  /\ met = {}
  /\ disturbed = {}

------------------------------------------------------------------------------
(* PluginRepo: one statement each.  An UPDATE or DELETE whose WHERE clause  *)
(* matches no row succeeds and changes nothing.  A statement that reports   *)
(* an error may have been committed, its answer lost.                       *)

\* Mutant of SetStatus: an upsert, which would bring a deleted row back.
UpsertStatus(p, s) == status' = [status EXCEPT ![p] = s]

\* UpdateStatus: UPDATE plugins SET status = s WHERE id = p.
SetStatus(p, s) ==
  status' = IF status[p] = "none" THEN status ELSE [status EXCEPT ![p] = s]

\* Mutant of NameTaken: the table without its UNIQUE constraint.
NameNeverTaken(p, n) == FALSE

\* The UNIQUE constraint on plugins.name: another row already has name n.
NameTaken(p, n) == \E q \in Listed \ {p} : name[q] = n

\* History: record that an operation on the ids of S was cut short, by a
\* database error, a violated constraint or a crash.  Never read by an action.
Lapse(S) == lapsed' = lapsed \cup S

\* History: record that a database error ended an operation on the ids of S
\* with the row saved and the runtime entry missing; and that a start of p
\* made up for it.  Never read by an action.
CutOff(S) == unstarted' = unstarted \cup S
Recovered(p) == unstarted' = unstarted \ {p}

------------------------------------------------------------------------------
(* Goroutines: moving to the next step, ending, and failing.               *)

BuildAt(b, step) == mode = "serving" /\ build[b].pc = step
BuildGoto(b, step) == build' = [build EXCEPT ![b].pc = step]

\* Mutant of EndBuild: the slot keeps the id of the plugin it built.
EndBuildKeepsId(b) == build' = [build EXCEPT ![b].pc = "idle"]

EndBuild(b) == build' = [build EXCEPT ![b] = IdleBuild]
Spawn(b, p) == build' = [build EXCEPT ![b] = [pc |-> "begin", id |-> p]]

\* The builds and the requests of p at one of these steps.
BuildOf(p, steps) == \E b \in Builds : build[b].id = p /\ build[b].pc \in steps
RequestOf(p, steps) == \E r \in Requests : req[r].id = p /\ req[r].pc \in steps

ReqAt(r, step) == mode = "serving" /\ req[r].pc = step
ReqGoto(r, step) == req' = [req EXCEPT ![r].pc = step]
EndReq(r) == req' = [req EXCEPT ![r] = IdleReq]

DeleteSteps == {"delGet", "delObjects", "delRow"}

\* A request for p, and the history of which operations on p were in flight at
\* once: never read by an action.  A rebuild that spawns a build while p is
\* deleted is itself a request that overlaps the delete.
Accept(r, p, step) ==
  /\ req' = [req EXCEPT ![r] = [pc |-> step, id |-> p, key |-> key[p]]]
  /\ met' = IF RequestOf(p, ReqSteps) THEN met \cup {p} ELSE met
  /\ disturbed' = IF \/ RequestOf(p, DeleteSteps)
                     \/ /\ step \in DeleteSteps
                        /\ RequestOf(p, ReqSteps) \/ BuildOf(p, BuildSteps)
                  THEN disturbed \cup {p}
                  ELSE IF step \in DeleteSteps /\ p \in Listed
                  THEN disturbed \ {p} ELSE disturbed

------------------------------------------------------------------------------
(* LoadPlugin: INSERT the row, then spawn the build.  A build goroutine     *)
(* that has not run yet is the same as one not yet spawned, so the INSERT   *)
(* and the go statement are one step.                                       *)

InsertRow(p, g) ==
  /\ mode = "serving"
  /\ p \notin used
  /\ ~NameTaken(p, RepoName[g])
  /\ used' = used \cup {p}
  /\ status' = [status EXCEPT ![p] = "pending"]
  /\ name' = [name EXCEPT ![p] = RepoName[g]]
  /\ repo' = [repo EXCEPT ![p] = g]
  /\ key' = [key EXCEPT ![p] = FALSE]

AddPlugin(p, g) ==
  /\ InsertRow(p, g)
  /\ \E b \in Builds : BuildAt(b, "idle") /\ Spawn(b, p)
  /\ UNCHANGED <<mode, todo, uploaded, req, runtime, attached, readers,
                 lapsed, unstarted, met, disturbed>>

\* The INSERT is committed and its answer lost: the row waits for a build that
\* nobody spawns.  An INSERT that is not committed changes nothing.
AddPluginFails(p, g) ==
  /\ InsertRow(p, g)
  /\ "db" \in Faults
  /\ Lapse({p})
  /\ UNCHANGED <<mode, todo, uploaded, memory, unstarted, met, disturbed>>

------------------------------------------------------------------------------
(* buildPlugin.                                                            *)

BuildBegin(b) ==
  LET p == build[b].id IN
  /\ BuildAt(b, "begin")
  /\ SetStatus(p, "building")
  /\ BuildGoto(b, "load")
  /\ UNCHANGED <<mode, todo, used, name, repo, key, uploaded, req, runtime,
                 attached, readers, lapsed, unstarted, met, disturbed>>

\* The first UpdateStatus reports an error: the goroutine returns without
\* another word.
BuildBeginFails(b) ==
  /\ BuildAt(b, "begin")
  /\ "db" \in Faults
  /\ SetStatus(build[b].id, "building") \/ UNCHANGED status
  /\ EndBuild(b)
  /\ Lapse({build[b].id})
  /\ UNCHANGED <<mode, todo, used, name, repo, key, uploaded, req, runtime,
                 attached, readers, unstarted, met, disturbed>>

\* Mutant of RecordError: the error is only logged.
ForgetError(b) == UNCHANGED <<status, lapsed>>

\* handleBuildError: store status "error"; when that fails too, only log it.
RecordError(b) ==
  \/ SetStatus(build[b].id, "error") /\ UNCHANGED lapsed
  \/ "db" \in Faults /\ Lapse({build[b].id}) /\ UNCHANGED status

\* Load, Build, reading the object file, or the upload fails.  An upload
\* whose answer is lost may have stored the object.
BuildFails(b) ==
  LET p == build[b].id IN
  /\ \/ BuildAt(b, "load") /\ "git" \in Faults
     \/ BuildAt(b, "compile") /\ "build" \in Faults
     \/ BuildAt(b, "upload") /\ "s3" \in Faults
  /\ uploaded' \in {uploaded} \cup
                   (IF build[b].pc = "upload" THEN {uploaded \cup {p}} ELSE {})
  /\ RecordError(b)
  /\ EndBuild(b)
  /\ UNCHANGED <<mode, todo, used, name, repo, key, req, runtime, attached,
                 readers, unstarted, met, disturbed>>

BuildLoad(b) ==
  /\ BuildAt(b, "load")
  /\ BuildGoto(b, "compile")
  /\ UNCHANGED <<mode, todo, table, uploaded, req, runtime, attached, readers,
                 lapsed, unstarted, met, disturbed>>

BuildCompile(b) ==
  /\ BuildAt(b, "compile")
  /\ BuildGoto(b, "upload")
  /\ UNCHANGED <<mode, todo, table, uploaded, req, runtime, attached, readers,
                 lapsed, unstarted, met, disturbed>>

\* Mutant of BuildUpload: an upload that stores nothing and reports success.
BuildUploadNothing(b) ==
  /\ BuildAt(b, "upload")
  /\ BuildGoto(b, "record")
  /\ UNCHANGED <<mode, todo, table, uploaded, req, runtime, attached, readers,
                 lapsed, unstarted, met, disturbed>>

BuildUpload(b) ==
  /\ BuildAt(b, "upload")
  /\ uploaded' = uploaded \cup {build[b].id}
  /\ BuildGoto(b, "record")
  /\ UNCHANGED <<mode, todo, table, req, runtime, attached, readers, lapsed,
                 unstarted, met, disturbed>>

\* Update: UPDATE plugins SET name, ebpf_s3_key, status, ... WHERE id = p.  The
\* row gets the manifest's name, the key, and status "stopped".
RecordRow(p) ==
  LET n == ManifestName[repo[p]] IN
  /\ ~(p \in Listed /\ NameTaken(p, n))
  /\ SetStatus(p, "stopped")
  /\ name' = IF p \in Listed THEN [name EXCEPT ![p] = n] ELSE name
  /\ key' = IF p \in Listed THEN [key EXCEPT ![p] = TRUE] ELSE key

BuildRecord(b) ==
  /\ BuildAt(b, "record")
  /\ RecordRow(build[b].id)
  /\ BuildGoto(b, "fetch")
  /\ UNCHANGED <<mode, todo, used, repo, uploaded, req, runtime, attached,
                 readers, lapsed, unstarted, met, disturbed>>

\* The UPDATE violates the UNIQUE constraint or reports another error: the
\* error is logged and the goroutine returns, with the row as it was or, when
\* only the answer was lost, recorded and not started.
BuildRecordFails(b) ==
  LET p == build[b].id IN
  /\ BuildAt(b, "record")
  /\ \/ /\ \/ "db" \in Faults
           \/ p \in Listed /\ NameTaken(p, ManifestName[repo[p]])
        /\ UNCHANGED <<status, name, key, unstarted>>
     \/ "db" \in Faults /\ RecordRow(p) /\ CutOff({p})
  /\ EndBuild(b)
  /\ Lapse({p})
  /\ UNCHANGED <<mode, todo, used, repo, uploaded, req, runtime, attached,
                 readers, met, disturbed>>

------------------------------------------------------------------------------
(* Runtime.StartPlugin, called by builds and by enable requests: download   *)
(* the object, load and attach the program, store the runtime entry.  A     *)
(* failed download or load is logged and the entry is stored all the same.  *)

\* The step after the download: the load when the object arrived.
FetchOutcomes(p) ==
  (IF p \in uploaded THEN {"attach"} ELSE {}) \cup
  (IF p \notin uploaded \/ "s3" \in Faults THEN {"store"} ELSE {})

BuildFetch(b) ==
  /\ BuildAt(b, "fetch")
  /\ \E step \in FetchOutcomes(build[b].id) : BuildGoto(b, step)
  /\ UNCHANGED <<mode, todo, table, uploaded, req, runtime, attached, readers,
                 lapsed, unstarted, met, disturbed>>

\* The build's context is context.Background(): its reader lasts.
BuildAttach(b) ==
  LET p == build[b].id IN
  /\ BuildAt(b, "attach")
  /\ \/ attached' = attached \cup {p} /\ readers' = readers \cup {p}
     \/ "bpf" \in Faults /\ UNCHANGED <<attached, readers>>
  /\ BuildGoto(b, "store")
  /\ UNCHANGED <<mode, todo, table, uploaded, req, runtime, lapsed, unstarted,
                 met, disturbed>>

\* Store the entry, under Runtime.mu, then clean up and end.
BuildStore(b) ==
  /\ BuildAt(b, "store")
  /\ runtime' = [runtime EXCEPT ![build[b].id] = "enabled"]
  /\ Recovered(build[b].id)
  /\ EndBuild(b)
  /\ UNCHANGED <<mode, todo, table, uploaded, req, attached, readers, lapsed,
                 met, disturbed>>

------------------------------------------------------------------------------
(* EnablePlugin: read the row, store status "ready", start the runtime when *)
(* the row that was read has an artifact.                                   *)

EnableGet(r, p) ==
  /\ ReqAt(r, "idle")
  /\ p \in Listed
  /\ Accept(r, p, "enStatus")
  /\ UNCHANGED <<mode, todo, table, uploaded, build, runtime, attached,
                 readers, lapsed, unstarted>>

\* Mutant of EnableNext: a plugin with a runtime entry, even a disabled one,
\* is taken to be running.
EnableNextIfAbsent(r) ==
  IF req[r].key /\ runtime[req[r].id] = "none"
  THEN ReqGoto(r, "fetch") ELSE EndReq(r)

\* plugin.EBPFS3Key != "" is tested on the row read at the start.
EnableNext(r) == IF req[r].key THEN ReqGoto(r, "fetch") ELSE EndReq(r)

EnableStatus(r) ==
  /\ ReqAt(r, "enStatus")
  /\ SetStatus(req[r].id, "ready")
  /\ EnableNext(r)
  /\ UNCHANGED <<mode, todo, used, name, repo, key, uploaded, build, runtime,
                 attached, readers, lapsed, unstarted, met, disturbed>>

EnableFetch(r) ==
  /\ ReqAt(r, "fetch")
  /\ \E step \in FetchOutcomes(req[r].id) : ReqGoto(r, step)
  /\ UNCHANGED <<mode, todo, table, uploaded, build, runtime, attached,
                 readers, lapsed, unstarted, met, disturbed>>

\* The reader runs under the request's context, which net/http cancels when
\* the handler returns: the program stays attached, its reader does not last.
EnableAttach(r) ==
  /\ ReqAt(r, "attach")
  /\ \/ attached' = attached \cup {req[r].id}
     \/ "bpf" \in Faults /\ UNCHANGED attached
  /\ ReqGoto(r, "store")
  /\ UNCHANGED <<mode, todo, table, uploaded, build, runtime, readers, lapsed,
                 unstarted, met, disturbed>>

EnableStore(r) ==
  /\ ReqAt(r, "store")
  /\ runtime' = [runtime EXCEPT ![req[r].id] = "enabled"]
  /\ Recovered(req[r].id)
  /\ EndReq(r)
  /\ UNCHANGED <<mode, todo, table, uploaded, build, attached, readers,
                 lapsed, met, disturbed>>

------------------------------------------------------------------------------
(* DisablePlugin: store status "stopped" (whether or not there is a row),   *)
(* then clear the entry's Enabled flag.  Nothing is unloaded.               *)

DisableStatus(r, p) ==
  /\ ReqAt(r, "idle")
  /\ p \in used
  /\ SetStatus(p, "stopped")
  /\ Accept(r, p, "disRuntime")
  /\ UNCHANGED <<mode, todo, used, name, repo, key, uploaded, build, runtime,
                 attached, readers, lapsed, unstarted>>

\* The UPDATE is committed and its answer lost: the handler answers 500 and
\* the runtime entry keeps its flag.
DisableStatusFails(p) ==
  /\ mode = "serving"
  /\ "db" \in Faults
  /\ p \in used
  /\ SetStatus(p, "stopped")
  /\ UNCHANGED <<mode, todo, used, name, repo, key, uploaded, memory, lapsed,
                 unstarted, met, disturbed>>

\* Runtime.DisablePlugin; without an entry it returns an error.
DisableRuntime(r) ==
  LET p == req[r].id IN
  /\ ReqAt(r, "disRuntime")
  /\ runtime' = IF runtime[p] = "none" THEN runtime
                ELSE [runtime EXCEPT ![p] = "disabled"]
  /\ EndReq(r)
  /\ UNCHANGED <<mode, todo, table, uploaded, build, attached, readers,
                 lapsed, unstarted, met, disturbed>>

------------------------------------------------------------------------------
(* DeletePlugin: remove the runtime entry, read the row, delete the objects *)
(* (errors are only logged), delete the row.                                *)

\* Runtime.RemovePlugin drops the entry and leaves the program loaded.
DeleteRuntime(r, p) ==
  /\ ReqAt(r, "idle")
  /\ p \in used
  /\ runtime' = [runtime EXCEPT ![p] = "none"]
  /\ Accept(r, p, "delGet")
  /\ UNCHANGED <<mode, todo, table, uploaded, build, attached, readers,
                 lapsed, unstarted>>

\* No row, or a failed SELECT, ends the request: the runtime is gone already.
DeleteGet(r) ==
  /\ ReqAt(r, "delGet")
  /\ \/ req[r].id \in Listed /\ ReqGoto(r, "delObjects")
        /\ UNCHANGED <<lapsed, unstarted>>
     \/ req[r].id \notin Listed /\ EndReq(r) /\ UNCHANGED <<lapsed, unstarted>>
     \/ "db" \in Faults /\ EndReq(r)
        /\ Lapse({req[r].id}) /\ CutOff({req[r].id})
  /\ UNCHANGED <<mode, todo, table, uploaded, build, runtime, attached,
                 readers, met, disturbed>>

\* Mutant of DeleteObjects: delete the object that the row names.
DeleteNamedObject(r) ==
  LET p == req[r].id IN
  /\ ReqAt(r, "delObjects")
  /\ uploaded' = IF key[p] THEN uploaded \ {p} ELSE uploaded
  /\ ReqGoto(r, "delRow")
  /\ UNCHANGED <<mode, todo, table, build, runtime, attached, readers, lapsed,
                 unstarted, met, disturbed>>

\* Whatever lies under the plugin's prefix; on an error the delete goes on to
\* the row, and nothing will ask for the objects again.  (An error after the
\* object was removed leaves what success does.)
DeleteObjects(r) ==
  /\ ReqAt(r, "delObjects")
  /\ \/ uploaded' = uploaded \ {req[r].id} /\ UNCHANGED disturbed
     \/ "s3" \in Faults /\ disturbed' = disturbed \cup {req[r].id}
        /\ UNCHANGED uploaded
  /\ ReqGoto(r, "delRow")
  /\ UNCHANGED <<mode, todo, table, build, runtime, attached, readers, lapsed,
                 unstarted, met>>

\* A DELETE that was committed and whose answer was lost does what success does.
DeleteRow(r) ==
  /\ ReqAt(r, "delRow")
  /\ \/ /\ status' = [status EXCEPT ![req[r].id] = "none"]
        /\ key' = [key EXCEPT ![req[r].id] = FALSE]
        /\ UNCHANGED <<lapsed, unstarted>>
     \/ "db" \in Faults /\ Lapse({req[r].id}) /\ CutOff({req[r].id})
        /\ UNCHANGED <<status, key>>
  /\ EndReq(r)
  /\ UNCHANGED <<mode, todo, used, name, repo, uploaded, build, runtime,
                 attached, readers, met, disturbed>>

------------------------------------------------------------------------------
(* RebuildPlugin: read the row, store status "building", spawn a build.     *)
(* Nothing stops a second build of the same plugin.                         *)

RebuildGet(r, p) ==
  /\ ReqAt(r, "idle")
  /\ p \in Listed
  /\ Accept(r, p, "rebStatus")
  /\ UNCHANGED <<mode, todo, table, uploaded, build, runtime, attached,
                 readers, lapsed, unstarted>>

RebuildStatus(r) ==
  LET p == req[r].id IN
  /\ ReqAt(r, "rebStatus")
  /\ SetStatus(p, "building")
  /\ \E b \in Builds : BuildAt(b, "idle") /\ Spawn(b, p)
  /\ EndReq(r)
  /\ UNCHANGED <<mode, todo, used, name, repo, key, uploaded, runtime,
                 attached, readers, lapsed, unstarted, met, disturbed>>

\* The UpdateStatus of an enable or a rebuild reports an error: the handler
\* answers 500 and does no more.  When only the answer was lost, the row says
\* "ready" of a plugin nobody starts, or "building" with no build.
StatusFails(r) ==
  LET p == req[r].id IN
  /\ "db" \in Faults
  /\ \/ /\ ReqAt(r, "enStatus") \/ ReqAt(r, "rebStatus")
        /\ UNCHANGED <<status, lapsed, unstarted>>
     \/ /\ ReqAt(r, "enStatus")
        /\ SetStatus(p, "ready")
        /\ CutOff({p})
        /\ UNCHANGED lapsed
     \/ /\ ReqAt(r, "rebStatus")
        /\ SetStatus(p, "building")
        /\ Lapse({p})
        /\ UNCHANGED unstarted
  /\ EndReq(r)
  /\ UNCHANGED <<mode, todo, used, name, repo, key, uploaded, build, runtime,
                 attached, readers, met, disturbed>>

------------------------------------------------------------------------------
(* The process.  It dies by a signal, a fatal error or a power cut at any   *)
(* step; the shutdown path of main closes neither the runtime nor the       *)
(* builds, so it ends the same way.                                         *)

InFlight == {build[b].id : b \in {c \in Builds : build[c].pc # "idle"}} \cup
            {req[r].id : r \in {q \in Requests : req[q].pc # "idle"}}

Crash ==
  /\ "crash" \in Faults
  /\ mode # "down"
  /\ mode' = "down"
  /\ todo' = {}
  /\ build' = [b \in Builds |-> IdleBuild]
  /\ req' = [r \in Requests |-> IdleReq]
  /\ runtime' = [p \in Plugins |-> "none"]
  /\ attached' = {}
  /\ readers' = {}
  /\ met' = {}
  /\ unstarted' = {}
  /\ Lapse(InFlight)
  /\ UNCHANGED <<table, uploaded, disturbed>>

\* StartAllPlugins runs before the HTTP server and lists every row.  When the
\* query fails the server comes up with no plugin started.
Restart ==
  /\ mode = "down"
  /\ \/ mode' = "boot" /\ todo' = Listed /\ UNCHANGED <<lapsed, unstarted>>
     \/ "db" \in Faults /\ mode' = "serving" /\ todo' = {}
        /\ Lapse(Listed) /\ CutOff(Listed)
  /\ UNCHANGED <<table, uploaded, memory, met, disturbed>>

Startable(p) == key[p] /\ status[p] \notin {"pending", "building"}

BootSkip(p) ==
  /\ mode = "boot" /\ p \in todo
  /\ ~Startable(p)
  /\ todo' = todo \ {p}
  /\ UNCHANGED <<mode, table, uploaded, memory, lapsed, unstarted, met,
                 disturbed>>

\* StartPlugin and the UpdateStatus after it.  Nothing else runs yet and a
\* crash forgets the memory part, so they are one step.  The main context
\* lasts as long as the process: so does the reader.
BootStart(p) ==
  /\ mode = "boot" /\ p \in todo
  /\ Startable(p)
  /\ \/ p \in uploaded /\ attached' = attached \cup {p}
                       /\ readers' = readers \cup {p}
     \/ (p \notin uploaded \/ {"s3", "bpf"} \cap Faults # {})
        /\ UNCHANGED <<attached, readers>>
  /\ runtime' = [runtime EXCEPT ![p] = "enabled"]
  /\ Recovered(p)
  /\ \/ SetStatus(p, "ready") /\ UNCHANGED lapsed
     \/ "db" \in Faults /\ Lapse({p}) /\ UNCHANGED status
  /\ todo' = todo \ {p}
  /\ UNCHANGED <<mode, used, name, repo, key, uploaded, build, req, met,
                 disturbed>>

BootDone ==
  /\ mode = "boot" /\ todo = {}
  /\ mode' = "serving"
  /\ UNCHANGED <<todo, table, uploaded, memory, lapsed, unstarted, met,
                 disturbed>>

------------------------------------------------------------------------------
BuildStep(b) ==
  \/ BuildBegin(b) \/ BuildBeginFails(b) \/ BuildFails(b)
  \/ BuildLoad(b) \/ BuildCompile(b) \/ BuildUpload(b)
  \/ BuildRecord(b) \/ BuildRecordFails(b)
  \/ BuildFetch(b) \/ BuildAttach(b) \/ BuildStore(b)

NewRequest(r, p) ==
  EnableGet(r, p) \/ DisableStatus(r, p) \/ DeleteRuntime(r, p) \/ RebuildGet(r, p)

ReqStep(r) ==
  \/ EnableStatus(r) \/ EnableFetch(r) \/ EnableAttach(r) \/ EnableStore(r)
  \/ DisableRuntime(r)
  \/ DeleteGet(r) \/ DeleteObjects(r) \/ DeleteRow(r)
  \/ RebuildStatus(r) \/ StatusFails(r)

ProcessStep == Crash \/ Restart \/ BootDone \/ \E p \in Plugins : BootSkip(p) \/ BootStart(p)

Next ==
  \/ \E p \in Plugins, g \in Repos : AddPlugin(p, g) \/ AddPluginFails(p, g)
  \/ \E b \in Builds : BuildStep(b)
  \/ \E r \in Requests, p \in Plugins : NewRequest(r, p)
  \/ \E p \in Plugins : DisableStatusFails(p)
  \/ \E r \in Requests : ReqStep(r)
  \/ ProcessStep

Spec == Init /\ [][Next]_vars

\* The Go scheduler runs every goroutine, and git, docker, S3 and PostgreSQL
\* are assumed to answer, with a result or an error.
Fairness == \A b \in Builds : WF_vars(BuildStep(b))

FairSpec == Spec /\ Fairness

------------------------------------------------------------------------------
(* Properties.                                                             *)

\* Nothing is in flight for p.
Quiet(p) == /\ mode = "serving"
            /\ ~BuildOf(p, BuildSteps)
            /\ ~RequestOf(p, ReqSteps)

\* Two rows never carry the same name, although a build renames its row from
\* the URL's name to the manifest's while other rows come and go.
UniqueNames ==
  \A p, q \in Listed : name[p] = name[q] => p = q

\* A row that waits for a build has one: pending or building is a lie only
\* when an operation on the plugin was cut short.
WaitingHasBuild ==
  \A p \in Plugins :
    /\ status[p] = "pending"  => BuildOf(p, {"begin"}) \/ p \in lapsed
    /\ status[p] = "building" =>
         BuildOf(p, {"begin", "load", "compile", "upload", "record"}) \/ p \in lapsed

\* A row that names an artifact has it in the bucket, unless a delete of the
\* plugin is between the bucket and the table, or some operation on the plugin
\* was cut short before.
ArtifactForKey ==
  \A p \in Listed :
    key[p] => p \in uploaded \/ RequestOf(p, {"delRow"}) \/ p \in lapsed

\* The strengthening that makes ArtifactForKey inductive: goroutines and rows
\* only ever concern ids handed out, and the same holds of the artifact from
\* the moment a build is about to record its key.
InUse ==
  /\ Listed \subseteq used
  /\ \A b \in Builds : build[b].pc # "idle" => build[b].id \in used
  /\ \A r \in Requests : req[r].pc # "idle" => req[r].id \in used

ArtifactForRecord ==
  \A p \in Listed :
    BuildOf(p, {"record"}) => p \in uploaded \/ RequestOf(p, {"delRow"}) \/ p \in lapsed

ArtifactInv == InUse /\ ArtifactForKey /\ ArtifactForRecord

\* Between requests, a plugin shown as ready and built is enabled in the
\* runtime, whatever its builds do, whatever fails in the bucket, the build or
\* the kernel, and after every crash and restart.  Since the process started,
\* only these leave it otherwise: two requests for the plugin in flight at once
\* (met), or, until the plugin is started again, a database error in a delete
\* that has dropped the runtime entry, in the boot's listing of the rows, or
\* in place of the answer to an enable's or a build's UPDATE (unstarted).
ReadyMeansEnabled ==
  \A p \in Listed \ (met \cup unstarted) :
    Quiet(p) /\ status[p] = "ready" /\ key[p] => runtime[p] = "enabled"

\* Deleting is complete: a plugin whose row is gone has no runtime entry and no
\* object left in the bucket, whatever builds failed, requests were cut short
\* and crashes happened, unless S3 refused its last delete or something else
\* was done to the plugin during it.
RemovalIsComplete ==
  \A p \in used \ (Listed \cup disturbed) :
    runtime[p] = "none" /\ p \notin uploaded

\* A deleted row never comes back, whatever a build or a request still in
\* flight writes to it afterwards.
NoResurrection ==
  [][\A p \in used : status[p] = "none" => status'[p] = "none"]_vars

\* Every build comes to an end that the table shows.
BuildsConclude ==
  \A p \in Plugins :
    status[p] \in {"pending", "building"} ~>
      (status[p] \notin {"pending", "building"} \/ p \in lapsed)

\* The table keeps the promise of PluginRegistry through builds, requests,
\* failures and restarts: ids are handed out once, names are unique, and
\* removal is final.
Registry == INSTANCE PluginRegistry WITH listed <- Listed
ImplementsRegistry == Registry!Spec

------------------------------------------------------------------------------
(* What the documentation says of the program and the code does not do.     *)

\* The acceptance table: a deleted plugin is gone from the database and S3.
DeletedFromBoth ==
  \A p \in used \ Listed : Quiet(p) => p \notin uploaded

\* The plugins guide: a plugin with no metrics appearing is fixed by enabling
\* it, so an enabled program is one whose events are read.
EnabledIsRead ==
  \A p \in attached : Quiet(p) /\ runtime[p] = "enabled" => p \in readers

==============================================================================
