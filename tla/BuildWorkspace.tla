--------------------------- MODULE BuildWorkspace ---------------------------
(***************************************************************************)
(* The files of a build: what buildPlugin (plugin/service.go) does, through*)
(* the git loader (plugin/loader.go) and the docker builder                *)
(* (plugin/builder), between the clone of a repository and the object and  *)
(* the row it leaves.                                                      *)
(*                                                                         *)
(* A clone's directory is named after the path of the git URL, so builds   *)
(* of one plugin, and of repositories of one path on two hosts, use the    *)
(* same directory.  One path can lie below another: then a checkout also   *)
(* puts files into the clone below, and a clone may be the subdirectory    *)
(* that another build compiles.  No lock covers a directory: each step     *)
(* below is one file-system, git, docker, S3 or SQL operation, and the     *)
(* steps of the builds interleave freely.                                  *)
(***************************************************************************)
EXTENDS Naturals

CONSTANTS
  Plugins,      \* plugin ids with a row
  NoPlugin,     \* the id of an idle build slot
  Repos,        \* git URLs
  Repo,         \* [Plugins -> Repos]: the row's git_url
  Builds,       \* build goroutines (bounds concurrent builds)
  MaxRev,       \* bound: [Repos -> Nat], how often one is pushed to
  MaxBegun,     \* bound: how many builds are begun
  Dirs,         \* directories under the build directory
  CloneDir,     \* [Repos -> Dirs]: baseDir/extractPluginName(url)
  SourceDir,    \* per clone directory, its ebpf: what a build compiles
  BuildDir,     \* per clone directory, its build: where program.o is put
  Tree,         \* per commit the directories its checkout puts files into
  ManifestDir,  \* [Versions -> Dirs]: baseDir/<the name in manifest.yml>
  Below,        \* per directory, itself and those below it
  NoVersion,    \* no commit, no file
  Torn          \* the bytes of a file that is being written

CloneDirs == {CloneDir[g] : g \in Repos}

\* A commit of a repository.
Versions == UNION {[repo : {g}, rev : 0..MaxRev[g]] : g \in Repos}

ASSUME BoundAssumption == MaxRev \in [Repos -> Nat] /\ MaxBegun \in Nat

ASSUME DirsAssumption ==
  /\ Repo \in [Plugins -> Repos]
  /\ CloneDir \in [Repos -> Dirs]
  /\ ManifestDir \in [Versions -> Dirs]
  /\ Below \in [Dirs -> SUBSET Dirs]
  /\ \A d \in Dirs : d \in Below[d]
  /\ SourceDir \in [CloneDirs -> Dirs] /\ BuildDir \in [CloneDirs -> Dirs]
  /\ \A d \in CloneDirs : {SourceDir[d], BuildDir[d]} \subseteq Below[d]
  /\ \A d, e \in CloneDirs : BuildDir[d] = BuildDir[e] => d = e
  /\ Tree \in [Versions -> SUBSET Dirs]
  /\ \A v \in Versions :
       LET d == CloneDir[v.repo] IN
       {d, SourceDir[d]} \subseteq Tree[v] /\ Tree[v] \subseteq Below[d]

ASSUME NullsAssumption ==
  /\ NoPlugin \notin Plugins
  /\ NoVersion \notin Versions
  /\ Torn \notin Versions
  /\ NoVersion # Torn

VARIABLES
  begun,   \* how many builds have begun
  head,    \* per repository the revision its branch is at
  git,     \* per directory the commit .git is at, Torn while it is cloned
  files,   \* per directory the commit whose files were last put there
  output,  \* the directories made to take an object
  object,  \* per directory the commit its program.o was compiled from
  build,   \* per build goroutine: its next step and its locals
  bucket,  \* per plugin the commit plugins/<id>/ebpf.o was compiled from
  row,     \* per plugin git_commit, and the commit the manifest column is of
  alone,   \* history: builds that no build with a common directory overlapped
  torn     \* history: plugins with an overlapped or failed build since the
           \* last one that ran alone

disk == <<git, files, output, object>>
vars == <<begun, head, disk, build, bucket, row, alone, torn>>

------------------------------------------------------------------------------
Steps == {"remove", "clone", "checkout", "head", "manifest", "prepare", "mount",
          "compile", "collect", "create", "write", "read", "upload", "record",
          "clean"}

\* A build's locals: LoadResult's commit and manifest, the object's bytes, and
\* whether what it has open in its directory (the container's bind mount, then
\* the output file) is still found under the directory's name.
Locals ==
  [pc : Steps, id : Plugins,
   commit : Versions \cup {NoVersion}, manifest : Versions \cup {NoVersion},
   data : Versions \cup {NoVersion, Torn}, linked : BOOLEAN]

Build(pc, id) ==
  [pc |-> pc, id |-> id, commit |-> NoVersion, manifest |-> NoVersion,
   data |-> NoVersion, linked |-> FALSE]

Idle == Build("idle", NoPlugin)

NoRow == [commit |-> NoVersion, manifest |-> NoVersion]

TypeOK ==
  /\ begun \in 0..MaxBegun
  /\ head \in [Repos -> Nat]
  /\ \A g \in Repos : head[g] <= MaxRev[g]
  /\ git \in [Dirs -> Versions \cup {NoVersion, Torn}]
  /\ files \in [Dirs -> Versions \cup {NoVersion}]
  /\ output \subseteq Dirs
  /\ object \in [Dirs -> Versions \cup {NoVersion, Torn}]
  /\ build \in [Builds -> Locals \cup {Idle}]
  /\ bucket \in [Plugins -> Versions \cup {NoVersion, Torn}]
  /\ row \in [Plugins -> [commit : Versions \cup {NoVersion},
                          manifest : Versions \cup {NoVersion}]]
  /\ alone \subseteq Builds
  /\ torn \subseteq Plugins

Init ==
  /\ begun = 0
  /\ head = [g \in Repos |-> 0]
  /\ git = [d \in Dirs |-> NoVersion]
  /\ files = [d \in Dirs |-> NoVersion]
  /\ output = {}
  /\ object = [d \in Dirs |-> NoVersion]
  /\ build = [b \in Builds |-> Idle]
  /\ bucket = [p \in Plugins |-> NoVersion]
  /\ row = [p \in Plugins |-> NoRow]
  /\ alone = {}
  /\ torn = {}

------------------------------------------------------------------------------
Active == {b \in Builds : build[b].pc # "idle"}

\* The directory build b clones into, mounts, and takes its object from.
Dir(b) == CloneDir[Repo[build[b].id]]

\* Mutant of OutputDir: one output directory for all builds.
SharedOutputDir(b) == BuildDir[CHOOSE d \in CloneDirs : TRUE]

\* The directory that takes the object of build b.
OutputDir(b) == BuildDir[Dir(b)]

\* What a build in directory d removes or writes: d at the start, and at the
\* end the directory of the name in a manifest it may have read there.
Reach(d) ==
  Below[d] \cup
  UNION {Below[ManifestDir[v]] : v \in {w \in Versions : d \in Tree[w]}}

\* Two builds in these directories can disturb each other.
Meet(d, e) == Reach(d) \cap Below[e] # {} \/ Reach(e) \cap Below[d] # {}

At(b, step) == build[b].pc = step

\* Build b goes on to a step; with what it read, or with a file open.
Goto(b, step) == build' = [build EXCEPT ![b].pc = step]
GotoCommit(b, step, v) == build' = [build EXCEPT ![b].pc = step, ![b].commit = v]
GotoManifest(b, step, v) == build' = [build EXCEPT ![b].pc = step, ![b].manifest = v]
GotoData(b, step, v) == build' = [build EXCEPT ![b].pc = step, ![b].data = v]
GotoLinked(b, step, l) == build' = [build EXCEPT ![b].pc = step, ![b].linked = l]

\* The directory of what build b has open: of the object, or its mount.
OpenDir(b) == IF At(b, "write") THEN OutputDir(b) ELSE Dir(b)

\* os.RemoveAll(d): whatever is below d is gone, and what builds have open
\* there is no longer found.  "others" are the builds after the remover moved.
RemoveAll(d, others) ==
  LET Removed(f) == [e \in Dirs |-> IF e \in Below[d] THEN NoVersion ELSE f[e]] IN
  /\ git' = Removed(git)
  /\ files' = Removed(files)
  /\ output' = output \ Below[d]
  /\ object' = Removed(object)
  /\ build' = [c \in Builds |->
                 IF c \in Active /\ OpenDir(c) \in Below[d]
                 THEN [others[c] EXCEPT !.linked = FALSE]
                 ELSE others[c]]

------------------------------------------------------------------------------
(* The world outside: a push moves a repository's branch.                  *)
Push(g) ==
  /\ head[g] < MaxRev[g]
  /\ head' = [head EXCEPT ![g] = @ + 1]
  /\ UNCHANGED <<begun, disk, build, bucket, row, alone, torn>>

------------------------------------------------------------------------------
(* buildPlugin is spawned for an added plugin or a rebuild, whatever runs. *)

\* Builds under way that share a directory with one of plugin p.
Rivals(p) == {c \in Active : Meet(Dir(c), CloneDir[Repo[p]])}

Begin(b, p) ==
  /\ At(b, "idle")
  /\ begun < MaxBegun
  /\ begun' = begun + 1
  /\ build' = [build EXCEPT ![b] = Build("remove", p)]
  /\ alone' = (alone \ Rivals(p)) \cup (IF Rivals(p) = {} THEN {b} ELSE {})
  /\ UNCHANGED <<head, disk, bucket, row, torn>>

(* Loader.Load.                                                            *)

\* Mutant of RemoveOld: what is there is kept.
KeepOld(b) ==
  /\ At(b, "remove")
  /\ Goto(b, "clone")
  /\ UNCHANGED <<begun, head, disk, bucket, row, alone, torn>>

RemoveOld(b) ==
  /\ At(b, "remove")
  /\ RemoveAll(Dir(b), [build EXCEPT ![b].pc = "clone"])
  /\ UNCHANGED <<begun, head, bucket, row, alone, torn>>

\* git.PlainClone creates the .git directory, and refuses one that exists.
CloneBegin(b) ==
  /\ At(b, "clone")
  /\ git[Dir(b)] = NoVersion
  /\ git' = [git EXCEPT ![Dir(b)] = Torn]
  /\ Goto(b, "checkout")
  /\ UNCHANGED <<begun, head, files, output, object, bucket, row, alone, torn>>

\* ... fetches the branch and checks its whole tree out, over what is there;
\* when the directory was removed meanwhile there is nothing to fetch into.
CloneCheckout(b) ==
  LET g == Repo[build[b].id]
      v == [repo |-> g, rev |-> head[g]]
      Over(f) == [d \in Dirs |-> IF d \in Tree[v] THEN v ELSE f[d]]
  IN
  /\ At(b, "checkout")
  /\ git[Dir(b)] = Torn
  /\ git' = [git EXCEPT ![Dir(b)] = v]
  /\ files' = Over(files)
  /\ object' = Over(object)
  /\ Goto(b, "head")
  /\ UNCHANGED <<begun, head, output, bucket, row, alone, torn>>

\* Mutant of ReadHead: ask the remote for its branch instead of the clone.
ReadRemoteHead(b) ==
  LET g == Repo[build[b].id] IN
  /\ At(b, "head")
  /\ GotoCommit(b, "manifest", [repo |-> g, rev |-> head[g]])
  /\ UNCHANGED <<begun, head, disk, bucket, row, alone, torn>>

\* repo.Head() reads the .git directory that is there now.
ReadHead(b) ==
  /\ At(b, "head")
  /\ git[Dir(b)] \notin {NoVersion, Torn}
  /\ GotoCommit(b, "manifest", git[Dir(b)])
  /\ UNCHANGED <<begun, head, disk, bucket, row, alone, torn>>

\* LoadManifest, Validate, and the check that the required files exist.
ReadManifest(b) ==
  /\ At(b, "manifest")
  /\ files[Dir(b)] # NoVersion
  /\ GotoManifest(b, "prepare", files[Dir(b)])
  /\ UNCHANGED <<begun, head, disk, bucket, row, alone, torn>>

------------------------------------------------------------------------------
(* Builder.Build.                                                          *)

\* MkdirAll(dir/build): before the container, and again before the copy.  It
\* brings back a directory that another build removed.
MakeOutput(b) ==
  /\ \/ At(b, "prepare") /\ Goto(b, "mount")
     \/ At(b, "collect") /\ Goto(b, "create")
  /\ output' = output \cup {OutputDir(b)}
  /\ UNCHANGED <<begun, head, git, files, object, bucket, row, alone, torn>>

\* A directory is there when it or one below it holds something.
Exists(d) ==
  \E e \in Below[d] : git[e] # NoVersion \/ files[e] # NoVersion \/ e \in output

\* Create and start the container with the directory bind-mounted.
Mount(b) ==
  /\ At(b, "mount")
  /\ Exists(Dir(b))
  /\ GotoLinked(b, "compile", TRUE)
  /\ UNCHANGED <<begun, head, disk, bucket, row, alone, torn>>

\* The container compiles what it finds below its mount, into a file of its
\* own.  When the directory it mounted was removed it finds nothing, whatever is
\* cloned under the name since.
Compile(b) ==
  /\ At(b, "compile")
  /\ build[b].linked
  /\ files[SourceDir[Dir(b)]] # NoVersion
  /\ build' = [build EXCEPT ![b].pc = "collect", ![b].linked = FALSE,
                            ![b].data = files[SourceDir[Dir(b)]]]
  /\ UNCHANGED <<begun, head, disk, bucket, row, alone, torn>>

\* os.WriteFile of the object copied from the container: open and truncate ...
CreateObject(b) ==
  /\ At(b, "create")
  /\ Exists(OutputDir(b))
  /\ object' = [object EXCEPT ![OutputDir(b)] = Torn]
  /\ GotoLinked(b, "write", TRUE)
  /\ UNCHANGED <<begun, head, git, files, output, bucket, row, alone, torn>>

\* ... then write, to a file that may have been removed.
WriteObject(b) ==
  /\ At(b, "write")
  /\ object' = IF build[b].linked
               THEN [object EXCEPT ![OutputDir(b)] = build[b].data] ELSE object
  /\ GotoLinked(b, "read", FALSE)
  /\ UNCHANGED <<begun, head, git, files, output, bucket, row, alone, torn>>

------------------------------------------------------------------------------
(* buildPlugin again.                                                      *)

\* readFile(EBPFFile): whatever lies at the path now.
ReadObject(b) ==
  /\ At(b, "read")
  /\ object[OutputDir(b)] # NoVersion
  /\ GotoData(b, "upload", object[OutputDir(b)])
  /\ UNCHANGED <<begun, head, disk, bucket, row, alone, torn>>

\* UploadEBPF: put plugins/<id>/ebpf.o.
Upload(b) ==
  LET p == build[b].id IN
  /\ At(b, "upload")
  /\ bucket' = [bucket EXCEPT ![p] = build[b].data]
  /\ torn' = IF b \in alone THEN torn ELSE torn \cup {p}
  /\ Goto(b, "record")
  /\ UNCHANGED <<begun, head, disk, row, alone>>

\* Mutant of Record: the row keeps the manifest of the first build.
RecordCommitOnly(b) ==
  LET p == build[b].id IN
  /\ At(b, "record")
  /\ row' = [row EXCEPT ![p] =
               [commit |-> build[b].commit,
                manifest |-> IF @.manifest = NoVersion THEN build[b].manifest
                             ELSE @.manifest]]
  /\ torn' = IF b \in alone THEN torn \ {p} ELSE torn \cup {p}
  /\ Goto(b, "clean")
  /\ UNCHANGED <<begun, head, disk, bucket, alone>>

\* PluginRepo.Update: the commit and the manifest that Load returned.
Record(b) ==
  LET p == build[b].id IN
  /\ At(b, "record")
  /\ row' = [row EXCEPT ![p] = [commit |-> build[b].commit,
                                manifest |-> build[b].manifest]]
  /\ torn' = IF b \in alone THEN torn \ {p} ELSE torn \cup {p}
  /\ Goto(b, "clean")
  /\ UNCHANGED <<begun, head, disk, bucket, alone>>

\* Mutant of Clean: the slot keeps the id of the plugin it built.
CleanKeepsId(b) ==
  /\ At(b, "clean")
  /\ RemoveAll(ManifestDir[build[b].manifest], [build EXCEPT ![b].pc = "idle"])
  /\ alone' = alone \ {b}
  /\ UNCHANGED <<begun, head, bucket, row, torn>>

\* After StartPlugin, Loader.Cleanup(manifest.Name): the directory of that
\* name, which is the clone's only when the URL's path is the manifest's name.
Clean(b) ==
  /\ At(b, "clean")
  /\ RemoveAll(ManifestDir[build[b].manifest], [build EXCEPT ![b] = Idle])
  /\ alone' = alone \ {b}
  /\ UNCHANGED <<begun, head, bucket, row, torn>>

\* A step fails, or finds a file missing: the build returns and cleans nothing
\* up.  An upload that reports a failure may have stored the object, and a
\* clone that fails removes the directory.  The death of the process is the
\* failure of every build.
Fails(b) ==
  LET p == build[b].id IN
  /\ b \in Active
  /\ \/ UNCHANGED bucket
     \/ At(b, "upload") /\ bucket' = [bucket EXCEPT ![p] = build[b].data]
  /\ \/ At(b, "checkout") /\ RemoveAll(Dir(b), [build EXCEPT ![b] = Idle])
     \/ build' = [build EXCEPT ![b] = Idle] /\ UNCHANGED disk
  /\ torn' = IF build[b].pc \in {"upload", "record"} THEN torn \cup {p} ELSE torn
  /\ alone' = alone \ {b}
  /\ UNCHANGED <<begun, head, row>>

------------------------------------------------------------------------------
Step(b) ==
  \/ RemoveOld(b) \/ CloneBegin(b) \/ CloneCheckout(b)
  \/ ReadHead(b) \/ ReadManifest(b)
  \/ MakeOutput(b) \/ Mount(b) \/ Compile(b)
  \/ CreateObject(b) \/ WriteObject(b) \/ ReadObject(b)
  \/ Upload(b) \/ Record(b) \/ Clean(b) \/ Fails(b)

Next ==
  \/ \E g \in Repos : Push(g)
  \/ \E b \in Builds, p \in Plugins : Begin(b, p)
  \/ \E b \in Builds : Step(b)

Spec == Init /\ [][Next]_vars

------------------------------------------------------------------------------
\* A build that no other build with a common directory overlapped uploads an
\* object compiled from the commit it reports, of its plugin's repository,
\* whatever is pushed meanwhile and whatever failed builds left on the disk.
AloneIsOneCommit ==
  \A b \in alone :
    build[b].pc \in {"upload", "record"} =>
      /\ build[b].data = build[b].commit
      /\ build[b].manifest = build[b].commit
      /\ build[b].commit.repo = Repo[build[b].id]

\* Such a build finds what it needs at every step, so that it fails by a fault
\* only: neither the clones and objects that earlier builds left behind, nor a
\* build in a directory of its own, get in its way.
AloneFindsItsFiles ==
  \A b \in alone :
    /\ At(b, "clone") => git[Dir(b)] = NoVersion
    /\ At(b, "checkout") => git[Dir(b)] = Torn
    /\ At(b, "head") => git[Dir(b)] \notin {NoVersion, Torn}
    /\ At(b, "manifest") => files[Dir(b)] # NoVersion
    /\ At(b, "mount") => Exists(Dir(b))
    /\ At(b, "compile") => build[b].linked /\ files[SourceDir[Dir(b)]] # NoVersion
    /\ At(b, "create") => Exists(OutputDir(b))
    /\ At(b, "write") => build[b].linked
    /\ At(b, "read") => object[OutputDir(b)] # NoVersion

\* The row of a plugin names the commit its object in the bucket was compiled
\* from, unless builds overlapped or failed after the last one that ran alone;
\* a rebuild that runs alone puts things right again.
RowNamesItsObject ==
  \A p \in Plugins \ torn :
    (\A b \in Builds : ~(At(b, "record") /\ build[b].id = p)) =>
      /\ row[p].commit = bucket[p]
      /\ row[p].manifest = bucket[p]

\* However builds overlap, and with them the directories of other repositories:
\* the commit in a plugin's row is of a repository with the path of its own,
\* its manifest is of a commit whose checkout puts files into the plugin's
\* directory, and its object of one whose checkout puts files into that
\* directory's ebpf, or into its build.
BuiltFromItsDirectory ==
  \A p \in Plugins : \A v \in Versions :
    LET d == CloneDir[Repo[p]] IN
    /\ row[p].commit = v => CloneDir[v.repo] = d
    /\ row[p].manifest = v => d \in Tree[v]
    /\ bucket[p] = v => {SourceDir[d], BuildDir[d]} \cap Tree[v] # {}

==============================================================================
