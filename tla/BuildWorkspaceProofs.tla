------------------------- MODULE BuildWorkspaceProofs -------------------------
(***************************************************************************)
(* Proofs about the files of builds, for any plugins, paths, directory     *)
(* trees, numbers of builds and pushes.                                    *)
(***************************************************************************)
EXTENDS BuildWorkspace, TLAPS

\* A commit is of a repository with path d; its checkout puts files into d;
\* it does so into what a build in d compiles, or into where it puts objects.
OfPath(d, v) == v \in Versions => CloneDir[v.repo] = d
PutInto(d, v) == v \in Versions => d \in Tree[v]
Feeds(d, v) == v \in Versions => SourceDir[d] \in Tree[v] \/ BuildDir[d] \in Tree[v]

\* From the manifest's reading on a build knows the manifest.
HasManifest ==
  \A b \in Active :
    build[b].pc \notin {"remove", "clone", "checkout", "head", "manifest"} =>
      build[b].manifest \in Versions

\* Everything in, or taken from, a directory was put there by a checkout that
\* reaches it, or compiled from such files.
ByPath ==
  /\ \A d \in Dirs : OfPath(d, git[d]) /\ PutInto(d, files[d])
  /\ \A d \in CloneDirs : Feeds(d, object[BuildDir[d]])
  /\ \A b \in Active : /\ OfPath(Dir(b), build[b].commit)
                       /\ PutInto(Dir(b), build[b].manifest)
                       /\ Feeds(Dir(b), build[b].data)
  /\ \A p \in Plugins : /\ OfPath(CloneDir[Repo[p]], row[p].commit)
                        /\ PutInto(CloneDir[Repo[p]], row[p].manifest)
                        /\ Feeds(CloneDir[Repo[p]], bucket[p])

\* A build that is alone shares no directory with another under way.
Apart ==
  /\ alone \subseteq Active
  /\ \A b \in alone, c \in Active : c # b => ~Meet(Dir(b), Dir(c))

\* What a build that is alone has, and finds in its directory, at each step.
Cloned(b) ==
  /\ At(b, "clone") => git[Dir(b)] = NoVersion
  /\ At(b, "checkout") => git[Dir(b)] = Torn
  /\ build[b].pc \in {"head", "manifest", "prepare", "mount", "compile"} =>
       /\ files[Dir(b)] \in Versions /\ files[Dir(b)].repo = Repo[build[b].id]
       /\ files[SourceDir[Dir(b)]] = files[Dir(b)]
       /\ git[Dir(b)] = files[Dir(b)]
  /\ build[b].pc \in {"manifest", "prepare", "mount", "compile"} =>
       build[b].commit = files[Dir(b)]
  /\ build[b].pc \in {"prepare", "mount", "compile"} =>
       build[b].manifest = files[Dir(b)]

Built(b) ==
  /\ build[b].pc \in {"collect", "create", "write", "read", "upload", "record"} =>
       /\ build[b].data \in Versions
       /\ build[b].data.repo = Repo[build[b].id]
       /\ build[b].commit = build[b].data
       /\ build[b].manifest = build[b].data
  /\ build[b].pc \in {"mount", "compile", "create", "write"} => OutputDir(b) \in output
  /\ build[b].pc \in {"compile", "write"} => build[b].linked
  /\ At(b, "read") => object[OutputDir(b)] = build[b].data
  /\ At(b, "record") => bucket[build[b].id] = build[b].data

Inv ==
  /\ TypeOK
  /\ HasManifest
  /\ ByPath
  /\ Apart
  /\ \A b \in alone : Cloned(b) /\ Built(b)
  /\ RowNamesItsObject

------------------------------------------------------------------------------
LEMMA DirType ==
  ASSUME TypeOK, NEW b \in Active
  PROVE  /\ build[b].id \in Plugins
         /\ build[b].pc \in Steps
         /\ Dir(b) \in Dirs /\ Dir(b) \in CloneDirs
         /\ Below[Dir(b)] \subseteq Dirs
         /\ {Dir(b), SourceDir[Dir(b)], OutputDir(b), OpenDir(b)} \subseteq Below[Dir(b)]
         /\ Below[Dir(b)] \subseteq Reach(Dir(b))
<1>1. build[b].id \in Plugins /\ build[b].pc \in Steps
  BY DEF TypeOK, Active, Idle, Build, Locals
<1>2. Dir(b) \in Dirs /\ Dir(b) \in CloneDirs
  BY <1>1, DirsAssumption DEF Dir, CloneDirs
<1>3. Dir(b) \in Below[Dir(b)] /\ Below[Dir(b)] \subseteq Dirs
  BY <1>2, DirsAssumption
<1>4. SourceDir[Dir(b)] \in Below[Dir(b)] /\ OutputDir(b) \in Below[Dir(b)]
  BY <1>2, DirsAssumption DEF OutputDir
<1>. QED
  BY <1>1, <1>2, <1>3, <1>4 DEF Reach, OpenDir

\* Builds of one plugin meet, and a build meets what it is within reach of.
LEMMA MeetFacts ==
  ASSUME TypeOK, NEW b \in Active, NEW c \in Active, ~Meet(Dir(b), Dir(c))
  PROVE  /\ {Dir(b), SourceDir[Dir(b)], OutputDir(b), OpenDir(b)}
              \subseteq Dirs \ Reach(Dir(c))
         /\ Dir(b) # Dir(c)
         /\ build[b].id # build[c].id
<1>1. /\ Below[Dir(b)] \subseteq Dirs
      /\ {Dir(b), SourceDir[Dir(b)], OutputDir(b), OpenDir(b)} \subseteq Below[Dir(b)]
  BY DirType
<1>2. Below[Dir(b)] \cap Reach(Dir(c)) = {}
  BY DEF Meet
<1>3. {Dir(b), SourceDir[Dir(b)], OutputDir(b), OpenDir(b)} \subseteq Dirs \ Reach(Dir(c))
  BY <1>1, <1>2
<1>4. Dir(b) # Dir(c)
  BY <1>3, DirType
<1>. QED
  BY <1>3, <1>4 DEF Dir

\* What a build removes is within its reach.
LEMMA ReachFacts ==
  ASSUME Inv, NEW b \in Active
  PROVE  /\ Below[Dir(b)] \subseteq Reach(Dir(b))
         /\ At(b, "clean") => Below[ManifestDir[build[b].manifest]] \subseteq Reach(Dir(b))
<1>1. Below[Dir(b)] \subseteq Reach(Dir(b))
  BY DEF Reach
<1>2. ASSUME At(b, "clean")
      PROVE  Below[ManifestDir[build[b].manifest]] \subseteq Reach(Dir(b))
  <2>1. build[b].manifest \in Versions
    BY <1>2 DEF Inv, HasManifest, At
  <2>2. Dir(b) \in Tree[build[b].manifest]
    BY <2>1 DEF Inv, ByPath, PutInto
  <2>. QED
    BY <2>1, <2>2 DEF Reach
<1>. QED
  BY <1>1, <1>2

\* The locals of build b, but for what it has open, stay.
SameLocals(b) ==
  /\ build'[b].pc = build[b].pc
  /\ build'[b].id = build[b].id
  /\ build'[b].commit = build[b].commit
  /\ build'[b].manifest = build[b].manifest
  /\ build'[b].data = build[b].data

\* A removal of what is within reach of build c.
LEMMA RemoveFrame ==
  ASSUME TypeOK, NEW c \in Active, NEW d \in Dirs, NEW r,
         Below[d] \subseteq Reach(Dir(c)),
         RemoveAll(d, [build EXCEPT ![c] = r])
  PROVE  /\ \A e \in Dirs \ Reach(Dir(c)) :
              /\ git'[e] = git[e] /\ files'[e] = files[e] /\ object'[e] = object[e]
              /\ e \in output' <=> e \in output
         /\ \A b \in Builds \ {c} :
              /\ SameLocals(b)
              /\ b \in Active /\ OpenDir(b) \notin Reach(Dir(c)) =>
                   build'[b].linked = build[b].linked
<1>1. \A e \in Dirs \ Reach(Dir(c)) : e \notin Below[d]
  OBVIOUS
<1>2. \A e \in Dirs \ Reach(Dir(c)) :
              /\ git'[e] = git[e] /\ files'[e] = files[e] /\ object'[e] = object[e]
              /\ e \in output' <=> e \in output
  BY <1>1 DEF RemoveAll
<1>3. ASSUME NEW b \in Builds \ {c}
      PROVE  /\ SameLocals(b)
             /\ b \in Active /\ OpenDir(b) \notin Reach(Dir(c)) =>
                   build'[b].linked = build[b].linked
  <2>1. [build EXCEPT ![c] = r][b] = build[b]
    BY DEF TypeOK
  <2>2. build'[b] = IF b \in Active /\ OpenDir(b) \in Below[d]
                    THEN [build[b] EXCEPT !.linked = FALSE] ELSE build[b]
    BY <2>1 DEF RemoveAll
  <2>3. b \in Active => build[b] \in Locals
    BY DEF TypeOK, Active, Idle, Build
  <2>. QED
    BY <2>2, <2>3 DEF SameLocals, Locals
<1>. QED
  BY <1>2, <1>3

\* A checkout writes the files of a commit of the plugin's repository, in the
\* directory of the build and below it.
LEMMA CheckoutFacts ==
  ASSUME TypeOK, NEW c \in Active, CloneCheckout(c)
  PROVE  \E v \in Versions :
           /\ v.repo = Repo[build[c].id]
           /\ CloneDir[v.repo] = Dir(c)
           /\ {Dir(c), SourceDir[Dir(c)]} \subseteq Tree[v]
           /\ Tree[v] \subseteq Reach(Dir(c))
           /\ git' = [git EXCEPT ![Dir(c)] = v]
           /\ files' = [d \in Dirs |-> IF d \in Tree[v] THEN v ELSE files[d]]
           /\ object' = [d \in Dirs |-> IF d \in Tree[v] THEN v ELSE object[d]]
<1>. DEFINE v == [repo |-> Repo[build[c].id], rev |-> head[Repo[build[c].id]]]
<1>1. v \in Versions
  BY DirType, DirsAssumption, BoundAssumption DEF Versions, TypeOK
<1>2. v.repo = Repo[build[c].id] /\ CloneDir[v.repo] = Dir(c)
  BY DEF Dir
<1>3. {Dir(c), SourceDir[Dir(c)]} \subseteq Tree[v] /\ Tree[v] \subseteq Below[Dir(c)]
  BY <1>1, <1>2, DirsAssumption
<1>4. /\ git' = [git EXCEPT ![Dir(c)] = v]
      /\ files' = [d \in Dirs |-> IF d \in Tree[v] THEN v ELSE files[d]]
      /\ object' = [d \in Dirs |-> IF d \in Tree[v] THEN v ELSE object[d]]
  BY DEF CloneCheckout
<1>. QED
  BY <1>1, <1>2, <1>3, <1>4 DEF Reach

\* A step of build c: nothing out of its reach changes, nor other builds.
LEMMA StepFrame ==
  ASSUME Inv, NEW c \in Builds, Step(c)
  PROVE  /\ c \in Active
         /\ \A e \in Dirs \ Reach(Dir(c)) :
              /\ git'[e] = git[e] /\ files'[e] = files[e] /\ object'[e] = object[e]
              /\ e \in output' <=> e \in output
         /\ \A b \in Builds \ {c} :
              /\ SameLocals(b)
              /\ b \in Active /\ OpenDir(b) \notin Reach(Dir(c)) =>
                   build'[b].linked = build[b].linked
         /\ \A p \in Plugins \ {build[c].id} :
              /\ bucket'[p] = bucket[p] /\ row'[p] = row[p]
              /\ p \in torn' <=> p \in torn
         /\ alone' \subseteq alone
         /\ c \in alone' => build'[c].id = build[c].id /\ build'[c].pc # "idle"
<1>1. c \in Active
  BY DEF Step, RemoveOld, CloneBegin, CloneCheckout, ReadHead, ReadManifest,
     MakeOutput, Mount, Compile, CreateObject, WriteObject, ReadObject, Upload,
     Record, Clean, Fails, At, Active
<1>2. /\ TypeOK /\ Dir(c) \in Dirs /\ Dir(c) \in Reach(Dir(c))
      /\ OutputDir(c) \in Reach(Dir(c))
      /\ build[c].id \in Plugins
  BY <1>1, DirType DEF Inv
<1>3. CASE RemoveOld(c) \/ Clean(c) \/ (Fails(c) /\ ~UNCHANGED disk)
  <2>1. PICK d \in Dirs, r \in {Idle, [build[c] EXCEPT !.pc = "clone"]} :
          /\ Below[d] \subseteq Reach(Dir(c))
          /\ RemoveAll(d, [build EXCEPT ![c] = r])
    <3>1. CASE RemoveOld(c)
      <4>1. [build EXCEPT ![c].pc = "clone"] =
              [build EXCEPT ![c] = [build[c] EXCEPT !.pc = "clone"]]
        OBVIOUS
      <4>. QED
        BY <1>1, <1>2, <3>1, <4>1, ReachFacts DEF RemoveOld
    <3>2. CASE Clean(c)
      <4>1. build[c].manifest \in Versions
        BY <1>1, <3>2 DEF Inv, HasManifest, Clean, At
      <4>. QED
        BY <1>1, <3>2, <4>1, ReachFacts, DirsAssumption DEF Clean
    <3>3. CASE Fails(c) /\ ~UNCHANGED disk
      BY <1>1, <1>2, <3>3, ReachFacts DEF Fails
    <3>. QED
      BY <1>3, <3>1, <3>2, <3>3
  <2>2. /\ \A e \in Dirs \ Reach(Dir(c)) :
              /\ git'[e] = git[e] /\ files'[e] = files[e] /\ object'[e] = object[e]
              /\ e \in output' <=> e \in output
        /\ \A b \in Builds \ {c} :
              /\ SameLocals(b)
              /\ b \in Active /\ OpenDir(b) \notin Reach(Dir(c)) =>
                   build'[b].linked = build[b].linked
    BY <1>1, <1>2, <2>1, RemoveFrame
  <2>3. /\ \A p \in Plugins \ {build[c].id} :
              /\ bucket'[p] = bucket[p] /\ row'[p] = row[p]
              /\ p \in torn' <=> p \in torn
        /\ alone' \subseteq alone
    BY <1>2, <1>3 DEF RemoveOld, Clean, Fails, TypeOK
  <2>4. c \in alone' => build'[c].id = build[c].id /\ build'[c].pc # "idle"
    <3>1. c \in alone' => RemoveOld(c)
      BY <1>3 DEF Clean, Fails
    <3>2. ASSUME RemoveOld(c)
          PROVE  build'[c].id = build[c].id /\ build'[c].pc # "idle"
      <4>1. [build EXCEPT ![c].pc = "clone"][c] = [build[c] EXCEPT !.pc = "clone"]
        BY <1>2 DEF TypeOK
      <4>2. build[c] \in Locals
        BY <1>1, <1>2 DEF TypeOK, Active, Idle, Build
      <4>3. build'[c] \in {[build[c] EXCEPT !.pc = "clone"],
                            [[build[c] EXCEPT !.pc = "clone"] EXCEPT !.linked = FALSE]}
        BY <3>2, <4>1 DEF RemoveOld, RemoveAll
      <4>. QED
        BY <4>2, <4>3 DEF Locals, Steps
    <3>. QED
      BY <3>1, <3>2
  <2>. QED
    BY <1>1, <2>2, <2>3, <2>4
<1>4. ASSUME NEW r, build' = [build EXCEPT ![c] = r]
      PROVE  \A b \in Builds \ {c} : SameLocals(b) /\ build'[b].linked = build[b].linked
  BY <1>2, <1>4 DEF TypeOK, SameLocals
<1>5. CASE CloneBegin(c) \/ CloneCheckout(c) \/ ReadHead(c) \/ ReadManifest(c)
           \/ MakeOutput(c) \/ Mount(c) \/ Compile(c)
           \/ CreateObject(c) \/ WriteObject(c) \/ ReadObject(c)
           \/ Upload(c) \/ Record(c)
  <2>1. \A e \in Dirs \ Reach(Dir(c)) :
           /\ git'[e] = git[e] /\ files'[e] = files[e] /\ object'[e] = object[e]
           /\ e \in output' <=> e \in output
    <3>1. \A e \in Dirs \ Reach(Dir(c)) : e # Dir(c) /\ e # OutputDir(c)
      BY <1>2
    <3>2. CASE CloneCheckout(c)
      <4>1. PICK v \in Versions :
              /\ Tree[v] \subseteq Reach(Dir(c))
              /\ git' = [git EXCEPT ![Dir(c)] = v]
              /\ files' = [d \in Dirs |-> IF d \in Tree[v] THEN v ELSE files[d]]
              /\ object' = [d \in Dirs |-> IF d \in Tree[v] THEN v ELSE object[d]]
        BY <1>1, <3>2, CheckoutFacts DEF Inv
      <4>. QED
        BY <1>2, <3>1, <3>2, <4>1 DEF CloneCheckout, TypeOK
    <3>3. CASE ~CloneCheckout(c)
      BY <1>2, <1>5, <3>1, <3>3
      DEF CloneBegin, ReadHead, ReadManifest, MakeOutput, Mount, Compile,
          CreateObject, WriteObject, ReadObject, Upload, Record, TypeOK, disk
    <3>. QED
      BY <3>2, <3>3
  <2>2. /\ \A b \in Builds \ {c} : build'[b] = build[b]
        /\ build'[c].id = build[c].id /\ build'[c].pc # "idle"
    <3>1. build[c] \in Locals
      BY <1>1, <1>2 DEF TypeOK, Active, Idle, Build
    <3>2. CASE CloneBegin(c) \/ CloneCheckout(c) \/ MakeOutput(c) \/ Upload(c) \/ Record(c)
      BY <1>2, <3>1, <3>2
      DEF Locals, CloneBegin, CloneCheckout, MakeOutput, Upload, Record, Goto, TypeOK
    <3>3. CASE ReadHead(c) \/ ReadManifest(c)
      BY <1>2, <3>1, <3>3 DEF Locals, ReadHead, ReadManifest, GotoCommit, GotoManifest, TypeOK
    <3>4. CASE Mount(c) \/ Compile(c) \/ CreateObject(c)
      BY <1>2, <3>1, <3>4 DEF Locals, Mount, Compile, CreateObject, GotoLinked, TypeOK
    <3>5. CASE WriteObject(c) \/ ReadObject(c)
      BY <1>2, <3>1, <3>5 DEF Locals, WriteObject, ReadObject, GotoLinked, GotoData, TypeOK
    <3>. QED
      BY <1>5, <3>2, <3>3, <3>4, <3>5
  <2>3. \A b \in Builds \ {c} : SameLocals(b) /\ build'[b].linked = build[b].linked
    BY <2>2 DEF SameLocals
  <2>5. /\ \A p \in Plugins \ {build[c].id} :
              /\ bucket'[p] = bucket[p] /\ row'[p] = row[p]
              /\ p \in torn' <=> p \in torn
        /\ alone' = alone
    BY <1>2, <1>5
    DEF CloneBegin, CloneCheckout, ReadHead, ReadManifest, MakeOutput, Mount, Compile,
        CreateObject, WriteObject, ReadObject, Upload, Record, TypeOK
  <2>. QED
    BY <1>1, <2>1, <2>2, <2>3, <2>5
<1>6. CASE Fails(c) /\ UNCHANGED disk
  <2>1. \A b \in Builds \ {c} :
          /\ SameLocals(b)
          /\ b \in Active /\ OpenDir(b) \notin Reach(Dir(c)) =>
                build'[b].linked = build[b].linked
    <3>1. CASE RemoveAll(Dir(c), [build EXCEPT ![c] = Idle])
      BY <1>1, <1>2, <3>1, ReachFacts, RemoveFrame
    <3>2. CASE build' = [build EXCEPT ![c] = Idle]
      BY <3>2, <1>4
    <3>. QED
      BY <1>6, <3>1, <3>2 DEF Fails
  <2>. QED
    BY <1>1, <1>2, <1>6, <2>1 DEF Fails, TypeOK, disk
<1>. QED
  BY <1>3, <1>5, <1>6 DEF Step

------------------------------------------------------------------------------
LEMMA ActiveLocals ==
  ASSUME TypeOK, NEW b \in Active
  PROVE  b \in Builds /\ build[b] \in Locals
BY DEF TypeOK, Active, Idle, Build

\* A removal keeps the types, whatever is removed.
LEMMA RemoveType ==
  ASSUME TypeOK, NEW d, NEW c \in Builds, NEW r \in Locals \cup {Idle},
         RemoveAll(d, [build EXCEPT ![c] = r])
  PROVE  /\ git' \in [Dirs -> Versions \cup {NoVersion, Torn}]
         /\ files' \in [Dirs -> Versions \cup {NoVersion}]
         /\ output' \subseteq Dirs
         /\ object' \in [Dirs -> Versions \cup {NoVersion, Torn}]
         /\ build' \in [Builds -> Locals \cup {Idle}]
<1>1. /\ git' \in [Dirs -> Versions \cup {NoVersion, Torn}]
      /\ files' \in [Dirs -> Versions \cup {NoVersion}]
      /\ output' \subseteq Dirs
      /\ object' \in [Dirs -> Versions \cup {NoVersion, Torn}]
  BY DEF RemoveAll, TypeOK
<1>2. ASSUME NEW b \in Builds PROVE build'[b] \in Locals \cup {Idle}
  <2>1. [build EXCEPT ![c] = r][b] \in Locals \cup {Idle}
    BY DEF TypeOK
  <2>2. \A x \in Locals \cup {Idle} : [x EXCEPT !.linked = FALSE] \in Locals \cup {Idle}
    <3>1. \A x \in Locals : [x EXCEPT !.linked = FALSE] \in Locals
      BY DEF Locals
    <3>2. ASSUME NEW x \in [pc : {"idle"}, id : {NoPlugin}, commit : {NoVersion},
                            manifest : {NoVersion}, data : {NoVersion}, linked : {FALSE}]
          PROVE  [x EXCEPT !.linked = FALSE] = x
      OBVIOUS
    <3>3. Idle \in [pc : {"idle"}, id : {NoPlugin}, commit : {NoVersion},
                    manifest : {NoVersion}, data : {NoVersion}, linked : {FALSE}]
      BY DEF Idle, Build
    <3>. QED
      BY <3>1, <3>2, <3>3
  <2>. QED
    BY <2>1, <2>2 DEF RemoveAll
<1>3. build' = [b \in Builds |-> build'[b]]
  BY DEF RemoveAll
<1>. QED
  BY <1>1, <1>2, <1>3

LEMMA TypeStep ==
  ASSUME TypeOK, Next
  PROVE  TypeOK'
<1>1. ASSUME NEW g \in Repos, Push(g) PROVE TypeOK'
  <2>1. head' \in [Repos -> Nat] /\ \A h \in Repos : head'[h] <= MaxRev[h]
    <3>1. head[g] \in Nat /\ MaxRev[g] \in Nat /\ head[g] < MaxRev[g]
      BY <1>1, BoundAssumption DEF Push, TypeOK
    <3>2. head[g] + 1 \in Nat /\ head[g] + 1 <= MaxRev[g]
      BY <3>1
    <3>3. head' \in [Repos -> Nat]
      BY <1>1, <3>2 DEF Push, TypeOK
    <3>4. \A h \in Repos : head'[h] = IF h = g THEN head[g] + 1 ELSE head[h]
      BY <1>1 DEF Push, TypeOK
    <3>. QED
      BY <3>2, <3>3, <3>4 DEF TypeOK
  <2>. QED
    BY <1>1, <2>1 DEF Push, TypeOK, disk
<1>2. ASSUME NEW b \in Builds, NEW p \in Plugins, Begin(b, p) PROVE TypeOK'
  <2>1. Build("remove", p) \in Locals
    BY DEF Build, Locals, Steps
  <2>. QED
    BY <1>2, <2>1, BoundAssumption DEF Begin, TypeOK, disk
<1>3. ASSUME NEW b \in Builds, Step(b) PROVE TypeOK'
  <2>1. b \in Active
    BY <1>3 DEF Step, RemoveOld, CloneBegin, CloneCheckout, ReadHead, ReadManifest,
       MakeOutput, Mount, Compile, CreateObject, WriteObject, ReadObject, Upload,
       Record, Clean, Fails, At, Active
  <2>2. /\ build[b] \in Locals /\ build[b].id \in Plugins
        /\ {Dir(b), SourceDir[Dir(b)], OutputDir(b)} \subseteq Dirs
    BY <2>1, ActiveLocals, DirType
  <2>3. Idle \in Locals \cup {Idle}
    OBVIOUS
  <2>4. CASE RemoveOld(b)
    <3>1. [build[b] EXCEPT !.pc = "clone"] \in Locals \cup {Idle}
      BY <2>2 DEF Locals, Steps
    <3>2. RemoveAll(Dir(b), [build EXCEPT ![b] = [build[b] EXCEPT !.pc = "clone"]])
      BY <2>4 DEF RemoveOld
    <3>. QED
      BY <2>4, <3>1, <3>2, RemoveType DEF RemoveOld, TypeOK
  <2>5. CASE Clean(b)
    BY <2>5, <2>3, RemoveType DEF Clean, TypeOK
  <2>6. CASE Fails(b)
    <3>1. CASE RemoveAll(Dir(b), [build EXCEPT ![b] = Idle])
      BY <2>6, <2>2, <2>3, <3>1, RemoveType DEF Fails, TypeOK, Locals
    <3>2. CASE build' = [build EXCEPT ![b] = Idle] /\ UNCHANGED disk
      BY <2>6, <2>2, <3>2 DEF Fails, TypeOK, disk, Locals
    <3>. QED
      BY <2>6, <3>1, <3>2 DEF Fails
  <2>7. CASE CloneBegin(b)
    <3>1. [build[b] EXCEPT !.pc = "checkout"] \in Locals
      BY <2>2 DEF Locals, Steps
    <3>. QED
      BY <2>7, <3>1 DEF CloneBegin, Goto, TypeOK
  <2>8. CASE CloneCheckout(b)
    <3>1. [build[b] EXCEPT !.pc = "head"] \in Locals
      BY <2>2 DEF Locals, Steps
    <3>2. PICK v \in Versions :
            /\ git' = [git EXCEPT ![Dir(b)] = v]
            /\ files' = [d \in Dirs |-> IF d \in Tree[v] THEN v ELSE files[d]]
            /\ object' = [d \in Dirs |-> IF d \in Tree[v] THEN v ELSE object[d]]
      BY <2>1, <2>8, CheckoutFacts
    <3>3. /\ git' \in [Dirs -> Versions \cup {NoVersion, Torn}]
          /\ files' \in [Dirs -> Versions \cup {NoVersion}]
          /\ object' \in [Dirs -> Versions \cup {NoVersion, Torn}]
      BY <3>2 DEF TypeOK
    <3>. QED
      BY <2>8, <3>1, <3>3 DEF CloneCheckout, Goto, TypeOK
  <2>9. CASE ReadHead(b)
    <3>1. [[build[b] EXCEPT !.pc = "manifest"] EXCEPT !.commit = git[Dir(b)]] \in Locals
      BY <2>2, <2>9 DEF Locals, Steps, TypeOK, ReadHead
    <3>. QED
      BY <2>9, <3>1 DEF ReadHead, GotoCommit, TypeOK, disk
  <2>10. CASE ReadManifest(b)
    <3>1. [[build[b] EXCEPT !.pc = "prepare"] EXCEPT !.manifest = files[Dir(b)]] \in Locals
      BY <2>2 DEF Locals, Steps, TypeOK
    <3>. QED
      BY <2>10, <3>1 DEF ReadManifest, GotoManifest, TypeOK, disk
  <2>11. CASE MakeOutput(b)
    <3>1. /\ [build[b] EXCEPT !.pc = "mount"] \in Locals
          /\ [build[b] EXCEPT !.pc = "create"] \in Locals
      BY <2>2 DEF Locals, Steps
    <3>. QED
      BY <2>11, <2>2, <3>1 DEF MakeOutput, Goto, TypeOK
  <2>12. CASE Mount(b)
    <3>1. [[build[b] EXCEPT !.pc = "compile"] EXCEPT !.linked = TRUE] \in Locals
      BY <2>2 DEF Locals, Steps
    <3>. QED
      BY <2>12, <3>1 DEF Mount, GotoLinked, TypeOK, disk
  <2>13. CASE Compile(b)
    <3>1. [[[build[b] EXCEPT !.pc = "collect"] EXCEPT !.linked = FALSE]
             EXCEPT !.data = files[SourceDir[Dir(b)]]] \in Locals
      BY <2>2 DEF Locals, Steps, TypeOK
    <3>. QED
      BY <2>13, <3>1 DEF Compile, TypeOK, disk
  <2>14. CASE CreateObject(b)
    <3>1. [[build[b] EXCEPT !.pc = "write"] EXCEPT !.linked = TRUE] \in Locals
      BY <2>2 DEF Locals, Steps
    <3>. QED
      BY <2>14, <2>2, <3>1 DEF CreateObject, GotoLinked, TypeOK
  <2>15. CASE WriteObject(b)
    <3>1. [[build[b] EXCEPT !.pc = "read"] EXCEPT !.linked = FALSE] \in Locals
      BY <2>2 DEF Locals, Steps
    <3>2. build[b].data \in Versions \cup {NoVersion, Torn}
      BY <2>2 DEF Locals
    <3>. QED
      BY <2>15, <2>2, <3>1, <3>2 DEF WriteObject, GotoLinked, TypeOK
  <2>16. CASE ReadObject(b)
    <3>1. [[build[b] EXCEPT !.pc = "upload"] EXCEPT !.data = object[OutputDir(b)]] \in Locals
      BY <2>2 DEF Locals, Steps, TypeOK
    <3>. QED
      BY <2>16, <3>1 DEF ReadObject, GotoData, TypeOK, disk
  <2>17. CASE Upload(b)
    <3>1. /\ [build[b] EXCEPT !.pc = "record"] \in Locals
          /\ build[b].data \in Versions \cup {NoVersion, Torn}
      BY <2>2 DEF Locals, Steps
    <3>. QED
      BY <2>17, <2>2, <3>1 DEF Upload, Goto, TypeOK, disk
  <2>18. CASE Record(b)
    <3>1. /\ [build[b] EXCEPT !.pc = "clean"] \in Locals
          /\ build[b].commit \in Versions \cup {NoVersion}
          /\ build[b].manifest \in Versions \cup {NoVersion}
      BY <2>2 DEF Locals, Steps
    <3>. QED
      BY <2>18, <2>2, <3>1 DEF Record, Goto, TypeOK, disk
  <2>. QED
    BY <1>3, <2>4, <2>5, <2>6, <2>7, <2>8, <2>9, <2>10, <2>11, <2>12, <2>13,
       <2>14, <2>15, <2>16, <2>17, <2>18 DEF Step
<1>. QED
  BY <1>1, <1>2, <1>3 DEF Next

------------------------------------------------------------------------------
\* The locals of build c after its step.
LocalsAre(c, step, v, m, d) ==
  /\ build'[c].pc = step
  /\ build'[c].id = build[c].id
  /\ build'[c].commit = v
  /\ build'[c].manifest = m
  /\ build'[c].data = d

\* The two steps of MakeOutput.
After(step) == IF step = "prepare" THEN "mount" ELSE "create"

LEMMA MoverLocals ==
  ASSUME TypeOK, NEW c \in Active
  PROVE  LET v == build[c].commit  m == build[c].manifest  d == build[c].data IN
         /\ RemoveOld(c) => LocalsAre(c, "clone", v, m, d)
         /\ CloneBegin(c) => LocalsAre(c, "checkout", v, m, d)
         /\ CloneCheckout(c) => LocalsAre(c, "head", v, m, d)
         /\ ReadHead(c) => LocalsAre(c, "manifest", git[Dir(c)], m, d)
         /\ ReadManifest(c) => LocalsAre(c, "prepare", v, files[Dir(c)], d)
         /\ MakeOutput(c) => LocalsAre(c, After(build[c].pc), v, m, d)
         /\ Mount(c) => LocalsAre(c, "compile", v, m, d) /\ build'[c].linked
         /\ Compile(c) => LocalsAre(c, "collect", v, m, files[SourceDir[Dir(c)]])
         /\ CreateObject(c) => LocalsAre(c, "write", v, m, d) /\ build'[c].linked
         /\ WriteObject(c) => LocalsAre(c, "read", v, m, d)
         /\ ReadObject(c) => LocalsAre(c, "upload", v, m, object[OutputDir(c)])
         /\ Upload(c) => LocalsAre(c, "record", v, m, d)
         /\ Record(c) => LocalsAre(c, "clean", v, m, d)
         /\ Clean(c) => build'[c].pc = "idle"
         /\ Fails(c) => build'[c].pc = "idle"
<1>1. c \in Builds /\ build[c] \in Locals
  BY ActiveLocals
<1>2. RemoveOld(c) => LocalsAre(c, "clone", build[c].commit, build[c].manifest,
                                build[c].data)
  <2>1. [build EXCEPT ![c].pc = "clone"][c] = [build[c] EXCEPT !.pc = "clone"]
    BY <1>1 DEF TypeOK
  <2>2. RemoveOld(c) =>
          build'[c] \in {[build[c] EXCEPT !.pc = "clone"],
                         [[build[c] EXCEPT !.pc = "clone"] EXCEPT !.linked = FALSE]}
    BY <1>1, <2>1 DEF RemoveOld, RemoveAll
  <2>. QED
    BY <1>1, <2>2 DEF Locals, LocalsAre
<1>3. /\ CloneBegin(c) => LocalsAre(c, "checkout", build[c].commit, build[c].manifest,
                                    build[c].data)
      /\ CloneCheckout(c) => LocalsAre(c, "head", build[c].commit, build[c].manifest,
                                       build[c].data)
  BY <1>1 DEF Locals, LocalsAre, CloneBegin, CloneCheckout, Goto, TypeOK
<1>4. /\ ReadHead(c) => LocalsAre(c, "manifest", git[Dir(c)], build[c].manifest,
                                  build[c].data)
      /\ ReadManifest(c) => LocalsAre(c, "prepare", build[c].commit, files[Dir(c)],
                                      build[c].data)
  BY <1>1 DEF Locals, LocalsAre, ReadHead, ReadManifest, GotoCommit, GotoManifest, TypeOK
<1>5. MakeOutput(c) => LocalsAre(c, After(build[c].pc), build[c].commit,
                                 build[c].manifest, build[c].data)
  BY <1>1 DEF Locals, LocalsAre, MakeOutput, Goto, After, At, TypeOK
<1>6. /\ Mount(c) => /\ LocalsAre(c, "compile", build[c].commit, build[c].manifest,
                                  build[c].data)
                     /\ build'[c].linked
      /\ CreateObject(c) => /\ LocalsAre(c, "write", build[c].commit, build[c].manifest,
                                         build[c].data)
                            /\ build'[c].linked
      /\ WriteObject(c) => LocalsAre(c, "read", build[c].commit, build[c].manifest,
                                     build[c].data)
  BY <1>1 DEF Locals, LocalsAre, Mount, CreateObject, WriteObject, GotoLinked, TypeOK
<1>7. /\ Compile(c) => LocalsAre(c, "collect", build[c].commit, build[c].manifest,
                                 files[SourceDir[Dir(c)]])
      /\ ReadObject(c) => LocalsAre(c, "upload", build[c].commit, build[c].manifest,
                                    object[OutputDir(c)])
  BY <1>1 DEF Locals, LocalsAre, Compile, ReadObject, GotoData, TypeOK
<1>8. /\ Upload(c) => LocalsAre(c, "record", build[c].commit, build[c].manifest,
                                build[c].data)
      /\ Record(c) => LocalsAre(c, "clean", build[c].commit, build[c].manifest,
                                build[c].data)
  BY <1>1 DEF Locals, LocalsAre, Upload, Record, Goto, TypeOK
<1>9. ASSUME NEW d, RemoveAll(d, [build EXCEPT ![c] = Idle])
      PROVE  build'[c].pc = "idle"
  <2>1. build'[c] \in {Idle, [Idle EXCEPT !.linked = FALSE]}
    BY <1>1, <1>9 DEF RemoveAll, TypeOK
  <2>. QED
    BY <2>1 DEF Idle, Build
<1>10. (Clean(c) \/ Fails(c)) => build'[c].pc = "idle"
  BY <1>1, <1>9 DEF Clean, Fails, Idle, Build, TypeOK
<1>. QED
  BY <1>2, <1>3, <1>4, <1>5, <1>6, <1>7, <1>8, <1>10

\* The builds under way stay under way, but for the one that steps.
LEMMA ActiveFrame ==
  ASSUME Inv, NEW c \in Builds, Step(c)
  PROVE  /\ Active' \subseteq Active
         /\ Active \ {c} \subseteq Active'
         /\ \A b \in Active' : /\ build'[b].id = build[b].id
                               /\ Dir(b)' = Dir(b)
<1>1. c \in Active /\ \A b \in Builds \ {c} : SameLocals(b)
  BY StepFrame
<1>2. c \in Active' => build'[c].id = build[c].id
  BY <1>1, MoverLocals DEF Inv, Step, LocalsAre, Active
<1>3. \A b \in Active' : build'[b].id = build[b].id
  BY <1>1, <1>2 DEF SameLocals, Active
<1>. QED
  BY <1>1, <1>3 DEF SameLocals, Active, Dir

LEMMA ManifestStep ==
  ASSUME Inv, NEW c \in Builds, Step(c)
  PROVE  HasManifest'
<1>1. c \in Active /\ \A b \in Builds \ {c} : SameLocals(b)
  BY StepFrame
<1>2. ASSUME NEW b \in Active', b # c,
             build'[b].pc \notin {"remove", "clone", "checkout", "head", "manifest"}
      PROVE  build'[b].manifest \in Versions
  BY <1>1, <1>2, ActiveFrame DEF Inv, HasManifest, SameLocals, Active
<1>3. ASSUME c \in Active',
             build'[c].pc \notin {"remove", "clone", "checkout", "head", "manifest"}
      PROVE  build'[c].manifest \in Versions
  <2>1. CASE ReadManifest(c)
    <3>1. Dir(c) \in Dirs
      BY <1>1, DirType DEF Inv
    <3>. QED
      BY <1>1, <2>1, <3>1, MoverLocals DEF Inv, TypeOK, LocalsAre, ReadManifest
  <2>2. CASE ~ReadManifest(c)
    <3>1. /\ build'[c].manifest = build[c].manifest
          /\ build[c].pc \notin {"remove", "clone", "checkout", "head", "manifest"}
      BY <1>1, <1>3, <2>2, MoverLocals
      DEF Inv, Step, LocalsAre, Active, MakeOutput, Mount, Compile, CreateObject,
          WriteObject, ReadObject, Upload, Record, At
    <3>. QED
      BY <1>1, <3>1 DEF Inv, HasManifest
  <2>. QED
    BY <2>1, <2>2
<1>. QED
  BY <1>2, <1>3 DEF HasManifest

------------------------------------------------------------------------------
\* What is neither a commit's file nor object feeds nothing.
LEMMA NoneFeeds ==
  \A d : /\ OfPath(d, NoVersion) /\ PutInto(d, NoVersion) /\ Feeds(d, NoVersion)
        /\ OfPath(d, Torn) /\ PutInto(d, Torn) /\ Feeds(d, Torn)
BY NullsAssumption DEF OfPath, PutInto, Feeds

\* The files and objects in a directory after a step.
LEMMA FilesPath ==
  ASSUME Inv, NEW c \in Builds, Step(c)
  PROVE  /\ \A d \in Dirs : OfPath(d, git'[d]) /\ PutInto(d, files'[d])
         /\ \A d \in CloneDirs : Feeds(d, object'[BuildDir[d]])
<1>1. /\ c \in Active /\ TypeOK /\ Dir(c) \in CloneDirs /\ Dir(c) \in Dirs
      /\ OutputDir(c) \in Dirs
  BY StepFrame, DirType DEF Inv
<1>2. /\ \A d \in Dirs : OfPath(d, git[d]) /\ PutInto(d, files[d])
      /\ \A d \in CloneDirs : Feeds(d, object[BuildDir[d]])
      /\ Feeds(Dir(c), build[c].data)
  BY <1>1 DEF Inv, ByPath
<1>3. \A d \in CloneDirs : BuildDir[d] \in Dirs
  BY DirsAssumption
<1>4. CASE RemoveOld(c) \/ Clean(c) \/ Fails(c)
  <2>1. \A d \in Dirs : /\ git'[d] \in {git[d], NoVersion}
                       /\ files'[d] \in {files[d], NoVersion}
                       /\ object'[d] \in {object[d], NoVersion}
    BY <1>4 DEF RemoveOld, Clean, Fails, RemoveAll, disk
  <2>2. \A d \in Dirs : OfPath(d, git'[d]) /\ PutInto(d, files'[d])
    BY <1>2, <2>1, NoneFeeds
  <2>3. \A d \in CloneDirs : Feeds(d, object'[BuildDir[d]])
    BY <1>2, <1>3, <2>1, NoneFeeds
  <2>. QED
    BY <2>2, <2>3
<1>5. CASE CloneCheckout(c)
  <2>1. PICK v \in Versions :
          /\ CloneDir[v.repo] = Dir(c)
          /\ git' = [git EXCEPT ![Dir(c)] = v]
          /\ files' = [d \in Dirs |-> IF d \in Tree[v] THEN v ELSE files[d]]
          /\ object' = [d \in Dirs |-> IF d \in Tree[v] THEN v ELSE object[d]]
    BY <1>1, <1>5, CheckoutFacts
  <2>2. ASSUME NEW d \in Dirs PROVE OfPath(d, git'[d])
    <3>1. d = Dir(c) => git'[d] = v
      BY <1>1, <2>1 DEF TypeOK
    <3>2. d # Dir(c) => git'[d] = git[d]
      BY <2>1 DEF TypeOK
    <3>. QED
      BY <1>2, <2>1, <3>1, <3>2 DEF OfPath
  <2>3. \A d \in Dirs : PutInto(d, files'[d])
    BY <1>2, <2>1 DEF PutInto
  <2>4. \A d \in CloneDirs : Feeds(d, object'[BuildDir[d]])
    BY <1>2, <1>3, <2>1 DEF Feeds
  <2>. QED
    BY <2>2, <2>3, <2>4
<1>6. CASE CreateObject(c) \/ WriteObject(c)
  <2>1. git' = git /\ files' = files
    BY <1>6 DEF CreateObject, WriteObject
  <2>2. ASSUME NEW d \in CloneDirs PROVE Feeds(d, object'[BuildDir[d]])
    <3>1. CASE d = Dir(c)
      <4>1. object'[BuildDir[d]] \in {object[BuildDir[d]], Torn, build[c].data}
        BY <1>1, <1>6, <3>1 DEF CreateObject, WriteObject, OutputDir, TypeOK
      <4>. QED
        BY <1>2, <3>1, <4>1, NoneFeeds
    <3>2. CASE d # Dir(c)
      <4>1. BuildDir[d] # OutputDir(c)
        BY <1>1, <3>2, DirsAssumption DEF OutputDir
      <4>2. object'[BuildDir[d]] = object[BuildDir[d]]
        BY <1>3, <1>6, <4>1 DEF CreateObject, WriteObject, TypeOK, Inv
      <4>. QED
        BY <1>2, <4>2
    <3>. QED
      BY <3>1, <3>2
  <2>. QED
    BY <1>2, <2>1, <2>2
<1>7. CASE CloneBegin(c)
  <2>1. files' = files /\ object' = object
    BY <1>7 DEF CloneBegin
  <2>2. \A d \in Dirs : git'[d] \in {git[d], Torn}
    BY <1>7 DEF CloneBegin, Inv, TypeOK
  <2>3. \A d \in Dirs : OfPath(d, git'[d])
    BY <1>2, <2>2, NoneFeeds
  <2>. QED
    BY <1>2, <2>1, <2>3
<1>8. CASE \/ ReadHead(c) \/ ReadManifest(c) \/ MakeOutput(c)
           \/ Mount(c) \/ Compile(c) \/ ReadObject(c) \/ Upload(c) \/ Record(c)
  <2>1. git' = git /\ files' = files /\ object' = object
    BY <1>8 DEF ReadHead, ReadManifest, MakeOutput, Mount, Compile, ReadObject, Upload,
       Record, disk
  <2>. QED
    BY <1>2, <2>1
<1>. QED
  BY <1>4, <1>5, <1>6, <1>7, <1>8 DEF Step

LEMMA PathStep ==
  ASSUME Inv, NEW c \in Builds, Step(c)
  PROVE  ByPath'
<1>1. /\ c \in Active /\ TypeOK /\ build[c] \in Locals /\ Dir(c) \in Dirs
      /\ build[c].id \in Plugins
      /\ \A b \in Builds \ {c} : SameLocals(b)
  BY StepFrame, ActiveLocals, DirType DEF Inv
<1>2. /\ OfPath(Dir(c), build[c].commit)
      /\ PutInto(Dir(c), build[c].manifest)
      /\ Feeds(Dir(c), build[c].data)
  BY <1>1 DEF Inv, ByPath
<1>3. ASSUME NEW b \in Active'
      PROVE  /\ OfPath(Dir(b), build[b].commit)'
             /\ PutInto(Dir(b), build[b].manifest)'
             /\ Feeds(Dir(b), build[b].data)'
  <2>1. b \in Active /\ Dir(b)' = Dir(b)
    BY ActiveFrame
  <2>2. /\ OfPath(Dir(b), build[b].commit)
        /\ PutInto(Dir(b), build[b].manifest)
        /\ Feeds(Dir(b), build[b].data)
    BY <2>1 DEF Inv, ByPath
  <2>3. /\ build'[b].commit \in {build[b].commit, git[Dir(b)]}
        /\ build'[b].manifest \in {build[b].manifest, files[Dir(b)]}
        /\ build'[b].data \in {build[b].data, files[SourceDir[Dir(b)]], object[OutputDir(b)]}
    <3>1. CASE b = c
      BY <1>1, <3>1, MoverLocals DEF Inv, Step, LocalsAre, Active
    <3>2. CASE b # c
      BY <1>1, <2>1, <3>2 DEF SameLocals, Active
    <3>. QED
      BY <3>1, <3>2
  <2>4. /\ Dir(b) \in Dirs /\ Dir(b) \in CloneDirs /\ SourceDir[Dir(b)] \in Dirs
    BY <2>1, DirType DEF Inv
  <2>5. /\ OfPath(Dir(b), git[Dir(b)])
        /\ PutInto(Dir(b), files[Dir(b)])
        /\ PutInto(SourceDir[Dir(b)], files[SourceDir[Dir(b)]])
        /\ Feeds(Dir(b), object[OutputDir(b)])
    BY <2>4 DEF Inv, ByPath, OutputDir
  <2>6. OfPath(Dir(b), build'[b].commit)
    BY <2>2, <2>3, <2>5
  <2>7. PutInto(Dir(b), build'[b].manifest)
    BY <2>2, <2>3, <2>5
  <2>8. Feeds(Dir(b), build'[b].data)
    BY <2>2, <2>3, <2>5 DEF Feeds, PutInto
  <2>. QED
    BY <2>1, <2>6, <2>7, <2>8 DEF OfPath, PutInto, Feeds
<1>4. ASSUME NEW p \in Plugins
      PROVE  /\ OfPath(CloneDir[Repo[p]], row'[p].commit)
             /\ PutInto(CloneDir[Repo[p]], row'[p].manifest)
             /\ Feeds(CloneDir[Repo[p]], bucket'[p])
  <2>1. /\ OfPath(CloneDir[Repo[p]], row[p].commit)
        /\ PutInto(CloneDir[Repo[p]], row[p].manifest)
        /\ Feeds(CloneDir[Repo[p]], bucket[p])
    BY DEF Inv, ByPath
  <2>2. CASE p # build[c].id
    BY <2>1, <2>2, StepFrame
  <2>3. CASE p = build[c].id
    <3>1. bucket'[p] \in {bucket[p], build[c].data}
      BY <1>1, <2>3
      DEF Inv, TypeOK, Step, RemoveOld, CloneBegin, CloneCheckout, ReadHead, ReadManifest,
          MakeOutput, Mount, Compile, CreateObject, WriteObject, ReadObject, Upload,
          Record, Clean, Fails
    <3>2. \/ row'[p] = row[p]
          \/ row'[p].commit = build[c].commit /\ row'[p].manifest = build[c].manifest
      <4>1. CASE Record(c)
        BY <1>1, <2>3, <4>1 DEF Inv, TypeOK, Record
      <4>2. CASE ~Record(c)
        BY <4>2, StepFrame
        DEF Step, RemoveOld, CloneBegin, CloneCheckout, ReadHead, ReadManifest,
            MakeOutput, Mount, Compile, CreateObject, WriteObject, ReadObject, Upload,
            Clean, Fails
      <4>. QED
        BY <4>1, <4>2
    <3>3. Dir(c) = CloneDir[Repo[p]]
      BY <2>3 DEF Dir
    <3>. QED
      BY <1>2, <2>1, <3>1, <3>2, <3>3
  <2>. QED
    BY <2>2, <2>3
<1>. QED
  BY <1>3, <1>4, FilesPath DEF ByPath, OfPath, PutInto, Feeds, CloneDirs

LEMMA ApartStep ==
  ASSUME Inv, NEW c \in Builds, Step(c)
  PROVE  Apart'
<1>1. /\ alone' \subseteq alone
      /\ c \in alone' => build'[c].pc # "idle"
      /\ \A b \in Builds \ {c} : SameLocals(b)
  BY StepFrame
<1>2. alone' \subseteq Active'
  BY <1>1, ActiveFrame DEF Inv, Apart, Active
<1>3. ASSUME NEW b \in alone', NEW e \in Active', e # b
      PROVE  ~Meet(Dir(b), Dir(e))'
  <2>1. b \in Active' /\ b \in alone /\ e \in Active
    BY <1>1, <1>2, ActiveFrame
  <2>2. Dir(b)' = Dir(b) /\ Dir(e)' = Dir(e)
    BY <2>1, ActiveFrame
  <2>3. ~Meet(Dir(b), Dir(e))
    BY <1>3, <2>1 DEF Inv, Apart
  <2>. QED
    BY <2>2, <2>3 DEF Meet, Reach
<1>. QED
  BY <1>2, <1>3 DEF Apart

------------------------------------------------------------------------------
\* A step of another build leaves a build that is alone, and its files, as
\* they were.
LEMMA OtherAlone ==
  ASSUME Inv, NEW c \in Builds, Step(c), NEW b \in alone', b # c
  PROVE  Cloned(b)' /\ Built(b)'
<1>1. b \in alone /\ b \in Active /\ c \in Active
  BY StepFrame DEF Inv, Apart
<1>2. /\ {Dir(b), SourceDir[Dir(b)], OutputDir(b), OpenDir(b)}
           \subseteq Dirs \ Reach(Dir(c))
      /\ build[b].id # build[c].id
      /\ build[b].id \in Plugins
  BY <1>1, MeetFacts, DirType DEF Inv, Apart
<1>3. SameLocals(b) /\ build'[b].linked = build[b].linked
  BY <1>1, <1>2, StepFrame DEF Active
<1>4. /\ git'[Dir(b)] = git[Dir(b)] /\ files'[Dir(b)] = files[Dir(b)]
      /\ files'[SourceDir[Dir(b)]] = files[SourceDir[Dir(b)]]
      /\ object'[OutputDir(b)] = object[OutputDir(b)]
      /\ OutputDir(b) \in output' <=> OutputDir(b) \in output
      /\ bucket'[build[b].id] = bucket[build[b].id]
  BY <1>2, StepFrame
<1>5. Dir(b)' = Dir(b) /\ OutputDir(b)' = OutputDir(b)
  BY <1>3 DEF SameLocals, Dir, OutputDir
<1>6. Cloned(b) /\ Built(b)
  BY <1>1 DEF Inv
<1>7. Cloned(b)'
  BY <1>3, <1>4, <1>5, <1>6 DEF Cloned, SameLocals, At
<1>8. Built(b)'
  BY <1>3, <1>4, <1>5, <1>6 DEF Built, SameLocals, At
<1>. QED
  BY <1>7, <1>8

\* A step of a build that is alone leads from what it had to what it has.
LEMMA OwnAlone ==
  ASSUME Inv, NEW c \in Builds, Step(c), c \in alone'
  PROVE  Cloned(c)' /\ Built(c)'
<1>1. c \in alone /\ c \in Active /\ build'[c].pc # "idle"
  BY StepFrame DEF Inv, Apart
<1>2. /\ Dir(c) \in Dirs /\ build[c].id \in Plugins /\ build[c] \in Locals
      /\ Dir(c) \in Below[Dir(c)]
      /\ SourceDir[Dir(c)] \in Dirs /\ OutputDir(c) \in Dirs
  BY <1>1, DirType, ActiveLocals, DirsAssumption DEF Inv
<1>3. build'[c].id = build[c].id /\ Dir(c)' = Dir(c) /\ OutputDir(c)' = OutputDir(c)
  BY <1>1, StepFrame DEF Dir, OutputDir
<1>4. Cloned(c) /\ Built(c)
  BY <1>1 DEF Inv
<1>5. CASE RemoveOld(c)
  <2>1. build'[c].pc = "clone" /\ git'[Dir(c)] = NoVersion
    BY <1>1, <1>2, <1>5, MoverLocals DEF Inv, LocalsAre, RemoveOld, RemoveAll
  <2>. QED
    BY <1>3, <2>1 DEF Cloned, Built, At
<1>6. CASE CloneBegin(c)
  <2>1. build'[c].pc = "checkout" /\ git'[Dir(c)] = Torn
    BY <1>1, <1>2, <1>6, MoverLocals DEF Inv, LocalsAre, CloneBegin, TypeOK
  <2>. QED
    BY <1>3, <2>1 DEF Cloned, Built, At
<1>7. CASE CloneCheckout(c)
  <2>1. build'[c].pc = "head"
    BY <1>1, <1>7, MoverLocals DEF Inv, LocalsAre
  <2>2. PICK v \in Versions :
          /\ v.repo = Repo[build[c].id]
          /\ {Dir(c), SourceDir[Dir(c)]} \subseteq Tree[v]
          /\ git' = [git EXCEPT ![Dir(c)] = v]
          /\ files' = [d \in Dirs |-> IF d \in Tree[v] THEN v ELSE files[d]]
    BY <1>1, <1>7, CheckoutFacts DEF Inv
  <2>3. git'[Dir(c)] = v /\ files'[Dir(c)] = v /\ files'[SourceDir[Dir(c)]] = v
    BY <1>2, <2>2 DEF Inv, TypeOK
  <2>. QED
    BY <1>3, <2>1, <2>2, <2>3 DEF Cloned, Built, At
<1>8. CASE ReadHead(c) \/ ReadManifest(c)
  <2>1. /\ UNCHANGED disk
        /\ \/ At(c, "head") /\ LocalsAre(c, "manifest", git[Dir(c)],
                                         build[c].manifest, build[c].data)
           \/ At(c, "manifest") /\ LocalsAre(c, "prepare", build[c].commit,
                                             files[Dir(c)], build[c].data)
    BY <1>1, <1>8, MoverLocals DEF Inv, ReadHead, ReadManifest
  <2>. QED
    BY <1>3, <1>4, <2>1 DEF Cloned, Built, At, LocalsAre, disk
<1>9. CASE MakeOutput(c)
  <2>1. /\ git' = git /\ files' = files /\ object' = object /\ bucket' = bucket
        /\ OutputDir(c) \in output'
        /\ \/ At(c, "prepare") /\ LocalsAre(c, "mount", build[c].commit,
                                            build[c].manifest, build[c].data)
           \/ At(c, "collect") /\ LocalsAre(c, "create", build[c].commit,
                                            build[c].manifest, build[c].data)
    BY <1>1, <1>9, MoverLocals DEF Inv, MakeOutput, After, At
  <2>. QED
    BY <1>3, <1>4, <2>1 DEF Cloned, Built, At, LocalsAre
<1>10. CASE Mount(c)
  <2>1. /\ UNCHANGED disk /\ At(c, "mount") /\ build'[c].linked
        /\ LocalsAre(c, "compile", build[c].commit, build[c].manifest, build[c].data)
    BY <1>1, <1>10, MoverLocals DEF Inv, Mount
  <2>. QED
    BY <1>3, <1>4, <2>1 DEF Cloned, Built, At, LocalsAre, disk
<1>11. CASE Compile(c)
  <2>1. /\ UNCHANGED disk /\ At(c, "compile")
        /\ LocalsAre(c, "collect", build[c].commit, build[c].manifest, files[SourceDir[Dir(c)]])
    BY <1>1, <1>11, MoverLocals DEF Inv, Compile
  <2>. QED
    BY <1>3, <1>4, <2>1 DEF Cloned, Built, At, LocalsAre, disk
<1>12. CASE CreateObject(c)
  <2>1. /\ At(c, "create") /\ output' = output /\ build'[c].linked
        /\ LocalsAre(c, "write", build[c].commit, build[c].manifest, build[c].data)
    BY <1>1, <1>12, MoverLocals DEF Inv, CreateObject
  <2>. QED
    BY <1>3, <1>4, <2>1 DEF Cloned, Built, At, LocalsAre
<1>13. CASE WriteObject(c)
  <2>1. /\ At(c, "write") /\ build[c].linked
        /\ LocalsAre(c, "read", build[c].commit, build[c].manifest, build[c].data)
    BY <1>1, <1>4, <1>13, MoverLocals DEF Inv, WriteObject, Built, At
  <2>2. object'[OutputDir(c)] = build[c].data
    BY <1>2, <1>13, <2>1 DEF Inv, TypeOK, WriteObject
  <2>. QED
    BY <1>3, <1>4, <2>1, <2>2 DEF Cloned, Built, At, LocalsAre
<1>14. CASE ReadObject(c)
  <2>1. /\ At(c, "read")
        /\ LocalsAre(c, "upload", build[c].commit, build[c].manifest, object[OutputDir(c)])
    BY <1>1, <1>14, MoverLocals DEF Inv, ReadObject
  <2>. QED
    BY <1>3, <1>4, <2>1 DEF Cloned, Built, At, LocalsAre
<1>15. CASE Upload(c)
  <2>1. /\ At(c, "upload") /\ bucket'[build[c].id] = build[c].data
        /\ LocalsAre(c, "record", build[c].commit, build[c].manifest, build[c].data)
    BY <1>1, <1>2, <1>15, MoverLocals DEF Inv, Upload, TypeOK
  <2>. QED
    BY <1>3, <1>4, <2>1 DEF Cloned, Built, At, LocalsAre
<1>16. CASE Record(c)
  <2>1. build'[c].pc = "clean"
    BY <1>1, <1>16, MoverLocals DEF Inv, LocalsAre
  <2>. QED
    BY <2>1 DEF Cloned, Built, At
<1>17. CASE Clean(c) \/ Fails(c)
  BY <1>1, <1>17, MoverLocals DEF Inv
<1>. QED
  BY <1>5, <1>6, <1>7, <1>8, <1>9, <1>10, <1>11, <1>12, <1>13, <1>14, <1>15,
     <1>16, <1>17 DEF Step

\* Only uploads, records and failures matter to rows and objects.
LEMMA RowStep ==
  ASSUME Inv, NEW c \in Builds, Step(c)
  PROVE  RowNamesItsObject'
<1>1. /\ c \in Active /\ build[c].id \in Plugins
      /\ \A b \in Builds \ {c} : SameLocals(b)
  BY StepFrame, DirType DEF Inv
<1>2. SUFFICES ASSUME NEW p \in Plugins, p \notin torn',
                      \A b \in Builds : ~(build'[b].pc = "record" /\ build'[b].id = p)
               PROVE  row'[p].commit = bucket'[p] /\ row'[p].manifest = bucket'[p]
  BY DEF RowNamesItsObject, At
<1>3. \A b \in Builds \ {c} : ~(At(b, "record") /\ build[b].id = p)
  BY <1>1, <1>2 DEF SameLocals, At
<1>4. ASSUME ~(At(c, "record") /\ build[c].id = p), p \notin torn,
             row'[p] = row[p], bucket'[p] = bucket[p]
      PROVE  row'[p].commit = bucket'[p] /\ row'[p].manifest = bucket'[p]
  BY <1>3, <1>4 DEF Inv, RowNamesItsObject
<1>5. CASE p # build[c].id
  BY <1>2, <1>4, <1>5, StepFrame
<1>6. CASE p = build[c].id
  <2>1. CASE Upload(c)
    <3>1. LocalsAre(c, "record", build[c].commit, build[c].manifest, build[c].data)
      BY <1>1, <2>1, MoverLocals DEF Inv
    <3>. QED
      BY <1>1, <1>2, <1>6, <3>1 DEF LocalsAre, Active
  <2>2. CASE Record(c)
    <3>1. c \in alone
      BY <1>2, <1>6, <2>2 DEF Record
    <3>2. /\ bucket[p] = build[c].data
          /\ build[c].commit = build[c].data
          /\ build[c].manifest = build[c].data
      BY <1>6, <2>2, <3>1 DEF Inv, Built, Record, At
    <3>3. /\ row'[p].commit = build[c].commit /\ row'[p].manifest = build[c].manifest
          /\ bucket' = bucket
      BY <1>6, <2>2 DEF Inv, TypeOK, Record
    <3>. QED
      BY <3>2, <3>3
  <2>3. CASE Fails(c)
    <3>1. build[c].pc \notin {"upload", "record"} /\ torn' = torn
      BY <1>2, <1>6, <2>3 DEF Fails
    <3>2. row' = row /\ bucket' = bucket
      BY <2>3, <3>1 DEF Fails, At
    <3>. QED
      BY <1>2, <1>4, <3>1, <3>2 DEF At
  <2>4. CASE ~(Upload(c) \/ Record(c) \/ Fails(c))
    <3>1. row' = row /\ bucket' = bucket /\ torn' = torn /\ ~At(c, "record")
      BY <2>4
      DEF Step, RemoveOld, CloneBegin, CloneCheckout, ReadHead, ReadManifest, MakeOutput,
          Mount, Compile, CreateObject, WriteObject, ReadObject, Clean, At
    <3>. QED
      BY <1>2, <1>4, <3>1
  <2>. QED
    BY <2>1, <2>2, <2>3, <2>4
<1>. QED
  BY <1>5, <1>6

------------------------------------------------------------------------------
\* A build that begins takes "alone" from those it shares a directory with.
LEMMA BeginStep ==
  ASSUME Inv, TypeOK', NEW c \in Builds, NEW p \in Plugins, Begin(c, p)
  PROVE  Inv'
<1>1. /\ c \notin Active
      /\ build' = [build EXCEPT ![c] = Build("remove", p)]
      /\ build'[c] = Build("remove", p)
      /\ \A b \in Builds \ {c} : build'[b] = build[b]
      /\ UNCHANGED <<head, disk, bucket, row, torn>>
  BY DEF Begin, Active, At, Inv, TypeOK
<1>2. /\ Active' = Active \cup {c}
      /\ Dir(c)' = CloneDir[Repo[p]]
      /\ \A b \in Active : b # c /\ Dir(b)' = Dir(b)
  BY <1>1 DEF Active, Dir, Build
<1>3. HasManifest'
  BY <1>1, <1>2 DEF Inv, HasManifest, Build, Active
<1>4. ByPath'
  <2>1. ASSUME NEW b \in Active'
        PROVE  /\ OfPath(Dir(b), build[b].commit)'
               /\ PutInto(Dir(b), build[b].manifest)'
               /\ Feeds(Dir(b), build[b].data)'
    <3>1. CASE b = c
      BY <1>1, <3>1, NullsAssumption DEF OfPath, PutInto, Feeds, Build
    <3>2. CASE b # c
      BY <1>1, <1>2, <3>2 DEF Inv, ByPath, OfPath, PutInto, Feeds, Active
    <3>. QED
      BY <3>1, <3>2
  <2>. QED
    BY <1>1, <2>1 DEF Inv, ByPath, OfPath, PutInto, Feeds, CloneDirs, disk
<1>5. Apart'
  <2>1. alone' \subseteq Active'
    BY <1>2 DEF Inv, Apart, Begin
  <2>2. ASSUME NEW b \in alone', NEW e \in Active', e # b
        PROVE  ~Meet(Dir(b), Dir(e))'
    <3>1. CASE b # c /\ e # c
      BY <1>2, <2>1, <2>2, <3>1 DEF Inv, Apart, Begin, Meet, Reach
    <3>2. CASE b # c /\ e = c
      <4>1. b \in Active /\ b \notin Rivals(p)
        BY <1>2, <2>1, <3>2 DEF Begin
      <4>. QED
        BY <1>2, <3>2, <4>1 DEF Rivals, Meet, Reach
    <3>3. CASE b = c
      <4>1. Rivals(p) = {} /\ e \in Active
        BY <1>1, <1>2, <2>2, <3>3 DEF Inv, Apart, Begin
      <4>. QED
        BY <1>2, <3>3, <4>1 DEF Rivals, Meet, Reach
    <3>. QED
      BY <3>1, <3>2, <3>3
  <2>. QED
    BY <2>1, <2>2 DEF Apart
<1>6. ASSUME NEW b \in alone' PROVE Cloned(b)' /\ Built(b)'
  <2>1. CASE b = c
    BY <1>1, <2>1 DEF Cloned, Built, At, Build
  <2>2. CASE b # c
    <3>1. b \in alone /\ b \in Active
      BY <2>2 DEF Begin, Inv, Apart
    <3>2. build'[b] = build[b] /\ Dir(b)' = Dir(b) /\ OutputDir(b)' = OutputDir(b)
      BY <1>1, <1>2, <2>2, <3>1 DEF Active, OutputDir
    <3>3. Cloned(b) /\ Built(b)
      BY <3>1 DEF Inv
    <3>4. Cloned(b)'
      BY <1>1, <3>2, <3>3 DEF Cloned, At, disk
    <3>5. Built(b)'
      BY <1>1, <3>2, <3>3 DEF Built, At, disk
    <3>. QED
      BY <3>4, <3>5
  <2>. QED
    BY <2>1, <2>2
<1>7. RowNamesItsObject'
  <2>1. \A q \in Plugins :
          (\A b \in Builds : ~(build'[b].pc = "record" /\ build'[b].id = q))
            => (\A b \in Builds : ~(At(b, "record") /\ build[b].id = q))
    BY <1>1 DEF At, Active
  <2>. QED
    BY <1>1, <2>1 DEF Inv, RowNamesItsObject, At
<1>. QED
  BY <1>3, <1>4, <1>5, <1>6, <1>7 DEF Inv

\* A push changes what is cloned from now on, and nothing that is there.
LEMMA QuietStep ==
  ASSUME Inv, TypeOK', UNCHANGED <<disk, build, bucket, row, alone, torn>>
  PROVE  Inv'
<1>1. /\ UNCHANGED <<git, files, output, object, build, bucket, row, alone, torn>>
      /\ Active' = Active
      /\ \A b \in Builds : Dir(b)' = Dir(b) /\ OutputDir(b)' = OutputDir(b)
  BY DEF disk, Active, Dir, OutputDir
<1>2. HasManifest'
  BY <1>1 DEF Inv, HasManifest
<1>3. ByPath'
  BY <1>1 DEF Inv, ByPath, OfPath, PutInto, Feeds, CloneDirs, Active, Dir
<1>4. Apart'
  BY <1>1 DEF Inv, Apart, Active, Meet, Reach, Dir
<1>5. \A b \in alone : Cloned(b)'
  BY <1>1 DEF Inv, Cloned, At, Dir
<1>6. \A b \in alone : Built(b)'
  BY <1>1 DEF Inv, Built, At, Dir, OutputDir
<1>7. RowNamesItsObject'
  BY <1>1 DEF Inv, RowNamesItsObject, At
<1>. QED
  BY <1>1, <1>2, <1>3, <1>4, <1>5, <1>6, <1>7 DEF Inv

LEMMA InvInit == Init => Inv
<1>. SUFFICES ASSUME Init PROVE Inv
  OBVIOUS
<1>1. TypeOK
  BY BoundAssumption DEF Init, TypeOK, NoRow
<1>2. Active = {} /\ alone = {}
  BY DEF Init, Active, Idle, Build
<1>3. ByPath
  <2>1. \A d \in CloneDirs : BuildDir[d] \in Dirs
    BY DirsAssumption
  <2>. QED
    BY <1>2, <2>1, NoneFeeds DEF Init, ByPath, NoRow
<1>4. RowNamesItsObject
  BY DEF Init, RowNamesItsObject, NoRow
<1>. QED
  BY <1>1, <1>2, <1>3, <1>4 DEF Inv, HasManifest, Apart

LEMMA InvStep == Inv /\ [Next]_vars => Inv'
<1>. SUFFICES ASSUME Inv, [Next]_vars PROVE Inv'
  OBVIOUS
<1>1. ASSUME NEW g \in Repos, Push(g) PROVE Inv'
  <2>1. TypeOK'
    BY <1>1, TypeStep DEF Inv, Next
  <2>. QED
    BY <1>1, <2>1, QuietStep DEF Push
<1>2. ASSUME NEW b \in Builds, NEW p \in Plugins, Begin(b, p) PROVE Inv'
  <2>1. TypeOK'
    BY <1>2, TypeStep DEF Inv, Next
  <2>. QED
    BY <1>2, <2>1, BeginStep
<1>3. ASSUME NEW b \in Builds, Step(b) PROVE Inv'
  <2>1. TypeOK'
    BY <1>3, TypeStep DEF Inv, Next
  <2>2. \A c \in alone' : Cloned(c)' /\ Built(c)'
    BY <1>3, OtherAlone, OwnAlone
  <2>. QED
    BY <1>3, <2>1, <2>2, ManifestStep, PathStep, ApartStep, RowStep DEF Inv
<1>4. CASE UNCHANGED vars
  <2>1. TypeOK'
    BY <1>4 DEF Inv, TypeOK, vars, disk
  <2>. QED
    BY <1>4, <2>1, QuietStep DEF vars
<1>. QED
  BY <1>1, <1>2, <1>3, <1>4 DEF Next

LEMMA InvAlways == Spec => []Inv
BY InvInit, InvStep, PTL DEF Spec

------------------------------------------------------------------------------
\* Every step of a build keeps its locals, its files, the bucket and the rows
\* of their types, whatever is removed under it.
THEOREM BuildTypes == Spec => []TypeOK
<1>1. Inv => TypeOK
  BY DEF Inv
<1>. QED
  BY <1>1, InvAlways, PTL

\* A build that no other with a common directory overlapped uploads an object
\* compiled from the commit it reports (buildPlugin, Load and Build).
THEOREM BuildsOneCommit == Spec => []AloneIsOneCommit
<1>1. Inv => AloneIsOneCommit
  BY DEF Inv, Built, AloneIsOneCommit
<1>. QED
  BY <1>1, InvAlways, PTL

\* Such a build finds its clone, its mount and its object at every step.
THEOREM BuildsFindFiles == Spec => []AloneFindsItsFiles
<1>1. Inv => AloneFindsItsFiles
  <2>. SUFFICES ASSUME Inv, NEW b \in alone
                PROVE  /\ At(b, "clone") => git[Dir(b)] = NoVersion
                       /\ At(b, "checkout") => git[Dir(b)] = Torn
                       /\ At(b, "head") => git[Dir(b)] \notin {NoVersion, Torn}
                       /\ At(b, "manifest") => files[Dir(b)] # NoVersion
                       /\ At(b, "mount") => Exists(Dir(b))
                       /\ At(b, "compile") => /\ build[b].linked
                                              /\ files[SourceDir[Dir(b)]] # NoVersion
                       /\ At(b, "create") => Exists(OutputDir(b))
                       /\ At(b, "write") => build[b].linked
                       /\ At(b, "read") => object[OutputDir(b)] # NoVersion
    BY DEF AloneFindsItsFiles
  <2>1. Cloned(b) /\ Built(b) /\ b \in Active
    BY DEF Inv, Apart
  <2>2. OutputDir(b) \in Below[Dir(b)] /\ OutputDir(b) \in Below[OutputDir(b)]
    BY <2>1, DirType, DirsAssumption DEF Inv
  <2>3. At(b, "mount") => Exists(Dir(b))
    BY <2>1, <2>2 DEF Built, Exists, At
  <2>4. At(b, "create") => Exists(OutputDir(b))
    BY <2>1, <2>2 DEF Built, Exists, At
  <2>. QED
    BY <2>1, <2>3, <2>4, NullsAssumption DEF Cloned, Built, At
<1>. QED
  BY <1>1, InvAlways, PTL

\* A row names the commit its object was compiled from, unless builds
\* overlapped or failed after the last one that ran alone (UploadEBPF and
\* PluginRepo.Update are two steps of buildPlugin).
THEOREM RowsNameObjects == Spec => []RowNamesItsObject
<1>1. Inv => RowNamesItsObject
  BY DEF Inv
<1>. QED
  BY <1>1, InvAlways, PTL

\* The commit in a plugin's row is of a repository with its path, its manifest
\* and its object of commits whose checkouts (PlainClone in Loader.Load) put
\* files where its build reads them, however builds overlap, fail and remove or
\* overwrite each other's files.
THEOREM ObjectsKeepToDirectory == Spec => []BuiltFromItsDirectory
<1>1. Inv => BuiltFromItsDirectory
  BY DEF Inv, ByPath, OfPath, PutInto, Feeds, BuiltFromItsDirectory
<1>. QED
  BY <1>1, InvAlways, PTL

==============================================================================
