--------------------------- MODULE MCBuildWorkspace ---------------------------
(***************************************************************************)
(* Instances of BuildWorkspace for TLC.  Plugins p1 and p2 come from two   *)
(* hosts with one path, "org/ebpf"; p3 from a repository whose path is     *)
(* "org": it checks files out into the clone of the others, which is the   *)
(* directory its build compiles.  The manifest of r2 is named "org" too,   *)
(* those of the others "tool".  r1 is pushed to once.                      *)
(***************************************************************************)
EXTENDS BuildWorkspace, TLC

Inner == {"org/ebpf", "org/ebpf/ebpf", "org/ebpf/build"}
Outer == {"org", "org/build"} \cup Inner
MCDirs == Outer \cup {"tool"}
MCBelow ==
  [d \in MCDirs |-> CASE d = "org" -> Outer [] d = "org/ebpf" -> Inner [] OTHER -> {d}]

MCRepos == {"r1", "r2", "r3"}
MCCloneDir == [g \in MCRepos |-> IF g = "r3" THEN "org" ELSE "org/ebpf"]
MCSourceDir ==
  [d \in CloneDirs |-> IF d = "org" THEN "org/ebpf" ELSE "org/ebpf/ebpf"]
MCBuildDir ==
  [d \in CloneDirs |-> IF d = "org" THEN "org/build" ELSE "org/ebpf/build"]
MCMaxRev == [g \in MCRepos |-> IF g = "r1" THEN 1 ELSE 0]
MCTree ==
  [v \in Versions |->
     IF v.repo = "r3" THEN {"org", "org/ebpf"} ELSE {"org/ebpf", "org/ebpf/ebpf"}]
MCManifestDir == [v \in Versions |-> IF v.repo = "r2" THEN "org" ELSE "tool"]

MCPlugins == {"p1", "p2", "p3"}
MCRepo ==
  [p \in MCPlugins |->
     CASE p = "p1" -> "r1" [] p = "p2" -> "r2" [] p = "p3" -> "r3"]

Symmetry == Permutations(Builds)

==============================================================================
