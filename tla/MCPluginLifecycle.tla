-------------------------- MODULE MCPluginLifecycle --------------------------
(***************************************************************************)
(* Instances of PluginLifecycle for TLC.  Repositories gitA and gitB are   *)
(* two URLs whose manifests carry the same name: the case in which the row *)
(* a build wants to write collides with another row.  Plugin ids, requests *)
(* and builds are interchangeable, so runs of safety properties use the    *)
(* symmetry of their permutations.                                         *)
(***************************************************************************)
EXTENDS PluginLifecycle, TLC

MCRepos == {"gitA", "gitB"}
MCNames == {"pathA", "pathB", "plugin"}
MCRepoName == [g \in MCRepos |-> IF g = "gitA" THEN "pathA" ELSE "pathB"]
MCManifestName == [g \in MCRepos |-> "plugin"]

MCOneRepo == {"gitA"}
MCOneRepoName == [g \in MCOneRepo |-> "pathA"]
MCOneManifestName == [g \in MCOneRepo |-> "plugin"]

Symmetry == Permutations(Plugins) \cup Permutations(Requests) \cup Permutations(Builds)

==============================================================================
