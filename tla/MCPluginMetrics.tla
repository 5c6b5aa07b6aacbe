--------------------------- MODULE MCPluginMetrics ---------------------------
(***************************************************************************)
(* Instances of PluginMetrics for TLC.  Metric "b_c" of plugin "a" and     *)
(* metric "c" of plugin "a_b" have the same full name "a_b_c"; every other *)
(* pair has a name of its own.                                             *)
(***************************************************************************)
EXTENDS PluginMetrics, TLC

MCPlugins == {"a", "a_b"}
MCMetrics == {"c", "b_c"}
MCFullNames == {"a_c", "a_b_c", "a_b_b_c"}
MCFullName ==
  [p \in MCPlugins |->
     [m \in MCMetrics |->
        CASE p = "a" /\ m = "c" -> "a_c"
          [] p = "a_b" /\ m = "b_c" -> "a_b_b_c"
          [] OTHER -> "a_b_c"]]

\* Both metrics; one of them with another help text; and none.
MCManifests ==
  {[m \in MCMetrics |-> "s1"],
   [m \in MCMetrics |-> IF m = "c" THEN "s2" ELSE "none"],
   [m \in MCMetrics |-> "none"]}

Symmetry == Permutations(Workers) \cup Permutations(Ids)

==============================================================================
