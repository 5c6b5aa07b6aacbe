---------------------------- MODULE PluginRegistry ----------------------------
(***************************************************************************)
(* What the plugins table promises to everyone who holds a plugin's id:    *)
(* an id is handed out once, no two registered plugins share a name, and a *)
(* plugin that was removed stays removed.  The builds, requests, faults    *)
(* and restarts of PluginLifecycle must all look like these four steps.    *)
(***************************************************************************)
CONSTANTS
  Plugins,    \* plugin ids
  Names       \* plugin names

VARIABLES
  used,       \* ids handed out so far
  listed,     \* ids of the registered plugins
  name        \* the name of each registered plugin

vars == <<used, listed, name>>

Init ==
  /\ used = {}
  /\ listed = {}
  /\ name \in [Plugins -> Names]

\* No registered plugin but p itself has name n.
Free(p, n) == \A q \in listed \ {p} : name[q] # n

Register(p, n) ==
  /\ p \notin used
  /\ Free(p, n)
  /\ used' = used \cup {p}
  /\ listed' = listed \cup {p}
  /\ name' = [name EXCEPT ![p] = n]

\* A finished build gives the plugin the name of its manifest.
Rename(p, n) ==
  /\ p \in listed
  /\ Free(p, n)
  /\ name' = [name EXCEPT ![p] = n]
  /\ UNCHANGED <<used, listed>>

Remove(p) ==
  /\ p \in listed
  /\ listed' = listed \ {p}
  /\ UNCHANGED <<used, name>>

Next ==
  \E p \in Plugins :
    \/ \E n \in Names : Register(p, n) \/ Rename(p, n)
    \/ Remove(p)

Spec == Init /\ [][Next]_vars

==============================================================================
