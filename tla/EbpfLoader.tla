------------------------------ MODULE EbpfLoader ------------------------------
(***************************************************************************)
(* The eBPF loader (runtime/ebpf/loader.go): the map of loaded programs    *)
(* under Loader.mu, and per program a goroutine (readEvents) that moves    *)
(* events from the kernel's ring buffer to the plugin's handler until the  *)
(* program's context is done.                                              *)
(*                                                                         *)
(* LoadProgramWithManifest and UnloadProgram hold Loader.mu from start to  *)
(* end, so each is one step.  Close holds it while it calls UnloadProgram, *)
(* so its steps are told apart.                                            *)
(***************************************************************************)
EXTENDS Naturals

CONSTANTS
  Plugins,     \* plugin ids
  Programs,    \* Program objects (bounds the number of loads)
  None,        \* no program, no plugin
  Closers,     \* goroutines that call Close
  RingSize     \* events a ring buffer holds (bounds the kernel's backlog)

ASSUME NoneAssumption == None \notin Programs \cup Plugins \cup Closers
ASSUME RingAssumption == RingSize \in Nat \ {0}

VARIABLES
  programs,    \* Loader.programs: per plugin its Program, or None
  owner,       \* per Program the plugin it was loaded for; None: not loaded yet
  open,        \* Programs whose ring buffer and links are open
  ctx,         \* per Program its context: not made, "live" or "done"
  ending,      \* Programs whose context derives from one that will end
  reader,      \* per Program the next step of readEvents
  ring,        \* per Program the number of events in its ring buffer
  late,        \* history: per Program the handler calls after its context ended
  holder,      \* the goroutine that holds Loader.mu between steps, or None
  closing      \* per closer the next step of Close

vars == <<programs, owner, open, ctx, ending, reader, ring, late, holder, closing>>

TypeOK ==
  /\ programs \in [Plugins -> Programs \cup {None}]
  /\ owner \in [Programs -> Plugins \cup {None}]
  /\ open \subseteq Programs
  /\ ctx \in [Programs -> {"none", "live", "done"}]
  /\ ending \subseteq Programs
  /\ reader \in [Programs -> {"none", "check", "read", "handle", "exited"}]
  /\ ring \in [Programs -> 0..RingSize]
  /\ late \in [Programs -> Nat]
  /\ holder \in Closers \cup {None}
  /\ closing \in [Closers -> {"idle", "unload", "closed"}]

Init ==
  /\ programs = [p \in Plugins |-> None]
  /\ owner = [k \in Programs |-> None]
  /\ open = {}
  /\ ctx = [k \in Programs |-> "none"]
  /\ ending = {}
  /\ reader = [k \in Programs |-> "none"]
  /\ ring = [k \in Programs |-> 0]
  /\ late = [k \in Programs |-> 0]
  /\ holder = None
  /\ closing = [c \in Closers |-> "idle"]

Free == holder = None
loaderVars == <<programs, owner, open, ctx, ending, holder, closing>>

------------------------------------------------------------------------------
(* The loader.                                                             *)

\* go l.readEvents(...).
ReaderStart(k) == reader' = [reader EXCEPT ![k] = "check"]

\* attachProgram, for each kernel program of the collection.  One that cannot be
\* attached is logged; the collection and its ring buffer are open all the same.
Attach(k) == open' = open \cup {k}

\* LoadProgramWithManifest.  A program loaded earlier for the plugin is
\* overwritten in the map and stays open; only its own context can stop its
\* reader.  A load that fails leaves nothing behind.  "scoped" is the
\* caller's context: an HTTP request's ends, the background context does not.
\* A collection need not have a ring buffer: then there is nothing to read.
LoadProgramWithManifest(p, k, scoped, ringed) ==
  /\ Free
  /\ owner[k] = None
  /\ owner' = [owner EXCEPT ![k] = p]
  /\ Attach(k)
  /\ ctx' = [ctx EXCEPT ![k] = "live"]
  /\ ending' = IF scoped THEN ending \cup {k} ELSE ending
  /\ programs' = [programs EXCEPT ![p] = k]
  /\ IF ringed THEN ReaderStart(k) ELSE UNCHANGED reader
  /\ UNCHANGED <<ring, late, holder, closing>>

\* Mutant of Release: the context is not cancelled before the close.
ReleaseUncancelled(k) ==
  /\ UNCHANGED ctx
  /\ open' = open \ {k}

\* cancel(), then close the ring buffer, the links and the collection.
Release(k) ==
  /\ ctx' = [ctx EXCEPT ![k] = "done"]
  /\ open' = open \ {k}

\* Mutant of UnloadProgram: the released program stays in the map.
UnloadKeepsEntry(u, p) ==
  /\ Free
  /\ u \in Closers => closing[u] = "unload"
  /\ programs[p] # None
  /\ Release(programs[p])
  /\ UNCHANGED <<programs, owner, ending, reader, ring, late, holder, closing>>

\* UnloadProgram of a registered program (of another id it is an error), by
\* the closer u on behalf of Close or by any other goroutine.  It locks
\* Loader.mu itself.
UnloadProgram(u, p) ==
  /\ Free
  /\ u \in Closers => closing[u] = "unload"
  /\ programs[p] # None
  /\ Release(programs[p])
  /\ programs' = [programs EXCEPT ![p] = None]
  /\ closing' = IF u \in Closers /\ \A q \in Plugins \ {p} : programs[q] = None
                THEN [closing EXCEPT ![u] = "closed"] ELSE closing
  /\ UNCHANGED <<owner, ending, reader, ring, late, holder>>

\* The context the program's was derived from ends: the HTTP handler that
\* loaded it returns, or its request times out.
ParentEnds(k) ==
  /\ k \in ending /\ ctx[k] = "live"
  /\ ctx' = [ctx EXCEPT ![k] = "done"]
  /\ UNCHANGED <<programs, owner, open, ending, reader, ring, late, holder, closing>>

\* Close takes Loader.mu; with programs left it goes on to unload them with
\* the lock held, without any it returns.
CloseBegin(c) ==
  /\ Free
  /\ closing[c] = "idle"
  /\ IF \E p \in Plugins : programs[p] # None
     THEN holder' = c /\ closing' = [closing EXCEPT ![c] = "unload"]
     ELSE closing' = [closing EXCEPT ![c] = "closed"] /\ UNCHANGED holder
  /\ UNCHANGED <<programs, owner, open, ctx, ending, reader, ring, late>>

------------------------------------------------------------------------------
(* The kernel and the reader.                                              *)

\* Mutant of KernelEvent: a full ring buffer takes one more event.
KernelOverfills(k) ==
  /\ k \in open
  /\ reader[k] # "none"
  /\ ring' = [ring EXCEPT ![k] = @ + 1]
  /\ UNCHANGED <<loaderVars, reader, late>>

\* An attached program submits an event; a full ring buffer drops it.
KernelEvent(k) ==
  /\ k \in open
  /\ reader[k] # "none"      \* the program has a ring buffer
  /\ ring[k] < RingSize
  /\ ring' = [ring EXCEPT ![k] = @ + 1]
  /\ UNCHANGED <<loaderVars, reader, late>>

\* The select on ctx.Done().
ReaderCheck(k) ==
  /\ reader[k] = "check"
  /\ reader' = [reader EXCEPT ![k] = IF ctx[k] = "done" THEN "exited" ELSE "read"]
  /\ UNCHANGED <<loaderVars, ring, late>>

\* Mutant of ReaderRead: a record of fewer than 32 bytes ends the reader.
ReadShortEnds(k) ==
  /\ reader[k] = "read"
  /\ \/ /\ k \in open /\ ring[k] > 0
        /\ ring' = [ring EXCEPT ![k] = @ - 1]
        /\ \E next \in {"handle", "exited"} : reader' = [reader EXCEPT ![k] = next]
     \/ /\ k \notin open
        /\ reader' = [reader EXCEPT ![k] = "check"]
        /\ UNCHANGED ring
  /\ UNCHANGED <<loaderVars, late>>

\* RingBuf.Read blocks until there is an event; on a closed ring buffer it
\* returns an error and the loop starts over.  A record of fewer than 32
\* bytes is dropped.
ReaderRead(k) ==
  /\ reader[k] = "read"
  /\ \/ /\ k \in open /\ ring[k] > 0
        /\ ring' = [ring EXCEPT ![k] = @ - 1]
        /\ \E next \in {"handle", "check"} : reader' = [reader EXCEPT ![k] = next]
     \/ /\ k \notin open
        /\ reader' = [reader EXCEPT ![k] = "check"]
        /\ UNCHANGED ring
  /\ UNCHANGED <<loaderVars, late>>

\* Mutant of AfterHandle: the loop drains the ring buffer before it looks at
\* the context again.
DrainFirst(k) == IF ring[k] > 0 THEN "read" ELSE "check"

\* Where the loop goes on after the handler returned.
AfterHandle(k) == "check"

\* The event handler runs.
ReaderHandle(k) ==
  /\ reader[k] = "handle"
  /\ late' = IF ctx[k] = "done" THEN [late EXCEPT ![k] = @ + 1] ELSE late
  /\ reader' = [reader EXCEPT ![k] = AfterHandle(k)]
  /\ UNCHANGED <<loaderVars, ring>>

ReaderStep(k) == ReaderCheck(k) \/ ReaderRead(k) \/ ReaderHandle(k)

------------------------------------------------------------------------------
Next ==
  \/ \E p \in Plugins, k \in Programs, scoped, ringed \in BOOLEAN :
       LoadProgramWithManifest(p, k, scoped, ringed)
  \/ \E u \in Closers \cup {None}, p \in Plugins : UnloadProgram(u, p)
  \/ \E k \in Programs : ParentEnds(k) \/ KernelEvent(k) \/ ReaderStep(k)
  \/ \E c \in Closers : CloseBegin(c)

Spec == Init /\ [][Next]_vars

\* The scheduler runs the readers.
Fairness == \A k \in Programs : WF_vars(ReaderStep(k))

FairSpec == Spec /\ Fairness

------------------------------------------------------------------------------
\* The map holds, for a plugin, an open program loaded for that plugin.
RegisteredIsOpen ==
  \A p \in Plugins :
    programs[p] # None => programs[p] \in open /\ owner[programs[p]] = p

\* Once a program's context has ended, at most one more event reaches the
\* plugin's handler: the one its reader was already reading or handling.
AtMostOneLateEvent == \A k \in Programs : late[k] <= 1

\* What makes it inductive: a late call was the last, none was made while the
\* context lived, and a Program not loaded yet has no reader.
LateInv ==
  \A k \in Programs :
    /\ owner[k] = None => reader[k] = "none" /\ late[k] = 0
    /\ late[k] \in {0, 1}
    /\ ctx[k] # "done" => late[k] = 0
    /\ late[k] = 1 => reader[k] \in {"check", "exited"}

\* A reader goroutine of a released program ends.
ReadersEnd ==
  \A k \in Programs :
    (reader[k] # "none" /\ k \notin open) ~> reader[k] = "exited"

\* A full ring buffer, which drops events, is drained while its program runs.
FullRingDrains ==
  \A k \in Programs :
    ring[k] = RingSize ~> (ring[k] < RingSize \/ ctx[k] = "done")

==============================================================================
