------------------------------ MODULE FilterCache ------------------------------
(***************************************************************************)
(* The result cache of the filter engine (internal/filter/engine.go): two  *)
(* maps, from an expression to its result and to the time it expires.      *)
(*                                                                         *)
(* A lookup holds Engine.mu for reading, and deletes an expired entry from *)
(* both maps; the cleanup routine holds it for writing and does the same;  *)
(* an evaluation that is over writes both maps with no lock at all.  Each  *)
(* access to a map is a step.  (Accesses that overlap in time, for which   *)
(* the Go runtime may kill the process, are outside the model.)            *)
(***************************************************************************)
EXTENDS Naturals

CONSTANTS
  Exprs,      \* expressions: the keys of both maps
  Queries,    \* goroutines in Engine.Evaluate
  None,       \* no expiry, no expression
  TTL,        \* Engine.cacheTTL
  MaxTime     \* bound on the clock

ASSUME NoneAssumption == None \notin Exprs \cup 0..(MaxTime + TTL)
ASSUME TimeAssumption == TTL \in Nat /\ MaxTime \in Nat

VARIABLES
  now,       \* the clock
  cache,     \* expressions with a result in Engine.cache
  expiry,    \* Engine.cacheExpiry
  query,     \* per query goroutine the next step and its expression
  sweep,     \* Cleanup: its time, the keys left to visit, the one being deleted and
             \* whether its result is gone
  filled,    \* history: per expression the time of the last addToCache
  raced      \* history: expressions two goroutines accessed at a time

vars == <<now, cache, expiry, query, sweep, filled, raced>>

Times == 0..MaxTime
IdleQuery == [pc |-> "idle", expr |-> None]
NoSweep == [on |-> FALSE, at |-> 0, left |-> {}, key |-> None, gone |-> FALSE]

\* Steps with the lock held for reading, and steps between the two writes of a
\* change to an entry.
LookupSteps == {"check", "dropResult", "dropExpiry"}
ChangeSteps == {"dropResult", "dropExpiry", "storeExpiry"}

TypeOK ==
  /\ now \in Times
  /\ cache \subseteq Exprs
  /\ expiry \in [Exprs -> 0..(MaxTime + TTL) \cup {None}]
  /\ query \in [Queries -> {IdleQuery} \cup
                           [pc : LookupSteps \cup {"evaluate", "storeExpiry"}, expr : Exprs]]
  /\ sweep \in [on : BOOLEAN, at : Times, left : SUBSET Exprs,
               key : Exprs \cup {None}, gone : BOOLEAN]
  /\ sweep.gone => sweep.key # None
  /\ sweep.key # None => sweep.on
  /\ filled \in [Exprs -> Times]
  /\ raced \subseteq Exprs

Init ==
  /\ now = 0
  /\ cache = {}
  /\ expiry = [e \in Exprs |-> None]
  /\ query = [q \in Queries |-> IdleQuery]
  /\ sweep = NoSweep
  /\ filled = [e \in Exprs |-> 0]
  /\ raced = {}

Tick == now < MaxTime /\ now' = now + 1 /\ UNCHANGED <<cache, expiry, query, sweep, filled>>

At(q, step) == query[q].pc = step
Goto(q, step) == query' = [query EXCEPT ![q].pc = step]
EndQuery(q) == query' = [query EXCEPT ![q] = IdleQuery]

\* Has the entry an expiry that time t is after?
Expired(e, t) == expiry[e] # None /\ t > expiry[e]

------------------------------------------------------------------------------
(* getFromCache, under RLock: the cleanup routine is not running.          *)

\* Is there a result?
Find(q, e) ==
  /\ At(q, "idle")
  /\ ~sweep.on
  /\ query' = [query EXCEPT ![q] = [pc |-> IF e \in cache THEN "check" ELSE "evaluate",
                                    expr |-> e]]
  /\ UNCHANGED <<now, cache, expiry, sweep, filled>>

\* Has it expired?  A result without an expiry is as good as a valid one.
Check(q) ==
  /\ At(q, "check")
  /\ IF Expired(query[q].expr, now) THEN Goto(q, "dropResult") ELSE EndQuery(q)
  /\ UNCHANGED <<now, cache, expiry, sweep, filled>>

\* Mutant of DropResult: only the expiry is deleted.
DropNothing(q) ==
  /\ At(q, "dropResult")
  /\ Goto(q, "dropExpiry")
  /\ UNCHANGED <<now, cache, expiry, sweep, filled>>

DropResult(q) ==
  /\ At(q, "dropResult")
  /\ cache' = cache \ {query[q].expr}
  /\ Goto(q, "dropExpiry")
  /\ UNCHANGED <<now, expiry, sweep, filled>>

DropExpiry(q) ==
  /\ At(q, "dropExpiry")
  /\ expiry' = [expiry EXCEPT ![query[q].expr] = None]
  /\ Goto(q, "evaluate")
  /\ UNCHANGED <<now, cache, sweep, filled>>

------------------------------------------------------------------------------
(* The evaluation fails, or ends in addToCache, which takes no lock.       *)

EvaluationFails(q) ==
  /\ At(q, "evaluate")
  /\ EndQuery(q)
  /\ UNCHANGED <<now, cache, expiry, sweep, filled>>

StoreResult(q) ==
  /\ At(q, "evaluate")
  /\ cache' = cache \cup {query[q].expr}
  /\ Goto(q, "storeExpiry")
  /\ UNCHANGED <<now, expiry, sweep, filled>>

\* Mutant of StoreExpiry: the goroutine ends with the expression still set.
StoreExpiryKeepsKey(q) ==
  LET e == query[q].expr IN
  /\ At(q, "storeExpiry")
  /\ expiry' = [expiry EXCEPT ![e] = now + TTL]
  /\ filled' = [filled EXCEPT ![e] = now]
  /\ Goto(q, "idle")
  /\ UNCHANGED <<now, cache, sweep>>

StoreExpiry(q) ==
  LET e == query[q].expr IN
  /\ At(q, "storeExpiry")
  /\ expiry' = [expiry EXCEPT ![e] = now + TTL]
  /\ filled' = [filled EXCEPT ![e] = now]
  /\ EndQuery(q)
  /\ UNCHANGED <<now, cache, sweep>>

------------------------------------------------------------------------------
(* Cleanup, called once a minute: no lookup holds the lock.                *)

CleanupBegin ==
  /\ ~sweep.on
  /\ \A q \in Queries : query[q].pc \notin LookupSteps
  /\ sweep' = [NoSweep EXCEPT !.on = TRUE, !.at = now,
                              !.left = {e \in Exprs : expiry[e] # None}]
  /\ UNCHANGED <<now, cache, expiry, query, filled>>

\* The loop comes to a key: has it expired?
CleanupVisit(e) ==
  /\ sweep.on /\ sweep.key = None
  /\ e \in sweep.left
  /\ sweep' = [sweep EXCEPT !.left = @ \ {e},
                           !.key = IF Expired(e, sweep.at) THEN e ELSE None]
  /\ UNCHANGED <<now, cache, expiry, query, filled>>

\* Then its result goes ...
CleanupDelete ==
  /\ sweep.key # None /\ ~sweep.gone
  /\ cache' = cache \ {sweep.key}
  /\ sweep' = [sweep EXCEPT !.gone = TRUE]
  /\ UNCHANGED <<now, expiry, query, filled>>

\* ... and its expiry.
CleanupDrop ==
  /\ sweep.key # None /\ sweep.gone
  /\ expiry' = [expiry EXCEPT ![sweep.key] = None]
  /\ sweep' = [sweep EXCEPT !.key = None, !.gone = FALSE]
  /\ UNCHANGED <<now, cache, query, filled>>

CleanupEnd ==
  /\ sweep.on /\ sweep.key = None /\ sweep.left = {}
  /\ sweep' = NoSweep
  /\ UNCHANGED <<now, cache, expiry, query, filled>>

------------------------------------------------------------------------------
\* Goroutines between two accesses to the entry of e; one of them changes it.
Overlap(e) ==
  \E q \in Queries :
    /\ query[q].expr = e
    /\ \/ \E r \in Queries \ {q} : /\ query[r].expr = e
                                   /\ query[q].pc \in ChangeSteps
                                   /\ query[r].pc \in LookupSteps \cup ChangeSteps
       \/ sweep.key = e /\ query[q].pc \in LookupSteps \cup ChangeSteps

QueryStep(q) ==
  \/ \E e \in Exprs : Find(q, e)
  \/ Check(q) \/ DropResult(q) \/ DropExpiry(q)
  \/ EvaluationFails(q) \/ StoreResult(q) \/ StoreExpiry(q)

CleanupStep ==
  \/ CleanupBegin \/ CleanupDelete \/ CleanupDrop \/ CleanupEnd
  \/ \E e \in Exprs : CleanupVisit(e)

Next ==
  /\ Tick \/ CleanupStep \/ \E q \in Queries : QueryStep(q)
  /\ raced' = raced \cup {e \in Exprs : Overlap(e)'}

Spec == Init /\ [][Next]_vars

------------------------------------------------------------------------------
\* The step in which query q is answered from the cache.
Hit(q) == query[q].pc = "check" /\ query'[q].pc = "idle"

\* The result of e was put there at most TTL ago, or is being put there.
Valid(e) ==
  \/ now <= filled[e] + TTL
  \/ \E q \in Queries : query[q].expr = e /\ query[q].pc = "storeExpiry"

\* As long as no two goroutines are at an entry at a time, one of them changing
\* it, the two maps agree, and no answer from the cache is older than the TTL.
ValidUnlessRaced ==
  [][\A q \in Queries : LET e == query[q].expr IN
       Hit(q) /\ e \notin raced => Valid(e)]_vars

\* A goroutine is changing the entry of e.
Changing(e) ==
  \/ sweep.key = e
  \/ \E q \in Queries : query[q].expr = e /\ query[q].pc \in ChangeSteps

\* What makes it hold: an entry that was never raced for is whole when nobody
\* changes it, is there while a lookup looks at its expiry, and is without a
\* result while its expiry is being deleted.
EntriesWhole ==
  \A e \in Exprs \ raced :
    /\ ~Overlap(e)
    /\ e \in cache /\ ~Changing(e) => expiry[e] = filled[e] + TTL
    /\ \A q \in Queries : query[q].expr = e =>
         /\ query[q].pc = "check" => e \in cache
         /\ query[q].pc = "dropExpiry" => e \notin cache
    /\ sweep.key = e /\ sweep.gone => e \notin cache

==============================================================================
