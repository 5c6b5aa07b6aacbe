----------------------------- MODULE FilterEngine -----------------------------
(***************************************************************************)
(* The filter engine (internal/filter): a store with the last sample of    *)
(* every series, and queries that are evaluated over it.  What the cache   *)
(* answers without an evaluation is the subject of FilterCache.            *)
(*                                                                         *)
(* Event handlers add samples with Engine.mu locked for writing; a query   *)
(* evaluates its expression with the lock held for reading.  The result of *)
(* a selector holds pointers to the store's own series.  A range selector  *)
(* on top cuts those series; a function on top copies their points.        *)
(*                                                                         *)
(* A sample carries one label, the plugin's name, so a series has one      *)
(* label hash and one place in the store.                                  *)
(***************************************************************************)
EXTENDS Naturals

CONSTANTS
  Series,     \* series: a metric name with a label
  Metric,     \* [Series -> metric names]
  Exprs,      \* the expressions that are queried, in the form of Expressions
  Queries,    \* goroutines in Engine.Evaluate
  Adders,     \* goroutines in Engine.AddMetric, one per event handler
  Emits,      \* [Adders -> sets of series]: the metrics of the handler's manifest
  Range,      \* the width of a range selector
  MaxTime     \* bound on the clock

\* metric, metric[Range], f(metric) and f(metric[Range]), where f stands for
\* the functions that make new series: aggregation, normalisation, rate.
Expressions == [metric : {Metric[s] : s \in Series}, ranged : BOOLEAN, copied : BOOLEAN]

ASSUME ExprsAssumption == Exprs \subseteq Expressions /\ Exprs # {}
ASSUME SeriesAssumption == Series # {}
ASSUME EmitsAssumption == Emits \in [Adders -> SUBSET Series]
ASSUME TimeAssumption == Range \in Nat /\ MaxTime \in Nat

VARIABLES
  now,       \* the clock
  stored,    \* series in the store
  points,    \* per stored series the times of its samples
  cut,       \* history: series a range selector changed since their last sample
  adder,     \* per adder the next step and the sample
  query      \* per query goroutine the next step and its local variables

storeVars == <<stored, points, cut>>
vars == <<now, storeVars, adder, query>>

Times == 0..MaxTime
NoPoints == [s \in Series |-> {}]

IdleAdder == [pc |-> "idle", series |-> CHOOSE s \in Series : TRUE, time |-> 0]
IdleQuery == [pc |-> "idle", expr |-> CHOOSE e \in Exprs : TRUE, end |-> 0,
              toCut |-> {}, toStore |-> {}, kept |-> {},
              toCopy |-> {}, copied |-> NoPoints]

TypeOK ==
  /\ now \in Times
  /\ stored \subseteq Series
  /\ points \in [Series -> SUBSET Times]
  /\ cut \subseteq Series
  /\ adder \in [Adders -> [pc : {"idle", "queued", "locking"}, series : Series, time : Times]]
  /\ query \in [Queries -> [pc : {"idle", "ready", "blocked", "granted", "eval"},
                            expr : Exprs, end : Times,
                            toCut : SUBSET Series, toStore : SUBSET Series,
                            kept : SUBSET Times, toCopy : SUBSET Series,
                            copied : [Series -> SUBSET Times]]]

Init ==
  /\ now = 0
  /\ stored = {}
  /\ points = NoPoints
  /\ cut = {}
  /\ adder = [a \in Adders |-> IdleAdder]
  /\ query = [q \in Queries |-> IdleQuery]

Tick == now < MaxTime /\ now' = now + 1 /\ UNCHANGED <<storeVars, adder, query>>

------------------------------------------------------------------------------
(* Engine.mu, a sync.RWMutex.  Writers queue on a mutex; the one that has  *)
(* it announces itself and waits for the readers there are.  Readers that  *)
(* come meanwhile are blocked, and all of them get the lock when the       *)
(* writer unlocks, before the next writer announces itself.                *)

\* Mutant of CanRLock: readers may overtake a waiting writer.
RLockAnytime == TRUE

CanRLock == \A a \in Adders : adder[a].pc # "locking"

\* Mutant of CanLock: the writer does not wait for readers.
LockAnytime == TRUE

CanLock == \A q \in Queries : query[q].pc \notin {"granted", "eval"}

\* What Unlock does to the queries.
LetReadersIn == [q \in Queries |->
  IF query[q].pc = "blocked" THEN [query[q] EXCEPT !.pc = "granted"] ELSE query[q]]

------------------------------------------------------------------------------
(* AddMetric.                                                              *)

\* An event handler takes the time and asks for the lock.
AddBegin(a, s) ==
  /\ adder[a].pc = "idle" /\ s \in Emits[a]
  /\ adder' = [adder EXCEPT ![a] = [pc |-> "queued", series |-> s, time |-> now]]
  /\ UNCHANGED <<now, storeVars, query>>

\* It has the writers' mutex and announces itself to the readers.
Announce(a) ==
  /\ adder[a].pc = "queued"
  /\ \A c \in Adders : adder[c].pc # "locking"
  /\ adder' = [adder EXCEPT ![a].pc = "locking"]
  /\ UNCHANGED <<now, storeVars, query>>

\* MetricStore.AddMetric with the lock held ("keep only the latest point,
\* replace instead of append"), and Unlock.
AddMetric(a) ==
  LET s == adder[a].series
      t == adder[a].time IN
  /\ adder[a].pc = "locking"
  /\ CanLock
  /\ stored' = stored \cup {s}
  /\ points' = [points EXCEPT ![s] = {t}]
  /\ cut' = cut \ {s}
  /\ adder' = [adder EXCEPT ![a] = IdleAdder]
  /\ query' = LetReadersIn
  /\ UNCHANGED now

------------------------------------------------------------------------------
(* Evaluate, after the cache had no answer.                                *)

\* Mutant of Prepare: the end of the range is rounded up.
PrepareRoundedUp(q, e) ==
  /\ query[q].pc = "idle"
  /\ query' = [query EXCEPT ![q] = [IdleQuery EXCEPT !.pc = "ready", !.expr = e,
                                       !.end = IF e.ranged THEN now + 1 ELSE 0]]
  /\ UNCHANGED <<now, storeVars, adder>>

\* Parse the expression and take the time that ends the range.
Prepare(q, e) ==
  /\ query[q].pc = "idle"
  /\ query' = [query EXCEPT ![q] = [IdleQuery EXCEPT !.pc = "ready", !.expr = e,
                                       !.end = IF e.ranged THEN now ELSE 0]]
  /\ UNCHANGED <<now, storeVars, adder>>

Selected(e) == {s \in stored : Metric[s] = e.metric}

\* RLock while a writer waits.
Block(q) ==
  /\ query[q].pc = "ready"
  /\ ~CanRLock
  /\ query' = [query EXCEPT ![q].pc = "blocked"]
  /\ UNCHANGED <<now, storeVars, adder>>

\* With the lock held for reading, MetricSelectorNode.Evaluate: the store's own
\* series.
Select(q) ==
  LET e == query[q].expr IN
  /\ query[q].pc = "granted" \/ (query[q].pc = "ready" /\ CanRLock)
  /\ query' = [query EXCEPT ![q].pc = "eval",
                 ![q].toCut = IF e.ranged THEN Selected(e) ELSE {},
                 ![q].toCopy = IF e.copied THEN Selected(e) ELSE {}]
  /\ UNCHANGED <<now, storeVars, adder>>

\* The samples a range that ends at "end" selects.
InRange(P, end) == {t \in P : t + Range >= end}

\* RangeSelectorNode.Evaluate, one series: filter its points ...
FilterPoints(q, s) ==
  /\ query[q].pc = "eval" /\ query[q].toStore = {}
  /\ s \in query[q].toCut
  /\ query' = [query EXCEPT ![q].toCut = @ \ {s}, ![q].toStore = {s},
                 ![q].kept = InRange(points[s], query[q].end)]
  /\ UNCHANGED <<now, storeVars, adder>>

\* ... and assign them to the series the selector returned.  Queries evaluate
\* together under the read lock, so another one's assignment may lie between.
CutRange(q, s) ==
  /\ query[q].pc = "eval"
  /\ s \in query[q].toStore
  /\ points' = [points EXCEPT ![s] = query[q].kept]
  /\ cut' = IF query[q].kept # points[s] THEN cut \cup {s} ELSE cut
  /\ query' = [query EXCEPT ![q].toStore = {}, ![q].kept = {}]
  /\ UNCHANGED <<now, stored, adder>>

\* A function on top, one series: new points out of those there are now.
CopyPoints(q, s) ==
  /\ query[q].pc = "eval" /\ query[q].toCut = {} /\ query[q].toStore = {}
  /\ s \in query[q].toCopy
  /\ query' = [query EXCEPT ![q].toCopy = @ \ {s}, ![q].copied[s] = points[s]]
  /\ UNCHANGED <<now, storeVars, adder>>

\* RUnlock; the result goes to the cache and to the client.
EvalDone(q) ==
  /\ query[q].pc = "eval"
  /\ query[q].toCut = {} /\ query[q].toStore = {} /\ query[q].toCopy = {}
  /\ query' = [query EXCEPT ![q] = IdleQuery]
  /\ UNCHANGED <<now, storeVars, adder>>

------------------------------------------------------------------------------
EvalStep(q) ==
  \/ Block(q) \/ Select(q) \/ EvalDone(q)
  \/ \E s \in Series : FilterPoints(q, s) \/ CutRange(q, s) \/ CopyPoints(q, s)

Next ==
  \/ Tick
  \/ \E a \in Adders : Announce(a) \/ AddMetric(a) \/ \E s \in Series : AddBegin(a, s)
  \/ \E q \in Queries : EvalStep(q) \/ \E e \in Exprs : Prepare(q, e)

Spec == Init /\ [][Next]_vars

\* The scheduler runs every goroutine that can run, and a sync.Mutex lets no
\* writer that queues for it wait forever: after a millisecond it hands itself
\* to the one that waits longest.
Fairness ==
  /\ \A q \in Queries : WF_vars(EvalStep(q))
  /\ \A a \in Adders : WF_vars(AddMetric(a)) /\ SF_vars(Announce(a))

FairSpec == Spec /\ Fairness

------------------------------------------------------------------------------
\* A function is evaluated on the points the store holds at one moment, that
\* at which the evaluation ends: samples that arrive meanwhile wait.  Only what
\* another query's range selector cuts can make a difference.
EvaluationIsSnapshot ==
  [][\A q \in Queries :
       query[q].pc = "eval" /\ query'[q].pc = "idle" /\ query[q].expr.copied =>
         \A s \in Selected(query[q].expr) :
           query[q].copied[s] = points[s] \/ s \in cut]_vars

\* No event handler waits for the store forever, however many queries run.
SamplesGetIn == \A a \in Adders : adder[a].pc # "idle" ~> adder[a].pc = "idle"

------------------------------------------------------------------------------
(* What a comment says and the code does not do.                           *)

\* "RangeSelectorNode selects a range of data points": evaluating a query
\* leaves the store as it is, and only AddMetric changes a series.
QueriesReadOnly ==
  [][points' # points =>
       \E a \in Adders : adder[a].pc = "locking" /\ adder'[a].pc = "idle"]_vars

==============================================================================
