-------------------------- MODULE FilterEngineProofs --------------------------
(***************************************************************************)
(* Theorems about FilterEngine, for any set of series, expressions, queries *)
(* and adders and any bound on the clock.                                  *)
(***************************************************************************)
EXTENDS FilterEngine, TLAPS

\* The local variables of a query, and of an adder.
Locals == [pc : {"idle", "ready", "blocked", "granted", "eval"}, expr : Exprs, end : Times,
           toCut : SUBSET Series, toStore : SUBSET Series, kept : SUBSET Times,
           toCopy : SUBSET Series, copied : [Series -> SUBSET Times]]
Sample == [pc : {"idle", "queued", "locking"}, series : Series, time : Times]

\* Empty local variables are well typed.
LEMMA IdleTypes ==
  /\ NoPoints \in [Series -> SUBSET Times]
  /\ IdleAdder \in Sample
  /\ IdleQuery \in Locals
<1>1. 0 \in Times
  BY TimeAssumption DEF Times
<1>2. NoPoints \in [Series -> SUBSET Times]
  BY DEF NoPoints
<1>3. (CHOOSE s \in Series : TRUE) \in Series
  BY SeriesAssumption
<1>4. (CHOOSE e \in Exprs : TRUE) \in Exprs
  BY ExprsAssumption
<1> QED
  BY <1>1, <1>2, <1>3, <1>4 DEF IdleAdder, IdleQuery, Sample, Locals

\* Every variable keeps its type through every step.
LEMMA TypeStep ==
  ASSUME TypeOK, [Next]_vars
  PROVE  TypeOK'
<1> USE DEF TypeOK
<1>1. CASE Tick
  BY <1>1, TimeAssumption DEF Tick, Times, storeVars
<1>2. ASSUME NEW a \in Adders, NEW s \in Series, AddBegin(a, s)
      PROVE  TypeOK'
  BY <1>2 DEF AddBegin, storeVars
<1>10. ASSUME NEW a \in Adders, Announce(a)
      PROVE  TypeOK'
  BY <1>10 DEF Announce, storeVars
<1>3. ASSUME NEW a \in Adders, AddMetric(a)
      PROVE  TypeOK'
  <2>1. adder[a].series \in Series /\ adder[a].time \in Times
    OBVIOUS
  <2>2. /\ stored' \subseteq Series /\ cut' \subseteq Series
        /\ points' \in [Series -> SUBSET Times]
        /\ now' \in Times
    BY <1>3, <2>1 DEF AddMetric
  <2>3. adder' \in [Adders -> Sample]
    BY <1>3, IdleTypes DEF AddMetric, Sample
  <2>4. ASSUME NEW q \in Queries
        PROVE  [query[q] EXCEPT !.pc = "granted"] \in Locals /\ query[q] \in Locals
    <3>1. query[q] \in Locals
      BY DEF Locals
    <3> QED
      BY <3>1 DEF Locals
  <2>5. query' \in [Queries -> Locals]
    BY <1>3, <2>4 DEF AddMetric, LetReadersIn
  <2> QED
    BY <2>2, <2>3, <2>5 DEF Sample, Locals
<1>4. ASSUME NEW q \in Queries, NEW e \in Exprs, Prepare(q, e)
      PROVE  TypeOK'
  <2>1. (IF e.ranged THEN now ELSE 0) \in Times
    BY TimeAssumption DEF Times
  <2> DEFINE end == IF e.ranged THEN now ELSE 0
  <2>2. query' = [query EXCEPT ![q] = [IdleQuery EXCEPT !.pc = "ready", !.expr = e, !.end = end]]
    BY <1>4 DEF Prepare
  <2> HIDE DEF end
  <2>3. end \in Times
    BY <2>1 DEF end
  <2>4. [IdleQuery EXCEPT !.pc = "ready", !.expr = e, !.end = end] \in Locals
    BY <2>3, IdleTypes DEF Locals
  <2>5. query' \in [Queries -> Locals]
    BY <2>2, <2>4 DEF Locals
  <2> QED
    BY <1>4, <2>5 DEF Prepare, storeVars, Locals
<1>11. ASSUME NEW q \in Queries, Block(q)
      PROVE  TypeOK'
  <2>1. [query[q] EXCEPT !.pc = "blocked"] \in Locals
    BY DEF Locals
  <2>2. query' \in [Queries -> Locals]
    BY <1>11, <2>1 DEF Block, Locals
  <2> QED
    BY <1>11, <2>2 DEF Block, storeVars, Locals
<1>5. ASSUME NEW q \in Queries, Select(q)
      PROVE  TypeOK'
  <2> DEFINE e == query[q].expr
  <2> DEFINE cutting == IF e.ranged THEN Selected(e) ELSE {}
  <2> DEFINE copying == IF e.copied THEN Selected(e) ELSE {}
  <2>1. cutting \in SUBSET Series /\ copying \in SUBSET Series
    BY DEF Selected
  <2>2. query' = [query EXCEPT ![q].pc = "eval", ![q].toCut = cutting, ![q].toCopy = copying]
    BY <1>5 DEF Select
  <2> HIDE DEF cutting, copying
  <2>3. [query[q] EXCEPT !.pc = "eval", !.toCut = cutting, !.toCopy = copying] \in Locals
    BY <2>1 DEF Locals
  <2> QED
    <3>1. query' \in [Queries -> Locals]
      BY <2>2, <2>3 DEF Locals
    <3> QED
      BY <1>5, <3>1 DEF Select, storeVars, Locals
<1>12. ASSUME NEW q \in Queries, NEW s \in Series, FilterPoints(q, s)
      PROVE  TypeOK'
  <2> DEFINE kept == InRange(points[s], query[q].end)
  <2>1. kept \in SUBSET Times
    BY DEF InRange
  <2>2. query' = [query EXCEPT ![q].toCut = @ \ {s}, ![q].toStore = {s}, ![q].kept = kept]
    BY <1>12 DEF FilterPoints
  <2> HIDE DEF kept
  <2>3. [query[q] EXCEPT !.toCut = @ \ {s}, !.toStore = {s}, !.kept = kept] \in Locals
    BY <2>1 DEF Locals
  <2>4. query' \in [Queries -> Locals]
    BY <2>2, <2>3 DEF Locals
  <2> QED
    BY <1>12, <2>4 DEF FilterPoints, storeVars, Locals
<1>6. ASSUME NEW q \in Queries, NEW s \in Series, CutRange(q, s)
      PROVE  TypeOK'
  <2>1. query[q].kept \in SUBSET Times
    OBVIOUS
  <2>3. [query[q] EXCEPT !.toStore = {}, !.kept = {}] \in Locals
    BY DEF Locals
  <2>4. query' \in [Queries -> Locals]
    BY <1>6, <2>3 DEF CutRange, Locals
  <2>5. /\ points' \in [Series -> SUBSET Times]
        /\ cut' \subseteq Series
        /\ UNCHANGED <<now, stored, adder>>
    BY <1>6, <2>1 DEF CutRange
  <2> QED
    BY <2>4, <2>5 DEF Locals
<1>7. ASSUME NEW q \in Queries, NEW s \in Series, CopyPoints(q, s)
      PROVE  TypeOK'
  <2>1. query[q].copied \in [Series -> SUBSET Times] /\ points[s] \in SUBSET Times
    OBVIOUS
  <2>2. [query[q].copied EXCEPT ![s] = points[s]] \in [Series -> SUBSET Times]
    BY <2>1
  <2> DEFINE copied == [query[q].copied EXCEPT ![s] = points[s]]
  <2>3. query' = [query EXCEPT ![q].toCopy = @ \ {s}, ![q].copied = copied]
    BY <1>7 DEF CopyPoints
  <2>4. query[q].toCopy \ {s} \in SUBSET Series
    OBVIOUS
  <2>5. copied \in [Series -> SUBSET Times]
    BY <2>2
  <2> HIDE DEF copied
  <2>6. [query[q] EXCEPT !.toCopy = @ \ {s}, !.copied = copied] \in Locals
    BY <2>5, <2>4 DEF Locals
  <2>7. query' \in [Queries -> Locals]
    BY <2>3, <2>6 DEF Locals
  <2> QED
    BY <1>7, <2>7 DEF CopyPoints, storeVars, Locals
<1>8. ASSUME NEW q \in Queries, EvalDone(q)
      PROVE  TypeOK'
  BY <1>8, IdleTypes DEF EvalDone, storeVars, Locals
<1>9. CASE UNCHANGED vars
  BY <1>9 DEF vars, storeVars
<1> QED
  BY <1>1, <1>2, <1>3, <1>4, <1>5, <1>6, <1>7, <1>8, <1>9,
     <1>10, <1>11, <1>12 DEF Next, EvalStep

\* Every variable of the engine has its type in every state.
THEOREM TypeCorrect == Spec => []TypeOK
<1>1. Init => TypeOK
  BY IdleTypes, TimeAssumption DEF Init, TypeOK, Times, Sample, Locals
<1>2. TypeOK /\ [Next]_vars => TypeOK'
  BY TypeStep
<1> QED
  BY <1>1, <1>2, PTL DEF Spec

\* Of the series an evaluation with a function selects, each is still to be
\* copied, or is copied as it is in the store, or was cut since.
CopiesFit ==
  \A q \in Queries :
    query[q].pc = "eval" /\ query[q].expr.copied =>
      \A s \in Selected(query[q].expr) :
        s \in query[q].toCopy \/ query[q].copied[s] = points[s] \/ s \in cut

\* Adders wait while a query evaluates, and a cut records the series it takes a
\* sample from; so copies made stay as the store is, or are excused.
LEMMA CopiesStep ==
  ASSUME TypeOK, CopiesFit, [Next]_vars
  PROVE  CopiesFit'
<1> USE DEF CopiesFit
<1>1. CASE UNCHANGED <<storeVars, query>>
  BY <1>1 DEF storeVars, Selected
<1>2. ASSUME NEW a \in Adders, AddMetric(a)
      PROVE  CopiesFit'
  <2>1. \A q \in Queries : query[q].pc # "eval"
    BY <1>2 DEF AddMetric, CanLock
  <2>2. \A q \in Queries : query'[q].pc # "eval"
    BY <1>2, <2>1 DEF AddMetric, LetReadersIn, TypeOK
  <2> QED
    BY <2>2
<1>3. ASSUME NEW q \in Queries, UNCHANGED storeVars, NEW r,
             r.pc # "eval", query' = [query EXCEPT ![q] = r]
      PROVE  CopiesFit'
  BY <1>3 DEF storeVars, Selected, TypeOK
<1>4. ASSUME NEW q \in Queries, Select(q)
      PROVE  CopiesFit'
  <2> DEFINE e == query[q].expr
  <2>1. /\ query' = [query EXCEPT ![q].pc = "eval",
                       ![q].toCut = IF e.ranged THEN Selected(e) ELSE {},
                       ![q].toCopy = IF e.copied THEN Selected(e) ELSE {}]
        /\ UNCHANGED <<stored, points, cut>>
    BY <1>4 DEF Select, storeVars
  <2>2. SUFFICES ASSUME NEW p \in Queries, query'[p].pc = "eval", query'[p].expr.copied,
                        NEW s \in Selected(query'[p].expr)
                 PROVE  s \in query'[p].toCopy \/ query'[p].copied[s] = points[s] \/ s \in cut
    BY <2>1 DEF Selected
  <2>3. CASE p = q
    <3>1. query'[q].expr = e /\ query'[q].toCopy = IF e.copied THEN Selected(e) ELSE {}
      BY <2>1 DEF TypeOK
    <3> QED
      BY <2>2, <2>3, <3>1
  <2>4. CASE p # q
    BY <2>1, <2>2, <2>4 DEF TypeOK
  <2> QED
    BY <2>3, <2>4
<1>5. ASSUME NEW q \in Queries, NEW t \in Series, CutRange(q, t)
      PROVE  CopiesFit'
  <2>1. /\ points' = [points EXCEPT ![t] = query[q].kept]
        /\ cut' = IF query[q].kept # points[t] THEN cut \cup {t} ELSE cut
        /\ query' = [query EXCEPT ![q].toStore = {}, ![q].kept = {}]
        /\ stored' = stored
    BY <1>5 DEF CutRange
  <2>2. \A s \in Series : points'[s] = points[s] \/ s \in cut'
    BY <2>1 DEF TypeOK
  <2>3. cut \subseteq cut'
    BY <2>1
  <2>4. \A p \in Queries : /\ query'[p].pc = query[p].pc
                           /\ query'[p].expr = query[p].expr
                           /\ query'[p].toCopy = query[p].toCopy
                           /\ query'[p].copied = query[p].copied
    BY <2>1 DEF TypeOK
  <2>5. \A e : Selected(e)' = Selected(e) /\ Selected(e) \subseteq Series
    BY <2>1 DEF Selected, TypeOK
  <2> QED
    BY <2>2, <2>3, <2>4, <2>5 DEF Selected
<1>6. ASSUME NEW q \in Queries, NEW t \in Series, CopyPoints(q, t)
      PROVE  CopiesFit'
  <2>1. /\ query' = [query EXCEPT ![q].toCopy = @ \ {t}, ![q].copied[t] = points[t]]
        /\ UNCHANGED <<stored, points, cut>>
    BY <1>6 DEF CopyPoints, storeVars
  <2>2. SUFFICES ASSUME NEW p \in Queries, query'[p].pc = "eval", query'[p].expr.copied,
                        NEW s \in Selected(query'[p].expr)
                 PROVE  s \in query'[p].toCopy \/ query'[p].copied[s] = points[s] \/ s \in cut
    BY <2>1 DEF Selected
  <2>3. CASE p = q
    <3>1. /\ query'[q].pc = query[q].pc /\ query'[q].expr = query[q].expr
          /\ query'[q].toCopy = query[q].toCopy \ {t}
          /\ query'[q].copied = [query[q].copied EXCEPT ![t] = points[t]]
      BY <2>1 DEF TypeOK
    <3>2. query[q].copied \in [Series -> SUBSET Times] /\ s \in Series
      BY DEF Selected, TypeOK
    <3> QED
      BY <2>2, <2>3, <3>1, <3>2
  <2>4. CASE p # q
    BY <2>1, <2>2, <2>4 DEF TypeOK
  <2> QED
    BY <2>3, <2>4
<1>7. ASSUME NEW q \in Queries, NEW e \in Exprs, Prepare(q, e)
      PROVE  CopiesFit'
  <2> DEFINE r == [IdleQuery EXCEPT !.pc = "ready", !.expr = e,
                                    !.end = IF e.ranged THEN now ELSE 0]
  <2>1. r.pc # "eval"
    BY DEF IdleQuery
  <2>2. UNCHANGED storeVars /\ query' = [query EXCEPT ![q] = r]
    BY <1>7 DEF Prepare
  <2> HIDE DEF r
  <2> QED
    BY <1>3, <2>1, <2>2
<1>9. ASSUME NEW q \in Queries, Block(q)
      PROVE  CopiesFit'
  <2>1. [query[q] EXCEPT !.pc = "blocked"].pc # "eval"
    BY DEF TypeOK
  <2>2. query' = [query EXCEPT ![q] = [query[q] EXCEPT !.pc = "blocked"]]
    BY <1>9 DEF Block
  <2> QED
    BY <1>3, <1>9, <2>1, <2>2 DEF Block
<1>10. ASSUME NEW q \in Queries, NEW t \in Series, FilterPoints(q, t)
      PROVE  CopiesFit'
  <2> DEFINE kept == InRange(points[t], query[q].end)
  <2>1. /\ query' = [query EXCEPT ![q].toCut = @ \ {t}, ![q].toStore = {t}, ![q].kept = kept]
        /\ UNCHANGED <<stored, points, cut>>
    BY <1>10 DEF FilterPoints, storeVars
  <2> HIDE DEF kept
  <2>2. \A p \in Queries : /\ query'[p].pc = query[p].pc
                           /\ query'[p].expr = query[p].expr
                           /\ query'[p].toCopy = query[p].toCopy
                           /\ query'[p].copied = query[p].copied
    BY <2>1 DEF TypeOK
  <2>3. \A e : Selected(e)' = Selected(e) /\ Selected(e) \subseteq Series
    BY <2>1 DEF Selected, TypeOK
  <2> QED
    BY <2>1, <2>2, <2>3
<1>8. ASSUME NEW q \in Queries, EvalDone(q)
      PROVE  CopiesFit'
  <2>1. IdleQuery.pc # "eval"
    BY DEF IdleQuery
  <2> QED
    BY <1>3, <1>8, <2>1 DEF EvalDone
<1> QED
  BY <1>1, <1>2, <1>4, <1>5, <1>6, <1>7, <1>8, <1>9, <1>10
  DEF Next, EvalStep, Tick, AddBegin, Announce, vars, storeVars

\* A function is evaluated on the points the store holds when its evaluation
\* ends, but for what a range query cut.
THEOREM EvaluationsAreSnapshots == Spec => EvaluationIsSnapshot
<1> DEFINE Snapshot ==
      \A q \in Queries :
        query[q].pc = "eval" /\ query'[q].pc = "idle" /\ query[q].expr.copied =>
          \A s \in Selected(query[q].expr) :
            query[q].copied[s] = points[s] \/ s \in cut
<1>1. Init => CopiesFit
  <2>1. Init => \A q \in Queries : query[q].pc # "eval"
    <3>1. IdleQuery.pc # "eval"
      BY DEF IdleQuery
    <3> QED
      BY <3>1 DEF Init
  <2> QED
    BY <2>1 DEF CopiesFit
<1>2. TypeOK /\ CopiesFit /\ [Next]_vars => CopiesFit'
  BY CopiesStep
<1>3. TypeOK /\ CopiesFit /\ [Next]_vars => [Snapshot]_vars
  <2>1. SUFFICES ASSUME TypeOK, CopiesFit, Next, NEW q \in Queries,
                        query[q].pc = "eval", query'[q].pc = "idle"
                 PROVE  query[q].toCopy = {}
    BY DEF CopiesFit
  <2>2. CASE EvalDone(q)
    BY <2>2 DEF EvalDone
  <2>3. CASE ~EvalDone(q)
    <3>1. ASSUME NEW p \in Queries, EvalDone(p)
          PROVE  p = q
      BY <2>1, <3>1 DEF EvalDone, TypeOK
    <3>2. ASSUME NEW p \in Queries, NEW e \in Exprs, Prepare(p, e)
          PROVE  FALSE
      BY <2>1, <3>2 DEF Prepare, IdleQuery, TypeOK
    <3>3. ASSUME NEW p \in Queries, Select(p) \/ Block(p)
          PROVE  FALSE
      BY <2>1, <3>3 DEF Select, Block, TypeOK
    <3>6. ASSUME NEW a \in Adders, AddMetric(a)
          PROVE  FALSE
      BY <2>1, <3>6 DEF AddMetric, CanLock
    <3>4. ASSUME NEW p \in Queries, NEW s \in Series,
                 FilterPoints(p, s) \/ CutRange(p, s) \/ CopyPoints(p, s)
          PROVE  FALSE
      <4>3. CASE FilterPoints(p, s)
        <5> DEFINE kept == InRange(points[s], query[p].end)
        <5>1. query' = [query EXCEPT ![p].toCut = @ \ {s}, ![p].toStore = {s}, ![p].kept = kept]
          BY <4>3 DEF FilterPoints
        <5> HIDE DEF kept
        <5> QED
          BY <2>1, <5>1 DEF TypeOK
      <4>1. CASE CutRange(p, s)
        <5>1. query' = [query EXCEPT ![p].toStore = {}, ![p].kept = {}]
          BY <4>1 DEF CutRange
        <5> QED
          BY <2>1, <5>1 DEF TypeOK
      <4>2. CASE CopyPoints(p, s)
        <5> DEFINE copied == [query[p].copied EXCEPT ![s] = points[s]]
        <5>1. query' = [query EXCEPT ![p].toCopy = @ \ {s}, ![p].copied = copied]
          BY <4>2 DEF CopyPoints
        <5> HIDE DEF copied
        <5> QED
          BY <2>1, <5>1 DEF TypeOK
      <4> QED
        BY <3>4, <4>1, <4>2, <4>3
    <3>5. query' # query
      BY <2>1
    <3> QED
      BY <2>1, <2>3, <3>1, <3>2, <3>3, <3>4, <3>5, <3>6
      DEF Next, EvalStep, Tick, AddBegin, Announce
  <2> QED
    BY <2>2, <2>3
<1>4. [][Snapshot]_vars => EvaluationIsSnapshot
  BY PTL DEF EvaluationIsSnapshot
<1> HIDE DEF Snapshot
<1> QED
  BY <1>1, <1>2, <1>3, <1>4, TypeCorrect, PTL DEF Spec

==============================================================================
