--------------------------- MODULE FilterCacheProofs ---------------------------
(***************************************************************************)
(* Theorems about FilterCache, for any set of expressions and queries, any *)
(* TTL and any bound on the clock.                                         *)
(***************************************************************************)
EXTENDS FilterCache, TLAPS

\* Every variable keeps its type through every step.
LEMMA TypeStep ==
  ASSUME TypeOK, [Next]_vars
  PROVE  TypeOK'
<1> USE DEF TypeOK, Times, IdleQuery, NoSweep, LookupSteps
<1>1. CASE UNCHANGED vars
  BY <1>1 DEF vars
<1>2. CASE Next
  <2>1. raced' \subseteq Exprs
    BY <1>2 DEF Next
  <2>2. CASE Tick
    BY <2>1, <2>2, TimeAssumption DEF Tick
  <2>3. ASSUME NEW q \in Queries, NEW e \in Exprs, Find(q, e)
        PROVE  TypeOK'
    BY <2>1, <2>3 DEF Find
  <2>4. ASSUME NEW q \in Queries, Check(q)
        PROVE  TypeOK'
    BY <2>1, <2>4 DEF Check, At, Goto, EndQuery
  <2>5. ASSUME NEW q \in Queries, DropResult(q)
        PROVE  TypeOK'
    BY <2>1, <2>5 DEF DropResult, At, Goto
  <2>6. ASSUME NEW q \in Queries, DropExpiry(q)
        PROVE  TypeOK'
    BY <2>1, <2>6 DEF DropExpiry, At, Goto
  <2>7. ASSUME NEW q \in Queries, EvaluationFails(q)
        PROVE  TypeOK'
    BY <2>1, <2>7 DEF EvaluationFails, At, EndQuery
  <2>8. ASSUME NEW q \in Queries, StoreResult(q)
        PROVE  TypeOK'
    BY <2>1, <2>8 DEF StoreResult, At, Goto
  <2>9. ASSUME NEW q \in Queries, StoreExpiry(q)
        PROVE  TypeOK'
    <3>1. now + TTL \in 0..(MaxTime + TTL)
      BY TimeAssumption
    <3> QED
      BY <2>1, <2>9, <3>1 DEF StoreExpiry, At, EndQuery
  <2>10. CASE CleanupBegin
    BY <2>1, <2>10 DEF CleanupBegin
  <2>11. ASSUME NEW e \in Exprs, CleanupVisit(e)
         PROVE  TypeOK'
    <3>1. (IF Expired(e, sweep.at) THEN e ELSE None) \in Exprs \cup {None}
      OBVIOUS
    <3> DEFINE key == IF Expired(e, sweep.at) THEN e ELSE None
    <3>2. sweep' = [sweep EXCEPT !.left = @ \ {e}, !.key = key]
      BY <2>11 DEF CleanupVisit
    <3>3. key \in Exprs \cup {None}
      BY <3>1
    <3> HIDE DEF key
    <3> QED
      BY <2>1, <2>11, <3>2, <3>3 DEF CleanupVisit
  <2>14. CASE CleanupDelete
    BY <2>1, <2>14 DEF CleanupDelete
  <2>12. CASE CleanupDrop
    BY <2>1, <2>12 DEF CleanupDrop
  <2>13. CASE CleanupEnd
    BY <2>1, <2>13, TimeAssumption DEF CleanupEnd
  <2> QED
    BY <1>2, <2>2, <2>3, <2>4, <2>5, <2>6, <2>7, <2>8, <2>9, <2>10, <2>11, <2>12, <2>13, <2>14
       DEF Next, QueryStep, CleanupStep
<1> QED
  BY <1>1, <1>2

\* Every variable of the cache has its type in every state.
THEOREM TypeCorrect == Spec => []TypeOK
<1>1. Init => TypeOK
  BY TimeAssumption DEF Init, TypeOK, Times, IdleQuery, NoSweep
<1>2. TypeOK /\ [Next]_vars => TypeOK'
  BY TypeStep
<1> QED
  BY <1>1, <1>2, PTL DEF Spec

------------------------------------------------------------------------------
\* What EntriesWhole says of one entry.
Whole(e) ==
  /\ ~Overlap(e)
  /\ e \in cache /\ ~Changing(e) => expiry[e] = filled[e] + TTL
  /\ \A q \in Queries : query[q].expr = e =>
       /\ query[q].pc = "check" => e \in cache
       /\ query[q].pc = "dropExpiry" => e \notin cache
  /\ sweep.key = e /\ sweep.gone => e \notin cache

\* An entry that nobody raced for stays whole, whatever step is taken next,
\* unless that step races for it.
LEMMA WholeStep ==
  ASSUME TypeOK, Next, NEW e \in Exprs, Whole(e), ~Overlap(e)'
  PROVE  Whole(e)'
<1> USE DEF TypeOK, Whole, Changing, Overlap, ChangeSteps, LookupSteps, IdleQuery
<1>1. CASE Tick
  BY <1>1 DEF Tick
<1>2. ASSUME NEW q \in Queries, NEW f \in Exprs, Find(q, f)
      PROVE  Whole(e)'
  BY <1>2 DEF Find, At
<1>3. ASSUME NEW q \in Queries, Check(q)
      PROVE  Whole(e)'
  BY <1>3, NoneAssumption DEF Check, At, Goto, EndQuery
<1>4. ASSUME NEW q \in Queries, DropResult(q)
      PROVE  Whole(e)'
  BY <1>4 DEF DropResult, At, Goto
<1>5. ASSUME NEW q \in Queries, DropExpiry(q)
      PROVE  Whole(e)'
  BY <1>5 DEF DropExpiry, At, Goto
<1>6. ASSUME NEW q \in Queries, EvaluationFails(q)
      PROVE  Whole(e)'
  BY <1>6, NoneAssumption DEF EvaluationFails, At, EndQuery
<1>7. ASSUME NEW q \in Queries, StoreResult(q)
      PROVE  Whole(e)'
  BY <1>7 DEF StoreResult, At, Goto
<1>8. ASSUME NEW q \in Queries, StoreExpiry(q)
      PROVE  Whole(e)'
  BY <1>8, NoneAssumption DEF StoreExpiry, At, EndQuery
<1>9. CASE CleanupBegin
  BY <1>9, NoneAssumption DEF CleanupBegin, NoSweep
<1>10. ASSUME NEW f \in Exprs, CleanupVisit(f)
       PROVE  Whole(e)'
  <2>1. CASE Expired(f, sweep.at)
    <3>1. /\ sweep'.key = f /\ sweep'.gone = sweep.gone
          /\ sweep.key = None /\ UNCHANGED <<cache, expiry, query, filled>>
      BY <1>10, <2>1 DEF CleanupVisit
    <3> QED
      BY <3>1, NoneAssumption
  <2>2. CASE ~Expired(f, sweep.at)
    <3>1. /\ sweep'.key = None /\ sweep.key = None
          /\ UNCHANGED <<cache, expiry, query, filled>>
      BY <1>10, <2>2 DEF CleanupVisit
    <3> QED
      BY <3>1, NoneAssumption
  <2> QED
    BY <2>1, <2>2
<1>13. CASE CleanupDelete
  <2>1. /\ cache' = cache \ {sweep.key} /\ sweep'.key = sweep.key
        /\ UNCHANGED <<expiry, query, filled>>
    BY <1>13 DEF CleanupDelete
  <2> QED
    BY <2>1
<1>11. CASE CleanupDrop
  BY <1>11, NoneAssumption DEF CleanupDrop
<1>12. CASE CleanupEnd
  BY <1>12, NoneAssumption DEF CleanupEnd, NoSweep
<1> QED
  BY <1>1, <1>2, <1>3, <1>4, <1>5, <1>6, <1>7, <1>8, <1>9, <1>10, <1>11, <1>12, <1>13
     DEF Next, QueryStep, CleanupStep

\* Entries that nobody raced for are whole in every state.
THEOREM EntriesStayWhole == Spec => []EntriesWhole
<1>1. Init => EntriesWhole
  <2> SUFFICES ASSUME Init, NEW e \in Exprs
               PROVE  Whole(e)
    BY DEF EntriesWhole, Whole
  <2>1. cache = {} /\ sweep.key = None /\ \A q \in Queries : query[q].expr = None
    BY DEF Init, IdleQuery, NoSweep
  <2>2. e # None
    BY NoneAssumption
  <2> QED
    BY <2>1, <2>2 DEF Whole, Overlap, Changing
<1>2. TypeOK /\ EntriesWhole /\ [Next]_vars => EntriesWhole'
  <2> SUFFICES ASSUME TypeOK, EntriesWhole, [Next]_vars
               PROVE  EntriesWhole'
    OBVIOUS
  <2>1. CASE UNCHANGED vars
    BY <2>1 DEF vars, EntriesWhole, Overlap, Changing
  <2>2. CASE Next
    <3> SUFFICES ASSUME NEW e \in Exprs, e \notin raced'
                 PROVE  Whole(e)'
      BY DEF EntriesWhole, Whole
    <3>1. e \notin raced /\ ~Overlap(e)'
      BY <2>2 DEF Next
    <3>2. Whole(e)
      BY <3>1 DEF EntriesWhole, Whole
    <3> QED
      BY <2>2, <3>1, <3>2, WholeStep
  <2> QED
    BY <2>1, <2>2
<1> QED
  BY <1>1, <1>2, TypeCorrect, PTL DEF Spec

------------------------------------------------------------------------------
\* In a step that answers query q from the cache, the result is there and its
\* expiry, which the lookup has compared with the clock, is that of its last
\* addToCache.
LEMMA HitStep ==
  ASSUME TypeOK, EntriesWhole, [Next]_vars, NEW q \in Queries,
         Hit(q), query[q].expr \notin raced
  PROVE  Valid(query[q].expr)
<1> DEFINE e == query[q].expr
<1>1. query[q].pc = "check" /\ e \in Exprs
  BY DEF Hit, TypeOK, IdleQuery
<1>2. e \in cache /\ ~Overlap(e)
  BY <1>1 DEF EntriesWhole
<1>3. ~Changing(e)
  BY <1>1, <1>2 DEF Changing, Overlap, LookupSteps, ChangeSteps
<1>4. expiry[e] = filled[e] + TTL
  BY <1>1, <1>2, <1>3 DEF EntriesWhole
<1>5. ~Expired(e, now)
  <2>1. query'[q].pc = "idle" /\ query'[q] # query[q]
    BY <1>1 DEF Hit
  <2> QED
    <3>1. PICK r \in Queries : QueryStep(r)
      BY <2>1 DEF Next, vars, Tick, CleanupStep, CleanupBegin, CleanupVisit, CleanupDelete,
         CleanupDrop, CleanupEnd
    <3>2. query' = [query EXCEPT ![r] = query'[r]]
      BY <3>1 DEF QueryStep, Find, Check, DropResult, DropExpiry, EvaluationFails,
         StoreResult, StoreExpiry, Goto, EndQuery, TypeOK
    <3>3. r = q
      BY <2>1, <3>2 DEF TypeOK
    <3>4. Check(q)
      BY <1>1, <3>1, <3>3 DEF QueryStep, Find, DropResult, DropExpiry, EvaluationFails,
         StoreResult, StoreExpiry, At
    <3> QED
      <4>1. Expired(e, now) => query'[q].pc = "dropResult"
        BY <3>4 DEF Check, Goto, TypeOK, IdleQuery
      <4> QED
        BY <2>1, <4>1
<1>6. now <= filled[e] + TTL
  <2>1. filled[e] + TTL \in Nat /\ now \in Nat
    BY <1>1, TimeAssumption DEF TypeOK, Times
  <2>2. expiry[e] # None
    <3>1. filled[e] + TTL \in 0..(MaxTime + TTL)
      BY <1>1, TimeAssumption DEF TypeOK, Times
    <3> QED
      BY <1>4, <3>1, NoneAssumption
  <2> QED
    BY <1>4, <1>5, <2>1, <2>2 DEF Expired
<1> QED
  BY <1>6 DEF Valid

\* Without a race for an entry, no answer from the cache is older than the TTL.
THEOREM HitsAreFresh == Spec => ValidUnlessRaced
<1>1. TypeOK /\ EntriesWhole /\ [Next]_vars =>
        [\A q \in Queries : LET e == query[q].expr IN
           Hit(q) /\ e \notin raced => Valid(e)]_vars
  BY HitStep
<1> QED
  BY <1>1, TypeCorrect, EntriesStayWhole, PTL DEF Spec, ValidUnlessRaced

==============================================================================
