---------------------------- MODULE MCFilterEngine ----------------------------
(***************************************************************************)
(* Instances of FilterEngine for TLC: the series of one metric, queried    *)
(* through a range selector and through a function.  One handler emits     *)
(* every series, any other one of them.                                    *)
(***************************************************************************)
EXTENDS FilterEngine

MCMetric == [s \in Series |-> "m"]
Expr(ranged, copied) == [metric |-> "m", ranged |-> ranged, copied |-> copied]

MCExprs == {Expr(TRUE, FALSE), Expr(FALSE, TRUE)}
MCRangeExprs == {Expr(TRUE, FALSE)}

Both == CHOOSE a \in Adders : TRUE
One == CHOOSE s \in Series : TRUE
MCEmits == [a \in Adders |-> IF a = Both THEN Series ELSE {One}]

==============================================================================
