CONSTANTS
  Series = {s1, s2}
  Metric <- MCMetric
  Exprs <- MCExprs
  Queries = {q1, q2}
  Adders = {a1, a2}
  Emits <- MCEmits
  Range = 0
  MaxTime = 1
SPECIFICATION FairSpec
INVARIANT TypeOK
PROPERTIES EvaluationIsSnapshot SamplesGetIn
