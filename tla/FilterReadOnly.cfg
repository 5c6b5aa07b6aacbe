CONSTANTS
  Series = {s1}
  Metric <- MCMetric
  Exprs <- MCRangeExprs
  Queries = {q1}
  Adders = {a1}
  Emits <- MCEmits
  Range = 0
  MaxTime = 1
SPECIFICATION Spec
PROPERTY QueriesReadOnly
