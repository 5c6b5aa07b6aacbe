CONSTANTS
  Exprs = {e1, e2}
  Queries = {q1, q2}
  None = None
  TTL = 1
  MaxTime = 3
SPECIFICATION Spec
SYMMETRY Symmetry
INVARIANT TypeOK
PROPERTY ValidUnlessRaced
