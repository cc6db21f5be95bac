SPECIFICATION MCSpec
CONSTANTS
  t1 = t1
  t2 = t2
  x1 = x1
  x2 = x2
  x3 = x3
  g = g
  o1 = o1
  o2 = o2
  k1 = k1
  k2 = k2
  None = None
  Callers = {c1, c2}
  Txs = {x1, x2, x3}
  Outpoints = {g, o1, o2}
  Genesis = {g}
  Contexts = {k1, k2}
  Inputs <- MCInputs
  Outputs <- MCOutputs
  Retained <- MCRetained
  Topics = {t1, t2}
  Requests <- Submissions
  Clocks = {"exact", "slow"}
  MaxToken = 2
SYMMETRY Symmetry
PROPERTY HandoffOnDatabaseTime
