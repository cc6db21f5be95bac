SPECIFICATION Spec
CONSTANTS
  c1 = c1
  c2 = c2
  c3 = c3
  s1 = s1
  s2 = s2
  Callers = {c1, c2}
  Stores = {s1}
  StoreOf <- OneStore
  Holders = {h1}
  Nobody = Nobody
  NumChunks = 1
  MaxToken = 3
  Inline = FALSE
INVARIANT ReferencedHasContent
