SPECIFICATION Spec
CONSTANTS
  c1 = c1
  c2 = c2
  c3 = c3
  s1 = s1
  s2 = s2
  Callers = {c1, c2, c3}
  Stores = {s1, s2}
  StoreOf <- SharedStore
  Holders = {h1}
  Nobody = Nobody
  NumChunks = 1
  MaxToken = 3
  Inline = FALSE
SYMMETRY Symmetry
INVARIANTS TypeOK ReadyHasContent PinnedIsReady PinProtectsReader
