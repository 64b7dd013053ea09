CONSTANTS
  Files = {f1, f2}
  Contents = {c1, c2}
  Slots = {s1, s2}
  None = None
  Times = {1}
  TOUCHES = 3
SPECIFICATION CacheSpec
SYMMETRY Alike
INVARIANTS StatesLoadable IndexTruthful
PROPERTIES KeepsPromise
