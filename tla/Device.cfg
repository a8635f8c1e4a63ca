SPECIFICATION Spec
CONSTANTS
  TOTAL_BLOCKS = 3
  CAPACITY = 2
  payload = payload
  Zero = Zero
  Garbage = Garbage
  Torn = Torn
  Values = {Zero, Garbage, Torn, payload}
  Done = Done
  Failed = Failed
INVARIANTS TypeOK CacheWellFormed Coherent
PROPERTIES AgesByOne KeepsPromise
