CONSTANTS
  Heads = {h1}
  None = None
  MaxBase = 2
  MaxRuns = 3
  MaxChanges = 1
  MaxReruns = 1

SPECIFICATION Spec
INVARIANTS TypeOK AskedOnce GreenIsProven Settled
CHECK_DEADLOCK FALSE
