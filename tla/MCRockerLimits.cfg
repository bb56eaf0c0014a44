\* Expected to fail: a process forked before its parent was moved stays out.
CONSTANTS
  Processes = {r, x, y}
  runtime = r
  MaxPids = 2
SPECIFICATION Spec
INVARIANTS LimitsApplied
