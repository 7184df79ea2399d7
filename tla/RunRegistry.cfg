SPECIFICATION Spec
CONSTANTS
  Runs = {r1, r2, r3}
  Inline = {r1, r2}
  Asked = {r2}
  Callers = {c1, c2}
  Subs = {}
  MaxRuns = 1
  Results = {"Completed"}
  Flaky = {}
  None = None
SYMMETRY Symmetry
INVARIANTS TypeOK Bounded ShutdownStops
PROPERTIES EvictsOnlyOver RefusedOnlyWhenBusy
CHECK_DEADLOCK FALSE
