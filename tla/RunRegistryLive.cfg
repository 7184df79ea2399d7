SPECIFICATION FairSpec
CONSTANTS
  Runs = {r1, r2}
  Inline = {r1}
  Asked = {r1, r2}
  Callers = {c1}
  Subs = {s1}
  MaxRuns = 1
  Results = {"Completed"}
  Flaky = {r2}
  None = None

PROPERTIES RefusedOnlyWhenBusy SubscribersServed
CHECK_DEADLOCK FALSE
