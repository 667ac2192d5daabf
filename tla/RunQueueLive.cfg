SPECIFICATION FairSpec
CONSTANTS
  r1 = r1
  r2 = r2
  w1 = w1
  w2 = w2
  c1 = c1
  NoRun = NoRun
  Runs = {r1, r2}
  Workers = {w1, w2}
  Clients = {c1}
  MaxAttempts = 3
  MaxResumes = 1
  Hooked = {r1}
  Flaky = {}
  Deletable = {}
INVARIANTS Exclusive RetryBudget RestedIsIdle
PROPERTIES SuccessIsFinal RunsSettle WaitsReturn ImplementsLifecycle
CHECK_DEADLOCK FALSE
