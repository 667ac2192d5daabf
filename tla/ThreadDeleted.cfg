SPECIFICATION ThreadSpec
CONSTANTS
  r1 = r1
  r2 = r2
  r3 = r3
  w1 = w1
  t1 = t1
  p1 = p1
  p2 = p2
  NoRun = NoRun
  NoThread = NoThread
  Runs = {r1}
  Workers = {w1}
  Clients = {}
  ThreadIds = {t1}
  Posts = {p1}
  MaxAttempts = 2
  MaxResumes = 0
  Hooked = {}
  Flaky = {}
  Deletable = {}
INVARIANT PendingHasThread
CHECK_DEADLOCK FALSE
