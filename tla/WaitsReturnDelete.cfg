SPECIFICATION FairSpec
CONSTANTS
  r1 = r1
  r2 = r2
  w1 = w1
  w2 = w2
  c1 = c1
  NoRun = NoRun
  Runs = {r1, r2}
  Workers = {w1, w2}
  Clients = {c1}
  MaxAttempts = 2
  MaxResumes = 0
  Hooked = {}
  Flaky = {}
  Deletable = {r2}
PROPERTY WaitsReturn
CHECK_DEADLOCK FALSE
