SPECIFICATION Spec
CONSTANTS
  r1 = r1
  r2 = r2
  w1 = w1
  w2 = w2
  c1 = c1
  NoRun = NoRun
  Runs = {r1, r2}
  Workers = {w1, w2}
  Clients = {}
  MaxAttempts = 3
  MaxResumes = 0
  Hooked = {r1}
  Flaky = {r1}
  Deletable = {}
PROPERTY SuccessIsFinal
CHECK_DEADLOCK FALSE
