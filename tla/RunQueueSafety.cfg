SPECIFICATION Spec
CONSTANTS
  r1 = r1
  r2 = r2
  w1 = w1
  w2 = w2
  c1 = c1
  NoRun = NoRun
  Runs = {r1, r2}
  Workers = {w1, w2}
  Clients = {c1}
  MaxAttempts = 3
  MaxResumes = 0
  Hooked = {r1}
  Flaky = {r1}
  Deletable = {r1, r2}
INVARIANTS TypeOK NoLostRun PlainAnswersFit
CHECK_DEADLOCK FALSE
