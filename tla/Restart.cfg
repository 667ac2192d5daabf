SPECIFICATION RestartSpec
CONSTANTS
  r1 = r1
  r2 = r2
  w1 = w1
  t1 = t1
  p1 = p1
  p2 = p2
  NoRun = NoRun
  NoThread = NoThread
  Runs = {r1, r2}
  Workers = {w1}
  Clients = {}
  ThreadIds = {t1}
  Posts = {p1, p2}
  MaxAttempts = 2
  MaxResumes = 0
  Hooked = {r1}
  Flaky = {r1}
  Deletable = {r1, r2}
  Configs <- MCConfigs
INVARIANTS RestartTypeOK NoRunLostSinceStart KeptResults KeptThreads ServesConfigured NewRunsAlternate
CHECK_DEADLOCK FALSE
