SPECIFICATION ApiSpec
SYMMETRY AnyThread
VIEW Essentials
CONSTANTS
  r1 = r1
  r2 = r2
  w1 = w1
  t1 = t1
  t2 = t2
  c1 = c1
  NoRun = NoRun
  NoThread = NoThread
  OtherAgent = "other"
  NoAgent = "none"
  Runs = {r1, r2}
  Workers = {w1}
  Clients = {c1}
  ThreadIds = {t1, t2}
  Posts = {c1}
  MaxAttempts = 1
  MaxResumes = 1
  Hooked = {r1}
  Flaky = {}
  Gives <- MCGives
  Deletable = {r2}
  Served <- MCServed
  Uuids = {"mail"}
INVARIANTS ApiTypeOK AcceptedIsQueued WaitReplyFits ViewsAgree
PROPERTIES RefusedLeavesNoTrace DeletedThroughItsThread
CHECK_DEADLOCK FALSE
