SPECIFICATION StreamSpec
CONSTANTS
  r1 = r1
  r2 = r2
  w1 = w1
  w2 = w2
  s1 = s1
  s2 = s2
  NoRun = NoRun
  Runs = {r1, r2}
  Workers = {w1}
  Clients = {}
  Streams = {s1}
  Wordy = {r2}
  MaxAttempts = 2
  MaxResumes = 0
  Hooked = {}
  Flaky = {}
  Deletable = {}
  MaxUnread = 2
INVARIANT StatusIsOfGeneration
CHECK_DEADLOCK FALSE
