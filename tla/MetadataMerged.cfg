SPECIFICATION ThreadsSpec
CONSTANTS
  t1 = t1
  t2 = t2
  p1 = p1
  p2 = p2
  c1 = c1
  e1 = e1
  NoCall = NoCall
  ThreadIds = {t1, t2}
  Patches = {p1, p2}
  Copies = {c1}
  Execs = {e1}
  Frameworks = {"llamaindex", "postgres", "plain"}
  MaxHistory = 2
PROPERTY MetadataMerged
CHECK_DEADLOCK FALSE
