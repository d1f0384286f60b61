SPECIFICATION Spec
CONSTANTS
  Threads = {t1, t2}
  Env = env
  Conns = {c1}
  Stmts = {s1, s2}
  Descs = {d1}
  MaxCalls = 4
  NoOne = NoOne
PROPERTY CancelEndsTheCall
CHECK_DEADLOCK FALSE
