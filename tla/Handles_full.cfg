SPECIFICATION AnsweredSpec
CONSTANTS
  Threads = {t1, t2}
  Env = env
  Conns = {c1}
  Stmts = {s1, s2}
  Descs = {d1}
  MaxCalls = 5
  NoOne = NoOne
INVARIANTS NoUseAfterFree OnlyDropsRace
PROPERTY CallsReturn
CHECK_DEADLOCK FALSE
