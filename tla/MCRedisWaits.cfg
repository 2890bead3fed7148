\* Counterexamples: PROPERTY RaceAvoided with Setups RacingOnly, INVARIANT OneWake
\* with TimeoutsOnly.
SPECIFICATION RedisFairSpec
CONSTANTS
  Tasks = {t1, t2}
  Admin = adm
  Conns = {c1, c2}
  Max = 1
  MaxCalls = 2
  MaxOps = 1
  t1 = t1
  Setups <- RacingOnly
  NoConn = NoConn
  NoWaiter = NoWaiter
PROPERTIES RaceAvoided
CHECK_DEADLOCK FALSE
