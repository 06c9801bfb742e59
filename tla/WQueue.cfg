CONSTANTS
  c1 = c1 c2 = c2 g1 = g1 g2 = g2 p1 = p1 p2 = p2 o1 = o1
  CPUs = {c1, c2}
  Tasks = {g1, g2, p1, p2, o1}
  Getters = {g1, g2}
  Pushers = {p1, p2}
  Pollers = {o1}
  Lists = {l}
  waiters = l
  None = None
  Order <- OrderPolled
  MAX_SLEEP = 0
  MAX_TICKS = 0
SPECIFICATION WQLiveSpec
INVARIANT Conserved
PROPERTY EveryGetReturns
