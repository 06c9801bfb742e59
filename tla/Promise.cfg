CONSTANTS
  c1 = c1 c2 = c2 g1 = g1 g2 = g2 o1 = o1 f1 = f1 f2 = f2
  CPUs = {c1, c2}
  Tasks = {g1, g2, o1, f1, f2}
  Getters = {g1, g2}
  Pollers = {o1}
  Fulfillers = {f1, f2}
  Lists = {l}
  waiters = l
  None = None
  Order <- OrderBoth
  MAX_SLEEP = 0
  MAX_TICKS = 0
SPECIFICATION PLiveSpec
INVARIANT Agreement
PROPERTY PromiseKept
