\* Two CPUs and two tasks, over two ticks of each CPU's clock.
CONSTANTS
  CPUs = {c1, c2}
  Tasks = {t1, t2}
  Lists = {l}
  None = None
  MAX_SLEEP = 2
  MAX_TICKS = 2
SPECIFICATION LiveSpec
INVARIANTS NoSharedStack StackAlive OnePlace NoOversleep
PROPERTY DueTasksRun
CHECK_DEADLOCK FALSE
