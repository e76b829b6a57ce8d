CONSTANTS
  NPROC = 4
  NPRIO = 2
  AGING_TICKS = 1
  PRIO_DEFAULT = 1
  MaxNap = 0
  Calls = {"fork", "exit", "wait", "disk", "kill"}
SPECIFICATION Spec
INVARIANT RunningIsCurrent
