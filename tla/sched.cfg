CONSTANTS
  NPROC = 4
  NPRIO = 2
  AGING_TICKS = 1
  PRIO_DEFAULT = 1
  MaxNap = 1
  Calls = {"fork", "exit", "wait", "sleep", "disk", "kill"}
SPECIFICATION Spec
VIEW View
INVARIANT RunqExact
INVARIANT ParentAlive
INVARIANT NoZombieUnseen
INVARIANT LostOnlyInWindow
PROPERTY SchedulesBest
