CONSTANTS
  NPROC = 4
  NPRIO = 3
  AGING_TICKS = 1
  PRIO_DEFAULT = 2
  MaxNap = 0
  Calls = {"fork", "exit", "wait"}
SPECIFICATION InitSpec
PROPERTY QueuedRuns
PROPERTY ZombiesFreed
