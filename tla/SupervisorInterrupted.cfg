CONSTANTS World = 2  Debounce = 0  Timeouts = FALSE
          FaultBudget = 0  Interrupts = 1
SPECIFICATION Spec
INVARIANTS InterruptStopsEverything
CHECK_DEADLOCK FALSE
