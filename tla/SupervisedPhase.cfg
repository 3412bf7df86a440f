CONSTANTS World = 2  Debounce = 1  Timeouts = TRUE
          FaultBudget = 1  Interrupts = 1
SPECIFICATION FairSpec
INVARIANTS TypeOK NothingLeftRunning GroupPassesTogether ReadyIsTrusted FailureStaysAlone
PROPERTIES LossEndsTheGroup FailureEndsTheGroup
CHECK_DEADLOCK FALSE
