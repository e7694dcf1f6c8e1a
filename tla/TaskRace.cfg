CONSTANTS
  Tasks = {t1}
  Callers = {c1, c2}
  MaxRetries = 1
  MaxExecutions = 3
  MaxFaults = 0
  MaxCrashes = 1
  HandlersSuspend = FALSE
  NoTask = NoTask
SPECIFICATION Spec
CHECK_DEADLOCK FALSE
SYMMETRY Symmetry
INVARIANT TypeOK
INVARIANT LiveIsTracked
INVARIANT LogIsTrue
PROPERTY TerminalIsFinal
PROPERTY ImplementsLifecycle
