\* Start-up, running, shutdown; five requests at a time.
SPECIFICATION Spec
CONSTANT Concurrency = 5
INVARIANT TypeOK NothingCutOff ExitCodeTells
PROPERTY SignalEnds BreakEnds
CHECK_DEADLOCK FALSE
