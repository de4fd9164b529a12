\* Each of the properties is violated; TLC stops at the first, so one is asked for at a time.
SPECIFICATION Spec
CONSTANTS
    Tasks = {"canonical", "preflight", "loop", "log-contact"}
    MaxCalls = 3
INVARIANT StatusIsReadable
\* INVARIANT EveryCallTraced
\* INVARIANT CompletedHasFinished
CHECK_DEADLOCK FALSE
