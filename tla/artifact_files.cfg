SPECIFICATION Spec
CONSTANTS
    Tasks = {"canonical", "preflight", "loop", "log-contact"}
    MaxCalls = 3
INVARIANTS
    CompletedIsWhole
    CrashIsDiagnosable
CHECK_DEADLOCK FALSE
