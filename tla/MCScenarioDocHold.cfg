SPECIFICATION Spec
CONSTANTS
    Sessions <- AllSessions
    DefaultFrom = "root"
    MaxValue = 1
PROPERTY HoldSparesItsKind
CHECK_DEADLOCK FALSE
