SPECIFICATION Spec
CONSTANTS
    Sessions <- AllSessions
    DefaultFrom = "root"
    MaxValue = 1
INVARIANTS TypeOK HoldsCoverOneTransaction ExpectationsAreDue
PROPERTIES NothingPassesUnnoticed TransactionsCarryTheirEvent EveryLineEnds
CHECK_DEADLOCK FALSE
