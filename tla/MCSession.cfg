SPECIFICATION SessionSpec
CONSTANTS
    MaxTransactions = 2
    MaxMoves = 2
    Failures <- SomeFailures
    Codes = {1}
    Cost <- SomeCosts
    DefaultGas = 20
    TotalGas = {0, 3}
    Names = {"One", "Two"}
    Functions <- SomeFunctions
    MaxDeploys = 3
    MaxRestarts = 2
INVARIANTS ReportsAreRight FilesFitTheChain
PROPERTIES TellsTheTruth RestartForgetsNothing
CHECK_DEADLOCK FALSE
