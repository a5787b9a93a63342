SPECIFICATION InterpreterSpec
CONSTANTS
    Tables <- MCTables
    Events <- MCEvents
    Senders = {"geoff"}
    NoSender = "nobody"
    Readable = {"1", "Go"}
    Scripts <- MCScripts
    TestWords = {"Clear"}
    Numbers <- SomeNumbers
    Safe = 100
    Tens <- PowersOfTen
    Texts <- SomeTexts
    Spellings <- SomeSpellings
    Checksum <- Spelled
    Generated = {"Counter", "JoeLens"}
    Names = {"c", "d"}
    Inputs = {1, 2}
    MaxEvents = 3
    Words <- AllWords
    ViewWords <- AllViewWords
    MaxVotes = 3
INVARIANTS TypeOK ArgumentsGetTheirShare EventsReachTheirRow CallsFitTheContracts ComparisonsAreSound
PROPERTIES MacrosAreExpanded EveryEventIsAnswered
CHECK_DEADLOCK FALSE
