SPECIFICATION GraphAlone
CONSTANTS
    None = None
    Calls = {}
    Faulty = FALSE
    Nodes <- SharedNodes
    Deps <- SharedDeps
    Links <- SharedLinks
    Roots = {"r", "q"}
    Flaky = {}
    Connects = 1
    Disconnects = 1
    Interrupts = 0
PROPERTY KeptByDependants
CHECK_DEADLOCK FALSE
