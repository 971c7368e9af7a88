SPECIFICATION MCSpec
CONSTANTS
    None = None
    Calls = {c1, c2, c3, c4}
    Faulty = TRUE
    Nodes <- TheNodes
    Deps <- TheDeps
    Links <- TheLinks
    Roots = {"r"}
    Flaky = {"a", "b", "c"}
    Connects = 2
    Disconnects = 2
    Interrupts = 1
CHECK_DEADLOCK FALSE
INVARIANTS UpOnDependencies GraphAtRest UnitsKept
PROPERTIES Served
