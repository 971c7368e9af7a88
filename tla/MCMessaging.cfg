CONSTANTS
    Processes = {"p", "q"}
    Components = {"a", "b", "c", "d"}
    Host <- TheHost
    Inquiries = {"r1", "r2", "x1", "x2"}
    AtBoot = {"r1", "r2"}
    Inquirer <- TheInquirer
    Target <- TheTarget
    Calls = {"k1", "k2", "k3"}
    Through <- TheThrough
    Nobody = Nobody
    MaxCrashes = 1
    Servers = {"p", "q"}
    Home = "p"
    Callers = {"r", "t"}
    Tasks = {"t"}
    Bindings <- TheBindings
    MaxKilled = 1
    Unanswered = Unanswered
    Events = {"created", "updated"}
    Changes = {"v1"}
    Listeners = {"l1", "l2", "l3"}
    GroupOf <- TheGroups
    Heard <- TheHeard
    Unemitted = Unemitted
    MaxDeaths = 2
    Keys = {"m1", "m2"}
    Clients = {"u1", "u2"}
    HighWaterMark = 1
    Nowhere = Nowhere
    MaxEvents = 2
SPECIFICATION MCSpec
CHECK_DEADLOCK FALSE
INVARIANTS RemotesHeld CallsTruthful EventsKept StreamsWhole
PROPERTIES Served
