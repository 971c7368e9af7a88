CONSTANTS
    None = None
    Mandatory = {"auth", "io", "cache"}
    Pods <- ThePods
    ComponentOf <- TheComponents
    VersionOf <- TheVersions
    Trees <- TheTrees
    Trunk <- TheTrunk
    Joined <- TheJoined
    Closes <- TheClosed
    Reaches <- TheRemotes
    Found <- Matched
    Faulty <- TheFaulty
    Paths <- ThePaths
    Verbs = {"GET"}
    Requests = {"r"}
    HttpRequests = {"x"}
    Declarations <- TheDeclarations
    Method = "GET"
    Together = FALSE
    MaxRestarts = 2
    Absent = Absent
    Replicas <- TheReplicas
    Refresh = 1
    Lifetime = 3
    CacheTTL = 1
    Stages <- TheStages
    MaxTime = 5
    MaxChanges = 2
    Settings <- TheSettings
    Nil = None
    Dotted = {"r.1"}
    MaxDemands = 3
SPECIFICATION MCSpec
CHECK_DEADLOCK FALSE
INVARIANTS  ExchangeSafe  MessagesSound MediaSound
 
