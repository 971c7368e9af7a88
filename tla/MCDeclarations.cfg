SPECIFICATION MCSpec
CONSTANTS
    None = None
    Absent = Absent
    Nil = Nil
    Unanswered = Unanswered
    brew = brew
    pour = pour
    wash = wash
    pots = pots
    cups = cups
    mugs = mugs
    Types <- PotTypes
    Documents <- Pots
    Declarations <- PotDeclarations
    Calls <- PotCalls
    Scopes = {"object", "objects", "stream"}
    Kids = {"k"}
    Counting = {"k"}
    MaxRequests = 2
    Timeout = 2
    MaxClock = 3
    MaxChallenges = 2
    MaxSignatures = 2
    Trust <- TheTrust
    Implicit = TRUE
    Rotation <- TheKeys
    TTL = 2
    Presented <- TheTokens
    MaxInstant = 4
    MaxVisits = 3
    Paths <- ThePaths
    StartOptions <- TheStarts
    DeclaredAs <- TheDeclared
    PredefinedExtensions = {"telemetry"}
    Async = {"amqp", "other"}
    Loop = "loop"
    Decorators = {"sampling"}
    Tenants = {"own"}
    Aspects <- TheAspects
    Unset = Unset
    Cases <- TheCases
    Components <- Crockery
    Id <- TheIds
    Compositions <- TheCompositions
    Dependencies <- TheDependencies
    Uses <- TheUses
    Foreign <- TheForeign
    Services <- TheServices
    Bases <- TheBases
    Base <- OwnBases
    Annotations <- TheAnnotations
    Environment <- TheEnvironment
    Secure = {"tea", "any", "own", "sap"}
    Operators = {"o1", "o2"}
    MaxEdits = 1
    Nothing = None
CHECK_DEADLOCK FALSE
INVARIANTS    AccessSound PasskeysSound 
     CompositionsSound 
