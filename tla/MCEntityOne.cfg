SPECIFICATION FairSpec
CONSTANTS
    g = g
    s1 = s1
    s2 = s2
    None = None
    Calls = {c1, c2, c3}
    Given = {g}
    Slugs = {s1}
    Jobs <- JobsOnOne
    Associated = TRUE
    Unique = FALSE
    Retries = 1
INVARIANTS TypeOK NoLostUpdate WritesOnce VersionNamesState EventsFaithful AnswersTruthful SilentWrites
PROPERTIES Answered AtomicSpec OnlyAssignRevives
CHECK_DEADLOCK FALSE
