SPECIFICATION Spec
CONSTANTS
    g = g
    s1 = s1
    s2 = s2
    None = None
    Calls = {c1, c2, c3}
    Given = {g}
    Slugs = {s1, s2}
    Jobs <- JobsOnMany
    Associated = FALSE
    Unique = TRUE
    Retries = 1
SYMMETRY Symmetry
CHECK_DEADLOCK FALSE
PROPERTIES AtomicSpec
