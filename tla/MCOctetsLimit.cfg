CONSTANTS
    Clients = {"c1", "c2", "c3", "c4"}
    Keys = {"k1", "k2"}
    KeyOf <- Keyed
    Instances = {"i1", "i2"}
    Nothing = Nothing
    Overlap = FALSE
    Processes = {"p1", "p2"}
    Declared = {"unique", "plain"}
    Obsolete = {"old", "older"}
    Unique = "unique"
    ProcessOf <- Running
    Writers = {"w1", "w2"}
    Documents = {"d1", "d2"}
    Values = {"v1", "v2"}
    MaxVersion = 2
    MaxOutages = 2
    Nobody = Nobody
    None = None
    Uploads = {"u1", "u2"}
    Paths = {"/a"}
    Readers = {"r1"}
    Providers = {"fs", "s3"}
    Header = 2
    Limit = 2
    MaxSize = 3
    Requests <- TheStreams
    Known = {"jpeg", "png"}
    Unit <- Units
    Directives = {"put", "workflow", "delete"}
    MaxChunks = 1
SPECIFICATION MCSpec
CHECK_DEADLOCK FALSE
INVARIANT LimitKept
