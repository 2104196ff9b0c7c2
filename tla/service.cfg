CONSTANTS
    w1 = w1
    w2 = w2
    u1 = u1
    u2 = u2
    d1 = d1
    d2 = d2
    Callers = {w1, w2}
    Clients = {s1, s2}
    Modulus = 3
    MaxRefused = 1
    Urls = {u1, u2}
    Labels = {}
    NoLabel = NoLabel
    AnyRef = AnyRef
    Patterns = {AnyRef, main}
    Names = {main}
    Matching <- MCMatching
    Digests = {d1, d2}
    NoDigest = NoDigest
    MaxHistory = 1
    MaxErrors = 0
    Faults = {"crash", "store"}
    Packages = {1}
    Contents <- MCContents
    FirstHead <- MCFirstHead
    Requests <- MCRequests
    ErrorLimit = 2
    ReadOnly = FALSE
SPECIFICATION ServiceSpec
INVARIANTS ServiceTypeOK CounterCounts TasksInsideScan
PROPERTIES ScansKeepHistory RankKeepsRows RoundsEnd GuardImplements
