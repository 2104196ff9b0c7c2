CONSTANTS
    c1 = c1
    c2 = c2
    u1 = u1
    u2 = u2
    d1 = d1
    d2 = d2
    Callers = {c1}
    Urls = {u1, u2}
    Labels = {}
    NoLabel = NoLabel
    AnyRef = AnyRef
    Patterns = {AnyRef, main, dev}
    Names = {main, dev}
    Matching <- MCMatching
    Digests = {d1, d2}
    NoDigest = NoDigest
    MaxHistory = 2
    MaxErrors = 1
    Faults = {"head", "clone", "crash"}
    Packages = {1, 2, 3, 4}
    Contents <- MovingContents
    Requests <- AnyRequests
    ErrorLimit = 2
    ReadOnly = FALSE
SPECIFICATION UpdateSpec
INVARIANT ResetLeavesOnlyCommit
PROPERTY ChecksAreAtomic
