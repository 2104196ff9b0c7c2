CONSTANTS
    c1 = c1
    c2 = c2
    u1 = u1
    u2 = u2
    d1 = d1
    d2 = d2
    Callers = {c1}
    Urls = {u1, u2}
    Labels = {}
    NoLabel = NoLabel
    AnyRef = AnyRef
    Patterns = {AnyRef, main}
    Names = {main}
    Matching <- MCMatching
    Digests = {d1, d2}
    NoDigest = NoDigest
    MaxHistory = 1
    MaxErrors = 3
    Faults = {"head"}
    Packages = {1, 2, 3, 4}
    Contents <- ApartContents
    Requests <- OwnUpdates
    ErrorLimit = 1
    ReadOnly = FALSE
SPECIFICATION UpdateSpec
INVARIANT FailuresPruned
