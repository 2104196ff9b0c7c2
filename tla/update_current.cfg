CONSTANTS
    c1 = c1
    c2 = c2
    u1 = u1
    u2 = u2
    d1 = d1
    d2 = d2
    Callers = {c1, c2}
    Urls = {u1, u2}
    Labels = {}
    NoLabel = NoLabel
    AnyRef = AnyRef
    Patterns = {AnyRef, main}
    Names = {main}
    Matching <- MCMatching
    Digests = {d1, d2}
    NoDigest = NoDigest
    MaxHistory = 1
    MaxErrors = 1
    Faults = {"head"}
    Packages = {1, 2, 3, 4}
    Contents <- ApartContents
    Requests <- OwnUpdates
    ErrorLimit = 2
    ReadOnly = FALSE
SPECIFICATION FairUpdateSpec
INVARIANT NoUpdateMeansCurrent
PROPERTY UpdateReturns
