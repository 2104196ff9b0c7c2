CONSTANTS
    u = u
    ux = ux
    us = us
    v = v
    d = d
    Callers = {c1}
    Removers = {r1}
    RemoveReqs <- MCRemoveReqs
    KeyOrder <- MCOrder
    Under <- MCUnder
    Urls = {u, ux, us}
    Labels = {v}
    NoLabel = NoLabel
    AnyRef = AnyRef
    Patterns = {AnyRef, main}
    Names = {main}
    Matching <- MCMatching
    Digests = {d}
    NoDigest = NoDigest
    MaxHistory = 1
    MaxErrors = 0
    Faults = {}
    Packages = {1, 2, 3}
    Contents <- MCContents
    Requests <- MCRequests
    ErrorLimit = 2
    ReadOnly = FALSE
SPECIFICATION RemoveSpec
PROPERTY OnlyNamedRemoved
