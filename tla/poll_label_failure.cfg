CONSTANTS
    Callers = {c1}
    Urls = {u1}
    Labels = {v1}
    NoLabel = NoLabel
    AnyRef = AnyRef
    Patterns = {AnyRef, main, dev}
    Names = {main, dev}
    Matching <- MCMatching
    Digests = {d1}
    NoDigest = NoDigest
    MaxHistory = 2
    MaxErrors = 2
    Faults = {"head"}
SPECIFICATION PollSpec
INVARIANT TagMatchesKey
