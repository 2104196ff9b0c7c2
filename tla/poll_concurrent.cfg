CONSTANTS
    Callers = {c1, c2}
    Urls = {u1}
    Labels = {v1}
    NoLabel = NoLabel
    AnyRef = AnyRef
    Patterns = {AnyRef, tip, main, dev}
    Names = {main, dev}
    Matching <- MCMatching
    Digests = {d1, d2}
    NoDigest = NoDigest
    MaxHistory = 1
    MaxErrors = 1
    Faults = {"head", "store", "crash"}
SPECIFICATION PollSpec
SYMMETRY MCSymmetry
INVARIANTS PollTypeOK DigestsReported ResolvedTogether
