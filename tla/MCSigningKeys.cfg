SPECIFICATION Spec
CONSTANTS
    Keys = {k1, k2}
    Requests = {c1, c2}
    TTL = 2
    FetchTimeout = 1
    NoKey = NoKey
PROPERTIES WithdrawnIsRefused AddedIsKnown ServedIsKnown
