SPECIFICATION SpecUndisturbed
CONSTANTS
    r1 = r1
    r2 = r2
    v1 = v1
    v2 = v2
    v3 = v3
    a = a
    b = b
    Resources = {r1, r2}
    Versions = {v1, v2, v3}
    Scopes = {a, b}
    BaseOf <- MCBaseOf
    ScopeOf <- MCScopeOf
    Queries <- ScopedQueries
    Sessions = {s1, s2}
    NoResource = NoResource
    NoVersion = NoVersion
    NoScope = NoScope
    NoQuery = NoQuery
    Miss = Miss
PROPERTIES DeleteInvalidates
