SPECIFICATION Spec
CONSTANTS
    Owner = owner
    Users = {u1, u2}
    Granted = {}
    Drafted = FALSE
    Requests = {q1, q2}
    Sessions = {s1, s2}
    NoUser = NoUser
    NoRequest = NoRequest
INVARIANTS AcceptedHasAccess
CHECK_DEADLOCK FALSE
