SPECIFICATION MCSpec
CONSTANTS
    Owner = owner
    Users = {u1}
    Granted = {}
    Drafted = TRUE
    Requests = {q1, q2}
    Sessions = {s1, s2}
    Downloads = {d1, d2}
    NoUser = NoUser
    NoRequest = NoRequest
INVARIANTS AccessWasGiven DecisionsAnnounced DownloadsWereAllowed CountIsWithinLog OnePendingInTurn AccessIsRevocableInTurn
PROPERTIES ImplementsPolicyInTurn
SYMMETRY Symmetry
CHECK_DEADLOCK FALSE
