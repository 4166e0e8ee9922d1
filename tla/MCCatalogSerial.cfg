SPECIFICATION HistorySpec
CONSTANTS
    Resources = {r1}
    Versions = {v1, v2}
    Users = {u1, u2}
    Keys = {k1, k2}
    Links = {l1}
    Checks = {"has_license"}
    Standing = {"has_title", "has_keywords", "media_types_present", "checksum_on_uploads"}
    Sessions = {s1}
    NoResource = NoResource
    NoVersion = NoVersion
    NoUser = NoUser
SYMMETRY Symmetry
INVARIANTS OfferedObjectsStored
PROPERTIES ImplementsLifecycle
CHECK_DEADLOCK FALSE
