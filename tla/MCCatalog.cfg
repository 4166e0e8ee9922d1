SPECIFICATION Spec
CONSTANTS
    Resources = {r1}
    Versions = {v1, v2}
    Users = {u1, u2}
    Keys = {k1}
    Sessions = {s1, s2}
    Checks = {"has_license"}
    Standing = {"has_title", "has_keywords", "media_types_present", "checksum_on_uploads"}
    Links = {}
    NoResource = NoResource
    NoVersion = NoVersion
    NoUser = NoUser
SYMMETRY Symmetry
INVARIANTS TypeOK ObjectsTracked PointersIssuedOrRemoved PublisherIsOwner
PROPERTIES NeverDraftAgain
CHECK_DEADLOCK FALSE
