SPECIFICATION Spec
CONSTANTS
    Resources = {r1}
    Versions = {v1, v2}
    Users = {u1}
    Keys = {k1}
    Links = {}
    Checks = {"has_license"}
    Standing = {"has_title", "has_keywords", "media_types_present", "checksum_on_uploads"}
    Sessions = {s1, s2}
    NoResource = NoResource
    NoVersion = NoVersion
    NoUser = NoUser
SYMMETRY Symmetry
PROPERTIES TombstonesRemain
CHECK_DEADLOCK FALSE
