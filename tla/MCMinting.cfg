SPECIFICATION MCSpec
CONSTANTS
    Resources = {r1, r2}
    Versions = {v1, v2, v3}
    Users = {u1}
    Keys = {k1}
    Checks = {"has_doi"}
    Standing = {"has_title", "has_keywords", "media_types_present", "has_license"}
    Links = {l1}
    Dois = {d1, d2}
    Mints = {m1, m2}
    NoResource = NoResource
    NoVersion = NoVersion
    NoUser = NoUser
    NoDoi = NoDoi
    OwnDoi = OwnDoi
SYMMETRY Symmetry
INVARIANTS PublishedIsFair PointersAreIssued ShownDoisLand NoStrayDois
PROPERTIES ShownDoisStand TombstonesRemain ClosedStaysClosed
CHECK_DEADLOCK FALSE
