CONSTANTS
    Users = {u1, u2}
    Groups = {g1, g2}
    Names = {n1, n2}
    Requests = {r1, r2}
    NoGroup = NoGroup
    NoRequest = NoRequest
    NoOwner = NoOwner
SPECIFICATION Spec
SYMMETRY Symmetry
INVARIANT NamesUniquePerOwner
PROPERTIES LiveMembersLeaveThemselves MembershipSpec
CHECK_DEADLOCK FALSE
