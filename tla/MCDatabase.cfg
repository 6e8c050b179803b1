SPECIFICATION DatabaseSpec
CONSTANTS
    u1 = u1
    u2 = u2
    Servers = {s1, s2}
    Users = {u1, u2}
    Groups = {1, 2}
    SiteMembers <- MCSiteMembers
    Paths <- MCPaths
    Component = 2
    NoVerdict = NoVerdict
    Digits <- MCDigits
    IntMax = 3
    LongMax = 31
SYMMETRY MCSymmetry
INVARIANTS DatabaseTypeOK MembersKept TablesWhenServing VerdictsFollowMembers
