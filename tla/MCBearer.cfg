SPECIFICATION Spec
CONSTANTS
    k1 = k1
    m1 = m1
    m2 = m2
    Kids = {k1}
    Materials = {m1, m2}
    None = None
    CutKid = CutKid
    CutKey = CutKey
    Codes = {c1}
    NoCode = NoCode
    EntryLife = 3
    PostTimeout = 2
    Tokens <- FewTokens
    HookPresent = FALSE
    MaxDropped = 1
INVARIANTS AuthorizationHeaderCounts
