SPECIFICATION Spec
CONSTANTS
    k1 = k1
    m1 = m1
    m2 = m2
    Kids = {k1}
    Materials = {m1}
    None = None
    CutKid = CutKid
    CutKey = CutKey
    Codes = {c1}
    NoCode = NoCode
    EntryLife = 2
    PostTimeout = 1
    Tokens <- MCTokens
    HookPresent = TRUE
    MaxDropped = 1
INVARIANTS TypeOK CookiesAreGenuine ConnectionsAccounted
