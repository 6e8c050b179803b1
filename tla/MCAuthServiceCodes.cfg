SPECIFICATION Spec
CONSTANTS
    k1 = k1
    m1 = m1
    m2 = m2
    Kids = {k1}
    Materials = {m1}
    None = None
    CutKid = CutKid
    CutKey = CutKey
    Codes = {c1, c2}
    NoCode = NoCode
    EntryLife = 3
    PostTimeout = 2
    Tokens <- CodeTokens
    HookPresent = FALSE
    MaxDropped = 0
INVARIANTS CallbackFailsForReason ReloadSignsInAgain
