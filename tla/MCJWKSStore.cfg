SPECIFICATION Spec
CONSTANTS
    Kids = {k1, k2}
    Materials = {m1, m2}
    None = None
    CutKid = CutKid
    CutKey = CutKey
    RefetchHours = 1
SYMMETRY Symmetry
INVARIANTS TypeOK Provenance AcceptedTokensWereIssued MemoryCoversFile
PROPERTIES KnownKeysStable ImplementsKeyRing
