SPECIFICATION LiveSpec
CONSTANTS
    Kids = {k1, k2}
    Materials = {m1}
    None = None
    CutKid = CutKid
    CutKey = CutKey
    RefetchHours = 2
INVARIANT FetchClockFollowsFile
PROPERTY LockoutEnds
