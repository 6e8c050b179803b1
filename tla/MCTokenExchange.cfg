SPECIFICATION ExchangeLiveSpec
CONSTANTS
    a = a
    b = b
    Codes = {c1, c2}
    NoCode = NoCode
    EntryLife = 3
    PostTimeout = 2
    Octets = {a, b}
    MaxResponse = 2
    TokenBodies <- MCTokenBodies
    OtherBodies <- MCOtherBodies
    NoBody = NoBody
INVARIANTS ExchangeTypeOK ReloadStillWorks RepeatedOnlyAfterLoss AnswersAreWhole OnlyHeadersLeak CachedTokensAreWhole
PROPERTY ExchangeEnds
