SPECIFICATION TextSpec
CONSTANTS
    Letters = {"a", "b"}
    Space = " "
    Eq = "="
    Semi = ";"
    Nul = "0"
    MaxHeader = 6
    Headers <- MCHeaders
    PathChars = {"/", ".", "x", "y"}
    Slash = "/"
    Dot = "."
    Times <- MCTimes
    Paths <- MCPaths
    HashChars = 2
    Hash <- MCHash
    Digits <- MCDigits
    HexDigits <- MCDigits
    CharOf <- MCCharOf
    IntMax = 2
    LongMax = 2
    Raws <- MCRaws
    AttributeLists <- MCAttributeLists
    Asked <- MCAsked
    TemplateTexts <- MCTemplateTexts
    Initials = {"V", "R", "U", "x"}
    DigitChars = {"1"}
    SiteValues <- MCSiteValues
    PageValues <- MCPageValues
    BlockLength = 4
    LengthBytes = 2
    OldBytes = {1, 255}
    MessageBytes = {128, 255}
    MaxMessage = 9
CHECK_DEADLOCK FALSE
INVARIANTS TypeOK OnlySeparatorsChange ParsesWellFormed RestoreUndoesParse OwnStateVerifies LandsWhereAsked SegmentsExact GroupCheckedIsGroupRead AttributeFound TwoRenderingsAreOne PaddingExact
