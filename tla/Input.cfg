SPECIFICATION InputSpec
CONSTANTS
    None = None
    EOF = EOF
    Cases <- MCCases
    Files <- MCFilesOf
    m1 = m1  m2 = m2
    MailId <- MCMailId
    Contents <- MCContents
    MUA = {"deliver", "move", "rename", "delete"}
    Boundary <- MCBoundaries
    MaxDepth = 4
    TokenOptions <- MCTokenOptions
    Tags <- MCTags
    MaxTokens = 3  MaxRuns = 3  MaxMessages = 2  AddressOctets = 3
    SavedKinds = {"queue"}
    Unset = Unset
INVARIANTS
    MailsKept
    MailWritten
    OnlyRenamedAreMissed
    DecodedAsDeclared
    CombinesARun
    LinesDecoded
    TextReachesScanner
PROPERTY
    TextEnds
\* The program stops at the end of its input.
CHECK_DEADLOCK FALSE
