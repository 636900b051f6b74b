SPECIFICATION Spec
CHECK_DEADLOCK FALSE
CONSTANTS
    maxUInt = 63
    RightMargin = 14
    Array <- JsonArray
    Names <- JsonNames
    Elements <- JsonElements
    CommentTexts <- JsonComments
    Paths <- JsonPaths
    Tokens <- JsonTokens
    MaxLength = 2
    MaxComments = 1
    MaxTokens = 5
    Condense = TRUE
    TabSize = 4
    Contents <- XmlContents
    Values <- XmlValues
    Attributes <- XmlAttributes
    XmlTokens <- XmlTokensRead
    MaxNodes = 4
    MaxRoots = 1
    MaxXmlTokens = 4
    Threads = {t1, t2}
    Nobody = nobody
    MaxObjects = 3
    Limit = 5
    MaxAddresses = 2
    Descriptors = 3
    Callers = {c1, c2}
    Depth = 2
    Lengths = {1, 2}
    FilePaths = {"a", "b"}
    Bytes <- TextBytes
    Seeds <- TextSeeds
    MaxText = 2
    Exchanges <- TextExchanges
    Strays <- TextStrays
    GB2312 <- TextGB2312
    FirstDays <- TextDays
    MaxDays = 400
    Offset = 3600
    Summer <- TextSummer
    Loggers = {g1, g2}
    Callbacks = {f1}
    NoCallback = none
INVARIANTS
    ArrayIsList
    ConversionsHonest
    JsonValues
    JsonTexts
    LinksAgree
    XmlTexts
    LocksBalanced
    SocketsAccounted
    CallsAgree
    TextsAndDates
