SPECIFICATION Spec
CONSTANTS
    MaxAddr <- MCMaxAddr
    MaxBits <- MCMaxBits
    Width <- MCWidth
    First <- MCFirst
    Last <- MCLast
    Names <- MCNames
    Fold <- MCFold
    MaxIPv4 = 7
    Wrap = 32
    MaskBits = 3
    BlockSize <- MCBlockSize
    MaxInt64 = 63
    Second = 3
    InitialBackoff = 0
    MaxBackoff = 24
    defaultInitialBackoff = 4
    defaultMaxBackoff = 20
    maxBackoffShift = 2
    jitterDivisor = 4
    PowerOfTwo <- MCPowerOfTwo
    Spaces = {"a", "b", "c"}
    MaxComputable = 2
    maxListLimit = 2
    MaxInt = 3
    Retries <- MCRetries
    Rates <- MCRates
    Ports <- MCPorts
    maxPort = 5
    defaultHTTPPort = 2
    defaultMaxRetries = 1
    Entries <- MCEntries
    MaxAttempt = 5
    Tables <- MCTables
    Environments <- MCEnvironments
    MaxValue = 2
    MaxClause = 4
INVARIANTS
    RangeGuardExact
    CIDRGuardExact
    AddrGuardExact
    ExtentExact
    WaitBounded
    WaitHonoured
    NoOtherFound
    NothingGuessed
    BlockFound
    ValuesKept
    ClausesNested
    StartsAsSet
    AttemptsMade
    FirstRequestPasses
