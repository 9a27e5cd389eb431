SPECIFICATION FRSpec
CONSTANTS
    Radix = 10
    Base = 1
    MaxDecimals = 2
    ONE_HUNDRED_PERCENT = 10
    U64_MAX = 255
    MAX_UINT128 = 1000000
    alice = alice
    bob = bob
    roleA = roleA
    roleB = roleB
    feed1 = feed1
    feed2 = feed2
    pda1 = pda1
    pda2 = pda2
    pyth = pyth
    switchboard = switchboard
    Accounts = {alice}
    Signers = {alice}
    AcRoles = {roleA}
    Acs = {}
    RoleNames <- MCRoleNames
    Grantable = {}
    FeedStates = {feed1}
    manual_pda <- MCManualPda
    PythAccounts = {pyth}
    SwitchboardAccounts = {switchboard}
    DEFAULT_PUBKEY = DEFAULT_PUBKEY
    None = None
    NoPrice = NoPrice
    MAX_STALENESS <- MCMaxStaleness
    SLOTS_PER_SECOND = 1
    SWITCHBOARD_DECIMALS = 2
    MaxClock = 3
    MaxAmount = 40
    MaxRate = 15
    FeedRoles <- MCFeedRoles
    FeedArgs <- FeedValues
    Amended <- AllFields
INVARIANTS
    FeedsSound
    AnswersAreRates
    AnswersRecent
    BoundsAdjustable
    DepositNeverUnderflows
    RoundTripNeverGains
    TruncatedIsTransferred
    ToleranceHonoured
CHECK_DEADLOCK FALSE
