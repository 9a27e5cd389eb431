SPECIFICATION DFSpec
CONSTANTS
    Radix = 10
    Base = 1
    MaxDecimals = 2
    ONE_HUNDRED_PERCENT = 10
    U64_MAX = 1000
    MAX_UINT128 = 1000000
    alice = alice
    bob = bob
    roleA = roleA
    roleB = roleB
    feed1 = feed1
    feed2 = feed2
    pda1 = pda1
    pda2 = pda2
    pyth = pyth
    switchboard = switchboard
    Accounts = {alice, bob}
    Signers = {alice, bob}
    AcRoles = {roleA, roleB}
    Acs = {}
    RoleNames <- MCRoleNames
    Grantable <- MCGrantable
    FeedStates = {feed1, feed2}
    manual_pda <- MCManualPda
    PythAccounts = {pyth}
    SwitchboardAccounts = {}
    DEFAULT_PUBKEY = DEFAULT_PUBKEY
    None = None
    NoPrice = NoPrice
    MAX_STALENESS <- MCMaxStaleness
    SLOTS_PER_SECOND = 1
    SWITCHBOARD_DECIMALS = 2
    MaxClock = 2
    FeedRoles <- MCFeedRoles
    FeedArgs <- SharedValues
    Amended <- SomeFields
INVARIANTS
    NegativeQuoteRefused
PROPERTIES
    ManualAnswersUnderAuthority
CHECK_DEADLOCK FALSE
