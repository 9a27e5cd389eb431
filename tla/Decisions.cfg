SPECIFICATION FairSpec
CONSTANTS
    Radix = 10
    Base = 1
    MaxDecimals = 2
    ONE_HUNDRED_PERCENT = 10
    U64_MAX = 24
    MAX_UINT128 = 1000000
    alice = alice
    bob = bob
    admin = admin
    treasury = treasury
    fees = fees
    minter_vault = minter_vault
    redeemer_vault = redeemer_vault
    coin = coin
    dime = dime
    coin_feed = coin_feed
    m_feed = m_feed
    vrole = vrole
    trole = trole
    nobody = nobody
    list = list
    other_ta = other_ta
    Accounts <- MCAccounts
    Signers <- MCSigners
    AcRoles = {vrole, trole, nobody}
    Acs = {list}
    RoleNames <- MCRoleNames
    Grantable <- DecisionGrants
    TokenAuthorities = {mta, other_ta}
    m_token_authority = mta
    NoAuthority = NoAuthority
    Tokens = {coin}
    FIAT_MINT = FIAT_MINT
    Feeds = {coin_feed, m_feed}
    NoFeed = NoFeed
    NoPrice = NoPrice
    m_mint_feed = m_feed
    vault_ac = list
    decimals <- MCDecimals
    m_decimals = 1
    SECONDS_PER_DAY = 2
    MaxTime = 2
    Customers = {alice}
    MaxRequests = 1
    Deployed <- DecisionDeployed
    Args <- DecisionArgs
PROPERTIES
    RequestsSettled
CHECK_DEADLOCK FALSE
