SPECIFICATION MRSpec
CONSTANTS
    alice = alice
    bob = bob
    roleA = roleA
    roleB = roleB
    mintA = mintA
    mintB = mintB
    NoExit = NoExit
    Accounts = {alice, bob}
    Signers = {alice, bob}
    AcRoles = {roleA, roleB}
    Acs = {ac1}
    RoleNames <- MCRoleNames
    Grantable <- MCGrantable
    Audited = {bob}
    Networks <- MCNetworks
    ListedRoles <- MCListedRoles
    ListedMints <- MCListedMints
    Types = {"MintTokens"}
    BATCH_SIZE = 3
    deployer = deployer
    ac_admin = ac_admin
    token_manager = token_manager
    vaults_manager = vaults_manager
    oracle_manager = oracle_manager
    feed_signer = ac_admin
    None = None
    Tasks <- AllTasks
    NetTasks <- SomeNetTasks
    MaxRunning = 2
    FeedModes = {"manual", "switchboard"}
    NetKeys = 3
    NetFailures = 1
    MaxKeys = 6
    MaxPending = 2
    MaxFailures = 2
INVARIANTS
    ListsExclusive
    AuditMissesNothing
    SavedTogether
    MinterReady
    AdminNeverLost
    HandOverClean
    FileConsistent
    PricedOrPending
PROPERTIES
    OrphanedRolesFrozen
    ListsChangeUnderRole
    NothingForgotten
CHECK_DEADLOCK FALSE
