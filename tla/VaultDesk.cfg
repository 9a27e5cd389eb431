SPECIFICATION VDFairSpec
CONSTANTS
    alice = alice
    bob = bob
    usdc = usdc
    wallet1 = wallet1
    wallet2 = wallet2
    FIAT = FIAT
    MTOKEN = MTOKEN
    redeemer = redeemer
    redeemer_pda = redeemer_pda
    Clients = {alice, bob}
    Coins = {usdc}
    Holders = {alice}
    Receivers <- MCReceivers
    Staffings <- MCStaffings
    Books <- MCBooks
    Configured <- MCConfigured
    Listings <- MCListings
    Amounts = {2}
    Owed = 1
    Scale = 2
    MAX_U64 = 2
    Slots = {1, 2}
    MaxMoves = 1
    MaxAlarms = 3
INVARIANTS
    RequestedOnce
PROPERTIES
    
    
    RequestsPaid
    PauseSettles
CHECK_DEADLOCK FALSE
