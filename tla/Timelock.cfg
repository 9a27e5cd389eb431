SPECIFICATION TLFairSpec
CONSTANTS
    alice = alice
    prog = prog
    buf = buf
    vault = vault
    stranger = stranger
    None = None
    Operators = {alice}
    Programs = {prog}
    Buffers = {buf}
    Delay = 1
    MaxIndex = 2
    MaxTime = 2
    MaxCode = 2
    MaxPending = 2
    MaxDrops = 1
INVARIANTS
    AnnouncedIsOwn
PROPERTIES
    GateSpec
    UpgradesSettled
CHECK_DEADLOCK FALSE
