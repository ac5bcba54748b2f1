SPECIFICATION Spec
CONSTANTS
    self = self
    peer = peer
    other = other
    s1 = s1
    s2 = s2
    p1 = p1
    p2 = p2
    o1 = o1
    NoKey = NoKey
    None = None
    Self = self
    Validator = {self, peer}
    KeysOf <- Keys
    Order <- Addresses
    Funds <- Holdings
    Attempts = 2
    Window = 2
    Unbonding = 1
    MaxHeight = 2
    MaxTime = 1
    MaxTxns = 2
    MaxRestarts = 1
CHECK_DEADLOCK FALSE
INVARIANTS ElectionsPossible BackupWaits
PROPERTIES SpendsUnbonded MainLoopMoves
