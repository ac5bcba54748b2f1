SPECIFICATION Spec
CONSTANTS
    None = None
    Node = {n1, n2, n3}
    Block = {b1, b2}
    Stake <- OneAndThree
    Peers <- Others
    Attesting = {n1, n2}
SYMMETRY Symmetry
CHECK_DEADLOCK FALSE
INVARIANTS SupportIsGenuine ConfirmedOnce
PROPERTY ImplementsConfirmation
