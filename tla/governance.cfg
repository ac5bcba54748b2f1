SPECIFICATION Spec
CONSTANTS
    staged1 = staged1
    timed = timed
    p1 = p1
    p2 = p2
    token = token
    Contract = {staged1, timed}
    Proposal = {p1, p2}
    NoGov = NoGov
    NoTime = NoTime
    NoProposal = NoProposal
    NoContract = NoContract
    NoTxn = NoTxn
    FirstGov <- FirstGovs
    LaterGov <- LaterGovs
    TxnFor <- TxnOf
    Fee <- Fees
    Windows <- AnyWindow
    VoteCounts <- SomeVotes
    NoVotes <- None0
    Instrument = {token}
    Circulation <- Ten
    Burned <- Zero
    Equiv <- One
    Denomination <- One
    StartTime = 2
    MaxTime = 4
    MaxRare = 1
INVARIANTS EndedOnce StagesInCycle NotForgotten
PROPERTY TimedResolved
CHECK_DEADLOCK FALSE
