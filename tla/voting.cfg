SPECIFICATION VotingSpec
CONSTANTS
    alice = alice
    bob = bob
    carol = carol
    p1 = p1
    token = token
    yes = yes
    no = no
    Wallet = {alice, bob, carol}
    Proposal = {p1}
    Choice = {yes, no}
    NoVote = NoVote
    NoKey = NoKey
    Instruments <- OneInstrument
    FirstAmount <- Holdings
    FirstCoins <- Coins
    MayDelegate <- Chain
    Deposits = {1}
    VoteFee = 1
    MaxWaiting = 2
    MaxPayments = 1
    Wrap = 16
SYMMETRY ChoiceSymmetry
INVARIANTS TallyBacked VotesAuthorised
