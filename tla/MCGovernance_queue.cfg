CONSTANTS
    sale = sale
    redemption = redemption
    Proposals = {sale, redemption}
    Kind <- MCKind
    Amount <- MCAmount
    Voters = {v1}
    Coadmins = {1}
    Handlers = {h1, h2}
    FundingCoins = {c1, c2}
    ReserveVotes = 1
    Quorum = 2
    Supply = 2
    Window = 1
    MaxTime = 3
    MaxRevision = 8
    NoProposal = NoProposal
    Other = Other
    NoCoin = NoCoin
SPECIFICATION Spec
SYMMETRY MCSymmetry
VIEW MCView
CHECK_DEADLOCK FALSE
INVARIANTS
    QueueFollowsChain
    PublishedOnce
    FundedOnce
