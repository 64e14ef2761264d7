SPECIFICATION Spec
CONSTANTS
    Accounts = {ann, bob, cat}
    ZeroAddress = zero
    VOTING_POWER = VOTING_POWER
    PROPOSITION_POWER = PROPOSITION_POWER
    Uint128Range = 4
    Uint256Max = 7
    Supply = 2
    TransferAmounts = {1, 2}
    ApprovalAmounts = {}
    Delegatees = {}
    DelegateesByType <- VotingOnly
    SignedMessages = {}
    MaxBlock = 2
    Chosen = bob
SYMMETRY AccountSymmetry
INVARIANTS
    SupplyConserved
    PowersMatchDelegators
    VotesWithinSupply
    HistoriesOrdered
    MovesNotBlocked
CHECK_DEADLOCK FALSE
