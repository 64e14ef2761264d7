SPECIFICATION HookSpec
CONSTANTS
    Accounts = {ann, bob, cat}
    ZeroAddress = zero
    VOTING_POWER = VOTING_POWER
    PROPOSITION_POWER = PROPOSITION_POWER
    Uint128Range = 4
    Uint256Max = 4
    Supply = 2
    TransferAmounts = {1}
    ApprovalAmounts = {}
    Delegatees = {}
    DelegateesByType <- VotesToSpender
    SignedMessages <- OwnPermit
    MaxBlock = 1
    MaxOpen = 2
    Spender = cat
    Transfers <- SomeTransfers
    Grants <- OwnGrants
SYMMETRY OtherSymmetry
INVARIANTS
    PowersMatchOpenTransfers
    VotesWithinSupply
CHECK_DEADLOCK FALSE
