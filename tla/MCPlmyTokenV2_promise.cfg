SPECIFICATION Spec
CONSTANTS
    Accounts = {ann, bob, cat}
    ZeroAddress = zero
    VOTING_POWER = VOTING_POWER
    PROPOSITION_POWER = PROPOSITION_POWER
    Uint128Range = 4
    Uint256Max = 7
    Supply = 2
    TransferAmounts = {1}
    ApprovalAmounts = {}
    Delegatees = {}
    DelegateesByType <- VotingToChosen
    SignedMessages <- ToChosen
    MaxBlock = 2
    Chosen = bob
SYMMETRY OtherSymmetry
PROPERTIES
    VotingPowerPromise
CHECK_DEADLOCK FALSE
