SPECIFICATION Spec
CONSTANTS
    Accounts = {ann, bob}
    ZeroAddress = zero
    VOTING_POWER = VOTING_POWER
    PROPOSITION_POWER = PROPOSITION_POWER
    Uint128Range = 4
    Uint256Max = 7
    Supply = 3
    TransferAmounts = {1, 2}
    ApprovalAmounts = {}
    Delegatees = {ann, bob, zero}
    DelegateesByType <- EachType
    SignedMessages = {}
    MaxBlock = 2
    Chosen = bob
SYMMETRY AccountSymmetry
PROPERTIES
    PastPropositionPowersFrozen
CHECK_DEADLOCK FALSE
