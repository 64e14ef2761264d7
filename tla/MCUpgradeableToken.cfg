SPECIFICATION LifeSpec
CONSTANTS
    ves = ves
    bob = bob
    Accounts = {ves, bob}
    ZeroAddress = zero
    VOTING_POWER = VOTING_POWER
    PROPOSITION_POWER = PROPOSITION_POWER
    Uint128Range = 4
    Uint256Max = 5
    Supply = 2
    DISTRIBUTION_AMOUNT = 2
    INCENTIVE_AMOUNT = 0
    TransferAmounts = {1, 2}
    ApprovalAmounts = {}
    Delegatees = {}
    DelegateesByType <- VotingToAnyone
    SignedMessages <- OnePermit
    MaxBlock = 3
    NoImplementation = none
    V1 = V1
    V2 = V2
    Admins = {bob, adm}
    VestingAddresses = {ves, zero}
    VaultAddresses = {bob, zero}
    UpgradePaths <- Forward
INVARIANTS
    LifeTypeOK
    PowersMatchDelegators
    PowerIsDelegatedBalances
    VotesFollowMint
PROPERTIES
    PastPowersFrozen
    MintedOnce
CHECK_DEADLOCK FALSE
