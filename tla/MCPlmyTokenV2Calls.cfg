SPECIFICATION CallSpec
CONSTANTS
    ann = ann
    bob = bob
    stray = stray
    random = random
    malformed = malformed
    Accounts = {ann, bob, stray}
    Strays = {stray}
    MadeUp <- Invented
    StrayOf <- Recovered
    ZeroAddress = zero
    Relayer = relayer
    VOTING_POWER = VOTING_POWER
    PROPOSITION_POWER = PROPOSITION_POWER
    Uint128Range = 4
    Uint256Max = 2
    Supply = 1
    TransferAmounts = {1}
    Paid = {bob}
    Approved <- AnnToBob
    ApprovalAmounts = {1, 2}
    Delegatees = {ann}
    DelegateesByType <- NoDelegatees
    SignedMessages <- Messages
    MaxBlock = 2
    ChainIds = {main, test}
    TokenContracts = {plmy, other}
    ThisChain = main
    ThisToken = plmy
INVARIANTS
    TypeOK
    MessagesHonoured
    SignaturesMatchCalls
PROPERTIES
    SignedCallsAreRelays
    ForeignSignaturesGiveNoPower
    DebitsAuthorised
    GrantsAuthorised
    DelegationsAuthorised
CHECK_DEADLOCK FALSE
