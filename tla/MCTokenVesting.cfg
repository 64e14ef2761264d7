SPECIFICATION FairSpec
CONSTANTS
    Accounts = {owner1, ben}
    ZeroAddress = zero
    Vesting = vesting
    FirstOwner = owner1
    Supply = 3
    Terms <- VariedTerms
    Beneficiaries = {ben, vesting, zero}
    Amounts = {1, 2}
    Uint256Max = 12
    MaxSchedules = 3
    MaxTime = 4
INVARIANTS
    TypeOK
    TotalIsPromised
    Solvent
    ReleasedHadVested
    RolesVestByMonths
PROPERTIES
    RevocationIsFair
    ScheduleCompletes
CHECK_DEADLOCK FALSE
