SPECIFICATION FairSpec
CONSTANTS
    NoAddress = NoAddress
    Deployer = deployer
    VestingOwner = vestingOwner
    PlmyAdmin = deployer
    ConfiguredOwner = deployer
    NextOwner = nextOwner
    Treasury = treasury
    WOAS = woas
    IncentivesController = controller
    Networks = {"testnet", "oasys"}
    TasksOn <- AllTasks
    MaxSwitches = 0
    MaxRuns <- FourRuns
    MaxStops = 2
    MaxDeploys = 4
INVARIANTS
    TypeOK
    RegisteredAreDeployed
    RegisteredArePredicted
    FinishedMeansInitialized
PROPERTIES
    InitializationCompletes
CHECK_DEADLOCK FALSE
