SPECIFICATION Spec
CONSTANTS
    NoAddress = NoAddress
    Deployer = deployer
    VestingOwner = vestingOwner
    PlmyAdmin = deployer
    ConfiguredOwner = deployer
    NextOwner = nextOwner
    Treasury = treasury
    WOAS = woas
    IncentivesController = controller
    Networks = {"testnet"}
    TasksOn <- SaltTasks
    MaxSwitches = 1
    MaxRuns <- FewRuns
    MaxStops = 0
    MaxDeploys = 2
INVARIANTS
    RegisteredAreDeployed
CHECK_DEADLOCK FALSE
