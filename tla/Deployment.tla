----------------------------- MODULE Deployment -----------------------------
(***************************************************************************)
(* The hardhat tasks that deploy and initialize the contracts.  A task is  *)
(* a script: it sends transactions one after the other, waits for most of  *)
(* them to be mined, and keeps the addresses it deploys to in a registry   *)
(* file that later tasks read.  An operator runs one task at a time, may   *)
(* stop it anywhere, and may run any task again; a transaction that was    *)
(* sent is mined whether or not the script still waits for it.             *)
(*                                                                         *)
(* The networks are testnet, where the tasks deploy by themselves, and     *)
(* oasys, where they export the code for somebody else to create through a *)
(* factory, and register the addresses it will have.  The registry file is *)
(* one for both.  The token's distribution is minted, withdrawn and sent   *)
(* to the treasury as a whole: the model keeps the address that holds it.  *)
(***************************************************************************)
EXTENDS Naturals, Sequences, FiniteSets

CONSTANTS
    NoAddress,              \* a registry entry or a slot that is not set
    Deployer,               \* the first of getEthersSigners
    VestingOwner,           \* the second of them
    PlmyAdmin,              \* getPlmyAdminPerNetwork
    ConfiguredOwner,        \* getVestingOwnerPerNetwork
    NextOwner,              \* the address written in transfer-vesting-owner
    Treasury,               \* getPlmyTokenTreasuryAddressPerNetwork
    WOAS,                   \* getWOASTokenPerNetwork
    IncentivesController,   \* getIncentivesControllerPerNetwork
    Networks,               \* the networks a behaviour may begin on
    TasksOn,                \* the tasks the operator runs on each network
    MaxSwitches,            \* bound: changes of the network in a behaviour
    MaxRuns,                \* bound: tasks started in a behaviour, by network
    MaxStops,               \* bound: tasks stopped in a behaviour
    MaxDeploys              \* bound: contracts deployed of each code

\* The tasks of hardhat that the model has.
Tasks ==
    {"oasys-deployment", "export-deploy-calldata-PlmyToken",
     "export-deploy-calldata-PlmyTokenV2", "export-deploy-calldata-PalmyRewardsVault",
     "export-deploy-calldata-TokenVesting", "deploy-PlmyToken", "deploy-PlmyTokenV2",
     "deploy-PalmyRewardsVault", "token-initialization", "initialize-PlmyToken",
     "initialize-PlmyToken --onlyProxy", "upgrade-PlmyToken",
     "initialize-PalmyRewardsVault", "initialize-TokenVesting",
     "transfer-vesting-owner", "print-address-and-salt"}

\* Those that create contracts themselves, wherever they run.
Deployments == {"deploy-PlmyToken", "deploy-PlmyTokenV2", "deploy-PalmyRewardsVault"}

People == {Deployer, VestingOwner, PlmyAdmin, ConfiguredOwner, NextOwner, Treasury}

ASSUME PeopleAssumption ==
    /\ Deployer # VestingOwner
    /\ NoAddress \notin People \cup {WOAS, IncentivesController}
\* On oasys the deployer may not create contracts.
ASSUME NetworksAssumption ==
    /\ Networks \subseteq {"testnet", "oasys"}
    /\ TasksOn \in [{"testnet", "oasys"} -> SUBSET Tasks]
    /\ TasksOn["oasys"] \cap Deployments = {}
    /\ MaxRuns \in [{"testnet", "oasys"} -> Nat]
ASSUME BoundsAssumption ==
    MaxSwitches \in Nat /\ MaxStops \in Nat /\ MaxDeploys \in Nat

-----------------------------------------------------------------------------
Proxy == "InitializableAdminUpgradeabilityProxy"
Codes == {"PlmyToken", "PlmyTokenV2", "PalmyRewardsVault", "TokenVesting", Proxy}

\* The contracts that are exported, and the code of each.
CodeOf(name) ==
    CASE name \in {"PlmyToken", "PalmyRewardsVaultProxy"} -> Proxy
      [] name = "PlmyTokenImpl"                           -> "PlmyToken"
      [] OTHER                                            -> name

Exports == {"PlmyToken", "PlmyTokenImpl", "PlmyTokenV2", "PalmyRewardsVaultProxy",
            "PalmyRewardsVault", "TokenVesting"}

\* A salt that does not depend on the contract.
SameSalt(name) == "palmy-finance"

\* toSalt, a hash of the name.
ToSalt(name) == name

\* The address the factory will create a contract at: it depends on the code
\* and on the salt, and on nothing that happens before.
GetOasysDeploymentAddress(name) ==
    [code |-> CodeOf(name), salt |-> ToSalt(name), number |-> 0]

\* The addresses of contracts on testnet: what is deployed there, and the
\* how-manieth it is; and on oasys.
OnTestnet == [code : Codes, salt : {"none"}, number : 1 .. MaxDeploys]
OnOasys   == {GetOasysDeploymentAddress(name) : name \in Exports}
Contracts == OnTestnet \cup OnOasys
Proxies   == {c \in Contracts : c.code = Proxy}
Vestings  == {c \in Contracts : c.code = "TokenVesting"}

ASSUME AddressesAssumption == (People \cup {NoAddress}) \cap Contracts = {}

\* The entries of eContractid that the tasks read or write.
Names == {"PlmyToken", "PlmyTokenImpl", "PlmyTokenV2", "TokenVesting", Proxy,
          "PalmyRewardsVault", "PalmyRewardsVaultImpl", "PalmyRewardsVaultProxy"}

REVISION(code) == IF code = "PlmyTokenV2" THEN 2 ELSE 1

-----------------------------------------------------------------------------
\* The steps of a script.
Deploy(code)   == [do |-> "deploy", code |-> code]
Register(name) == [do |-> "register", name |-> name]
Send(call)     == [do |-> "send", call |-> call]
Export(name)   == [do |-> "export", name |-> name]
Predict(name)  == [do |-> "predict", name |-> name]
PrintSalts     == [do |-> "print"]
Finish         == [do |-> "finish"]

\* deployContract registers under the name of the contract, and the task that
\* calls it under another name.
DeployContractAs(code, name) == <<Deploy(code), Register(code), Register(name)>>

\* deployToOasysTestnet registers under the name it is given.
DeployToTestnet(name, code) == <<Deploy(code), Register(name)>>

\* The address is registered before the calldata is on disk.
PredictFirst(name) == <<Predict(name), Export(name)>>

\* saveDeploymentCallData.
SaveDeploymentCallData(name) == <<Export(name), Predict(name)>>

ExportPlmyToken ==
    SaveDeploymentCallData("PlmyTokenImpl") \o SaveDeploymentCallData("PlmyToken")
ExportPlmyTokenV2 == SaveDeploymentCallData("PlmyTokenV2")
ExportRewardsVault ==
    SaveDeploymentCallData("PalmyRewardsVault")
    \o SaveDeploymentCallData("PalmyRewardsVaultProxy")
ExportTokenVesting == SaveDeploymentCallData("TokenVesting")

\* On testnet the calldata exported is the code that is deployed next; on
\* oasys the task returns once all is exported.
OasysDeployment(on) ==
    IF on = "oasys"
    THEN ExportPlmyToken \o ExportPlmyTokenV2 \o ExportRewardsVault \o ExportTokenVesting
    ELSE DeployToTestnet("PlmyToken", Proxy)
         \o DeployToTestnet("PlmyTokenImpl", "PlmyToken")
         \o DeployToTestnet("PlmyTokenV2", "PlmyTokenV2")
         \o DeployToTestnet("PalmyRewardsVaultProxy", Proxy)
         \o DeployToTestnet("PalmyRewardsVault", "PalmyRewardsVault")
         \o DeployToTestnet("TokenVesting", "TokenVesting")

\* The task that deploys the token registers the implementation under the
\* token's name until the proxy is there.
DeployPlmyToken ==
    DeployContractAs("PlmyToken", "PlmyTokenImpl") \o DeployContractAs(Proxy, "PlmyToken")

\* This one takes over the first implementation's entry.
DeployPlmyTokenV2 == DeployContractAs("PlmyTokenV2", "PlmyTokenImpl")

DeployRewardsVault ==
    DeployContractAs("PalmyRewardsVault", "PalmyRewardsVaultImpl")
    \o DeployContractAs(Proxy, "PalmyRewardsVaultProxy")

InitializePlmyToken     == <<Send("initializeToken")>>
InitializePlmyTokenOnly == <<Send("initializeProxyOnly")>>    \* --onlyProxy
UpgradePlmyToken        == <<Send("upgradeToken")>>
InitializeRewardsVault  == <<Send("initializeVault")>>
TransferVestingOwner    == <<Send("transferVestingOwner")>>

\* The new owner takes the distribution out before it has been handed over.
InitializeTokenVestingEarly ==
    <<Send("initializeVesting"), Send("withdraw"), Send("transferOwnership"),
      Send("transferToTreasury")>>

InitializeTokenVesting ==
    <<Send("initializeVesting"), Send("transferOwnership"), Send("withdraw"),
      Send("transferToTreasury")>>

TokenInitialization ==
    InitializePlmyToken \o UpgradePlmyToken \o InitializeRewardsVault
    \o InitializeTokenVesting \o <<Finish>>

Program(on, task) ==
    CASE task = "oasys-deployment"                  -> OasysDeployment(on)
      [] task = "export-deploy-calldata-PlmyToken"  -> ExportPlmyToken
      [] task = "export-deploy-calldata-PlmyTokenV2"       -> ExportPlmyTokenV2
      [] task = "export-deploy-calldata-PalmyRewardsVault" -> ExportRewardsVault
      [] task = "export-deploy-calldata-TokenVesting"      -> ExportTokenVesting
      [] task = "deploy-PlmyToken"                  -> DeployPlmyToken
      [] task = "deploy-PlmyTokenV2"                -> DeployPlmyTokenV2
      [] task = "deploy-PalmyRewardsVault"          -> DeployRewardsVault
      [] task = "token-initialization"              -> TokenInitialization
      [] task = "initialize-PlmyToken"              -> InitializePlmyToken
      [] task = "initialize-PlmyToken --onlyProxy"  -> InitializePlmyTokenOnly
      [] task = "upgrade-PlmyToken"                 -> UpgradePlmyToken
      [] task = "initialize-PalmyRewardsVault"      -> InitializeRewardsVault
      [] task = "initialize-TokenVesting"           -> InitializeTokenVesting
      [] task = "transfer-vesting-owner"            -> TransferVestingOwner
      [] task = "print-address-and-salt"            -> <<PrintSalts>>

-----------------------------------------------------------------------------
VARIABLES
    network,        \* the network the operator works on
    db,             \* deployed-contracts.json, by network
    exported,       \* the contracts whose calldata is saved for oasys
    deployed,       \* the addresses that have code
    proxies,        \* the slots and the storage behind each proxy
    vestings,       \* _token and owner of each vesting contract
    distribution,   \* who holds DISTRIBUTION_AMOUNT of the token at a proxy
    pending,        \* sent and not mined, by signer, in order of nonce
    script,         \* the task that runs: what is left of it and its variables
    runs, stops,    \* how many tasks were started and stopped
    switches,       \* how often the network was changed
    finished        \* what initializations that came to their end had initialized

chain    == <<deployed, proxies, vestings, distribution>>
counters == <<runs, stops, switches>>
disk     == <<network, db, exported>>
vars     == <<disk, chain, pending, script, counters, finished>>

Signers == {Deployer, VestingOwner}

\* No task runs.
Idle == [todo |-> <<>>, waitsFor |-> NoAddress, created |-> NoAddress, hadCode |-> FALSE]

EmptyProxy == [implementation |-> NoAddress, admin |-> NoAddress, revision |-> 0,
               token |-> NoAddress, incentivesController |-> NoAddress]

\* A vesting contract is created for the owner that getDeployArgs gives it.
NewVesting == [token |-> NoAddress, owner |-> ConfiguredOwner]

Init ==
    /\ network \in Networks
    /\ db = [on \in {"testnet", "oasys"} |-> [name \in Names |-> NoAddress]]
    /\ exported = {}
    /\ deployed = {}
    /\ proxies = [p \in Proxies |-> EmptyProxy]
    /\ vestings = [v \in Vestings |-> NewVesting]
    /\ distribution = [p \in Proxies |-> NoAddress]
    /\ pending = [s \in Signers |-> <<>>]
    /\ script = Idle
    /\ runs = 0
    /\ stops = 0
    /\ switches = 0
    /\ finished = {}

-----------------------------------------------------------------------------
\* What the registry holds for the network at hand.
Entry(name) == db[network][name]

\* The addresses with code on that network, and whether each registered has.
WithCode == deployed \cap (IF network = "oasys" THEN OnOasys ELSE OnTestnet)

RegisteredHaveCode == \A name \in Names : Entry(name) \in WithCode \cup {NoAddress}

\* The address the next creation of this code goes to.
NextContract(code) ==
    LET sent == {i \in 1 .. Len(pending[Deployer]) : /\ pending[Deployer][i].call = "create"
                                                     /\ pending[Deployer][i].to.code = code}
    IN  [code   |-> code,
         salt   |-> "none",
         number |-> Cardinality({c \in WithCode : c.code = code}) + Cardinality(sent) + 1]

\* The registry entries a call is made from; a task throws when one is missing.
Reads(call) ==
    CASE call \in {"initializeToken", "initializeProxyOnly"} ->
              {"PlmyToken", "PlmyTokenImpl", "TokenVesting", "PalmyRewardsVaultProxy"}
      [] call = "upgradeToken"    -> {"PlmyToken", "PlmyTokenV2"}
      [] call = "initializeVault" -> {"PalmyRewardsVault", "PalmyRewardsVaultProxy"}
      [] call = "transferVestingOwner" -> {"TokenVesting"}
      [] OTHER                    -> {"TokenVesting", "PlmyToken"}

\* The transaction of a call: its signer, its target and its arguments.
Transaction(call) ==
    CASE call = "initializeToken" ->
              [call |-> call, from |-> Deployer, to |-> Entry("PlmyToken"),
               logic |-> Entry("PlmyTokenImpl"), admin |-> PlmyAdmin,
               vesting |-> Entry("TokenVesting")]
      [] call = "initializeProxyOnly" ->
              [call |-> call, from |-> Deployer, to |-> Entry("PlmyToken"),
               logic |-> Entry("PlmyTokenImpl"), admin |-> Entry("TokenVesting")]
      [] call = "upgradeToken" ->
              [call |-> call, from |-> Deployer, to |-> Entry("PlmyToken"),
               logic |-> Entry("PlmyTokenV2")]
      [] call = "initializeVault" ->
              [call |-> call, from |-> Deployer, to |-> Entry("PalmyRewardsVaultProxy"),
               logic |-> Entry("PalmyRewardsVault"), admin |-> Deployer]
      [] call = "initializeVesting" ->
              [call |-> call, from |-> Deployer, to |-> Entry("TokenVesting"),
               token |-> Entry("PlmyToken")]
      [] call = "transferOwnership" ->
              [call |-> call, from |-> Deployer, to |-> Entry("TokenVesting"),
               newOwner |-> VestingOwner]
      [] call = "transferVestingOwner" ->
              [call |-> call, from |-> Deployer, to |-> Entry("TokenVesting"),
               newOwner |-> NextOwner]
      [] call = "withdraw" ->
              [call |-> call, from |-> VestingOwner, to |-> Entry("TokenVesting")]
      [] call = "transferToTreasury" ->
              [call |-> call, from |-> VestingOwner, to |-> Entry("PlmyToken"),
               recipient |-> Treasury]

-----------------------------------------------------------------------------
\* A proxy takes its first implementation: initialize(address,address,bytes).
CanInitializeProxy(tx) ==
    /\ tx.to \in Proxies
    /\ proxies[tx.to].implementation = NoAddress
    /\ tx.logic \in WithCode

InitializedProxy(tx) ==
    [proxies[tx.to] EXCEPT !.implementation = tx.logic, !.admin = tx.admin]

\* The modifier initializer, in the storage behind a proxy.
MayInitialize(proxy, code) == REVISION(code) > proxies[proxy].revision

\* What the proxy p forwards from a caller reaches an implementation.  An
\* empty proxy delegates to the zero address, which succeeds without effect.
Forwards(p, caller) == p \in Proxies /\ proxies[p].admin # caller
IsEmpty(p)          == proxies[p].implementation = NoAddress

\* The distribution of the token at proxy p can be moved by its holder.
CanTransfer(p, holder) ==
    /\ p \in WithCode
    /\ Forwards(p, holder)
    /\ ~IsEmpty(p)
    /\ distribution[p] = holder

\* A call to an address without code succeeds and does nothing.
IntoTheVoid(tx) == tx.call # "create" /\ tx.to \notin WithCode

\* The contract that is called does not revert.
Accepts(tx) ==
    CASE tx.call = "initializeToken" ->
              /\ CanInitializeProxy(tx)
              /\ tx.logic.code = "PlmyToken"
              /\ MayInitialize(tx.to, tx.logic.code)
      [] tx.call = "initializeProxyOnly" -> CanInitializeProxy(tx)
      [] tx.call = "upgradeToken" ->
              /\ tx.to \in Proxies
              /\ \/ IsEmpty(tx.to) /\ Forwards(tx.to, tx.from)
                 \/ /\ tx.from = proxies[tx.to].admin
                    /\ tx.logic \in WithCode
                    /\ MayInitialize(tx.to, tx.logic.code)
      [] tx.call = "initializeVault" ->
              /\ CanInitializeProxy(tx)
              /\ MayInitialize(tx.to, tx.logic.code)
              /\ WOAS # NoAddress
              /\ IncentivesController # NoAddress
      [] tx.call = "initializeVesting" -> vestings[tx.to].token = NoAddress
      [] tx.call \in {"transferOwnership", "transferVestingOwner"} ->
              tx.from = vestings[tx.to].owner
      [] tx.call = "withdraw" ->
              /\ tx.from = vestings[tx.to].owner
              /\ CanTransfer(vestings[tx.to].token, tx.to)
      [] tx.call = "transferToTreasury" ->
              \/ tx.to \in Proxies /\ IsEmpty(tx.to) /\ Forwards(tx.to, tx.from)
              \/ CanTransfer(tx.to, tx.from)

\* Mined now, the transaction does not revert.
Succeeds(tx) == tx.call = "create" \/ IntoTheVoid(tx) \/ Accepts(tx)

\* What it then does, one operator for each contract it is sent to.
ExecuteCreate(tx) ==
    /\ deployed' = deployed \cup {tx.to}
    /\ UNCHANGED <<proxies, vestings, distribution>>

\* PlmyToken.initialize mints the distribution to the vesting contract.
ExecuteInitializeToken(tx) ==
    /\ proxies' = [proxies EXCEPT ![tx.to] =
                      [InitializedProxy(tx) EXCEPT !.revision = REVISION(tx.logic.code)]]
    /\ distribution' = [distribution EXCEPT ![tx.to] = tx.vesting]
    /\ UNCHANGED <<deployed, vestings>>

ExecuteInitializeProxyOnly(tx) ==
    /\ proxies' = [proxies EXCEPT ![tx.to] = InitializedProxy(tx)]
    /\ UNCHANGED <<deployed, vestings, distribution>>

\* upgradeToAndCall with PlmyTokenV2.initialize.
ExecuteUpgrade(tx) ==
    /\ proxies' = IF IsEmpty(tx.to) THEN proxies
                  ELSE [proxies EXCEPT ![tx.to].implementation = tx.logic,
                                       ![tx.to].revision = REVISION(tx.logic.code)]
    /\ UNCHANGED <<deployed, vestings, distribution>>

\* PalmyRewardsVault.initialize, which approves the controller without limit.
ExecuteInitializeVault(tx) ==
    /\ proxies' = [proxies EXCEPT ![tx.to] =
                      [InitializedProxy(tx) EXCEPT
                          !.revision = REVISION(tx.logic.code),
                          !.token = WOAS,
                          !.incentivesController = IncentivesController]]
    /\ UNCHANGED <<deployed, vestings, distribution>>

ExecuteVesting(tx) ==
    /\ vestings' = [vestings EXCEPT ![tx.to] =
                       IF tx.call = "initializeVesting" THEN [@ EXCEPT !.token = tx.token]
                       ELSE [@ EXCEPT !.owner = tx.newOwner]]
    /\ UNCHANGED <<deployed, proxies, distribution>>

\* withdraw pays the vesting contract's owner.
ExecuteWithdraw(tx) ==
    /\ distribution' = [distribution EXCEPT ![vestings[tx.to].token] = vestings[tx.to].owner]
    /\ UNCHANGED <<deployed, proxies, vestings>>

ExecuteTransfer(tx) ==
    /\ distribution' = IF IsEmpty(tx.to) THEN distribution
                       ELSE [distribution EXCEPT ![tx.to] = tx.recipient]
    /\ UNCHANGED <<deployed, proxies, vestings>>

ExecuteCall(tx) ==
    \/ tx.call = "initializeToken"     /\ ExecuteInitializeToken(tx)
    \/ tx.call = "initializeProxyOnly" /\ ExecuteInitializeProxyOnly(tx)
    \/ tx.call = "upgradeToken"        /\ ExecuteUpgrade(tx)
    \/ tx.call = "initializeVault"     /\ ExecuteInitializeVault(tx)
    \/ /\ tx.call \in {"initializeVesting", "transferOwnership", "transferVestingOwner"}
       /\ ExecuteVesting(tx)
    \/ tx.call = "withdraw"            /\ ExecuteWithdraw(tx)
    \/ tx.call = "transferToTreasury"  /\ ExecuteTransfer(tx)

Execute(tx) ==
    \/ tx.call = "create" /\ ExecuteCreate(tx)
    \/ tx.call # "create" /\ ~IntoTheVoid(tx) /\ ExecuteCall(tx)
    \/ IntoTheVoid(tx) /\ UNCHANGED chain

-----------------------------------------------------------------------------
\* The operator may change the network when all is mined on this one: the
\* networks share the registry alone.
MayChange ==
    /\ switches < MaxSwitches
    /\ \A signer \in Signers : pending[signer] = <<>>

\* He runs a task on a network.
Start(on, task) ==
    /\ script = Idle
    /\ on = network \/ MayChange
    /\ runs < MaxRuns[on]
    /\ network' = on
    /\ switches' = IF on = network THEN switches ELSE switches + 1
    /\ runs' = runs + 1
    /\ UNCHANGED <<db, exported, chain, pending, stops, finished>>
    /\ script' = [Idle EXCEPT !.todo = Program(on, task), !.hadCode = RegisteredHaveCode']

\* He may stop it anywhere.
Stop ==
    /\ script # Idle
    /\ stops < MaxStops
    /\ script' = Idle
    /\ stops' = stops + 1
    /\ UNCHANGED <<disk, chain, pending, runs, switches, finished>>

\* Somebody else creates an exported contract through the factory of oasys.
FactoryCreate(name) ==
    /\ network = "oasys"
    /\ name \in exported
    /\ GetOasysDeploymentAddress(name) \notin deployed
    /\ deployed' = deployed \cup {GetOasysDeploymentAddress(name)}
    /\ UNCHANGED <<disk, proxies, vestings, distribution, pending, script, counters, finished>>

\* The script has come to a step, and goes on to the next or ends.
At(do)  == /\ script.todo # <<>>
           /\ script.waitsFor = NoAddress
           /\ Head(script.todo).do = do
Step    == Head(script.todo)
Advance == IF Len(script.todo) = 1 THEN Idle
           ELSE [script EXCEPT !.todo = Tail(@), !.waitsFor = NoAddress]

\* A script that waits for no creation, one that does not wait for its last
\* transfer.
AwaitedCallsOnly(call) == call \notin {"create", "upgradeToken", "transferVestingOwner"}
AwaitedUntilOwner(call) ==
    call \notin {"transferToTreasury", "upgradeToken", "transferVestingOwner"}

\* The transactions a script waits for: all but the upgrade, and the ownership
\* that transfer-vesting-owner hands over.
Awaited(call) == call \notin {"upgradeToken", "transferVestingOwner"}

SendTransaction(tx) ==
    /\ pending' = [pending EXCEPT ![tx.from] = Append(@, tx)]
    /\ UNCHANGED <<disk, chain, counters, finished>>

SendCreation ==
    LET contract == NextContract(Step.code)
    IN  /\ At("deploy")
        /\ contract \in Contracts      \* the bound MaxDeploys
        /\ SendTransaction([call |-> "create", from |-> Deployer, to |-> contract])
        /\ script' = IF Awaited("create")
                     THEN [script EXCEPT !.waitsFor = Deployer, !.created = contract]
                     ELSE [Advance EXCEPT !.created = contract]

\* Sending estimates the gas first, which throws when the call would revert.
CanSend(call) ==
    /\ \A name \in Reads(call) : Entry(name) # NoAddress
    /\ Succeeds(Transaction(call))

SendCall ==
    /\ At("send")
    /\ CanSend(Step.call)
    /\ LET tx == Transaction(Step.call)
       IN  /\ SendTransaction(tx)
           /\ script' = IF Awaited(tx.call) THEN [script EXCEPT !.waitsFor = tx.from]
                        ELSE Advance

Throw ==
    /\ At("send")
    /\ ~CanSend(Step.call)
    /\ script' = Idle
    /\ UNCHANGED <<disk, chain, pending, counters, finished>>

\* registerContractInJsonDb and registerContractAddressInJsonDb.
RegisterAddress ==
    /\ At("register")
    /\ db' = [db EXCEPT ![network][Step.name] = script.created]
    /\ script' = Advance
    /\ UNCHANGED <<network, exported, chain, pending, counters, finished>>

\* The calldata is written to its file, one for each network; those of oasys
\* are what others create contracts from.
WriteCallData ==
    /\ At("export")
    /\ exported' = IF network = "oasys" THEN exported \cup {Step.name} ELSE exported
    /\ script' = Advance
    /\ UNCHANGED <<network, db, chain, pending, counters, finished>>

\* registerContractAddressAndSaltInJsonDb with what the factory answers, which
\* saveDeploymentCallData calls on oasys alone.
RegisterPrediction ==
    /\ At("predict")
    /\ db' = IF network = "oasys"
             THEN [db EXCEPT !["oasys"][Step.name] = GetOasysDeploymentAddress(Step.name)]
             ELSE db
    /\ script' = Advance
    /\ UNCHANGED <<network, exported, chain, pending, counters, finished>>

\* print-address-and-salt also copies each address of oasys to testnet, unless
\* it throws at an entry that testnet does not have.
PrintAddressAndSalt ==
    LET copied == {name \in Names : db["oasys"][name] # NoAddress}
    IN  /\ At("print")
        /\ db' = IF \E name \in copied : db["testnet"][name] = NoAddress THEN db
                 ELSE [db EXCEPT !["testnet"] = [name \in Names |->
                          IF name \in copied THEN db["oasys"][name] ELSE @[name]]]
        /\ script' = Advance
        /\ UNCHANGED <<network, exported, chain, pending, counters, finished>>

\* token-initialization says that it finished.
ReportFinished ==
    /\ At("finish")
    /\ finished' = finished \cup
          {[hadCode |-> script.hadCode,
            token   |-> Entry("PlmyToken"),    logic |-> Entry("PlmyTokenV2"),
            vesting |-> Entry("TokenVesting"), vault |-> Entry("PalmyRewardsVaultProxy")]}
    /\ script' = Advance
    /\ UNCHANGED <<disk, chain, pending, counters>>

\* The next transaction of a signer is mined: it takes effect or reverts, and
\* the script that waits for it (its last, as it waits) goes on or throws.
Mine(signer) ==
    LET tx     == Head(pending[signer])
        waited == script.waitsFor = signer /\ Len(pending[signer]) = 1
    IN  /\ pending[signer] # <<>>
        /\ pending' = [pending EXCEPT ![signer] = Tail(@)]
        /\ IF Succeeds(tx)
           THEN Execute(tx) /\ script' = IF waited THEN Advance ELSE script
           ELSE UNCHANGED chain /\ script' = IF waited THEN Idle ELSE script
        /\ UNCHANGED <<disk, counters, finished>>

ScriptStep ==
    \/ SendCreation \/ SendCall \/ Throw
    \/ RegisterAddress \/ WriteCallData \/ RegisterPrediction
    \/ PrintAddressAndSalt \/ ReportFinished

Next ==
    \/ \E on \in {"testnet", "oasys"} : \E task \in TasksOn[on] : Start(on, task)
    \/ Stop
    \/ \E name \in Exports : FactoryCreate(name)
    \/ ScriptStep
    \/ \E signer \in Signers : Mine(signer)

Spec == Init /\ [][Next]_vars

\* A script goes on by itself and the network mines what it was sent.
FairSpec ==
    /\ Spec
    /\ WF_vars(ScriptStep)
    /\ \A signer \in Signers : WF_vars(Mine(signer))

-----------------------------------------------------------------------------
\* A task leaves at most one transaction it did not wait for unmined, and a
\* stop one more.
TypeOK ==
    /\ network \in {"testnet", "oasys"}
    /\ db \in [{"testnet", "oasys"} -> [Names -> Contracts \cup {NoAddress}]]
    /\ exported \subseteq Exports
    /\ deployed \subseteq Contracts
    /\ proxies \in [Proxies ->
          [implementation : Contracts \cup {NoAddress},
           admin : People \cup Vestings \cup {NoAddress}, revision : 0 .. 2,
           token : {WOAS, NoAddress},
           incentivesController : {IncentivesController, NoAddress}]]
    /\ vestings \in [Vestings -> [token : Contracts \cup {NoAddress}, owner : People]]
    /\ distribution \in [Proxies -> Vestings \cup People \cup {NoAddress}]
    /\ \A s \in Signers : Len(pending[s]) <= runs + stops + 1
    /\ script.waitsFor \in Signers \cup {NoAddress}
    /\ script.created \in Contracts \cup {NoAddress}
    /\ script.waitsFor # NoAddress => pending[script.waitsFor] # <<>>
    /\ runs \in Nat
    /\ stops \in 0 .. MaxStops
    /\ switches \in 0 .. MaxSwitches
    /\ script.hadCode \in BOOLEAN

\* The registry never names an address of testnet without code, wherever a
\* task was stopped: an entry is written after the creation was mined
\* (contracts-helpers.ts:142-143 and 253-254), and a call to an address
\* without code would succeed silently.
RegisteredAreDeployed ==
    \A name \in Names :
        db["testnet"][name] # NoAddress => db["testnet"][name] \in deployed \cap OnTestnet

\* Wherever an export was stopped, an entry of oasys names an address that can
\* still come to have code, with the calldata to create it on disk, and no two
\* entries name the same (saveDeploymentCallData, contracts-helpers.ts:43-63).
RegisteredArePredicted ==
    \A name \in Names : db["oasys"][name] # NoAddress =>
        /\ name \in exported
        /\ \A other \in Names \ {name} : db["oasys"][other] # db["oasys"][name]

\* When token-initialization says it finished (token-initialization.ts), all it
\* was to set up is there and stays: the token runs its second implementation
\* under the admin, the treasury holds the distribution, the vesting contract
\* serves that token for its new owner, and the vault has its controller.
\* That holds although the upgrade is not waited for, whatever ran before or
\* was stopped, and whatever is run again later; on oasys only if all that is
\* registered had been created when the task began.
FinishedMeansInitialized ==
    \A f \in finished : f.hadCode =>
        /\ proxies[f.token].implementation = f.logic
        /\ f.logic.code = "PlmyTokenV2"
        /\ proxies[f.token].revision = 2
        /\ proxies[f.token].admin = PlmyAdmin
        /\ distribution[f.token] = Treasury
        /\ vestings[f.vesting] = [token |-> f.token, owner |-> VestingOwner]
        /\ proxies[f.vault].implementation.code = "PalmyRewardsVault"
        /\ proxies[f.vault].incentivesController = IncentivesController

\* The admin given to the token's proxy is the one configured: the description
\* of the parameter, and the message of --onlyProxy, say so
\* (initialize-PlmyToken.ts:25 and 50).
ProxyAdminIsPlmyAdmin ==
    \A p \in Proxies :
        p = Entry("PlmyToken") => proxies[p].admin \in {NoAddress, PlmyAdmin}

\* The registry names, for the network at hand, contracts fresh from a deployment.
FreshDeployment ==
    /\ RegisteredHaveCode
    /\ \A name \in Exports : Entry(name) # NoAddress
    /\ \A name \in {"PlmyToken", "PalmyRewardsVaultProxy"} :
          Entry(name) \in Proxies /\ proxies[Entry(name)] = EmptyProxy
    /\ Entry("PlmyTokenImpl").code = "PlmyToken"
    /\ Entry("TokenVesting") \in Vestings
    /\ vestings[Entry("TokenVesting")] = [token |-> NoAddress, owner |-> Deployer]
    /\ \A signer \in Signers : pending[signer] = <<>>

\* An initialization of a fresh deployment that is not stopped comes to its
\* end: each transaction finds the owners, admins and balances the ones before
\* it left.  That includes deployments pieced together from stopped tasks.
InitializationCompletes ==
    (/\ script.todo = TokenInitialization
     /\ script.waitsFor = NoAddress
     /\ stops = MaxStops
     /\ FreshDeployment)
    ~> \E f \in finished : f.token = Entry("PlmyToken")

=============================================================================
