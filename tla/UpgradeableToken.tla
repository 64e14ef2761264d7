-------------------------- MODULE UpgradeableToken --------------------------
(***************************************************************************)
(* The token's whole life behind its InitializableAdminUpgradeabilityProxy:*)
(* the proxy is deployed empty, initialized by whoever calls it first,     *)
(* runs PlmyToken, and its admin upgrades it to PlmyTokenV2.  Both         *)
(* implementations run on the proxy's storage, which an upgrade keeps.     *)
(*                                                                         *)
(* A proxy without an implementation delegates to the zero address, which  *)
(* succeeds and does nothing: such calls are no steps here.                *)
(***************************************************************************)
EXTENDS PlmyToken

CONSTANTS
    NoImplementation,   \* the zero address in the implementation slot
    V1, V2,             \* the addresses of PlmyToken and of PlmyTokenV2
    Admins,             \* the addresses made admin
    VestingAddresses,   \* the arguments PlmyToken is initialized with
    VaultAddresses,
    UpgradePaths        \* the upgrades admins make: from, to

Implementations == {V1, V2}

ASSUME ProxyAssumption ==
    /\ V1 # V2
    /\ NoImplementation \notin Implementations
    /\ VestingAddresses \subseteq Addresses
    /\ VaultAddresses \subseteq Addresses
    /\ ZeroAddress \notin Admins
    /\ UpgradePaths \subseteq Implementations \X Implementations

VARIABLES
    implementation,             \* the IMPLEMENTATION_SLOT
    admin,                      \* the ADMIN_SLOT
    lastInitializedRevision,
    domainSeparator             \* DOMAIN_SEPARATOR has been computed

proxyVars == <<implementation, admin, lastInitializedRevision, domainSeparator>>
allVars   == <<vars, proxyVars>>

REVISION == [i \in Implementations |-> IF i = V1 THEN 1 ELSE 2]

LifeTypeOK ==
    /\ TypeOK
    /\ implementation \in Implementations \cup {NoImplementation}
    /\ admin \in Admins \cup {ZeroAddress}
    /\ lastInitializedRevision \in 0 .. 2
    /\ domainSeparator \in BOOLEAN

LifeInit ==
    /\ balances = [a \in Accounts |-> 0]
    /\ allowances = [o \in Accounts |-> [s \in Accounts |-> 0]]
    /\ totalSupply = 0
    /\ snapshots = [t \in DelegationTypes |-> [a \in Accounts |-> <<>>]]
    /\ delegates = [t \in DelegationTypes |-> [a \in Accounts |-> ZeroAddress]]
    /\ block = 1
    /\ nonces = [a \in Accounts |-> 0]
    /\ implementation = NoImplementation
    /\ admin = ZeroAddress
    /\ lastInitializedRevision = 0
    /\ domainSeparator = FALSE

-----------------------------------------------------------------------------
\* An initializer that runs again for the revision it ran for.
InitializerAgain(logic) ==
    /\ REVISION[logic] >= lastInitializedRevision
    /\ lastInitializedRevision' = REVISION[logic]

\* The modifier initializer.
Initializer(logic) ==
    /\ REVISION[logic] > lastInitializedRevision
    /\ lastInitializedRevision' = REVISION[logic]

\* initialize of PlmyToken and of PlmyTokenV2, delegated to by the proxy.
InitializeV1(vestingAddress, vaultAddress) ==
    /\ Initializer(V1)
    /\ domainSeparator' = TRUE
    /\ MintInitial(vestingAddress, vaultAddress)

InitializeV2 ==
    /\ Initializer(V2)
    /\ UNCHANGED <<vars, domainSeparator>>

InitializeLogic(logic) ==
    \/ /\ logic = V1
       /\ \E vesting \in VestingAddresses, vault \in VaultAddresses :
             InitializeV1(vesting, vault)
    \/ logic = V2 /\ InitializeV2

\* The optional call that comes with a new implementation: the tasks pass
\* initialize or nothing.
WithData(logic, hasData) ==
    IF hasData THEN InitializeLogic(logic)
    ELSE UNCHANGED <<vars, lastInitializedRevision, domainSeparator>>

\* initialize(address,bytes), inherited and public: it leaves no admin.
InitializeProxyAlone(logic, hasData) ==
    /\ implementation = NoImplementation
    /\ implementation' = logic
    /\ WithData(logic, hasData)
    /\ UNCHANGED admin

\* initialize(address,address,bytes): anybody's call, once.
InitializeProxy(logic, newAdmin, hasData) ==
    /\ implementation = NoImplementation
    /\ implementation' = logic
    /\ WithData(logic, hasData)
    /\ admin' = newAdmin

-----------------------------------------------------------------------------
ChangeAdmin(caller, newAdmin) ==
    /\ caller = admin
    /\ newAdmin # ZeroAddress
    /\ admin' = newAdmin
    /\ UNCHANGED <<vars, implementation, lastInitializedRevision, domainSeparator>>

\* upgradeTo, and upgradeToAndCall with initialize as its data.
Upgrade(caller, logic, hasData) ==
    /\ caller = admin
    /\ <<implementation, logic>> \in UpgradePaths
    /\ implementation' = logic
    /\ WithData(logic, hasData)
    /\ UNCHANGED admin

\* A call of caller's reaches the implementation: the proxy forwards nothing
\* for its admin.
Forwards(caller, logic) == caller # admin /\ implementation = logic

CallV1(caller) ==
    /\ Forwards(caller, V1)
    /\ \/ \E recipient \in Addresses, amount \in TransferAmounts :
             TransferV1(caller, recipient, amount)
       \/ \E sender \in Accounts, recipient \in Addresses, amount \in TransferAmounts :
             TransferFromV1(caller, sender, recipient, amount)
       \/ Approvals(caller)
    /\ UNCHANGED proxyVars

CallV2(caller) ==
    /\ Forwards(caller, V2)
    /\ Call(caller)
    /\ UNCHANGED proxyVars

\* initialize called through the proxy, by anybody else than the admin.
InitializeLate(logic) ==
    /\ implementation = logic
    /\ InitializeLogic(logic)
    /\ UNCHANGED <<implementation, admin>>

\* A signed message, sent by anybody else than the admin.  Holders sign for
\* the separator that PlmyToken's initialize computes and the upgrade keeps.
RelayMessage(m) ==
    /\ domainSeparator
    /\ \/ implementation = V1 /\ Permit(m)
       \/ implementation = V2 /\ Relay(m)
    /\ UNCHANGED proxyVars

LifeNext ==
    \/ \E logic \in Implementations, hasData \in BOOLEAN :
          \/ InitializeProxyAlone(logic, hasData)
          \/ \E newAdmin \in Admins : InitializeProxy(logic, newAdmin, hasData)
          \/ \E caller \in Admins : Upgrade(caller, logic, hasData)
    \/ \E caller, newAdmin \in Admins : ChangeAdmin(caller, newAdmin)
    \/ \E logic \in Implementations : InitializeLate(logic)
    \/ \E caller \in Accounts : CallV1(caller) \/ CallV2(caller)
    \/ \E m \in SignedMessages : RelayMessage(m)
    \/ NextBlock /\ UNCHANGED proxyVars

LifeSpec == LifeInit /\ [][LifeNext]_allVars

-----------------------------------------------------------------------------
VotesAt(b) == Total([u \in Accounts |-> GetPowerAtBlock(VOTING_POWER, u, b)], Accounts)

\* What totalSupplyAt takes for granted ("with no PLMY minting") across both
\* implementations: the voting powers of a block add up to the supply from
\* the block of the one mint on, and to nothing before it, although the
\* histories were begun by one implementation and continued by the other.
VotesFollowMint ==
    /\ VotesAt(block) = totalSupply
    /\ \A b \in 0 .. block - 1 : VotesAt(b) \in {0, VotesAt(b + 1)}

\* Tokens are minted at most once in the token's life: not by an initializer
\* called again, late, by another caller, or after an upgrade.
MintedOnce ==
    [][totalSupply' # totalSupply =>
          /\ totalSupply = 0
          /\ lastInitializedRevision = 0
          /\ lastInitializedRevision' > 0]_allVars

=============================================================================
