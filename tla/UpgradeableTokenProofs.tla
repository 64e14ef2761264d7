----------------------- MODULE UpgradeableTokenProofs -----------------------
(***************************************************************************)
(* Proofs about the token's whole life behind its proxy: what holds of     *)
(* PlmyTokenV2 from the state its upgrade leaves holds from the empty      *)
(* proxy on, through the mint, the transfers of the first implementation   *)
(* and the upgrade, whoever initializes what and in whatever order.        *)
(*                                                                         *)
(* The invariant adds to that of PlmyTokenV2 that nothing has been         *)
(* delegated before the second implementation runs: until then a history   *)
(* of balances is a history of powers, and the hook of the first           *)
(* implementation is the move of power of the second.  That is so as long  *)
(* as no admin goes back from the second implementation to the first,      *)
(* which would write balances over delegated powers: ForwardOnly.          *)
(***************************************************************************)
EXTENDS UpgradeableToken, PlmyTokenV2Proofs

\* No admin replaces PlmyTokenV2 by PlmyToken; no task of the repository does.
ForwardOnly == <<V2, V1>> \notin UpgradePaths

\* Nobody has delegated, nor has a history of proposition power.
NothingDelegated ==
    /\ \A t \in DelegationTypes, a \in Accounts : delegates[t][a] = ZeroAddress
    /\ \A u \in Accounts : snapshots[PROPOSITION_POWER][u] = <<>>

\* What the proxy's own slots say of the token.
MintInv ==
    /\ lastInitializedRevision \in 0 .. 2
    /\ lastInitializedRevision = 0 => totalSupply = 0

ProxyInv ==
    /\ implementation \in Implementations \cup {NoImplementation}
    /\ admin \in Admins \cup {ZeroAddress}
    /\ domainSeparator \in BOOLEAN
    /\ MintInv
    /\ implementation # V2 => NothingDelegated

\* What every step of the token's life keeps.
LifeInv == Parts /\ HoldersHaveHistories /\ VotesFollowMint /\ ProxyInv

-----------------------------------------------------------------------------
(***************************************************************************)
(* What a step of the token's life does to the token: a step that          *)
(* PlmyTokenV2 takes too, a transfer of the first implementation, or the   *)
(* mint.                                                                   *)
(***************************************************************************)

\* A call of PlmyTokenV2, one that both implementations have, the end of the
\* block, or nothing.
SharedStep ==
    /\ [Next]_vars
    /\ UNCHANGED totalSupply
    /\ implementation # V2 => UNCHANGED <<snapshots, delegates, balances>>

\* A transfer of the first implementation, by the sender or a spender.
MoveStep ==
    /\ implementation = V1
    /\ \E caller, sender \in Accounts, recipient \in Addresses, amount \in TransferAmounts :
          \/ TransferV1(sender, recipient, amount)
          \/ TransferFromV1(caller, sender, recipient, amount)
    /\ UNCHANGED proxyVars

\* The first initialization by the first implementation.
MintStep ==
    /\ implementation = V2 => <<V2, V1>> \in UpgradePaths
    /\ lastInitializedRevision' = 1
    /\ lastInitializedRevision < 1
    /\ \E vesting \in VestingAddresses, vault \in VaultAddresses :
          MintInitial(vesting, vault)

\* Of the token's own steps none mints.
LEMMA NextMintsNothing == [Next]_vars => UNCHANGED totalSupply
<1> SUFFICES ASSUME [Next]_vars PROVE UNCHANGED totalSupply
  OBVIOUS
<1>1. ASSUME NEW caller \in Accounts, Call(caller) PROVE UNCHANGED totalSupply
  BY <1>1 DEF Call, TokenTransfer, Transfer, TokenTransferFrom, TransferFrom, Approvals,
              Approve, IncreaseAllowance, DecreaseAllowance, DelegateByType, Delegate
<1>2. ASSUME NEW m \in SignedMessages, Relay(m) PROVE UNCHANGED totalSupply
  BY <1>2 DEF Relay, Permit, DelegateByTypeBySig, DelegateBySig
<1> QED BY <1>1, <1>2 DEF Next, NextBlock, vars

\* An initialization is the mint, or leaves the token as it is.
LEMMA InitializeShapes ==
  ASSUME NEW logic \in Implementations, InitializeLogic(logic)
  PROVE  /\ \/ /\ logic = V1
               /\ \E vesting \in VestingAddresses, vault \in VaultAddresses :
                     MintInitial(vesting, vault)
            \/ logic = V2 /\ UNCHANGED vars
         /\ lastInitializedRevision' = IF logic = V1 THEN 1 ELSE 2
         /\ lastInitializedRevision' > lastInitializedRevision
         /\ domainSeparator' \in {TRUE, domainSeparator}
BY ProxyAssumption DEF InitializeLogic, InitializeV1, InitializeV2, Initializer, REVISION,
                       Implementations

\* Every step of the life is one of the three, moves the proxy's slots within
\* their types, and leaves the second implementation only on such a path.
LEMMA LifeShapes ==
  ASSUME [LifeNext]_allVars
  PROVE  /\ SharedStep \/ MoveStep \/ MintStep
         /\ \/ UNCHANGED lastInitializedRevision
            \/ /\ lastInitializedRevision' \in 1 .. 2
               /\ lastInitializedRevision' > lastInitializedRevision
         /\ \/ UNCHANGED implementation
            \/ /\ implementation' \in Implementations
               /\ \/ implementation = NoImplementation
                  \/ <<implementation, implementation'>> \in UpgradePaths
         /\ admin' \in Admins \cup {admin}
         /\ domainSeparator' \in {TRUE, domainSeparator}
<1> DEFINE Goal == /\ SharedStep \/ MoveStep \/ MintStep
                   /\ \/ UNCHANGED lastInitializedRevision
                      \/ /\ lastInitializedRevision' \in 1 .. 2
                         /\ lastInitializedRevision' > lastInitializedRevision
                   /\ \/ UNCHANGED implementation
                      \/ /\ implementation' \in Implementations
                         /\ \/ implementation = NoImplementation
                            \/ <<implementation, implementation'>> \in UpgradePaths
                   /\ admin' \in Admins \cup {admin}
                   /\ domainSeparator' \in {TRUE, domainSeparator}
<1>1. V1 # V2 /\ NoImplementation # V2 /\ NoImplementation # V1
  BY ProxyAssumption DEF Implementations
<1>2. UNCHANGED vars => SharedStep
  BY DEF SharedStep, vars
<1>3. ASSUME NEW logic \in Implementations, InitializeLogic(logic),
             implementation = V2 => logic = V2 \/ <<V2, V1>> \in UpgradePaths
      PROVE  /\ SharedStep \/ MintStep
             /\ lastInitializedRevision' \in 1 .. 2
             /\ lastInitializedRevision' > lastInitializedRevision
             /\ domainSeparator' \in {TRUE, domainSeparator}
  <2>1. /\ \/ /\ logic = V1
              /\ \E vesting \in VestingAddresses, vault \in VaultAddresses :
                    MintInitial(vesting, vault)
           \/ logic = V2 /\ UNCHANGED vars
        /\ lastInitializedRevision' = IF logic = V1 THEN 1 ELSE 2
        /\ lastInitializedRevision' > lastInitializedRevision
        /\ domainSeparator' \in {TRUE, domainSeparator}
    BY <1>3, InitializeShapes
  <2>2. lastInitializedRevision' \in 1 .. 2
    BY <2>1
  <2>3. CASE logic = V2
    <3>1. SharedStep
      BY <1>1, <1>2, <2>1, <2>3
    <3> QED BY <2>1, <2>2, <3>1
  <2>4. CASE logic = V1
    <3>1. lastInitializedRevision' = 1 /\ lastInitializedRevision < 1
      BY <2>1, <2>4
    <3>2. \E vesting \in VestingAddresses, vault \in VaultAddresses :
            MintInitial(vesting, vault)
      BY <1>1, <2>1, <2>4
    <3>3. implementation = V2 => <<V2, V1>> \in UpgradePaths
      BY <1>1, <1>3, <2>4
    <3>4. MintStep
      BY <3>1, <3>2, <3>3 DEF MintStep
    <3> QED BY <2>1, <2>2, <3>4
  <2> QED BY <2>3, <2>4 DEF Implementations
<1>4. ASSUME NEW logic \in Implementations, NEW hasData \in BOOLEAN, WithData(logic, hasData),
             implementation' = logic,
             \/ implementation = NoImplementation
             \/ <<implementation, logic>> \in UpgradePaths
      PROVE  /\ SharedStep \/ MintStep
             /\ \/ UNCHANGED lastInitializedRevision
                \/ /\ lastInitializedRevision' \in 1 .. 2
                   /\ lastInitializedRevision' > lastInitializedRevision
             /\ domainSeparator' \in {TRUE, domainSeparator}
  <2>1. CASE hasData
    <3>1. InitializeLogic(logic)
      BY <1>4, <2>1 DEF WithData
    <3>2. implementation = V2 => logic = V2 \/ <<V2, V1>> \in UpgradePaths
      BY <1>1, <1>4 DEF Implementations
    <3> QED BY <1>3, <3>1, <3>2
  <2>2. CASE ~hasData
    BY <1>2, <1>4, <2>2 DEF WithData
  <2> QED BY <2>1, <2>2
<1>5. ASSUME NEW logic \in Implementations, NEW hasData \in BOOLEAN,
             InitializeProxyAlone(logic, hasData)
      PROVE  Goal
  BY <1>4, <1>5 DEF InitializeProxyAlone
<1>6. ASSUME NEW logic \in Implementations, NEW hasData \in BOOLEAN, NEW newAdmin \in Admins,
             InitializeProxy(logic, newAdmin, hasData)
      PROVE  Goal
  BY <1>4, <1>6 DEF InitializeProxy
<1>7. ASSUME NEW logic \in Implementations, NEW hasData \in BOOLEAN, NEW caller \in Admins,
             Upgrade(caller, logic, hasData)
      PROVE  Goal
  BY <1>4, <1>7 DEF Upgrade
<1>8. ASSUME NEW caller \in Admins, NEW newAdmin \in Admins, ChangeAdmin(caller, newAdmin)
      PROVE  Goal
  BY <1>2, <1>8 DEF ChangeAdmin
<1>9. ASSUME NEW logic \in Implementations, InitializeLate(logic)
      PROVE  Goal
  BY <1>3, <1>9 DEF InitializeLate
<1>10. ASSUME NEW caller \in Accounts, CallV1(caller)
       PROVE  Goal
  <2>1. implementation = V1 /\ UNCHANGED proxyVars
    BY <1>10 DEF CallV1, Forwards
  <2>2. CASE Approvals(caller)
    <3>1. Next
      BY <2>2 DEF Next, Call
    <3>2. UNCHANGED <<totalSupply, snapshots, delegates, balances>>
      BY <2>2 DEF Approvals, Approve, IncreaseAllowance, DecreaseAllowance
    <3> QED BY <2>1, <3>1, <3>2 DEF SharedStep, proxyVars
  <2>3. CASE ~Approvals(caller)
    <3>1. MoveStep
      BY <1>10, <2>1, <2>3 DEF CallV1, MoveStep
    <3> QED BY <2>1, <3>1 DEF proxyVars
  <2> QED BY <2>2, <2>3
<1>11. ASSUME NEW caller \in Accounts, CallV2(caller)
       PROVE  Goal
  <2>1. implementation = V2 /\ UNCHANGED proxyVars /\ Next
    BY <1>11 DEF CallV2, Forwards, Next
  <2> QED BY <2>1, NextMintsNothing DEF SharedStep, proxyVars
<1>12. ASSUME NEW m \in SignedMessages, RelayMessage(m)
       PROVE  Goal
  <2>1. UNCHANGED proxyVars
    BY <1>12 DEF RelayMessage
  <2>2. Next
    BY <1>12 DEF RelayMessage, Relay, Next
  <2>3. implementation # V2 => UNCHANGED <<snapshots, delegates, balances>>
    BY <1>12 DEF RelayMessage, Permit
  <2> QED BY <2>1, <2>2, <2>3, NextMintsNothing DEF SharedStep, proxyVars
<1>13. CASE NextBlock /\ UNCHANGED proxyVars
  <2>1. Next /\ UNCHANGED <<totalSupply, snapshots, delegates, balances>>
    BY <1>13 DEF Next, NextBlock
  <2> QED BY <1>13, <2>1 DEF SharedStep, proxyVars
<1>14. CASE UNCHANGED allVars
  BY <1>2, <1>14 DEF allVars, proxyVars
<1> QED BY <1>5, <1>6, <1>7, <1>8, <1>9, <1>10, <1>11, <1>12, <1>13, <1>14 DEF LifeNext

-----------------------------------------------------------------------------
(***************************************************************************)
(* Tokens are minted once, whatever upgrades the admins make.              *)
(***************************************************************************)

\* A step that changes the supply is the mint.
LEMMA OnlyMintMints == [LifeNext]_allVars => MintStep \/ UNCHANGED totalSupply
<1>1. SharedStep => UNCHANGED totalSupply
  BY DEF SharedStep
<1>2. MoveStep => UNCHANGED totalSupply
  BY DEF MoveStep, TransferV1, TransferFromV1, Transfer, TransferFrom
<1> QED BY <1>1, <1>2, LifeShapes

\* A step that mints nothing before an initialization leaves MintInv.
LEMMA LifeKeepsMint == MintInv /\ [LifeNext]_allVars => MintInv'
<1> SUFFICES ASSUME MintInv, [LifeNext]_allVars PROVE MintInv'
  OBVIOUS
<1>1. CASE UNCHANGED lastInitializedRevision
  <2>1. MintStep => lastInitializedRevision # 0
    BY <1>1 DEF MintStep
  <2>2. lastInitializedRevision # 0 \/ UNCHANGED totalSupply
    BY <2>1, OnlyMintMints
  <2> QED BY <1>1, <2>2 DEF MintInv
<1>2. CASE lastInitializedRevision' \in 1 .. 2
  <2>1. lastInitializedRevision' # 0
    BY <1>2
  <2> QED BY <1>2, <2>1 DEF MintInv
<1> QED BY <1>1, <1>2, LifeShapes

\* Until an initializer has run there are no tokens.
LEMMA MintInvariance == LifeSpec => []MintInv
<1>1. LifeInit => MintInv
  BY DEF LifeInit, MintInv
<1> QED BY <1>1, LifeKeepsMint, PTL DEF LifeSpec

\* The supply changes in one step of a behaviour at most, the first
\* initialization: not when an initializer is called again, late, by someone
\* else, or with an upgrade.
THEOREM TokensAreMintedOnce == LifeSpec => MintedOnce
<1> DEFINE Once == totalSupply' # totalSupply =>
                      /\ totalSupply = 0
                      /\ lastInitializedRevision = 0
                      /\ lastInitializedRevision' > 0
<1>1. MintInv /\ [LifeNext]_allVars => [Once]_allVars
  <2> SUFFICES ASSUME MintInv, [LifeNext]_allVars, totalSupply' # totalSupply
               PROVE  /\ totalSupply = 0
                      /\ lastInitializedRevision = 0
                      /\ lastInitializedRevision' > 0
    OBVIOUS
  <2>1. MintStep
    BY OnlyMintMints
  <2> QED BY <2>1 DEF MintStep, MintInv
<1>2. MintedOnce <=> [][Once]_allVars
  BY DEF MintedOnce
<1> HIDE DEF Once
<1> QED BY <1>1, <1>2, MintInvariance, PTL DEF LifeSpec

-----------------------------------------------------------------------------
(***************************************************************************)
(* The mint and the transfers of the first implementation keep the         *)
(* bookkeeping of powers.                                                  *)
(***************************************************************************)

\* With nothing delegated everybody counts for itself.
LEMMA OwnDelegators ==
  ASSUME NothingDelegated, NEW t \in DelegationTypes, NEW u \in Accounts
  PROVE  GetDelegatee(delegates[t], u) = u /\ DelegatorsIn(delegates[t], u) = {u}
BY DEF NothingDelegated, GetDelegatee, DelegatorsIn

\* The state while initialize mints: l is the ledger so far.
MintsWell(l) ==
    /\ l.balances \in [Accounts -> Nat]
    /\ l.totalSupply \in 0 .. Supply
    /\ Total(l.balances, Accounts) = l.totalSupply
    /\ Bookkeeping(l.snaps, delegates[VOTING_POWER], l.balances, block)
    /\ PastKept(snapshots[VOTING_POWER], l.snaps)
    /\ \A u \in Accounts : l.snaps[u] = <<>> =>
          snapshots[VOTING_POWER][u] = <<>> /\ l.balances[u] = balances[u]

\* One _mint keeps it so: the write is of the balance it leaves.
LEMMA MintedWell ==
  ASSUME NothingDelegated, Parts, NEW l, MintsWell(l),
         NEW account \in Accounts, NEW amount \in Nat,
         l.totalSupply + amount <= Supply
  PROVE  /\ MintsWell(Minted(l, account, amount))
         /\ Minted(l, account, amount).totalSupply = l.totalSupply + amount
<1> DEFINE V      == VOTING_POWER
           chosen == delegates[V]
           m      == Minted(l, account, amount)
           bal    == l.balances
           bal2   == m.balances
           snaps  == l.snaps
           new    == m.snaps
<1>1. /\ bal2 = [bal EXCEPT ![account] = @ + amount]
      /\ m.totalSupply = l.totalSupply + amount
      /\ new = BalanceSnapshots(snaps, bal, ZeroAddress, account, amount)
  BY DEF Minted
<1>2. /\ bal \in [Accounts -> Nat] /\ l.totalSupply \in 0 .. Supply
      /\ Total(bal, Accounts) = l.totalSupply
      /\ Bookkeeping(snaps, chosen, bal, block)
      /\ PastKept(snapshots[V], snaps)
      /\ \A u \in Accounts : snaps[u] = <<>> => snapshots[V][u] = <<>> /\ bal[u] = balances[u]
  BY DEF MintsWell
<1>3. /\ snaps \in [Accounts -> Seq(Snapshot)] /\ chosen \in [Accounts -> Addresses]
      /\ Agrees(snaps, bal, chosen) /\ InOrder(snaps, block)
  BY <1>2 DEF Bookkeeping
<1>4. \A u \in Accounts : DelegatorsIn(chosen, u) = {u}
  BY OwnDelegators DEF DelegationTypes
<1>5. block \in 1 .. Uint128Range - 1 /\ block \in 0 .. Uint128Range - 1
  <2>1. block \in 1 .. Uint128Range - 1
    BY PartsTypes
  <2> QED BY <2>1, Uint128RangeAssumption
<1> HIDE DEF chosen, m, bal, bal2, snaps, new
<1>6. /\ bal2 \in [Accounts -> Nat]
      /\ bal2[account] = bal[account] + amount
      /\ \A u \in Accounts \ {account} : bal2[u] = bal[u]
  BY <1>1, <1>2
<1>7. Total(bal2, Accounts) = m.totalSupply /\ m.totalSupply \in 0 .. Supply
  <2>1. Total(bal2, Accounts) + bal[account] = Total(bal, Accounts) + bal2[account]
    <3>1. IsFiniteSet(Accounts) /\ bal2[account] \in Nat /\ \A a \in Accounts : bal[a] \in Nat
      BY <1>2, <1>6, AccountsAssumption
    <3> QED BY <1>6, <3>1, TotalUpdate
  <2>2. Total(bal2, Accounts) \in Nat
    BY <1>6, AccountsAssumption, TokensFinite
  <2>3. bal[account] \in Nat /\ bal2[account] = bal[account] + amount
    BY <1>2, <1>6
  <2>4. Total(bal2, Accounts) = Total(bal, Accounts) + amount /\ Total(bal, Accounts) \in Nat
    <3>1. Total(bal, Accounts) \in Nat
      BY <1>2, SupplyAssumption
    <3> QED BY <2>1, <2>2, <2>3, <3>1
  <2>5. m.totalSupply = l.totalSupply + amount /\ l.totalSupply = Total(bal, Accounts)
    BY <1>1, <1>2
  <2>6. Total(bal2, Accounts) <= Supply
    BY <2>4, <2>5
  <2> QED BY <2>2, <2>4, <2>5, <2>6, SupplyAssumption
<1>8. \A u \in Accounts : Total(bal2, {u}) = bal2[u] /\ bal2[u] \in 0 .. Uint128Range - 1
  <2>1. Total(bal2, Accounts) <= Supply
    BY <1>7, SupplyAssumption
  <2>2. \A u \in Accounts : bal2[u] \in 0 .. Supply
    BY <1>6, <2>1, HoldingsBounded
  <2>3. \A u \in Accounts : bal2[u] \in 0 .. Uint128Range - 1
    BY <2>2, SupplyAssumption, Uint128RangeAssumption
  <2>4. \A u \in Accounts : bal2[u] \in Nat
    BY <1>6
  <2>5. \A u \in Accounts : Total(bal2, {u}) = bal2[u]
    BY <2>4, TotalSingleton
  <2> QED BY <2>3, <2>5
<1>9. /\ DOMAIN new = Accounts /\ new = [u \in Accounts |-> new[u]]
      /\ \A u \in Accounts \ {account} : new[u] = snaps[u]
      /\ new[account] = WriteSnapshot(snaps[account], block, Uint128(bal[account] + amount))
  <2>1. ZeroAddress # account /\ \A u \in Accounts : u # ZeroAddress
    BY AccountsAssumption
  <2>2. new = [u \in Accounts |->
                 IF u = account
                 THEN WriteSnapshot(snaps[u], block, Uint128(bal[u] + amount))
                 ELSE snaps[u]]
    BY <1>1, <2>1 DEF BalanceSnapshots
  <2> QED BY <2>2
<1> DEFINE v == bal2[account]
<1>10. /\ v \in 0 .. Uint128Range - 1
       /\ new[account] = WriteSnapshot(snaps[account], block, v)
       /\ snaps[account] \in Seq(Snapshot)
  BY <1>3, <1>6, <1>8, <1>9, CastKeeps
<1> HIDE DEF v
<1>11. IsWrite(snaps[account], block, v, new[account])
  BY <1>5, <1>10, WriteEntries
<1>12. /\ new[account] \in Seq(Snapshot)
       /\ new[account] # <<>>
       /\ LastOf(new[account]).value = v
  BY <1>11 DEF IsWrite, LastOf
<1>13. IsOrdered(new[account]) /\ LastOf(new[account]).blockNumber <= block
  <2>1. /\ IsOrdered(snaps[account])
        /\ snaps[account] # <<>> => LastOf(snaps[account]).blockNumber <= block
    BY <1>3 DEF InOrder
  <2> QED BY <1>5, <1>10, <2>1, WriteOrdered
<1>14. \A b \in 0 .. block - 1 : ValueAt(new[account], b) = ValueAt(snaps[account], b)
  BY <1>5, <1>10, <1>11, WriteKeepsPast
<1>15. new \in [Accounts -> Seq(Snapshot)]
  <2>1. \A u \in Accounts : new[u] \in Seq(Snapshot)
    BY <1>3, <1>9, <1>12
  <2> QED BY <1>9, <2>1
<1>16. InOrder(new, block)
  BY <1>3, <1>9, <1>13 DEF InOrder
<1>17. Agrees(new, bal2, chosen)
  <2> SUFFICES ASSUME NEW u \in Accounts, new[u] # <<>>
               PROVE  LastOf(new[u]).value = Total(bal2, {u})
    BY <1>4 DEF Agrees
  <2>1. CASE u = account
    BY <1>8, <1>12, <2>1 DEF v
  <2>2. CASE u # account
    <3>1. LastOf(snaps[u]).value = Total(bal, {u})
      BY <1>3, <1>4, <1>9, <2>2 DEF Agrees
    <3>2. Total(bal, {u}) = bal[u]
      BY <1>2, TotalSingleton
    <3> QED BY <1>6, <1>8, <1>9, <2>2, <3>1, <3>2
  <2> QED BY <2>1, <2>2
<1>18. PastKept(snapshots[V], new)
  BY <1>2, <1>9, <1>14 DEF PastKept
<1>19. \A u \in Accounts : new[u] = <<>> => snapshots[V][u] = <<>> /\ bal2[u] = balances[u]
  BY <1>2, <1>6, <1>9, <1>12
<1>20. MintsWell(m)
  BY <1>3, <1>6, <1>7, <1>15, <1>16, <1>17, <1>18, <1>19
     DEF MintsWell, Bookkeeping, chosen, bal2, new
<1> QED BY <1>1, <1>20 DEF m

\* What a step of the first implementation keeps.
KeepsV1 ==
    /\ Parts'
    /\ HistoryKept(VOTING_POWER)
    /\ NothingDelegated'
    /\ UNCHANGED block

\* Balances and voting histories that change well leave the invariant: the
\* histories of proposition power are empty.
LEMMA VotingStepKeeps ==
  ASSUME Parts, NothingDelegated,
         balances' \in [Accounts -> Nat],
         Total(balances', Accounts) = totalSupply', totalSupply' \in 0 .. Supply,
         allowances' \in [Accounts -> [Accounts -> Uint256]],
         NEW new, snapshots' = [snapshots EXCEPT ![VOTING_POWER] = new],
         Bookkeeping(new, delegates[VOTING_POWER], balances', block),
         PastKept(snapshots[VOTING_POWER], new),
         \A u \in Accounts : new[u] = <<>> =>
            snapshots[VOTING_POWER][u] = <<>> /\ balances'[u] = balances[u],
         UNCHANGED <<delegates, block, nonces>>
  PROVE  KeepsV1
<1>1. /\ snapshots \in [DelegationTypes -> [Accounts -> Seq(Snapshot)]]
      /\ delegates \in [DelegationTypes -> [Accounts -> Addresses]]
      /\ \A t \in DelegationTypes : Bookkeeping(snapshots[t], delegates[t], balances, block)
      /\ block \in 1 .. MaxBlock /\ nonces \in [Accounts -> Nat]
  BY DEF Parts
<1>2. /\ VOTING_POWER \in DelegationTypes /\ PROPOSITION_POWER \in DelegationTypes
      /\ VOTING_POWER # PROPOSITION_POWER
      /\ \A t \in DelegationTypes : t = VOTING_POWER \/ t = PROPOSITION_POWER
  BY TypesAssumption DEF DelegationTypes
<1>3. snapshots'[VOTING_POWER] = new /\ snapshots'[PROPOSITION_POWER] = snapshots[PROPOSITION_POWER]
  BY <1>1, <1>2
<1>4. LedgerInv'
  <2>1. Total(balances', Accounts) <= Supply
    BY SupplyAssumption
  <2>2. \A a \in Accounts : balances'[a] \in 0 .. Supply
    BY <2>1, HoldingsBounded
  <2>3. \A n \in 0 .. Supply : n \in Uint256
    BY SupplyAssumption, Uint256MaxAssumption DEF Uint256
  <2>4. balances' \in [Accounts -> Uint256] /\ totalSupply' \in Uint256
    BY <2>2, <2>3
  <2>5. totalSupply' <= Supply
    BY SupplyAssumption
  <2> QED BY <2>4, <2>5 DEF LedgerInv, ERC20TypeOK
<1>5. \A u \in Accounts : /\ snapshots[PROPOSITION_POWER][u] = <<>>
                          /\ DelegatorsIn(delegates[PROPOSITION_POWER], u) = {u}
  BY <1>2, OwnDelegators DEF NothingDelegated
<1>6. Bookkeeping(snapshots[PROPOSITION_POWER], delegates[PROPOSITION_POWER], balances', block)
  BY <1>1, <1>2, <1>5 DEF Bookkeeping, Agrees
<1>7. snapshots' \in [DelegationTypes -> [Accounts -> Seq(Snapshot)]]
  BY <1>1 DEF Bookkeeping
<1>8. Parts'
  <2>1. \A t \in DelegationTypes : Bookkeeping(snapshots'[t], delegates'[t], balances', block')
    BY <1>2, <1>3, <1>6
  <2> QED BY <1>1, <1>4, <1>7, <2>1 DEF Parts
<1>9. HistoryKept(VOTING_POWER)
  BY <1>3 DEF HistoryKept
<1>10. NothingDelegated'
  BY <1>3 DEF NothingDelegated
<1> QED BY <1>8, <1>9, <1>10 DEF KeepsV1

\* initialize of the first implementation, while there are no tokens.
LEMMA MintKeeps ==
  ASSUME Parts, NothingDelegated, totalSupply = 0,
         NEW vesting \in Addresses, NEW vault \in Addresses,
         MintInitial(vesting, vault)
  PROVE  KeepsV1
<1> DEFINE first == IF vesting = ZeroAddress THEN Ledger
                    ELSE Minted(Ledger, vesting, DISTRIBUTION_AMOUNT)
           both  == IF vault = ZeroAddress THEN first
                    ELSE Minted(first, vault, INCENTIVE_AMOUNT)
<1>1. /\ balances' = both.balances
      /\ totalSupply' = both.totalSupply
      /\ snapshots' = [snapshots EXCEPT ![VOTING_POWER] = both.snaps]
      /\ UNCHANGED <<allowances, delegates, block, nonces>>
  BY DEF MintInitial
<1>2. MintsWell(Ledger) /\ Ledger.totalSupply = 0
  <2>1. /\ balances \in [Accounts -> Nat] /\ totalSupply \in 0 .. Supply
        /\ Total(balances, Accounts) = totalSupply
    BY PartsTypes
  <2>2. Bookkeeping(snapshots[VOTING_POWER], delegates[VOTING_POWER], balances, block)
    BY DEF Parts, DelegationTypes
  <2> QED BY <2>1, <2>2 DEF MintsWell, Ledger, PastKept
<1>3. MintsWell(first) /\ first.totalSupply \in {0, DISTRIBUTION_AMOUNT}
  <2>1. CASE vesting = ZeroAddress
    BY <1>2, <2>1
  <2>2. CASE vesting # ZeroAddress
    <3>1. vesting \in Accounts /\ 0 + DISTRIBUTION_AMOUNT <= Supply
          /\ 0 + DISTRIBUTION_AMOUNT = DISTRIBUTION_AMOUNT
      BY <2>2, MintAssumption, SupplyAssumption DEF Addresses
    <3>2. /\ MintsWell(Minted(Ledger, vesting, DISTRIBUTION_AMOUNT))
          /\ Minted(Ledger, vesting, DISTRIBUTION_AMOUNT).totalSupply = DISTRIBUTION_AMOUNT
      BY <1>2, <3>1, MintAssumption, MintedWell
    <3> QED BY <2>2, <3>2
  <2> QED BY <2>1, <2>2
<1>4. MintsWell(both)
  <2>1. CASE vault = ZeroAddress
    BY <1>3, <2>1
  <2>2. CASE vault # ZeroAddress
    <3> HIDE DEF first
    <3>1. vault \in Accounts /\ first.totalSupply + INCENTIVE_AMOUNT <= Supply
      BY <1>3, <2>2, MintAssumption, SupplyAssumption DEF Addresses
    <3>2. MintsWell(Minted(first, vault, INCENTIVE_AMOUNT))
      BY <1>3, <3>1, MintAssumption, MintedWell
    <3> QED BY <2>2, <3>2
  <2> QED BY <2>1, <2>2
<1>5. allowances' \in [Accounts -> [Accounts -> Uint256]]
  BY <1>1 DEF Parts, LedgerInv, ERC20TypeOK
<1> HIDE DEF both
<1> DEFINE new == both.snaps
<1>6. /\ balances' \in [Accounts -> Nat]
      /\ Total(balances', Accounts) = totalSupply' /\ totalSupply' \in 0 .. Supply
      /\ Bookkeeping(new, delegates[VOTING_POWER], balances', block)
      /\ PastKept(snapshots[VOTING_POWER], new)
      /\ \A u \in Accounts : new[u] = <<>> =>
            snapshots[VOTING_POWER][u] = <<>> /\ balances'[u] = balances[u]
  BY <1>1, <1>4 DEF MintsWell
<1>7. snapshots' = [snapshots EXCEPT ![VOTING_POWER] = new]
  BY <1>1
<1> HIDE DEF new
<1> QED BY <1>1, <1>5, <1>6, <1>7, VotingStepKeeps

\* The hook of the first implementation is the move of power of the second.
LEMMA BalancesArePowers ==
  ASSUME Parts, NothingDelegated, NEW from \in Accounts, NEW to \in Accounts,
         NEW amount
  PROVE  /\ \A u \in Accounts : PreviousPower(snapshots[VOTING_POWER], u) = balances[u]
         /\ BalanceSnapshots(snapshots[VOTING_POWER], balances, from, to, amount)
              = MoveDelegatesByType(snapshots[VOTING_POWER], from, to, amount)
<1>1. balances \in [Accounts -> Nat]
  BY PartsTypes
<1>2. Agrees(snapshots[VOTING_POWER], balances, delegates[VOTING_POWER])
  BY DEF Parts, Bookkeeping, DelegationTypes
<1>3. \A u \in Accounts : PreviousPower(snapshots[VOTING_POWER], u) = balances[u]
  <2> SUFFICES ASSUME NEW u \in Accounts
               PROVE  PreviousPower(snapshots[VOTING_POWER], u) = balances[u]
    OBVIOUS
  <2>1. PreviousPower(snapshots[VOTING_POWER], u)
           = Total(balances, DelegatorsIn(delegates[VOTING_POWER], u))
    BY <1>1, <1>2, PreviousPowerIsPower
  <2>2. DelegatorsIn(delegates[VOTING_POWER], u) = {u}
    BY OwnDelegators DEF DelegationTypes
  <2> QED BY <1>1, <2>1, <2>2, TotalSingleton
<1> QED BY <1>3 DEF BalanceSnapshots, MoveDelegatesByType

\* A transfer of the first implementation.
LEMMA MoveKeeps ==
  ASSUME Parts, NothingDelegated, MoveStep
  PROVE  KeepsV1
<1>1. PICK caller \in Accounts, sender \in Accounts, recipient \in Addresses,
           amount \in TransferAmounts :
        \/ TransferV1(sender, recipient, amount)
        \/ TransferFromV1(caller, sender, recipient, amount)
  BY DEF MoveStep
<1> DEFINE V   == VOTING_POWER
           new == BalanceSnapshots(snapshots[V], balances, sender, recipient, amount)
<1>2. /\ MoveTokens(sender, recipient, amount)
      /\ snapshots' = [snapshots EXCEPT ![V] = new]
      /\ UNCHANGED <<totalSupply, delegates, block, nonces>>
  BY <1>1 DEF TransferV1, TransferFromV1, Transfer, TransferFrom, BeforeTokenTransferV1
<1> HIDE DEF new
<1>3. amount \in Nat /\ amount \in Uint256 /\ recipient \in Accounts
  BY <1>2, InputsAssumption, Uint256MaxAssumption DEF Uint256, MoveTokens, Addresses
<1>4. /\ balances \in [Accounts -> Nat] /\ Total(balances, Accounts) = totalSupply
      /\ totalSupply \in 0 .. Supply /\ totalSupply <= Supply
      /\ block \in 1 .. Uint128Range - 1
  BY PartsTypes, SupplyAssumption
<1>5. allowances' \in [Accounts -> [Accounts -> Uint256]]
  <2>1. allowances \in [Accounts -> [Accounts -> Uint256]]
    BY DEF Parts, LedgerInv, ERC20TypeOK
  <2>2. CASE TransferV1(sender, recipient, amount)
    BY <2>1, <2>2 DEF TransferV1, Transfer
  <2>3. CASE TransferFromV1(caller, sender, recipient, amount)
    <3>1. /\ amount <= allowances[sender][caller]
          /\ SetAllowance(sender, caller, allowances[sender][caller] - amount)
      BY <2>3 DEF TransferFromV1, TransferFrom
    <3>2. allowances[sender][caller] - amount \in Uint256
      <4>1. allowances[sender][caller] \in Uint256
        BY <2>1
      <4> QED BY <1>3, <3>1, <4>1, Uint256MaxAssumption DEF Uint256
    <3>3. sender \in Addresses /\ caller \in Addresses
      BY DEF Addresses
    <3> QED BY <3>1, <3>2, <3>3, AllowanceType
  <2> QED BY <1>1, <2>2, <2>3
<1>6. IsTransfer(Accounts, balances, balances', sender, recipient, amount)
  BY <1>2, <1>3, <1>4 DEF MoveTokens, IsTransfer
<1>7. /\ balances' \in [Accounts -> Nat]
      /\ Total(balances', Accounts) = totalSupply'
      /\ Total(balances', Accounts) <= Supply
      /\ totalSupply' \in 0 .. Supply
  <2>1. Total(balances, Accounts) <= Supply
    BY <1>4
  <2>2. balances' \in [Accounts -> Nat] /\ Total(balances', Accounts) = Total(balances, Accounts)
    BY <1>6, <2>1, TransferKeepsLedger
  <2> QED BY <1>2, <1>4, <2>2
<1>8. /\ Bookkeeping(snapshots[V], delegates[V], balances, block)
      /\ snapshots[V] \in [Accounts -> Seq(Snapshot)]
      /\ delegates[V] \in [Accounts -> Addresses]
  BY DEF Parts, DelegationTypes
<1>9. /\ \A u \in Accounts : PreviousPower(snapshots[V], u) = balances[u]
      /\ new = MoveDelegatesByType(snapshots[V], sender, recipient, amount)
  BY <1>3, BalancesArePowers DEF new
<1>10. CanMove(snapshots[V], sender, recipient, amount)
  <2> SUFFICES ASSUME sender # recipient
               PROVE  /\ amount <= balances[sender]
                      /\ balances[recipient] + amount <= Uint256Max
    BY <1>3, <1>9 DEF CanMove
  <2> QED BY <1>2, <1>3, <1>4 DEF MoveTokens
<1>11. PowerMoves(balances, delegates[V], balances', delegates[V], sender, recipient, amount)
  <2>1. GetDelegatee(delegates[V], sender) = sender
        /\ GetDelegatee(delegates[V], recipient) = recipient
    BY <1>3, OwnDelegators DEF DelegationTypes
  <2>2. PowerMoves(balances, delegates[V], balances', delegates[V],
                   GetDelegatee(delegates[V], sender), GetDelegatee(delegates[V], recipient),
                   amount)
    BY <1>6, <1>8, TransferMovesPower
  <2> QED BY <2>1, <2>2
<1>12. Bookkeeping(new, delegates[V], balances', block)
  BY <1>3, <1>4, <1>7, <1>8, <1>9, <1>10, <1>11, MoveKeepsBookkeeping
<1>13. PastKept(snapshots[V], new)
  BY <1>3, <1>4, <1>8, <1>9, <1>10, MoveKeepsPast
<1>14. ASSUME NEW u \in Accounts, new[u] = <<>>
       PROVE  snapshots[V][u] = <<>> /\ balances'[u] = balances[u]
  <2>1. snapshots[V][u] = <<>> /\ (sender = recipient \/ u \notin {sender, recipient})
    BY <1>8, <1>9, <1>14, MoveWritesBoth
  <2> QED BY <1>6, <2>1 DEF IsTransfer
<1> QED BY <1>2, <1>5, <1>7, <1>12, <1>13, <1>14, VotingStepKeeps

-----------------------------------------------------------------------------
(***************************************************************************)
(* Every step keeps the invariant.                                         *)
(***************************************************************************)

\* What a step does to the token's part of the invariant.
LEMMA LifeKeepsToken ==
  ASSUME ForwardOnly, Parts, HoldersHaveHistories, ProxyInv, [LifeNext]_allVars
  PROVE  /\ Parts'
         /\ HoldersHaveHistories'
         /\ implementation # V2 => NothingDelegated'
         /\ HistoryKept(VOTING_POWER)
         /\ \/ SharedStep
            \/ /\ implementation # V2
               /\ UNCHANGED block
               /\ totalSupply = 0 \/ UNCHANGED totalSupply
<1>1. VOTING_POWER \in DelegationTypes
  BY DEF DelegationTypes
<1>2. HistoryKept(VOTING_POWER) => HoldersHaveHistories'
  BY DEF HistoryKept, HoldersHaveHistories
<1>3. CASE SharedStep
  <2>1. Parts'
    BY <1>3, NextKeeps, InvariantParts, InvariantPartsNext DEF SharedStep
  <2>2. HistoryKept(VOTING_POWER)
    BY <1>1, <1>3, StepKeepsHistory DEF SharedStep
  <2>3. implementation # V2 => NothingDelegated'
    BY <1>3 DEF SharedStep, ProxyInv, NothingDelegated
  <2> QED BY <1>2, <1>3, <2>1, <2>2, <2>3
<1>4. CASE MoveStep
  <2>1. implementation # V2
    BY <1>4, ProxyAssumption DEF MoveStep
  <2>2. UNCHANGED totalSupply
    BY <1>4 DEF MoveStep, TransferV1, TransferFromV1, Transfer, TransferFrom
  <2>3. KeepsV1
    BY <1>4, <2>1, MoveKeeps DEF ProxyInv
  <2> QED BY <1>2, <2>1, <2>2, <2>3 DEF KeepsV1
<1>5. CASE MintStep
  <2>1. implementation # V2
    BY <1>5 DEF MintStep, ForwardOnly
  <2>2. totalSupply = 0
    <3>1. lastInitializedRevision = 0
      BY <1>5 DEF MintStep, ProxyInv, MintInv
    <3> QED BY <3>1 DEF ProxyInv, MintInv
  <2>3. PICK vesting \in VestingAddresses, vault \in VaultAddresses :
          MintInitial(vesting, vault)
    BY <1>5 DEF MintStep
  <2>4. vesting \in Addresses /\ vault \in Addresses
    BY ProxyAssumption
  <2>5. KeepsV1
    BY <2>1, <2>2, <2>3, <2>4, MintKeeps DEF ProxyInv
  <2> QED BY <1>2, <2>1, <2>2, <2>5 DEF KeepsV1
<1> QED BY <1>3, <1>4, <1>5, LifeShapes

\* The votes there are for the blocks that are over do not change, and a mint
\* finds none to follow.
LEMMA StepKeepsMintVotes ==
  ASSUME Parts, Parts', HoldersHaveHistories, VotesFollowMint,
         HistoryKept(VOTING_POWER),
         \/ SharedStep
         \/ UNCHANGED block /\ (totalSupply = 0 \/ UNCHANGED totalSupply)
  PROVE  VotesFollowMint'
<1>1. VOTING_POWER \in DelegationTypes
  BY DEF DelegationTypes
<1>2. block \in Nat /\ block' \in Nat
  BY DEF Parts
<1>3. \/ UNCHANGED block /\ (totalSupply = 0 \/ UNCHANGED totalSupply)
      \/ StepOfBlock
  BY StepShapes DEF SharedStep, Moved, StepOfTokens, Delegated, StepOfDelegation, StepOfNothing
<1>4. ASSUME NEW c \in 0 .. block, c < block \/ StepOfBlock
      PROVE  VotesAt(c)' = VotesAt(c)
  <2> DEFINE old == [u \in Accounts |-> GetPowerAtBlock(VOTING_POWER, u, c)]
             new == [u \in Accounts |-> GetPowerAtBlock(VOTING_POWER, u, c)']
  <2>1. ASSUME NEW u \in Accounts PROVE new[u] = old[u]
    <3>1. CASE c < block
      <4>1. c \in 0 .. block - 1
        BY <1>2, <3>1
      <4>2. \/ GetPowerAtBlock(VOTING_POWER, u, c)' = GetPowerAtBlock(VOTING_POWER, u, c)
            \/ /\ snapshots[VOTING_POWER][u] = <<>>
               /\ GetPowerAtBlock(VOTING_POWER, u, c) = balances[u]
               /\ GetPowerAtBlock(VOTING_POWER, u, c)' = 0
        BY <1>1, <4>1, KeptAnswers
      <4> QED BY <4>2 DEF HoldersHaveHistories
    <3>2. CASE StepOfBlock
      BY <3>2 DEF StepOfBlock, GetPowerAtBlock
    <3> QED BY <1>4, <3>1, <3>2
  <2>2. VotesAt(c) = Total(old, Accounts) /\ VotesAt(c)' = Total(new, Accounts)
    BY DEF VotesAt, GetPowerAtBlock
  <2> HIDE DEF old, new
  <2> QED BY <2>1, <2>2, TotalAgree
<1>5. \A c : c = block' => VotesAt(c)' = totalSupply'
  BY <1>1, PresentPowersAddUpNext DEF VotesAt, PowersAt, GetPowerAtBlock
<1>6. \A c : c = block => VotesAt(c) = totalSupply
  BY <1>1, PresentPowersAddUp DEF VotesAt, PowersAt
<1>7. ASSUME NEW b \in 0 .. block' - 1
      PROVE  VotesAt(b)' \in {0, VotesAt(b + 1)'}
  <2>1. b \in Nat /\ b + 1 \in Nat /\ b + 1 <= block'
    <3> DEFINE next == block'
    <3>1. next \in Nat /\ b \in 0 .. next - 1
      BY <1>2, <1>7
    <3> HIDE DEF next
    <3>2. b \in Nat /\ b + 1 \in Nat /\ b + 1 <= next
      BY ONLY <3>1
    <3> QED BY <3>2 DEF next
  <2>2. \A c \in 0 .. block - 1 : VotesAt(c) \in {0, VotesAt(c + 1)}
    BY DEF VotesFollowMint
  <2>3. CASE UNCHANGED block /\ (totalSupply = 0 \/ UNCHANGED totalSupply)
    <3>1. b \in 0 .. block - 1 /\ b \in 0 .. block /\ b < block
      BY <1>2, <2>1, <2>3
    <3>2. VotesAt(b)' = VotesAt(b) /\ VotesAt(b) \in {0, VotesAt(b + 1)}
      BY <1>4, <2>2, <3>1
    <3>3. CASE b + 1 < block
      <4>1. b + 1 \in 0 .. block
        BY <1>2, <2>1, <3>3
      <4> QED BY <1>4, <3>2, <3>3, <4>1
    <3>4. CASE b + 1 = block
      BY <1>5, <1>6, <2>3, <3>2, <3>4
    <3> QED BY <1>2, <2>1, <2>3, <3>3, <3>4
  <2>4. CASE StepOfBlock
    <3>1. block' = block + 1 /\ UNCHANGED totalSupply
      BY <2>4 DEF StepOfBlock
    <3>2. b \in 0 .. block
      BY <1>2, <2>1, <3>1
    <3>3. VotesAt(b)' = VotesAt(b)
      BY <1>4, <2>4, <3>2
    <3>4. CASE b = block
      BY <1>5, <1>6, <3>1, <3>3, <3>4
    <3>5. CASE b # block
      <4>1. b \in 0 .. block - 1 /\ b + 1 \in 0 .. block
        BY <1>2, <2>1, <3>2, <3>5
      <4> QED BY <1>4, <2>2, <2>4, <3>3, <4>1
    <3> QED BY <3>4, <3>5
  <2> QED BY <1>3, <2>3, <2>4
<1>8. VotesAt(block)' = totalSupply'
  BY <1>1, PresentPowersAddUpNext DEF VotesAt, PowersAt
<1> QED BY <1>7, <1>8 DEF VotesFollowMint

\* The proxy's part: nothing is delegated before the second implementation
\* runs, and it is not left.
LEMMA LifeKeepsProxy ==
  ASSUME ForwardOnly, ProxyInv, [LifeNext]_allVars,
         implementation # V2 => NothingDelegated', MintInv'
  PROVE  ProxyInv'
<1>1. implementation' # V2 => implementation # V2
  <2> SUFFICES ASSUME implementation = V2, implementation' # V2 PROVE FALSE
    OBVIOUS
  <2>1. <<V2, V1>> \in UpgradePaths
    BY LifeShapes, ProxyAssumption DEF Implementations
  <2> QED BY <2>1 DEF ForwardOnly
<1>2. implementation' \in Implementations \cup {NoImplementation}
  <2>1. implementation' = implementation \/ implementation' \in Implementations
    BY LifeShapes
  <2> QED BY <2>1 DEF ProxyInv
<1>3. admin' \in Admins \cup {ZeroAddress} /\ domainSeparator' \in BOOLEAN
  BY LifeShapes DEF ProxyInv
<1> QED BY <1>1, <1>2, <1>3 DEF ProxyInv

\* The empty proxy.
LEMMA LifeInitially == LifeInit => LifeInv
<1> SUFFICES ASSUME LifeInit PROVE LifeInv
  OBVIOUS
<1>1. /\ balances = [a \in Accounts |-> 0] /\ totalSupply = 0 /\ block = 1
      /\ allowances = [o \in Accounts |-> [s \in Accounts |-> 0]]
      /\ snapshots = [t \in DelegationTypes |-> [a \in Accounts |-> <<>>]]
      /\ delegates = [t \in DelegationTypes |-> [a \in Accounts |-> ZeroAddress]]
      /\ nonces = [a \in Accounts |-> 0]
  BY DEF LifeInit
<1>2. 0 \in Uint256 /\ 0 <= Supply /\ 1 \in 1 .. MaxBlock
  BY Uint256MaxAssumption, SupplyAssumption, MaxBlockAssumption DEF Uint256
<1>3. Total(balances, Accounts) = 0
  BY <1>1, TotalZero
<1>4. NothingDelegated
  BY <1>1 DEF NothingDelegated, DelegationTypes
<1>5. ASSUME NEW t \in DelegationTypes
      PROVE  Bookkeeping(snapshots[t], delegates[t], balances, block)
  <2>1. \A u \in Accounts : snapshots[t][u] = <<>> /\ DelegatorsIn(delegates[t], u) = {u}
    BY <1>1, <1>4, OwnDelegators
  <2>2. /\ snapshots[t] \in [Accounts -> Seq(Snapshot)]
        /\ delegates[t] \in [Accounts -> Addresses]
    BY <1>1 DEF Addresses
  <2> QED BY <2>1, <2>2 DEF Bookkeeping, Agrees, InOrder, IsOrdered
<1>6. Parts
  <2>1. LedgerInv
    BY <1>1, <1>2, <1>3 DEF LedgerInv, ERC20TypeOK
  <2>2. /\ snapshots \in [DelegationTypes -> [Accounts -> Seq(Snapshot)]]
        /\ delegates \in [DelegationTypes -> [Accounts -> Addresses]]
        /\ nonces \in [Accounts -> Nat]
    BY <1>1 DEF Addresses
  <2> QED BY <1>1, <1>2, <1>5, <2>1, <2>2 DEF Parts
<1>7. HoldersHaveHistories
  BY <1>1 DEF HoldersHaveHistories
<1>8. VotesFollowMint
  <2>1. \A b : VotesAt(b) = 0
    <3> SUFFICES ASSUME NEW b PROVE VotesAt(b) = 0
      OBVIOUS
    <3>1. \A u \in Accounts : GetPowerAtBlock(VOTING_POWER, u, b) = 0
      BY <1>1 DEF GetPowerAtBlock, SearchByBlockNumber, DelegationTypes
    <3> DEFINE powers == [u \in Accounts |-> GetPowerAtBlock(VOTING_POWER, u, b)]
    <3>2. \A u \in Accounts : powers[u] = 0
      BY <3>1
    <3> HIDE DEF powers
    <3>3. Total(powers, Accounts) = 0
      BY <3>2, TotalZero
    <3> QED BY <3>3 DEF VotesAt, powers
  <2> QED BY <1>1, <2>1 DEF VotesFollowMint
<1>9. ProxyInv
  <2>1. domainSeparator \in BOOLEAN
    BY DEF LifeInit
  <2>2. /\ implementation \in Implementations \cup {NoImplementation}
        /\ admin \in Admins \cup {ZeroAddress}
    BY DEF LifeInit
  <2>3. MintInv
    BY <1>1 DEF MintInv, LifeInit
  <2> QED BY <1>4, <2>1, <2>2, <2>3 DEF ProxyInv
<1> QED BY <1>6, <1>7, <1>8, <1>9 DEF LifeInv

\* The invariant holds in every state of the token's life.
THEOREM LifeInvariance == ForwardOnly => (LifeSpec => []LifeInv)
<1> SUFFICES ASSUME ForwardOnly PROVE LifeSpec => []LifeInv
  OBVIOUS
<1>1. LifeInit => LifeInv
  BY LifeInitially
<1>2. LifeInv /\ [LifeNext]_allVars => LifeInv'
  <2> SUFFICES ASSUME LifeInv, [LifeNext]_allVars PROVE LifeInv'
    OBVIOUS
  <2>1. Parts /\ HoldersHaveHistories /\ VotesFollowMint /\ ProxyInv /\ MintInv
    BY DEF LifeInv, ProxyInv
  <2>2. /\ Parts' /\ HoldersHaveHistories'
        /\ implementation # V2 => NothingDelegated'
        /\ HistoryKept(VOTING_POWER)
        /\ \/ SharedStep
           \/ UNCHANGED block /\ (totalSupply = 0 \/ UNCHANGED totalSupply)
    BY <2>1, LifeKeepsToken
  <2>3. VotesFollowMint'
    BY <2>1, <2>2, StepKeepsMintVotes
  <2>4. MintInv'
    BY <2>1, LifeKeepsMint
  <2>5. ProxyInv'
    BY <2>1, <2>2, <2>4, LifeKeepsProxy
  <2> QED BY <2>2, <2>3, <2>5 DEF LifeInv
<1> QED BY <1>1, <1>2, PTL DEF LifeSpec

-----------------------------------------------------------------------------
\* Balances, histories, delegates and the proxy's slots stay in their types
\* through the mint, both implementations and the upgrade between them.
THEOREM LifeTypeCorrect == ForwardOnly => (LifeSpec => []LifeTypeOK)
<1> SUFFICES ASSUME ForwardOnly PROVE LifeSpec => []LifeTypeOK
  OBVIOUS
<1>1. LifeInv => LifeTypeOK
  <2>1. LifeInv => IInv /\ ProxyInv
    BY InvariantParts DEF LifeInv
  <2>2. IInv => TypeOK
    BY DEF IInv
  <2> QED BY <2>1, <2>2 DEF ProxyInv, MintInv, LifeTypeOK
<1> QED BY <1>1, LifeInvariance, PTL

\* The balances the first implementation recorded are powers the second one
\* can go on from: histories and delegations agree all along.
THEOREM LifePowersMatch == ForwardOnly => (LifeSpec => []PowersMatchDelegators)
<1> SUFFICES ASSUME ForwardOnly PROVE LifeSpec => []PowersMatchDelegators
  OBVIOUS
<1>1. LifeInv => PowersMatchDelegators
  BY InvariantParts DEF LifeInv, IInv
<1> QED BY <1>1, LifeInvariance, PTL

\* getPowerCurrent, read at any time on either side of the upgrade, is the sum
\* of the balances delegated to the address.
THEOREM LifePowersAreDelegated == ForwardOnly => (LifeSpec => []PowerIsDelegatedBalances)
<1> SUFFICES ASSUME ForwardOnly PROVE LifeSpec => []PowerIsDelegatedBalances
  OBVIOUS
<1>1. LifeInv => PowerIsDelegatedBalances
  BY InvariantParts, InvariantPowers DEF LifeInv
<1> QED BY <1>1, LifeInvariance, PTL

\* The votes of a block are the supply from the block of the mint on, and none
\* before it: totalSupplyAt counts the votes of every block since the mint.
THEOREM VotesAlwaysFollowMint == ForwardOnly => (LifeSpec => []VotesFollowMint)
<1> SUFFICES ASSUME ForwardOnly PROVE LifeSpec => []VotesFollowMint
  OBVIOUS
<1>1. LifeInv => VotesFollowMint
  BY DEF LifeInv
<1> QED BY <1>1, LifeInvariance, PTL

\* No call, mint or upgrade changes what getPowerAtBlock answers for a block
\* that is over.
THEOREM LifePastPowersAreFrozen == ForwardOnly => (LifeSpec => PastPowersFrozen)
<1> SUFFICES ASSUME ForwardOnly PROVE LifeSpec => PastPowersFrozen
  OBVIOUS
<1> DEFINE Frozen == \A t \in DelegationTypes, u \in Accounts :
                        t = VOTING_POWER \/ snapshots[t][u] # <<>> => PastPowersKept(t, u, 0)
<1>1. LifeInv /\ LifeInv' /\ [LifeNext]_allVars => [Frozen]_vars
  <2> SUFFICES ASSUME LifeInv, LifeInv', [LifeNext]_allVars,
                      NEW t \in DelegationTypes, NEW u \in Accounts,
                      t = VOTING_POWER \/ snapshots[t][u] # <<>>,
                      NEW b \in 0 .. block - 1
               PROVE  GetPowerAtBlock(t, u, b)' = GetPowerAtBlock(t, u, b)
    BY DEF PastPowersKept
  <2>1. Parts /\ HoldersHaveHistories /\ ProxyInv /\ Parts'
    BY DEF LifeInv
  <2>2. CASE t = VOTING_POWER
    <3>1. HistoryKept(VOTING_POWER)
      BY <2>1, LifeKeepsToken
    <3>2. \/ GetPowerAtBlock(t, u, b)' = GetPowerAtBlock(t, u, b)
          \/ /\ snapshots[t][u] = <<>>
             /\ GetPowerAtBlock(t, u, b) = balances[u]
             /\ GetPowerAtBlock(t, u, b)' = 0
      BY <2>1, <2>2, <3>1, KeptAnswers
    <3> QED BY <2>1, <2>2, <3>2 DEF HoldersHaveHistories
  <2>3. CASE t # VOTING_POWER
    <3>1. implementation = V2
      BY <2>1, <2>3 DEF ProxyInv, NothingDelegated, DelegationTypes
    <3>2. [Next]_vars
      BY <2>1, <3>1, LifeKeepsToken DEF SharedStep
    <3> QED BY <2>1, <2>3, <3>2, StepKeepsAnswers
  <2> QED BY <2>2, <2>3
<1>2. PastPowersFrozen <=> [][Frozen]_vars
  BY DEF PastPowersFrozen
<1> HIDE DEF Frozen
<1> QED BY <1>1, <1>2, LifeInvariance, PTL DEF LifeSpec

=============================================================================
