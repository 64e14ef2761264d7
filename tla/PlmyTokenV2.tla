---------------------------- MODULE PlmyTokenV2 ----------------------------
(***************************************************************************)
(* The token after its upgrade: the ledger, delegation of voting and of    *)
(* proposition power, and the calls made on behalf of a holder by anyone   *)
(* who relays its signature (permit, delegateByTypeBySig, delegateBySig).  *)
(*                                                                         *)
(* A transaction is one step.  Any number of them fall in one block;       *)
(* NextBlock mines it.  block stands for block.timestamp too: both only    *)
(* grow, and together.                                                     *)
(***************************************************************************)
EXTENDS GovernancePowerDelegationERC20

CONSTANTS
    Supply,             \* the tokens minted before the upgrade
    TransferAmounts,    \* the amounts callers transfer
    ApprovalAmounts,    \* the amounts callers approve, and add or subtract
    Delegatees,         \* the addresses callers delegate to, with delegate
    DelegateesByType,   \* and with delegateByType, for each type
    SignedMessages,     \* the messages the token may be given
    MaxBlock            \* bound: the last block of a behaviour

\* What holders sign, and the delegations signatures made for something else
\* amount to (SignedCalls).  deadline is the field of that name or expiry.
Permits     == [kind : {"Permit"}, signer : Accounts, nonce : Nat, deadline : Nat,
                spender : Addresses, value : Uint256]
Delegations == [kind : {"DelegateByType"}, signer : Accounts, nonce : Nat, deadline : Nat,
                delegatee : Addresses, delegationType : DelegationTypes]
               \cup
               [kind : {"Delegate"}, signer : Accounts, nonce : Nat, deadline : Nat,
                delegatee : Addresses]

ASSUME SupplyAssumption ==
    /\ Supply \in Nat
    /\ Supply < Uint128Range
    /\ 2 * Supply <= Uint256Max
ASSUME InputsAssumption ==
    /\ TransferAmounts \subseteq Uint256
    /\ ApprovalAmounts \subseteq Uint256
    /\ Delegatees \subseteq Addresses
    /\ DelegateesByType \in [DelegationTypes -> SUBSET Addresses]
    /\ \A m \in SignedMessages : m \in Permits \/ m \in Delegations
ASSUME MaxBlockAssumption == MaxBlock \in Nat \ {0} /\ MaxBlock < Uint128Range

VARIABLE nonces     \* _nonces, shared by the three kinds of message

vars == <<balances, allowances, totalSupply, snapshots, delegates, block, nonces>>

TypeOK ==
    /\ ERC20TypeOK
    /\ snapshots \in [DelegationTypes -> [Accounts -> Seq(Snapshot)]]
    /\ delegates \in [DelegationTypes -> [Accounts -> Addresses]]
    /\ block \in 1 .. MaxBlock
    /\ nonces \in [Accounts -> Nat]

-----------------------------------------------------------------------------
(***************************************************************************)
(* The state the upgrade leaves.  The first implementation minted and      *)
(* moved tokens before block 1 and kept a snapshot of the balance of each  *)
(* address it touched in what are now the voting snapshots, so an address  *)
(* without one never held tokens.  Nothing was ever kept for proposition   *)
(* power, and nobody has delegated.                                        *)
(***************************************************************************)
Init ==
    /\ balances \in {f \in [Accounts -> 0 .. Supply] : Total(f, Accounts) = Supply}
    /\ allowances = [o \in Accounts |-> [s \in Accounts |-> 0]]
    /\ totalSupply = Supply
    /\ \E touched \in SUBSET Accounts :
          /\ {a \in Accounts : balances[a] > 0} \subseteq touched
          /\ snapshots = [t \in DelegationTypes |-> [a \in Accounts |->
                IF t = VOTING_POWER /\ a \in touched
                THEN <<[blockNumber |-> 0, value |-> balances[a]]>>
                ELSE <<>>]]
    /\ delegates = [t \in DelegationTypes |-> [a \in Accounts |-> ZeroAddress]]
    /\ block = 1
    /\ nonces = [a \in Accounts |-> 0]

-----------------------------------------------------------------------------
\* A hook that moves only voting power.
BeforeTokenTransferVotingOnly(from, to, amount) ==
    /\ CanMove(snapshots[VOTING_POWER], GetDelegatee(delegates[VOTING_POWER], from),
               GetDelegatee(delegates[VOTING_POWER], to), amount)
    /\ snapshots' = [snapshots EXCEPT ![VOTING_POWER] =
          MoveDelegatesByType(@, GetDelegatee(delegates[VOTING_POWER], from),
                              GetDelegatee(delegates[VOTING_POWER], to), amount)]
    /\ UNCHANGED <<delegates, block, nonces>>

\* _beforeTokenTransfer.  _plmyGovernance.onTransfer, called last when it is
\* set, is trusted not to call back: it changes nothing here.
BeforeTokenTransfer(from, to, amount) ==
    /\ MovePowers(from, to, amount)
    /\ UNCHANGED <<delegates, block, nonces>>

TokenTransfer(caller, recipient, amount) ==
    /\ Transfer(caller, recipient, amount)
    /\ BeforeTokenTransfer(caller, recipient, amount)

TokenTransferFrom(caller, sender, recipient, amount) ==
    /\ TransferFrom(caller, sender, recipient, amount)
    /\ BeforeTokenTransfer(sender, recipient, amount)

DelegateByType(caller, delegatee, t) ==
    /\ DelegateTypes(caller, delegatee, {t})
    /\ UNCHANGED <<balances, allowances, totalSupply, block, nonces>>

Delegate(caller, delegatee) ==
    /\ DelegateTypes(caller, delegatee, DelegationTypes)
    /\ UNCHANGED <<balances, allowances, totalSupply, block, nonces>>

-----------------------------------------------------------------------------
\* The nonce of a message is the signer's next one.  permit puts the next
\* nonce in the digest it recovers the signer from: with another nonce it
\* recovers someone else and reverts.
UseNonce(signer, nonce) ==
    /\ nonce = nonces[signer]
    /\ nonces' = [nonces EXCEPT ![signer] = @ + 1]

Permit(m) ==
    /\ m.kind = "Permit"
    /\ block <= m.deadline
    /\ UseNonce(m.signer, m.nonce)
    /\ SetAllowance(m.signer, m.spender, m.value)
    /\ UNCHANGED <<balances, totalSupply, snapshots, delegates, block>>

DelegateByTypeBySig(m) ==
    /\ m.kind = "DelegateByType"
    /\ UseNonce(m.signer, m.nonce)
    /\ block <= m.deadline
    /\ DelegateTypes(m.signer, m.delegatee, {m.delegationType})
    /\ UNCHANGED <<balances, allowances, totalSupply, block>>

DelegateBySig(m) ==
    /\ m.kind = "Delegate"
    /\ UseNonce(m.signer, m.nonce)
    /\ block <= m.deadline
    /\ DelegateTypes(m.signer, m.delegatee, DelegationTypes)
    /\ UNCHANGED <<balances, allowances, totalSupply, block>>

NextBlock ==
    /\ block < MaxBlock
    /\ block' = block + 1
    /\ UNCHANGED <<balances, allowances, totalSupply, snapshots, delegates, nonces>>

-----------------------------------------------------------------------------
Approvals(caller) ==
    \E spender \in Addresses, amount \in ApprovalAmounts :
        /\ \/ Approve(caller, spender, amount)
           \/ IncreaseAllowance(caller, spender, amount)
           \/ DecreaseAllowance(caller, spender, amount)
        /\ UNCHANGED <<snapshots, delegates, block, nonces>>

\* A transaction that caller sends for itself.
Call(caller) ==
    \/ \E recipient \in Addresses, amount \in TransferAmounts :
          TokenTransfer(caller, recipient, amount)
    \/ \E sender \in Accounts, recipient \in Addresses, amount \in TransferAmounts :
          TokenTransferFrom(caller, sender, recipient, amount)
    \/ Approvals(caller)
    \/ \E t \in DelegationTypes : \E delegatee \in DelegateesByType[t] :
          DelegateByType(caller, delegatee, t)
    \/ \E delegatee \in Delegatees : Delegate(caller, delegatee)

\* A transaction with a signed message, sent by anybody.
Relay(m) == Permit(m) \/ DelegateByTypeBySig(m) \/ DelegateBySig(m)

Next ==
    \/ \E caller \in Accounts : Call(caller)
    \/ \E m \in SignedMessages : Relay(m)
    \/ NextBlock

Spec == Init /\ [][Next]_vars

-----------------------------------------------------------------------------
\* No token is made or lost: the balances always add up to the supply.
SupplyConserved == Total(balances, Accounts) = totalSupply

\* Histories and delegations agree: an address without a history has neither
\* given its power away nor received any, and otherwise the last entry of its
\* history is what its delegators hold now (what _moveDelegatesByType relies
\* on when it takes balanceOf for the power of an address without a history).
PowersMatchDelegators ==
    \A t \in DelegationTypes, u \in Accounts :
        IF snapshots[t][u] = <<>> THEN Delegators(t, u) = {u}
        ELSE LastOf(snapshots[t][u]).value = PowerOf(t, u)

\* getPowerCurrent is the sum of the balances delegated to the address: moves
\* by transfers, delegations and re-delegations, in any order and any number
\* per block, never lose or double a token's power.
PowerIsDelegatedBalances ==
    \A t \in DelegationTypes, u \in Accounts :
        GetPowerAtBlock(t, u, block) = PowerOf(t, u)

\* Histories stay in order of block, with one entry a block: what the binary
\* search of _searchByBlockNumber depends on.
HistoriesOrdered ==
    \A t \in DelegationTypes, u \in Accounts :
        /\ IsOrdered(snapshots[t][u])
        /\ snapshots[t][u] # <<>> => LastOf(snapshots[t][u]).blockNumber <= block

\* The bookkeeping of power never blocks a call: whoever has the tokens can
\* send them to anyone, and can delegate them to anyone, however power has been
\* delegated before (SafeMath in _moveDelegatesByType cannot revert).
MovesNotBlocked ==
    \A t \in DelegationTypes, a, b \in Accounts :
        LET fromA == GetDelegatee(delegates[t], a)
        IN  /\ \A amount \in 0 .. balances[a] :
                  CanMove(snapshots[t], fromA, GetDelegatee(delegates[t], b), amount)
            /\ CanMove(snapshots[t], fromA, b, balances[a])

\* The powers read for any block add up to the supply when they are voting
\* powers, and to no more when they are proposition powers (the history of
\* which starts at the upgrade): no token is counted twice in a vote, however
\* it moves, and totalSupplyAt is the number of votes there are.
VotesWithinSupply ==
    \A b \in 0 .. block :
        /\ Total([u \in Accounts |-> GetPowerAtBlock(VOTING_POWER, u, b)], Accounts)
              = totalSupply
        /\ Total([u \in Accounts |-> GetPowerAtBlock(PROPOSITION_POWER, u, b)], Accounts)
              <= totalSupply

\* This step keeps what getPowerAtBlock answers for the past blocks from first.
PastPowersKept(t, u, first) ==
    \A b \in first .. block - 1 : GetPowerAtBlock(t, u, b)' = GetPowerAtBlock(t, u, b)

\* No call of a later block changes what getPowerAtBlock answers for an
\* earlier one: voting power for every address, proposition power for an
\* address that has a history.
PastPowersFrozen ==
    [][\A t \in DelegationTypes, u \in Accounts :
          t = VOTING_POWER \/ snapshots[t][u] # <<>> => PastPowersKept(t, u, 0)]_vars

\* The documented reading of getPowerAtBlock (GovernancePowerDelegationERC20.sol,
\* "returns the delegated power of a user at a certain block") for proposition
\* power and the blocks since the upgrade: the answer for a block that is over
\* does not depend on when one asks.
PastPropositionPowersFrozen ==
    [][\A u \in Accounts : PastPowersKept(PROPOSITION_POWER, u, 1)]_vars

=============================================================================
