---------------------------- MODULE TransferHook ----------------------------
(***************************************************************************)
(* The token with a governance contract that is called inside every        *)
(* transfer (_plmyGovernance.onTransfer) and may call back: the powers     *)
(* have moved then, and the balances have not.  A transfer is two steps    *)
(* here, and the calls made from the hook fall between them.               *)
(*                                                                         *)
(* "The Palmy governance is considered a trustable contract, being its     *)
(* responsibility to control all potential reentrancies"                   *)
(* (PlmyTokenV2.sol:31-32).  What is left to it here is one thing: whoever *)
(* sends or receives in a transfer that is open does not delegate.  Then   *)
(* everything else may be called back.  A call that reverts takes the      *)
(* transaction with it: a behaviour whose open transfer cannot be closed   *)
(* just ends.  All of it happens in one block: the first after the upgrade,*)
(* in which any number of transactions may be made.                        *)
(***************************************************************************)
EXTENDS PlmyTokenV2, SequencesExt

CONSTANTS
    Transfers,      \* the calls of transfer and of transferFrom
    Grants,         \* the calls of approve, increase- and decreaseAllowance
    MaxOpen         \* bound: transfers inside each other

\* The spender of a call of transfer is zero.
ASSUME HookAssumption ==
    /\ Transfers \subseteq
          [spender : Addresses, from : Accounts, to : Accounts, amount : TransferAmounts]
    /\ Grants \subseteq [owner : Accounts, spender : Accounts, amount : Uint256]
    /\ MaxOpen \in Nat

VARIABLE open       \* the transfers whose hook runs, the innermost last

hookVars == <<vars, open>>

HookInit == Init /\ open = <<>>

-----------------------------------------------------------------------------
\* _transfer up to the call of onTransfer.
OpenTransfer(tr) ==
    /\ Len(open) < MaxOpen
    /\ BeforeTokenTransfer(tr.from, tr.to, tr.amount)
    /\ open' = Append(open, tr)
    /\ UNCHANGED <<balances, allowances, totalSupply>>

\* The rest, once onTransfer has returned: the balances move, and transferFrom
\* looks at the allowance there is then.
CloseTransfer ==
    /\ open # <<>>
    /\ LET tr == Last(open)
       IN  \/ tr.spender = ZeroAddress /\ Transfer(tr.from, tr.to, tr.amount)
           \/ tr.spender # ZeroAddress /\ TransferFrom(tr.spender, tr.from, tr.to, tr.amount)
    /\ open' = Front(open)
    /\ UNCHANGED <<snapshots, delegates, block, nonces>>

\* The accounts between which tokens are on their way.
Parties == UNION {{open[i].from, open[i].to} : i \in DOMAIN open}

\* The allowances, which no open transfer has looked at yet.
ApprovalCall(grant) ==
    /\ \/ Approve(grant.owner, grant.spender, grant.amount)
       \/ IncreaseAllowance(grant.owner, grant.spender, grant.amount)
       \/ DecreaseAllowance(grant.owner, grant.spender, grant.amount)
    /\ UNCHANGED <<snapshots, delegates, block, nonces, open>>

\* Any account delegates, but none of the open transfers when there are any.
DelegateCall(caller) ==
    /\ caller \notin Parties
    /\ \/ \E t \in DelegationTypes : \E delegatee \in DelegateesByType[t] :
             DelegateByType(caller, delegatee, t)
       \/ \E delegatee \in Delegatees : Delegate(caller, delegatee)
    /\ UNCHANGED open

\* The same for signed messages.
RelayInHook(m) ==
    /\ m.kind = "Permit" \/ m.signer \notin Parties
    /\ Relay(m)
    /\ UNCHANGED open

HookNext ==
    \/ \E tr \in Transfers : OpenTransfer(tr)
    \/ CloseTransfer
    \/ \E grant \in Grants : ApprovalCall(grant)
    \/ \E caller \in Accounts : DelegateCall(caller)
    \/ \E m \in SignedMessages : RelayInHook(m)

HookSpec == HookInit /\ [][HookNext]_hookVars

-----------------------------------------------------------------------------
\* The tokens on their way out of, and into, the accounts that delegate to u.
OpenAmounts    == [i \in DOMAIN open |-> open[i].amount]
Leaving(t, u)  == Total(OpenAmounts, {i \in DOMAIN open : GetDelegatee(delegates[t], open[i].from) = u})
Arriving(t, u) == Total(OpenAmounts, {i \in DOMAIN open : GetDelegatee(delegates[t], open[i].to) = u})

\* Whatever the hook calls back, the power an address has in its history is
\* what its delegators hold, with the tokens on their way counted where they
\* go, so it is right again when every open transfer has ended; and a power
\* that is still read from the balance is that of an address for which nothing
\* is on its way but to itself (PlmyTokenV2.sol:109-135).
PowersMatchOpenTransfers ==
    \A t \in DelegationTypes, u \in Accounts :
        IF snapshots[t][u] = <<>>
        THEN Delegators(t, u) = {u} /\ Leaving(t, u) = Arriving(t, u)
        ELSE LastOf(snapshots[t][u]).value + Leaving(t, u)
                = PowerOf(t, u) + Arriving(t, u)

=============================================================================
