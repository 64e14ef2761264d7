--------------------------- MODULE MCTransferHook ---------------------------
(***************************************************************************)
(* The token with its hook for TLC: one account receives delegations of    *)
(* votes, delegates to itself, and calls transferFrom.                     *)
(***************************************************************************)
EXTENDS TransferHook

CONSTANT Spender
OtherSymmetry == Permutations(Accounts \ {Spender})

\* Any account sends a token to any; one calls transferFrom for itself, which
\* it can once its permit is relayed, at the latest by the hook.
SomeTransfers ==
    [spender : {ZeroAddress}, from : Accounts, to : Accounts, amount : {1}]
    \cup [spender : {Spender}, from : {Spender}, to : Accounts, amount : {1}]

OwnGrants == [owner : {Spender}, spender : {Spender}, amount : {1}]

OwnPermit ==
    {[kind |-> "Permit", signer |-> Spender, nonce |-> 0, deadline |-> 1,
      spender |-> Spender, value |-> 1]}

VotesToSpender == [t \in DelegationTypes |-> IF t = VOTING_POWER THEN {Spender} ELSE {}]

=============================================================================
