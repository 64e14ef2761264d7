------------------------- MODULE MCUpgradeableToken -------------------------
(***************************************************************************)
(* The token's life for TLC: an upgrade from the first implementation to   *)
(* the second, with one permit that may be sent before or after it.        *)
(***************************************************************************)
EXTENDS UpgradeableToken

CONSTANTS ves, bob

Forward == {<<V1, V2>>}

OnePermit == {[kind |-> "Permit", signer |-> ves, nonce |-> 0, deadline |-> MaxBlock,
               spender |-> bob, value |-> 1]}

\* Voting power is delegated to any account.
VotingToAnyone == [t \in DelegationTypes |-> IF t = VOTING_POWER THEN Accounts ELSE {}]

=============================================================================
