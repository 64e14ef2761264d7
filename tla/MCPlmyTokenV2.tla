--------------------------- MODULE MCPlmyTokenV2 ---------------------------
(***************************************************************************)
(* Instances of the token for TLC: power and delegation.                   *)
(***************************************************************************)
EXTENDS PlmyTokenV2Refinement, TLC

AccountSymmetry == Permutations(Accounts)

\* Callers delegate voting power alone, to anyone and to the zero address.
VotingOnly == [t \in DelegationTypes |-> IF t = VOTING_POWER THEN Addresses ELSE {}]

\* Voting power is delegated to one account, which may be a delegator too.
CONSTANT Chosen
VotingToChosen == [t \in DelegationTypes |-> IF t = VOTING_POWER THEN {Chosen} ELSE {}]
OtherSymmetry == Permutations(Accounts \ {Chosen})

\* Anybody but Chosen has signed over its voting power, then both powers, to it,
\* and Chosen has signed a permit to itself.
ToChosen ==
    {[kind |-> "Permit", signer |-> Chosen, nonce |-> 0, deadline |-> 1,
      spender |-> Chosen, value |-> 1]}
    \cup
    {[kind |-> "DelegateByType", signer |-> a, nonce |-> 0, deadline |-> 1,
      delegatee |-> Chosen, delegationType |-> VOTING_POWER] : a \in Accounts \ {Chosen}}
    \cup
    {[kind |-> "Delegate", signer |-> a, nonce |-> 0, deadline |-> 1,
      delegatee |-> Chosen] : a \in Accounts \ {Chosen}}

\* Callers delegate each type, to any account.
EachType == [t \in DelegationTypes |-> Accounts]

=============================================================================
