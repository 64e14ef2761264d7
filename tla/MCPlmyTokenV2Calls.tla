------------------------- MODULE MCPlmyTokenV2Calls -------------------------
(***************************************************************************)
(* The messages a holder has signed, for TLC: any call, any signature,      *)
(* for this token and another, on two chains.  One stray stands for all    *)
(* the addresses signatures recover from what they are not of.             *)
(***************************************************************************)
EXTENDS Authorisation

CONSTANTS ann, bob, stray, random, malformed

\* Two messages of ann's compete for her first nonce, her second one expires
\* after block 1.
HolderSigned == {
    [kind |-> "Permit", signer |-> ann, nonce |-> 0, deadline |-> 2,
     spender |-> bob, value |-> 1],
    [kind |-> "DelegateByType", signer |-> ann, nonce |-> 0, deadline |-> 2,
     delegatee |-> bob, delegationType |-> VOTING_POWER],
    [kind |-> "Delegate", signer |-> ann, nonce |-> 1, deadline |-> 1,
     delegatee |-> bob]}

\* The same delegations asked of the stray, and one nobody signed: to ann.
Messages ==
    HolderSigned
      \cup {[m EXCEPT !.signer = stray] : m \in {n \in HolderSigned : n.kind # "Permit"}}
      \cup {[kind |-> "Delegate", signer |-> stray, nonce |-> 0, deadline |-> 2,
             delegatee |-> ann]}

\* Signatures of nothing: one recovers an address, one does not.
Invented == {[signer |-> ZeroAddress, digest |-> d] : d \in {random, malformed}}

\* Another digest recovers another address, whose next nonce is 0: with nonce 1
\* that is as good as none.
Recovered(digest, sig) ==
    IF \/ sig.digest = malformed
       \/ digest.typehash = DELEGATE_TYPEHASH /\ digest.values[2] = 1
    THEN ZeroAddress ELSE stray

AnnToBob == {<<ann, bob>>}

NoDelegatees == [t \in DelegationTypes |-> {}]

=============================================================================
