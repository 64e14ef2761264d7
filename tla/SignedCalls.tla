----------------------------- MODULE SignedCalls -----------------------------
(***************************************************************************)
(* The calls a holder signs, from the helpers that build the typed data    *)
(* to the digests permit, delegateByTypeBySig and delegateBySig recover    *)
(* the signer from.  PlmyTokenV2 takes a message with its signer; here the *)
(* token gets a call, with arguments anybody chose, and a signature of     *)
(* something, for this token or for another one, or of nothing.            *)
(*                                                                         *)
(* A signature recovers its signer from the digest it is of, and from any  *)
(* other digest an address nobody has the key of, which nobody can foresee *)
(* (a stray).  The contract cannot tell it from a holder's.                *)
(***************************************************************************)
EXTENDS PlmyTokenV2

CONSTANTS
    ChainIds, TokenContracts,   \* the chains and tokens holders sign for
    ThisChain, ThisToken,       \* those DOMAIN_SEPARATOR is made of
    Strays,                     \* addresses nobody has the key of
    MadeUp,                     \* signatures no holder made
    StrayOf(_, _)               \* what a signature recovers from a digest
                                \* it is not of: a stray, or nothing

Holders        == Accounts \ Strays
HolderMessages == {m \in SignedMessages : m.signer \in Holders}

ASSUME DomainAssumption == ThisChain \in ChainIds /\ ThisToken \in TokenContracts

\* No permit names a stray for its owner, since the owner is in the digest the
\* stray would have to be recovered from.  What may be asked of one stray may
\* be asked of another.
ASSUME StraysAssumption ==
    /\ Strays \subseteq Accounts
    /\ \A m \in SignedMessages : m.kind = "Permit" => m.signer \in Holders
    /\ \A m \in SignedMessages, a \in Strays :
          m.kind # "Permit" => [m EXCEPT !.signer = a] \in SignedMessages
    /\ \A sig \in MadeUp : sig.signer = ZeroAddress

Domain(chainId, token) ==
    [name |-> "Plmy Token", version |-> "1", chainId |-> chainId, verifyingContract |-> token]

-----------------------------------------------------------------------------
(* The helpers. *)

\* A permit with two of its fields in the order of the function's parameters.
PermitFieldsSwapped ==
    <<"address owner", "address spender", "uint256 nonce", "uint256 value", "uint256 deadline">>

PermitFields ==
    <<"address owner", "address spender", "uint256 value", "uint256 nonce", "uint256 deadline">>

BuildPermitParams(chainId, token, m) ==
    [primaryType |-> "Permit",
     fields      |-> PermitFields,
     domain      |-> Domain(chainId, token),
     message     |-> [owner |-> m.signer, spender |-> m.spender, value |-> m.value,
                      nonce |-> m.nonce, deadline |-> m.deadline]]

BuildDelegateByTypeParams(chainId, token, m) ==
    [primaryType |-> "DelegateByType",
     fields      |-> <<"address delegatee", "uint256 type", "uint256 nonce", "uint256 expiry">>,
     domain      |-> Domain(chainId, token),
     message     |-> [delegatee |-> m.delegatee, type |-> m.delegationType,
                      nonce |-> m.nonce, expiry |-> m.deadline]]

BuildDelegateParams(chainId, token, m) ==
    [primaryType |-> "Delegate",
     fields      |-> <<"address delegatee", "uint256 nonce", "uint256 expiry">>,
     domain      |-> Domain(chainId, token),
     message     |-> [delegatee |-> m.delegatee, nonce |-> m.nonce, expiry |-> m.deadline]]

\* The name a field has in the message.
NameOf(field) ==
    CASE field = "address owner"     -> "owner"
      [] field = "address spender"   -> "spender"
      [] field = "address delegatee" -> "delegatee"
      [] field = "uint256 value"     -> "value"
      [] field = "uint256 type"      -> "type"
      [] field = "uint256 nonce"     -> "nonce"
      [] field = "uint256 deadline"  -> "deadline"
      [] field = "uint256 expiry"    -> "expiry"

\* What signTypedData_v4 signs: the domain, the type and the message's values
\* in the order of the type's fields.
Encoded(data) ==
    [domain   |-> data.domain,
     typehash |-> <<data.primaryType, data.fields>>,
     values   |-> [i \in DOMAIN data.fields |-> data.message[NameOf(data.fields[i])]]]

GetSignatureFromTypedData(signer, data) == [signer |-> signer, digest |-> Encoded(data)]

\* A holder's signature of a message, for a token on a chain.
Sign(m, chainId, token) ==
    GetSignatureFromTypedData(m.signer,
        CASE m.kind = "Permit"         -> BuildPermitParams(chainId, token, m)
          [] m.kind = "DelegateByType" -> BuildDelegateByTypeParams(chainId, token, m)
          [] m.kind = "Delegate"       -> BuildDelegateParams(chainId, token, m))

-----------------------------------------------------------------------------
(* The contract. *)

\* The domain separator PlmyToken.initialize stores.
DOMAIN_SEPARATOR == Domain(ThisChain, ThisToken)

PERMIT_TYPEHASH ==
    <<"Permit",
      <<"address owner", "address spender", "uint256 value", "uint256 nonce", "uint256 deadline">>>>
DELEGATE_BY_TYPE_TYPEHASH ==
    <<"DelegateByType",
      <<"address delegatee", "uint256 type", "uint256 nonce", "uint256 expiry">>>>
DELEGATE_TYPEHASH ==
    <<"Delegate", <<"address delegatee", "uint256 nonce", "uint256 expiry">>>>

\* The digest of a permit, with the owner's next nonce.
PermitDigest(c) ==
    [domain   |-> DOMAIN_SEPARATOR,
     typehash |-> PERMIT_TYPEHASH,
     values   |-> <<c.owner, c.spender, c.value, nonces[c.owner], c.deadline>>]

\* The digests of the delegations, with the nonce the call gives.
DelegateByTypeDigest(c) ==
    [domain   |-> DOMAIN_SEPARATOR,
     typehash |-> DELEGATE_BY_TYPE_TYPEHASH,
     values   |-> <<c.delegatee, c.delegationType, c.nonce, c.deadline>>]

DelegateDigest(c) ==
    [domain   |-> DOMAIN_SEPARATOR,
     typehash |-> DELEGATE_TYPEHASH,
     values   |-> <<c.delegatee, c.nonce, c.deadline>>]

\* ecrecover: zero for a malformed signature.
Ecrecover(digest, sig) ==
    IF sig.signer # ZeroAddress /\ sig.digest = digest THEN sig.signer
    ELSE IF StrayOf(digest, sig) \in Strays THEN StrayOf(digest, sig) ELSE ZeroAddress

\* A call is a message without its signer; permit names its owner and takes no
\* nonce.
CallOf(m) ==
    CASE m.kind = "Permit" ->
            [kind |-> m.kind, owner |-> m.signer, spender |-> m.spender, value |-> m.value,
             deadline |-> m.deadline]
      [] m.kind = "DelegateByType" ->
            [kind |-> m.kind, delegatee |-> m.delegatee, delegationType |-> m.delegationType,
             nonce |-> m.nonce, deadline |-> m.deadline]
      [] m.kind = "Delegate" ->
            [kind |-> m.kind, delegatee |-> m.delegatee, nonce |-> m.nonce,
             deadline |-> m.deadline]

\* The message a delegation executes when a is recovered for its signer.
DelegationFor(c, a) ==
    IF c.kind = "DelegateByType"
    THEN [kind |-> c.kind, signer |-> a, nonce |-> c.nonce, deadline |-> c.deadline,
          delegatee |-> c.delegatee, delegationType |-> c.delegationType]
    ELSE [kind |-> c.kind, signer |-> a, nonce |-> c.nonce, deadline |-> c.deadline,
          delegatee |-> c.delegatee]

\* All signatures holders have made, all there are, and the calls anybody may
\* send with them, which need not be what a holder signed.
Signatures == {[message |-> m, chainId |-> chainId, token |-> token,
                of |-> Sign(m, chainId, token)] :
                   m \in HolderMessages, chainId \in ChainIds, token \in TokenContracts}
AllSignatures == {s.of : s \in Signatures} \cup MadeUp
Calls == {CallOf(m) : m \in SignedMessages}

\* The signer a call is executed for.
Signatory(c, sig) ==
    Ecrecover(CASE c.kind = "Permit"         -> PermitDigest(c)
                [] c.kind = "DelegateByType" -> DelegateByTypeDigest(c)
                [] c.kind = "Delegate"       -> DelegateDigest(c), sig)

\* Delegations that look at no nonce.
AcceptsAnyNonce(c, sig) ==
    /\ block <= c.deadline
    /\ Signatory(c, sig) # ZeroAddress
    /\ c.kind = "Permit" => Signatory(c, sig) = c.owner

\* The signature is one the call is executed with.
Accepts(c, sig) ==
    /\ block <= c.deadline
    /\ Signatory(c, sig) # ZeroAddress
    /\ IF c.kind = "Permit" THEN Signatory(c, sig) = c.owner
       ELSE c.nonce = nonces[Signatory(c, sig)]

\* A permit that lets the owner spend the spender's tokens.
ExecutePermitSwapped(c) ==
    /\ SetAllowance(c.spender, c.owner, c.value)
    /\ UNCHANGED <<balances, totalSupply, snapshots, delegates, block>>

ExecutePermit(c) ==
    /\ SetAllowance(c.owner, c.spender, c.value)
    /\ UNCHANGED <<balances, totalSupply, snapshots, delegates, block>>

\* A delegation whose two addresses are swapped.
ExecuteDelegationSwapped(signatory, c, types) ==
    /\ DelegateTypes(c.delegatee, signatory, types)
    /\ UNCHANGED <<balances, allowances, totalSupply, block>>

\* A delegation of voting power whatever the type.
ExecuteDelegationOfVotes(signatory, c, types) ==
    /\ DelegateTypes(signatory, c.delegatee, {VOTING_POWER})
    /\ UNCHANGED <<balances, allowances, totalSupply, block>>

ExecuteDelegation(signatory, c, types) ==
    /\ DelegateTypes(signatory, c.delegatee, types)
    /\ UNCHANGED <<balances, allowances, totalSupply, block>>

\* permit, delegateByTypeBySig and delegateBySig, sent by anybody.
ExecuteSigned(c, sig) ==
    LET signatory == Signatory(c, sig)
    IN  /\ Accepts(c, sig)
        /\ nonces' = [nonces EXCEPT ![signatory] = @ + 1]
        /\ \/ c.kind = "Permit" /\ ExecutePermit(c)
           \/ c.kind = "DelegateByType" /\ ExecuteDelegation(signatory, c, {c.delegationType})
           \/ c.kind = "Delegate" /\ ExecuteDelegation(signatory, c, DelegationTypes)

-----------------------------------------------------------------------------
\* What the helpers sign is what the contract hashes: a signature made for
\* this token, with the signer's next nonce and in time, is accepted for a
\* holder with the call it was made for, and a signature is accepted for a
\* holder with no other call, on no other chain, by no other token.  What else
\* is accepted, with a signature of anything, is a delegation in the name of an
\* address nobody has the key of, once for each of its nonces, and no permit.
SignaturesMatchCalls ==
    /\ \A s \in Signatures, c \in Calls :
          Accepts(c, s.of) /\ Signatory(c, s.of) \in Holders <=>
              /\ c = CallOf(s.message)
              /\ s.chainId = ThisChain /\ s.token = ThisToken
              /\ s.message.nonce = nonces[s.message.signer]
              /\ block <= s.message.deadline
    /\ \A sig \in AllSignatures, c \in Calls :
          Accepts(c, sig) /\ Signatory(c, sig) \notin Holders =>
              /\ Signatory(c, sig) \in Strays
              /\ c.kind # "Permit"
              /\ c.nonce = nonces[Signatory(c, sig)]

=============================================================================
