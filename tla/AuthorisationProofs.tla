------------------------ MODULE AuthorisationProofs ------------------------
(***************************************************************************)
(* Proofs about signed calls and about authorisation, for every set of     *)
(* messages, calls, signatures, chains and tokens, and whatever addresses  *)
(* signatures recover from what they are not of.  A signature's digest     *)
(* determines the message, so a call that is accepted for a holder is the  *)
(* one it signed, and any other is a delegation by an address nobody has   *)
(* the key of: PlmyTokenV2 has an action for both, and what is proved of   *)
(* the token there holds here.  A nonce is the number of its owner's       *)
(* messages that took effect, which is what makes each of them take effect *)
(* once, and in order.                                                     *)
(***************************************************************************)
EXTENDS Authorisation, PlmyTokenV2Proofs

\* The fields of the messages, by kind.
LEMMA MessageTypes ==
  ASSUME NEW m \in SignedMessages
  PROVE  /\ m.signer \in Accounts
         /\ m.kind \in {"Permit", "DelegateByType", "Delegate"}
         /\ m.kind = "DelegateByType" => m.delegationType \in DelegationTypes
BY InputsAssumption DEF Permits, Delegations

\* An account is a holder or a stray; neither is the zero address.
LEMMA HoldersAndStrays ==
  /\ Strays \subseteq Accounts /\ Holders \subseteq Accounts
  /\ Accounts = Holders \cup Strays /\ Holders \cap Strays = {}
  /\ ZeroAddress \notin Accounts
  /\ HolderMessages \subseteq SignedMessages
BY StraysAssumption, AccountsAssumption DEF Holders, HolderMessages

\* The values of a permit are encoded in the order the contract hashes them.
LEMMA PermitEncoded ==
  ASSUME NEW chainId, NEW token, NEW m
  PROVE  Encoded(BuildPermitParams(chainId, token, m)) =
           [domain   |-> Domain(chainId, token),
            typehash |-> PERMIT_TYPEHASH,
            values   |-> <<m.signer, m.spender, m.value, m.nonce, m.deadline>>]
<1> DEFINE data == BuildPermitParams(chainId, token, m)
<1>1. DOMAIN data.fields = 1 .. 5
  BY DEF BuildPermitParams, PermitFields
<1>2. /\ data.message[NameOf(data.fields[1])] = m.signer
      /\ data.message[NameOf(data.fields[2])] = m.spender
      /\ data.message[NameOf(data.fields[3])] = m.value
      /\ data.message[NameOf(data.fields[4])] = m.nonce
      /\ data.message[NameOf(data.fields[5])] = m.deadline
  BY DEF BuildPermitParams, PermitFields, NameOf
<1>3. [i \in DOMAIN data.fields |-> data.message[NameOf(data.fields[i])]] =
        <<m.signer, m.spender, m.value, m.nonce, m.deadline>>
  <2> HIDE DEF data
  <2> QED BY <1>1, <1>2
<1>4. /\ data.domain = Domain(chainId, token)
      /\ <<data.primaryType, data.fields>> = PERMIT_TYPEHASH
  BY DEF BuildPermitParams, PermitFields, PERMIT_TYPEHASH
<1> QED BY <1>3, <1>4 DEF Encoded

\* The same of a delegation of one type.
LEMMA DelegateByTypeEncoded ==
  ASSUME NEW chainId, NEW token, NEW m
  PROVE  Encoded(BuildDelegateByTypeParams(chainId, token, m)) =
           [domain   |-> Domain(chainId, token),
            typehash |-> DELEGATE_BY_TYPE_TYPEHASH,
            values   |-> <<m.delegatee, m.delegationType, m.nonce, m.deadline>>]
<1> DEFINE data == BuildDelegateByTypeParams(chainId, token, m)
<1>1. DOMAIN data.fields = 1 .. 4
  BY DEF BuildDelegateByTypeParams
<1>2. /\ data.message[NameOf(data.fields[1])] = m.delegatee
      /\ data.message[NameOf(data.fields[2])] = m.delegationType
      /\ data.message[NameOf(data.fields[3])] = m.nonce
      /\ data.message[NameOf(data.fields[4])] = m.deadline
  BY DEF BuildDelegateByTypeParams, NameOf
<1>3. [i \in DOMAIN data.fields |-> data.message[NameOf(data.fields[i])]] =
        <<m.delegatee, m.delegationType, m.nonce, m.deadline>>
  <2> HIDE DEF data
  <2> QED BY <1>1, <1>2
<1>4. /\ data.domain = Domain(chainId, token)
      /\ <<data.primaryType, data.fields>> = DELEGATE_BY_TYPE_TYPEHASH
  BY DEF BuildDelegateByTypeParams, DELEGATE_BY_TYPE_TYPEHASH
<1> QED BY <1>3, <1>4 DEF Encoded

\* The same of a delegation of both types.
LEMMA DelegateEncoded ==
  ASSUME NEW chainId, NEW token, NEW m
  PROVE  Encoded(BuildDelegateParams(chainId, token, m)) =
           [domain   |-> Domain(chainId, token),
            typehash |-> DELEGATE_TYPEHASH,
            values   |-> <<m.delegatee, m.nonce, m.deadline>>]
<1> DEFINE data == BuildDelegateParams(chainId, token, m)
<1>1. DOMAIN data.fields = 1 .. 3
  BY DEF BuildDelegateParams
<1>2. /\ data.message[NameOf(data.fields[1])] = m.delegatee
      /\ data.message[NameOf(data.fields[2])] = m.nonce
      /\ data.message[NameOf(data.fields[3])] = m.deadline
  BY DEF BuildDelegateParams, NameOf
<1>3. [i \in DOMAIN data.fields |-> data.message[NameOf(data.fields[i])]] =
        <<m.delegatee, m.nonce, m.deadline>>
  <2> HIDE DEF data
  <2> QED BY <1>1, <1>2
<1>4. /\ data.domain = Domain(chainId, token)
      /\ <<data.primaryType, data.fields>> = DELEGATE_TYPEHASH
  BY DEF BuildDelegateParams, DELEGATE_TYPEHASH
<1> QED BY <1>3, <1>4 DEF Encoded

\* Domains are equal when the chains and the tokens are.
LEMMA DomainsDiffer ==
  ASSUME NEW chainId, NEW token
  PROVE  Domain(chainId, token) = DOMAIN_SEPARATOR <=> chainId = ThisChain /\ token = ThisToken
BY DEF Domain, DOMAIN_SEPARATOR

\* No type hash is another's.
LEMMA TypesDiffer ==
  /\ PERMIT_TYPEHASH # DELEGATE_BY_TYPE_TYPEHASH
  /\ PERMIT_TYPEHASH # DELEGATE_TYPEHASH
  /\ DELEGATE_BY_TYPE_TYPEHASH # DELEGATE_TYPEHASH
BY DEF PERMIT_TYPEHASH, DELEGATE_BY_TYPE_TYPEHASH, DELEGATE_TYPEHASH

-----------------------------------------------------------------------------
\* A call, by kind: the arguments are those of some message.
LEMMA CallTypes ==
  ASSUME NEW c \in Calls
  PROVE  /\ c.kind \in {"Permit", "DelegateByType", "Delegate"}
         /\ c.kind = "Permit" => \E n \in SignedMessages :
               c = [kind |-> "Permit", owner |-> n.signer, spender |-> n.spender,
                    value |-> n.value, deadline |-> n.deadline]
         /\ c.kind = "DelegateByType" => \E n \in SignedMessages :
               c = [kind |-> "DelegateByType", delegatee |-> n.delegatee,
                    delegationType |-> n.delegationType, nonce |-> n.nonce,
                    deadline |-> n.deadline]
         /\ c.kind = "Delegate" => \E n \in SignedMessages :
               c = [kind |-> "Delegate", delegatee |-> n.delegatee, nonce |-> n.nonce,
                    deadline |-> n.deadline]
<1>1. PICK n \in SignedMessages : c = CallOf(n)
  BY DEF Calls
<1>2. n.kind \in {"Permit", "DelegateByType", "Delegate"}
  BY MessageTypes
<1>3. c.kind = n.kind
  BY <1>1, <1>2 DEF CallOf
<1>4. CASE n.kind = "Permit"
  BY <1>1, <1>3, <1>4 DEF CallOf
<1>5. CASE n.kind = "DelegateByType"
  BY <1>1, <1>3, <1>5 DEF CallOf
<1>6. CASE n.kind = "Delegate"
  BY <1>1, <1>3, <1>6 DEF CallOf
<1> QED BY <1>2, <1>4, <1>5, <1>6

\* A permit's owner is a holder.
LEMMA PermitOwners ==
  ASSUME NEW c \in Calls, c.kind = "Permit"
  PROVE  c.owner \in Holders
<1>1. PICK n \in SignedMessages : c = CallOf(n)
  BY DEF Calls
<1>2. n.kind \in {"Permit", "DelegateByType", "Delegate"}
  BY MessageTypes
<1>3. n.kind = "Permit"
  BY <1>1, <1>2 DEF CallOf
<1>4. c.owner = n.signer
  BY <1>1, <1>3 DEF CallOf
<1> QED BY <1>3, <1>4, StraysAssumption

\* The digest the contract recovers the signer of a call from.
DigestOf(c) ==
    CASE c.kind = "Permit"         -> PermitDigest(c)
      [] c.kind = "DelegateByType" -> DelegateByTypeDigest(c)
      [] c.kind = "Delegate"       -> DelegateDigest(c)

\* A holder is recovered when the digest is the one it signed, and no holder
\* otherwise.
LEMMA SignerRecovered ==
  ASSUME NEW m \in HolderMessages, NEW chainId, NEW token, NEW c
  PROVE  LET sig == Sign(m, chainId, token)
         IN  /\ Signatory(c, sig) \in Holders <=> sig.digest = DigestOf(c)
             /\ sig.digest = DigestOf(c) => Signatory(c, sig) = m.signer
<1> DEFINE sig == Sign(m, chainId, token)
           other == StrayOf(DigestOf(c), sig)
<1>1. sig.signer = m.signer
  BY HoldersAndStrays, MessageTypes DEF Sign, GetSignatureFromTypedData
<1>2. m.signer \in Holders /\ m.signer # ZeroAddress
  BY HoldersAndStrays DEF HolderMessages
<1>3. Signatory(c, sig) =
        IF sig.signer # ZeroAddress /\ sig.digest = DigestOf(c) THEN sig.signer
        ELSE IF other \in Strays THEN other ELSE ZeroAddress
  BY DEF Signatory, Ecrecover, DigestOf
<1> HIDE DEF sig, other
<1>4. /\ Signatory(c, sig) \in Holders <=> sig.digest = DigestOf(c)
      /\ sig.digest = DigestOf(c) => Signatory(c, sig) = m.signer
  BY <1>1, <1>2, <1>3, HoldersAndStrays
<1> USE DEF sig
<1> QED BY <1>4

\* What is recovered is a holder, a stray, or nothing.
LEMMA SomebodyRecovered ==
  ASSUME NEW c \in Calls, NEW sig \in AllSignatures
  PROVE  Signatory(c, sig) \in Holders \cup Strays \cup {ZeroAddress}
<1> DEFINE other == StrayOf(DigestOf(c), sig)
<1>1. sig.signer \in Holders \cup {ZeroAddress}
  <2>1. CASE sig \in MadeUp
    BY <2>1, StraysAssumption
  <2>2. CASE sig \in {s.of : s \in Signatures}
    <3>1. PICK m \in HolderMessages, chainId \in ChainIds, token \in TokenContracts :
            sig = Sign(m, chainId, token)
      BY <2>2 DEF Signatures
    <3> QED BY <3>1 DEF Sign, GetSignatureFromTypedData, HolderMessages
  <2> QED BY <2>1, <2>2 DEF AllSignatures
<1>2. Signatory(c, sig) =
        IF sig.signer # ZeroAddress /\ sig.digest = DigestOf(c) THEN sig.signer
        ELSE IF other \in Strays THEN other ELSE ZeroAddress
  BY DEF Signatory, Ecrecover, DigestOf
<1> HIDE DEF other
<1> QED BY <1>1, <1>2

\* A signature's digest is a call's when the call is the one that was signed,
\* for this token, with the nonce the contract takes.
LEMMA DigestsMatch ==
  ASSUME NEW m \in SignedMessages, NEW chainId, NEW token, NEW c \in Calls
  PROVE  /\ Sign(m, chainId, token).digest = DigestOf(c) =>
               /\ c.kind = m.kind
               /\ chainId = ThisChain /\ token = ThisToken
               /\ c.kind # "Permit" => c = CallOf(m) /\ c.nonce = m.nonce
               /\ c.kind = "Permit" /\ c.owner = m.signer =>
                     c = CallOf(m) /\ m.nonce = nonces[m.signer]
         /\ /\ c = CallOf(m)
            /\ chainId = ThisChain /\ token = ThisToken
            /\ m.nonce = nonces[m.signer]
            => /\ Sign(m, chainId, token).digest = DigestOf(c)
               /\ c.deadline = m.deadline
               /\ c.kind = "Permit" => c.owner = m.signer
               /\ c.kind # "Permit" => c.nonce = m.nonce
<1> DEFINE digest == Sign(m, chainId, token).digest
<1>1. CASE m.kind = "Permit"
  <2>1. digest = [domain   |-> Domain(chainId, token),
                  typehash |-> PERMIT_TYPEHASH,
                  values   |-> <<m.signer, m.spender, m.value, m.nonce, m.deadline>>]
    BY <1>1, PermitEncoded DEF Sign, GetSignatureFromTypedData
  <2>2. CallOf(m) = [kind |-> "Permit", owner |-> m.signer, spender |-> m.spender,
                     value |-> m.value, deadline |-> m.deadline]
    BY <1>1 DEF CallOf
  <2>3. CASE c.kind = "Permit"
    <3>1. PICK n \in SignedMessages :
            c = [kind |-> "Permit", owner |-> n.signer, spender |-> n.spender,
                 value |-> n.value, deadline |-> n.deadline]
      BY <2>3, CallTypes
    <3>2. DigestOf(c) =
            [domain   |-> DOMAIN_SEPARATOR,
             typehash |-> PERMIT_TYPEHASH,
             values   |-> <<n.signer, n.spender, n.value, nonces[n.signer], n.deadline>>]
      BY <2>3, <3>1 DEF DigestOf, PermitDigest
    <3>3. digest = DigestOf(c) <=>
            /\ chainId = ThisChain /\ token = ThisToken
            /\ m.signer = n.signer /\ m.spender = n.spender /\ m.value = n.value
            /\ m.nonce = nonces[n.signer] /\ m.deadline = n.deadline
      <4> HIDE DEF digest
      <4> QED BY <2>1, <3>2, DomainsDiffer
    <3> HIDE DEF digest
    <3>4. /\ digest = DigestOf(c) =>
               /\ c.kind = m.kind
               /\ chainId = ThisChain /\ token = ThisToken
               /\ c = CallOf(m) /\ m.nonce = nonces[m.signer]
          /\ c = CallOf(m) => c.deadline = m.deadline /\ c.owner = m.signer
          /\ /\ c = CallOf(m)
             /\ chainId = ThisChain /\ token = ThisToken
             /\ m.nonce = nonces[m.signer]
             => digest = DigestOf(c)
      BY <1>1, <2>2, <2>3, <3>1, <3>3
    <3> USE DEF digest
    <3> QED BY <2>3, <3>4
  <2>4. CASE c.kind # "Permit"
    <3>1. DigestOf(c).typehash # PERMIT_TYPEHASH
      BY <2>4, CallTypes, TypesDiffer DEF DigestOf, DelegateByTypeDigest, DelegateDigest
    <3>2. digest.typehash = PERMIT_TYPEHASH
      <4> HIDE DEF digest
      <4> QED BY <2>1
    <3>3. c # CallOf(m)
      BY <2>2, <2>4
    <3> QED BY <3>1, <3>2, <3>3
  <2> QED BY <2>3, <2>4
<1>2. CASE m.kind = "DelegateByType"
  <2>1. digest = [domain   |-> Domain(chainId, token),
                  typehash |-> DELEGATE_BY_TYPE_TYPEHASH,
                  values   |-> <<m.delegatee, m.delegationType, m.nonce, m.deadline>>]
    BY <1>2, DelegateByTypeEncoded DEF Sign, GetSignatureFromTypedData
  <2>2. CallOf(m) = [kind |-> "DelegateByType", delegatee |-> m.delegatee,
                     delegationType |-> m.delegationType, nonce |-> m.nonce,
                     deadline |-> m.deadline]
    BY <1>2 DEF CallOf
  <2>3. CASE c.kind = "DelegateByType"
    <3>1. PICK n \in SignedMessages :
            c = [kind |-> "DelegateByType", delegatee |-> n.delegatee,
                 delegationType |-> n.delegationType, nonce |-> n.nonce,
                 deadline |-> n.deadline]
      BY <2>3, CallTypes
    <3>2. DigestOf(c) =
            [domain   |-> DOMAIN_SEPARATOR,
             typehash |-> DELEGATE_BY_TYPE_TYPEHASH,
             values   |-> <<n.delegatee, n.delegationType, n.nonce, n.deadline>>]
      BY <2>3, <3>1 DEF DigestOf, DelegateByTypeDigest
    <3>3. digest = DigestOf(c) <=>
            /\ chainId = ThisChain /\ token = ThisToken
            /\ m.delegatee = n.delegatee /\ m.delegationType = n.delegationType
            /\ m.nonce = n.nonce /\ m.deadline = n.deadline
      <4> HIDE DEF digest
      <4> QED BY <2>1, <3>2, DomainsDiffer
    <3> HIDE DEF digest
    <3>4. /\ digest = DigestOf(c) <=>
               /\ chainId = ThisChain /\ token = ThisToken
               /\ c = CallOf(m)
          /\ c = CallOf(m) => /\ c.deadline = m.deadline /\ c.nonce = m.nonce
                              /\ c.kind = m.kind
      BY <1>2, <2>2, <3>1, <3>3
    <3> USE DEF digest
    <3> QED BY <2>3, <3>4
  <2>4. CASE c.kind # "DelegateByType"
    <3>1. DigestOf(c).typehash # DELEGATE_BY_TYPE_TYPEHASH
      BY <2>4, CallTypes, TypesDiffer DEF DigestOf, PermitDigest, DelegateDigest
    <3>2. digest.typehash = DELEGATE_BY_TYPE_TYPEHASH
      <4> HIDE DEF digest
      <4> QED BY <2>1
    <3>3. c # CallOf(m)
      BY <2>2, <2>4
    <3> QED BY <3>1, <3>2, <3>3
  <2> QED BY <2>3, <2>4
<1>3. CASE m.kind = "Delegate"
  <2>1. digest = [domain   |-> Domain(chainId, token),
                  typehash |-> DELEGATE_TYPEHASH,
                  values   |-> <<m.delegatee, m.nonce, m.deadline>>]
    BY <1>3, DelegateEncoded DEF Sign, GetSignatureFromTypedData
  <2>2. CallOf(m) = [kind |-> "Delegate", delegatee |-> m.delegatee, nonce |-> m.nonce,
                     deadline |-> m.deadline]
    BY <1>3 DEF CallOf
  <2>3. CASE c.kind = "Delegate"
    <3>1. PICK n \in SignedMessages :
            c = [kind |-> "Delegate", delegatee |-> n.delegatee, nonce |-> n.nonce,
                 deadline |-> n.deadline]
      BY <2>3, CallTypes
    <3>2. DigestOf(c) = [domain   |-> DOMAIN_SEPARATOR,
                         typehash |-> DELEGATE_TYPEHASH,
                         values   |-> <<n.delegatee, n.nonce, n.deadline>>]
      BY <2>3, <3>1 DEF DigestOf, DelegateDigest
    <3>3. digest = DigestOf(c) <=>
            /\ chainId = ThisChain /\ token = ThisToken
            /\ m.delegatee = n.delegatee /\ m.nonce = n.nonce /\ m.deadline = n.deadline
      <4> HIDE DEF digest
      <4> QED BY <2>1, <3>2, DomainsDiffer
    <3> HIDE DEF digest
    <3>4. /\ digest = DigestOf(c) <=>
               /\ chainId = ThisChain /\ token = ThisToken
               /\ c = CallOf(m)
          /\ c = CallOf(m) => /\ c.deadline = m.deadline /\ c.nonce = m.nonce
                              /\ c.kind = m.kind
      BY <1>3, <2>2, <3>1, <3>3
    <3> USE DEF digest
    <3> QED BY <2>3, <3>4
  <2>4. CASE c.kind # "Delegate"
    <3>1. DigestOf(c).typehash # DELEGATE_TYPEHASH
      BY <2>4, CallTypes, TypesDiffer DEF DigestOf, PermitDigest, DelegateByTypeDigest
    <3>2. digest.typehash = DELEGATE_TYPEHASH
      <4> HIDE DEF digest
      <4> QED BY <2>1
    <3>3. c # CallOf(m)
      BY <2>2, <2>4
    <3> QED BY <3>1, <3>2, <3>3
  <2> QED BY <2>3, <2>4
<1> QED BY <1>1, <1>2, <1>3, MessageTypes

\* What the helpers sign is what the contract hashes, in every state; what else
\* is accepted is a delegation by a stray.
THEOREM HelpersMatchContract == SignaturesMatchCalls
<1>1. ASSUME NEW s \in Signatures, NEW c \in Calls
      PROVE  Accepts(c, s.of) /\ Signatory(c, s.of) \in Holders <=>
               /\ c = CallOf(s.message)
               /\ s.chainId = ThisChain /\ s.token = ThisToken
               /\ s.message.nonce = nonces[s.message.signer]
               /\ block <= s.message.deadline
  <2>1. PICK m \in HolderMessages, chainId \in ChainIds, token \in TokenContracts :
          s = [message |-> m, chainId |-> chainId, token |-> token,
               of |-> Sign(m, chainId, token)]
    BY DEF Signatures
  <2> DEFINE sig == Sign(m, chainId, token)
  <2>2. /\ s.message = m /\ s.chainId = chainId /\ s.token = token
        /\ s.of = sig
    BY <2>1
  <2>3. /\ Signatory(c, sig) \in Holders <=> sig.digest = DigestOf(c)
        /\ sig.digest = DigestOf(c) => Signatory(c, sig) = m.signer
    BY SignerRecovered
  <2>4. /\ sig.digest = DigestOf(c) =>
              /\ c.kind = m.kind
              /\ chainId = ThisChain /\ token = ThisToken
              /\ c.kind # "Permit" => c = CallOf(m) /\ c.nonce = m.nonce
              /\ c.kind = "Permit" /\ c.owner = m.signer =>
                    c = CallOf(m) /\ m.nonce = nonces[m.signer]
        /\ /\ c = CallOf(m)
           /\ chainId = ThisChain /\ token = ThisToken
           /\ m.nonce = nonces[m.signer]
           => /\ sig.digest = DigestOf(c)
              /\ c.deadline = m.deadline
              /\ c.kind = "Permit" => c.owner = m.signer
              /\ c.kind # "Permit" => c.nonce = m.nonce
    BY HoldersAndStrays, DigestsMatch
  <2>5. m.signer # ZeroAddress
    BY HoldersAndStrays DEF HolderMessages
  <2> HIDE DEF sig
  <2>6. Accepts(c, sig) /\ Signatory(c, sig) \in Holders <=>
          /\ block <= c.deadline
          /\ sig.digest = DigestOf(c)
          /\ IF c.kind = "Permit" THEN c.owner = m.signer ELSE c.nonce = nonces[m.signer]
    BY <2>3, <2>5 DEF Accepts
  <2> QED BY <2>2, <2>4, <2>6
<1>2. ASSUME NEW sig \in AllSignatures, NEW c \in Calls,
             Accepts(c, sig), Signatory(c, sig) \notin Holders
      PROVE  /\ Signatory(c, sig) \in Strays
             /\ c.kind # "Permit"
             /\ c.nonce = nonces[Signatory(c, sig)]
  <2>1. Signatory(c, sig) \in Strays
    BY <1>2, SomebodyRecovered DEF Accepts
  <2>2. c.kind # "Permit"
    BY <1>2, PermitOwners DEF Accepts
  <2> QED BY <1>2, <2>1, <2>2 DEF Accepts
<1> QED BY <1>1, <1>2 DEF SignaturesMatchCalls

-----------------------------------------------------------------------------
\* A call taken for a holder is the message the holder signed, taken by the
\* token that is given messages.
LEMMA ExecutedIsRelayed ==
  ASSUME NEW c \in Calls, NEW s \in Signatures,
         Signatory(c, s.of) \in Holders, ExecuteSigned(c, s.of)
  PROVE  /\ s.message \in HolderMessages
         /\ Relay(s.message)
<1>1. PICK m \in HolderMessages, chainId \in ChainIds, token \in TokenContracts :
        s = [message |-> m, chainId |-> chainId, token |-> token,
             of |-> Sign(m, chainId, token)]
  BY DEF Signatures
<1> DEFINE sig == Sign(m, chainId, token)
<1>2. s.message = m /\ s.of = sig
  BY <1>1
<1>3. Accepts(c, sig)
  BY <1>2 DEF ExecuteSigned
<1>4. Signatory(c, sig) = m.signer
  <2>1. Signatory(c, sig) \in Holders
    BY <1>2
  <2> QED BY <2>1, SignerRecovered
<1>5. /\ c = CallOf(m)
      /\ m.nonce = nonces[m.signer]
      /\ block <= m.deadline
  BY <1>2, <1>3, HelpersMatchContract DEF SignaturesMatchCalls
<1> HIDE DEF sig
<1>6. /\ nonces' = [nonces EXCEPT ![m.signer] = @ + 1]
      /\ \/ c.kind = "Permit" /\ ExecutePermit(c)
         \/ c.kind = "DelegateByType" /\ ExecuteDelegation(m.signer, c, {c.delegationType})
         \/ c.kind = "Delegate" /\ ExecuteDelegation(m.signer, c, DelegationTypes)
  BY <1>2, <1>4 DEF ExecuteSigned
<1>7. UseNonce(m.signer, m.nonce)
  BY <1>5, <1>6 DEF UseNonce
<1>8. CASE m.kind = "Permit"
  <2>1. c = [kind |-> "Permit", owner |-> m.signer, spender |-> m.spender,
             value |-> m.value, deadline |-> m.deadline]
    BY <1>5, <1>8 DEF CallOf
  <2>2. ExecutePermit(c)
    BY <1>6, <2>1
  <2>3. Permit(m)
    BY <1>5, <1>7, <1>8, <2>1, <2>2 DEF ExecutePermit, Permit
  <2> QED BY <1>2, <2>3 DEF Relay
<1>9. CASE m.kind = "DelegateByType"
  <2>1. c = [kind |-> "DelegateByType", delegatee |-> m.delegatee,
             delegationType |-> m.delegationType, nonce |-> m.nonce,
             deadline |-> m.deadline]
    BY <1>5, <1>9 DEF CallOf
  <2>2. ExecuteDelegation(m.signer, c, {c.delegationType})
    BY <1>6, <2>1
  <2>3. DelegateByTypeBySig(m)
    BY <1>5, <1>7, <1>9, <2>1, <2>2 DEF ExecuteDelegation, DelegateByTypeBySig
  <2> QED BY <1>2, <2>3 DEF Relay
<1>10. CASE m.kind = "Delegate"
  <2>1. c = [kind |-> "Delegate", delegatee |-> m.delegatee, nonce |-> m.nonce,
             deadline |-> m.deadline]
    BY <1>5, <1>10 DEF CallOf
  <2>2. ExecuteDelegation(m.signer, c, DelegationTypes)
    BY <1>6, <2>1
  <2>3. DelegateBySig(m)
    BY <1>5, <1>7, <1>10, <2>1, <2>2 DEF ExecuteDelegation, DelegateBySig
  <2> QED BY <1>2, <2>3 DEF Relay
<1> QED BY <1>2, <1>8, <1>9, <1>10, HoldersAndStrays, MessageTypes

\* A call taken for a stray is a delegation, one the token may be given.
LEMMA ForeignIsRelayed ==
  ASSUME NEW c \in Calls, NEW sig, Signatory(c, sig) \in Strays, ExecuteSigned(c, sig)
  PROVE  LET m == DelegationFor(c, Signatory(c, sig))
         IN  /\ m \in SignedMessages
             /\ m.signer \in Strays /\ m.kind # "Permit"
             /\ Relay(m)
<1>1. PICK a \in Strays : a = Signatory(c, sig)
  OBVIOUS
<1> DEFINE m == DelegationFor(c, a)
<1>2. /\ block <= c.deadline
      /\ IF c.kind = "Permit" THEN a = c.owner ELSE c.nonce = nonces[a]
      /\ nonces' = [nonces EXCEPT ![a] = @ + 1]
      /\ \/ c.kind = "Permit" /\ ExecutePermit(c)
         \/ c.kind = "DelegateByType" /\ ExecuteDelegation(a, c, {c.delegationType})
         \/ c.kind = "Delegate" /\ ExecuteDelegation(a, c, DelegationTypes)
  BY <1>1 DEF ExecuteSigned, Accepts
<1>3. c.kind # "Permit"
  BY <1>2, PermitOwners, HoldersAndStrays
<1>4. PICK n \in SignedMessages : c = CallOf(n)
  BY DEF Calls
<1>5. n.kind \in {"DelegateByType", "Delegate"} /\ c.kind = n.kind
  BY <1>3, <1>4, MessageTypes DEF CallOf
<1>6. n \in Delegations
  BY <1>5, InputsAssumption DEF Permits
<1>7. [n EXCEPT !.signer = a] \in SignedMessages
  BY <1>5, StraysAssumption
<1>8. CASE n.kind = "DelegateByType"
  <2>1. n \in [kind : {"DelegateByType"}, signer : Accounts, nonce : Nat, deadline : Nat,
                delegatee : Addresses, delegationType : DelegationTypes]
    BY <1>6, <1>8 DEF Delegations
  <2>2. c = [kind |-> "DelegateByType", delegatee |-> n.delegatee,
             delegationType |-> n.delegationType, nonce |-> n.nonce,
             deadline |-> n.deadline]
    BY <1>4, <1>8 DEF CallOf
  <2>3. m = [kind |-> "DelegateByType", signer |-> a, nonce |-> n.nonce,
             deadline |-> n.deadline, delegatee |-> n.delegatee,
             delegationType |-> n.delegationType]
    BY <2>2 DEF DelegationFor
  <2>4. m = [n EXCEPT !.signer = a]
    BY <2>1, <2>3
  <2>5. ExecuteDelegation(a, c, {c.delegationType})
    BY <1>2, <2>2
  <2> HIDE DEF m
  <2>6. DelegateByTypeBySig(m)
    BY <1>2, <2>2, <2>3, <2>5 DEF ExecuteDelegation, DelegateByTypeBySig, UseNonce
  <2>7. m.signer = a /\ m.kind = "DelegateByType"
    BY <2>3
  <2>8. m \in SignedMessages /\ Relay(m)
    BY <1>7, <2>4, <2>6 DEF Relay
  <2> QED BY <1>1, <2>7, <2>8 DEF m
<1>9. CASE n.kind = "Delegate"
  <2>1. n \in [kind : {"Delegate"}, signer : Accounts, nonce : Nat, deadline : Nat,
                delegatee : Addresses]
    BY <1>6, <1>9 DEF Delegations
  <2>2. c = [kind |-> "Delegate", delegatee |-> n.delegatee, nonce |-> n.nonce,
             deadline |-> n.deadline]
    BY <1>4, <1>9 DEF CallOf
  <2>3. m = [kind |-> "Delegate", signer |-> a, nonce |-> n.nonce,
             deadline |-> n.deadline, delegatee |-> n.delegatee]
    BY <2>2 DEF DelegationFor
  <2>4. m = [n EXCEPT !.signer = a]
    BY <2>1, <2>3
  <2>5. ExecuteDelegation(a, c, DelegationTypes)
    BY <1>2, <2>2
  <2> HIDE DEF m
  <2>6. DelegateBySig(m)
    BY <1>2, <2>2, <2>3, <2>5 DEF ExecuteDelegation, DelegateBySig, UseNonce
  <2>7. m.signer = a /\ m.kind = "Delegate"
    BY <2>3
  <2>8. m \in SignedMessages /\ Relay(m)
    BY <1>7, <2>4, <2>6 DEF Relay
  <2> QED BY <1>1, <2>7, <2>8 DEF m
<1> QED BY <1>5, <1>8, <1>9

\* The token takes m with a signature, and the observers see it.
Takes(m) ==
    /\ m \in SignedMessages /\ Relay(m)
    /\ m \in HolderMessages \/ (m.signer \in Strays /\ m.kind # "Permit")
    /\ caller' = Relayer
    /\ executed' = Append(executed, [message |-> m, at |-> block])

\* A step is a holder's own call, a message that is taken, or a block.
LEMMA StepKinds ==
  ASSUME CallNext
  PROVE  \/ \E c \in Accounts : SendCall(c)
         \/ \E m \in SignedMessages : Takes(m)
         \/ MineBlock
<1>1. ASSUME NEW c \in Calls, NEW s \in Signatures, SendSigned(c, s)
      PROVE  \E m \in SignedMessages : Takes(m)
  <2>1. s.message \in HolderMessages /\ Relay(s.message)
    BY <1>1, ExecutedIsRelayed DEF SendSigned
  <2>2. Takes(s.message)
    BY <1>1, <2>1, HoldersAndStrays DEF SendSigned, Takes
  <2> QED BY <2>1, <2>2, HoldersAndStrays
<1>2. ASSUME NEW c \in Calls, NEW sig \in AllSignatures, SendForeign(c, sig)
      PROVE  \E m \in SignedMessages : Takes(m)
  <2> DEFINE m == DelegationFor(c, Signatory(c, sig))
  <2>1. /\ m \in SignedMessages
        /\ m.signer \in Strays /\ m.kind # "Permit"
        /\ Relay(m)
    BY <1>2, ForeignIsRelayed DEF SendForeign
  <2>2. caller' = Relayer /\ executed' = Append(executed, [message |-> m, at |-> block])
    BY <1>2 DEF SendForeign
  <2> HIDE DEF m
  <2> QED BY <2>1, <2>2 DEF Takes
<1> QED BY <1>1, <1>2, HoldersAndStrays DEF CallNext

\* Every step is one of PlmyTokenV2's: the token that recovers signers from
\* signatures, holders or not, implements the one that is given messages.
THEOREM CallsImplementToken == CallSpec => Spec
<1>1. CallInit => Init
  BY DEF CallInit
<1>2. [CallNext]_callVars => [Next]_vars
  <2> SUFFICES ASSUME [CallNext]_callVars PROVE [Next]_vars
    OBVIOUS
  <2>1. ASSUME NEW c \in Accounts, SendCall(c) PROVE Next
    BY <2>1 DEF SendCall, Next
  <2>2. ASSUME NEW m \in SignedMessages, Takes(m) PROVE Next
    BY <2>2 DEF Takes, Next
  <2>3. CASE MineBlock
    BY <2>3 DEF MineBlock, Next
  <2>4. CASE UNCHANGED callVars
    BY <2>4 DEF callVars
  <2> QED BY <2>1, <2>2, <2>3, <2>4, StepKinds
<1> QED BY <1>1, <1>2, PTL DEF CallSpec, Spec

\* The types of the state and the list of the messages that were executed.
CallsTypeOK == TypeOK /\ executed \in Seq([message : SignedMessages, at : Nat])

\* They hold in every behaviour.
LEMMA CallsType == CallSpec => []CallsTypeOK
<1> DEFINE Listed == executed \in Seq([message : SignedMessages, at : Nat])
<1>1. CallSpec => []TypeOK
  BY CallsImplementToken, TypeCorrect, PTL
<1>2. CallInit => Listed
  BY DEF CallInit
<1>3. TypeOK /\ Listed /\ [CallNext]_callVars => Listed'
  <2> SUFFICES ASSUME TypeOK, Listed, [CallNext]_callVars PROVE Listed'
    OBVIOUS
  <2>1. ASSUME NEW c \in Accounts, SendCall(c) PROVE executed' = executed
    BY <2>1 DEF SendCall
  <2>2. ASSUME NEW m \in SignedMessages, Takes(m)
        PROVE  Listed'
    <3>1. block \in Nat
      BY MaxBlockAssumption DEF TypeOK
    <3> QED BY <2>2, <3>1 DEF Takes
  <2>3. CASE MineBlock
    BY <2>3 DEF MineBlock
  <2>4. CASE UNCHANGED callVars
    BY <2>4 DEF callVars, observers
  <2> QED BY <2>1, <2>2, <2>3, <2>4, StepKinds
<1>4. CallsTypeOK <=> TypeOK /\ Listed
  BY DEF CallsTypeOK
<1> HIDE DEF Listed
<1> QED BY <1>1, <1>2, <1>3, <1>4, PTL DEF CallSpec

\* The message that is taken is the last one the observers list.
LEMMA TakenIsLast ==
  ASSUME CallsTypeOK, NEW m, Takes(m)
  PROVE  executed' # executed /\ LastOf(executed').message = m
<1> DEFINE entry == [message |-> m, at |-> block]
<1>1. executed \in Seq([message : SignedMessages, at : Nat])
  BY DEF CallsTypeOK
<1>2. Len(executed') = Len(executed) + 1 /\ executed'[Len(executed')] = entry
  <2>1. entry \in [message : SignedMessages, at : Nat]
    BY MaxBlockAssumption DEF CallsTypeOK, TypeOK, Takes
  <2>2. executed' = Append(executed, entry)
    BY DEF Takes
  <2> HIDE DEF entry
  <2> QED BY <1>1, <2>1, <2>2
<1>3. Len(executed) \in Nat
  BY <1>1
<1>4. LastOf(executed').message = m
  BY <1>2 DEF LastOf
<1> QED BY <1>2, <1>3, <1>4

\* A step that the observers list takes a message.
LEMMA ListedIsTaken ==
  ASSUME CallsTypeOK, CallNext, executed' # executed
  PROVE  Takes(LastOf(executed').message)
<1>1. PICK m \in SignedMessages : Takes(m)
  BY StepKinds DEF SendCall, MineBlock
<1> QED BY <1>1, TakenIsLast

\* A call with a signature does what a holder signed, or delegates for a stray.
THEOREM SignedCallsRelay == CallSpec => SignedCallsAreRelays
<1>1. CallsTypeOK /\ [CallNext]_callVars =>
        [executed' # executed =>
            LET m == LastOf(executed').message
            IN  /\ Relay(m)
                /\ m \in HolderMessages \/ (m.signer \in Strays /\ m.kind # "Permit")
        ]_callVars
  BY ListedIsTaken DEF Takes
<1> QED BY <1>1, CallsType, PTL DEF CallSpec, SignedCallsAreRelays

-----------------------------------------------------------------------------
\* A delegation by an address that holds nothing keeps everybody's present
\* power.
LEMMA EmptyDelegationKeepsPower ==
  ASSUME Parts, Parts', NEW a \in Accounts, balances[a] = 0,
         NEW delegatee \in Addresses, NEW types \in SUBSET DelegationTypes,
         DelegateTypes(a, delegatee, types), UNCHANGED <<balances, block>>,
         NEW t \in DelegationTypes, NEW u \in Accounts
  PROVE  SearchByBlockNumber(snapshots'[t][u], balances'[u], block) =
            SearchByBlockNumber(snapshots[t][u], balances[u], block)
<1>1. /\ balances \in [Accounts -> Nat]
      /\ delegates[t] \in [Accounts -> Addresses]
      /\ Bookkeeping(snapshots[t], delegates[t], balances, block)
  BY PartsTypes DEF Parts
<1>2. Bookkeeping(snapshots'[t], delegates'[t], balances, block)
  BY DEF Parts
<1>3. SearchByBlockNumber(snapshots[t][u], balances[u], block)
         = Total(balances, DelegatorsIn(delegates[t], u))
  BY <1>1, PresentPower
<1>4. SearchByBlockNumber(snapshots'[t][u], balances[u], block)
         = Total(balances, DelegatorsIn(delegates'[t], u))
  BY <1>1, <1>2, PresentPower
<1>5. Total(balances, DelegatorsIn(delegates'[t], u)) = Total(balances, DelegatorsIn(delegates[t], u))
  <2>1. CASE t \notin types
    BY <2>1 DEF DelegateTypes
  <2>2. CASE t \in types
    <3> DEFINE from == GetDelegatee(delegates[t], a)
    <3>1. delegates'[t] = [delegates[t] EXCEPT ![a] = delegatee] /\ delegatee \in Accounts
      BY <2>2 DEF DelegateTypes, Addresses
    <3>2. PowerMoves(balances, delegates[t], balances, delegates'[t], from, delegatee, balances[a])
      BY <1>1, <3>1, DelegationMovesPower
    <3>3. Total(balances, DelegatorsIn(delegates[t], u)) \in Nat
      BY <1>1, DelegatorsFinite, TokensFinite
    <3> HIDE DEF from
    <3> QED BY <3>2, <3>3 DEF PowerMoves
  <2> QED BY <2>1, <2>2
<1> QED BY <1>3, <1>4, <1>5

\* A delegation that is taken for an address that holds nothing keeps every
\* answer, but for that of an address that gets its first entry.
LEMMA EmptyTakenKeepsAnswers ==
  ASSUME Parts, Parts', HoldersHaveHistories,
         NEW m \in SignedMessages, Takes(m), m.kind # "Permit", balances[m.signer] = 0,
         NEW t \in DelegationTypes, NEW u \in Accounts, NEW b \in 0 .. block
  PROVE  \/ GetPowerAtBlock(t, u, b)' = GetPowerAtBlock(t, u, b)
         \/ /\ t = PROPOSITION_POWER /\ b < block
            /\ snapshots[t][u] = <<>> /\ GetPowerAtBlock(t, u, b)' = 0
<1>1. Relay(m) /\ m.signer \in Accounts
  BY MessageTypes DEF Takes
<1>2. block \in Nat
  BY DEF Parts
<1>3. CASE b = block
  <2>1. PICK types \in SUBSET DelegationTypes :
          DelegateTypes(m.signer, m.delegatee, types) /\ UNCHANGED <<balances, block>>
    <3>1. CASE DelegateByTypeBySig(m)
      <4>1. {m.delegationType} \in SUBSET DelegationTypes
        BY <3>1, MessageTypes DEF DelegateByTypeBySig
      <4> QED BY <3>1, <4>1 DEF DelegateByTypeBySig
    <3>2. CASE DelegateBySig(m)
      BY <3>2 DEF DelegateBySig
    <3> QED BY <1>1, <3>1, <3>2 DEF Relay, Permit
  <2>2. m.delegatee \in Addresses
    BY InputsAssumption DEF Permits, Delegations
  <2>3. SearchByBlockNumber(snapshots'[t][u], balances'[u], block) =
           SearchByBlockNumber(snapshots[t][u], balances[u], block)
    BY <1>1, <2>1, <2>2, EmptyDelegationKeepsPower
  <2> QED BY <1>3, <2>3 DEF GetPowerAtBlock
<1>4. CASE b # block
  <2>1. b \in 0 .. block - 1 /\ b < block
    BY <1>2, <1>4
  <2>2. [Next]_vars
    BY <1>1 DEF Next
  <2>3. CASE GetPowerAtBlock(t, u, b)' = GetPowerAtBlock(t, u, b)
    BY <2>3
  <2>4. CASE /\ snapshots[t][u] = <<>>
             /\ GetPowerAtBlock(t, u, b) = balances[u]
             /\ GetPowerAtBlock(t, u, b)' = 0
    BY <2>1, <2>4 DEF HoldersHaveHistories, DelegationTypes
  <2> QED BY <2>1, <2>2, <2>3, <2>4, StepKeepsAnswers
<1> QED BY <1>3, <1>4

\* A delegation nobody signed, by an address that holds nothing, gives and
\* takes no power, now or for earlier blocks, except from an address without a
\* history of proposition power.
THEOREM ForeignSignaturesAreHarmless == CallSpec => ForeignSignaturesGiveNoPower
<1> DEFINE Harmless ==
             LET a == LastOf(executed').message.signer
             IN  executed' # executed /\ a \in Strays /\ balances[a] = 0 =>
                   \A t \in DelegationTypes, u \in Accounts, b \in 0 .. block :
                      \/ GetPowerAtBlock(t, u, b)' = GetPowerAtBlock(t, u, b)
                      \/ /\ t = PROPOSITION_POWER /\ b < block
                         /\ snapshots[t][u] = <<>> /\ GetPowerAtBlock(t, u, b)' = 0
<1>1. /\ CallsTypeOK
      /\ IInv /\ HoldersHaveHistories /\ (IInv /\ HoldersHaveHistories)'
      /\ [CallNext]_callVars
      => [Harmless]_callVars
  <2> SUFFICES ASSUME CallsTypeOK, Parts, Parts', HoldersHaveHistories, CallNext,
                      executed' # executed,
                      LastOf(executed').message.signer \in Strays,
                      balances[LastOf(executed').message.signer] = 0,
                      NEW t \in DelegationTypes, NEW u \in Accounts, NEW b \in 0 .. block
               PROVE  \/ GetPowerAtBlock(t, u, b)' = GetPowerAtBlock(t, u, b)
                      \/ /\ t = PROPOSITION_POWER /\ b < block
                         /\ snapshots[t][u] = <<>> /\ GetPowerAtBlock(t, u, b)' = 0
    BY InvariantParts, InvariantPartsNext
  <2> DEFINE m == LastOf(executed').message
  <2>1. Takes(m)
    BY ListedIsTaken
  <2>2. m \in SignedMessages /\ m.kind # "Permit"
    BY <2>1, HoldersAndStrays DEF Takes, HolderMessages
  <2>3. balances[m.signer] = 0
    OBVIOUS
  <2> HIDE DEF m
  <2> QED BY <2>1, <2>2, <2>3, EmptyTakenKeepsAnswers
<1>2. CallSpec => [](IInv /\ HoldersHaveHistories)
  BY CallsImplementToken, HoldersInvariance, PTL
<1>3. ForeignSignaturesGiveNoPower <=> [][Harmless]_callVars
  BY DEF ForeignSignaturesGiveNoPower
<1> HIDE DEF Harmless
<1> QED BY <1>1, <1>2, <1>3, CallsType, PTL DEF CallSpec

-----------------------------------------------------------------------------
\* A move takes tokens from the sender alone, and as many as it says.
LEMMA MoveDebits ==
  ASSUME TypeOK, NEW sender \in Accounts, NEW recipient \in Addresses, NEW amount \in Nat,
         MoveTokens(sender, recipient, amount), NEW o \in Accounts, balances'[o] < balances[o]
  PROVE  o = sender /\ balances[o] - balances'[o] = amount
<1>1. balances \in [Accounts -> Nat]
  BY Uint256MaxAssumption DEF TypeOK, ERC20TypeOK, Uint256
<1>2. recipient \in Accounts
  BY DEF MoveTokens, Addresses
<1> DEFINE debited == [balances EXCEPT ![sender] = @ - amount]
<1>3. /\ debited \in [Accounts -> Int]
      /\ \A a \in Accounts :
            debited[a] = IF a = sender THEN balances[a] - amount ELSE balances[a]
  BY <1>1
<1>4. balances' = [debited EXCEPT ![recipient] = @ + amount]
  BY DEF MoveTokens
<1> HIDE DEF debited
<1>5. balances'[o] = IF o = recipient THEN debited[o] + amount ELSE debited[o]
  BY <1>2, <1>3, <1>4
<1>6. balances[o] \in Nat
  BY <1>1
<1> QED BY <1>3, <1>5, <1>6

\* _approve writes one allowance.
LEMMA ApprovalWrites ==
  ASSUME TypeOK, NEW owner \in Accounts, NEW spender \in Addresses, NEW value,
         SetAllowance(owner, spender, value), NEW o \in Accounts, NEW s \in Accounts
  PROVE  allowances'[o][s] = IF o = owner /\ s = spender THEN value ELSE allowances[o][s]
<1>1. spender \in Accounts
  BY DEF SetAllowance, Addresses
<1>2. allowances \in [Accounts -> [Accounts -> Uint256]]
  BY DEF TypeOK, ERC20TypeOK
<1> QED BY <1>1, <1>2 DEF SetAllowance

\* A delegation writes the delegatees of one account.
LEMMA DelegationWrites ==
  ASSUME TypeOK, NEW delegator \in Accounts, NEW delegatee, NEW types,
         DelegateTypes(delegator, delegatee, types),
         NEW t \in DelegationTypes, NEW a \in Accounts, delegates'[t][a] # delegates[t][a]
  PROVE  a = delegator /\ delegates'[t][a] = delegatee
<1>1. delegates[t] \in [Accounts -> Addresses]
  BY DEF TypeOK
<1>2. delegates'[t] = IF t \in types THEN [delegates[t] EXCEPT ![delegator] = delegatee]
                      ELSE delegates[t]
  BY DEF DelegateTypes
<1> QED BY <1>1, <1>2

\* What a transfer from another account does to the two ledgers.
LEMMA TransferFromEffect ==
  ASSUME TypeOK, NEW c \in Accounts, NEW sender \in Accounts, NEW recipient \in Addresses,
         NEW amount \in Nat, TransferFrom(c, sender, recipient, amount)
  PROVE  /\ \A o \in Accounts : balances'[o] < balances[o] =>
               /\ o = sender /\ balances[o] - balances'[o] = amount
               /\ allowances'[o][c] = allowances[o][c] - amount
         /\ \A o, s \in Accounts : allowances'[o][s] # allowances[o][s] =>
               s = c /\ allowances'[o][s] < allowances[o][s]
<1>1. /\ MoveTokens(sender, recipient, amount)
      /\ SetAllowance(sender, c, allowances[sender][c] - amount)
  BY DEF TransferFrom
<1>2. c \in Addresses
  BY DEF Addresses
<1>3. ASSUME NEW o \in Accounts, NEW s \in Accounts
      PROVE  allowances'[o][s] = IF o = sender /\ s = c THEN allowances[sender][c] - amount
                                 ELSE allowances[o][s]
  BY <1>1, <1>2, ApprovalWrites
<1>4. allowances[sender][c] \in Nat
  BY Uint256MaxAssumption DEF TypeOK, ERC20TypeOK, Uint256
<1>5. \A o \in Accounts : balances'[o] < balances[o] =>
         o = sender /\ balances[o] - balances'[o] = amount
  BY <1>1, MoveDebits
<1> QED BY <1>3, <1>4, <1>5

\* The calls an account sends: what they take from others, whose allowances
\* and whose delegatees they change.
LEMMA CallEffects ==
  ASSUME TypeOK, NEW c \in Accounts, Call(c)
  PROVE  /\ \A o \in Accounts : balances'[o] < balances[o] /\ o # c =>
               allowances'[o][c] = allowances[o][c] - (balances[o] - balances'[o])
         /\ \A o, s \in Accounts : allowances'[o][s] # allowances[o][s] =>
               o = c \/ (s = c /\ allowances'[o][s] < allowances[o][s])
         /\ \A t \in DelegationTypes, a \in Accounts : delegates'[t][a] # delegates[t][a] =>
               a = c
<1>0. /\ TransferAmounts \subseteq Nat
      /\ balances \in [Accounts -> Nat]
  BY InputsAssumption, Uint256MaxAssumption DEF Uint256, TypeOK, ERC20TypeOK
<1>1. UNCHANGED balances => \A o \in Accounts : ~(balances'[o] < balances[o])
  <2> SUFFICES ASSUME UNCHANGED balances, NEW o \in Accounts
               PROVE  ~(balances'[o] < balances[o])
    OBVIOUS
  <2>1. balances[o] \in Nat
    BY <1>0
  <2> QED BY <2>1
<1>2. ASSUME NEW recipient \in Addresses, NEW amount \in TransferAmounts,
             TokenTransfer(c, recipient, amount)
      PROVE  /\ \A o \in Accounts : balances'[o] < balances[o] => o = c
             /\ UNCHANGED <<allowances, delegates>>
  <2>1. /\ MoveTokens(c, recipient, amount)
        /\ UNCHANGED <<allowances, delegates>>
    BY <1>2 DEF TokenTransfer, Transfer, BeforeTokenTransfer
  <2>2. amount \in Nat
    BY <1>0
  <2> QED BY <2>1, <2>2, MoveDebits
<1>3. ASSUME NEW sender \in Accounts, NEW recipient \in Addresses,
             NEW amount \in TransferAmounts, TokenTransferFrom(c, sender, recipient, amount)
      PROVE  /\ \A o \in Accounts : balances'[o] < balances[o] =>
                   allowances'[o][c] = allowances[o][c] - (balances[o] - balances'[o])
             /\ \A o, s \in Accounts : allowances'[o][s] # allowances[o][s] =>
                   s = c /\ allowances'[o][s] < allowances[o][s]
             /\ UNCHANGED delegates
  <2>1. TransferFrom(c, sender, recipient, amount) /\ UNCHANGED delegates
    BY <1>3 DEF TokenTransferFrom, BeforeTokenTransfer
  <2>2. amount \in Nat
    BY <1>0
  <2> QED BY <2>1, <2>2, TransferFromEffect
<1>4. ASSUME Approvals(c)
      PROVE  /\ UNCHANGED <<balances, delegates>>
             /\ \A o, s \in Accounts : allowances'[o][s] # allowances[o][s] => o = c
  <2>1. PICK spender \in Addresses, amount \in ApprovalAmounts :
          /\ \/ Approve(c, spender, amount)
             \/ IncreaseAllowance(c, spender, amount)
             \/ DecreaseAllowance(c, spender, amount)
          /\ UNCHANGED <<snapshots, delegates, block, nonces>>
    BY <1>4 DEF Approvals
  <2>2. PICK value : SetAllowance(c, spender, value) /\ UNCHANGED balances
    BY <2>1 DEF Approve, IncreaseAllowance, DecreaseAllowance
  <2> QED BY <2>1, <2>2, ApprovalWrites
<1>5. ASSUME NEW t \in DelegationTypes, NEW delegatee, DelegateByType(c, delegatee, t)
      PROVE  /\ UNCHANGED <<balances, allowances>>
             /\ \A u \in DelegationTypes, a \in Accounts :
                   delegates'[u][a] # delegates[u][a] => a = c
  BY <1>5, DelegationWrites DEF DelegateByType
<1>6. ASSUME NEW delegatee, Delegate(c, delegatee)
      PROVE  /\ UNCHANGED <<balances, allowances>>
             /\ \A u \in DelegationTypes, a \in Accounts :
                   delegates'[u][a] # delegates[u][a] => a = c
  BY <1>6, DelegationWrites DEF Delegate
<1>7. CASE \E recipient \in Addresses, amount \in TransferAmounts :
              TokenTransfer(c, recipient, amount)
  BY <1>2, <1>7
<1>8. CASE \E sender \in Accounts, recipient \in Addresses, amount \in TransferAmounts :
              TokenTransferFrom(c, sender, recipient, amount)
  BY <1>3, <1>8
<1>9. CASE Approvals(c)
  BY <1>1, <1>4, <1>9
<1>10. CASE \E t \in DelegationTypes : \E delegatee \in DelegateesByType[t] :
              DelegateByType(c, delegatee, t)
  BY <1>1, <1>5, <1>10
<1>11. CASE \E delegatee \in Delegatees : Delegate(c, delegatee)
  BY <1>1, <1>6, <1>11
<1> QED BY <1>7, <1>8, <1>9, <1>10, <1>11 DEF Call

\* A signed message takes no tokens, sets the allowance it names, or the
\* delegatee it names for its signer.
LEMMA RelayEffects ==
  ASSUME TypeOK, NEW m \in SignedMessages, Relay(m)
  PROVE  /\ UNCHANGED balances
         /\ \A o, s \in Accounts : allowances'[o][s] # allowances[o][s] =>
               /\ m.kind = "Permit" /\ m.signer = o
               /\ m.spender = s /\ m.value = allowances'[o][s]
         /\ \A t \in DelegationTypes, a \in Accounts : delegates'[t][a] # delegates[t][a] =>
               /\ m.kind \in {"DelegateByType", "Delegate"} /\ m.signer = a
               /\ delegates'[t][a] = m.delegatee
<1>1. m.signer \in Accounts
  BY MessageTypes
<1>2. CASE Permit(m)
  <2>1. m.spender \in Addresses
    BY <1>2, InputsAssumption DEF Permit, Permits, Delegations
  <2>2. /\ m.kind = "Permit"
        /\ SetAllowance(m.signer, m.spender, m.value)
        /\ UNCHANGED <<balances, delegates>>
    BY <1>2 DEF Permit
  <2> QED BY <1>1, <2>1, <2>2, ApprovalWrites
<1>3. CASE DelegateByTypeBySig(m)
  <2>1. /\ m.kind = "DelegateByType"
        /\ DelegateTypes(m.signer, m.delegatee, {m.delegationType})
        /\ UNCHANGED <<balances, allowances>>
    BY <1>3 DEF DelegateByTypeBySig
  <2> QED BY <1>1, <2>1, DelegationWrites
<1>4. CASE DelegateBySig(m)
  <2>1. /\ m.kind = "Delegate"
        /\ DelegateTypes(m.signer, m.delegatee, DelegationTypes)
        /\ UNCHANGED <<balances, allowances>>
    BY <1>4 DEF DelegateBySig
  <2> QED BY <1>1, <2>1, DelegationWrites
<1> QED BY <1>2, <1>3, <1>4 DEF Relay

\* What any step takes, allows and delegates, as the observers see it.
LEMMA StepEffects ==
  ASSUME CallsTypeOK, CallNext
  PROVE  /\ \A o \in Accounts : balances'[o] < balances[o] /\ caller' # o =>
               /\ caller' \in Accounts
               /\ allowances'[o][caller'] =
                     allowances[o][caller'] - (balances[o] - balances'[o])
         /\ \A o, s \in Accounts : allowances'[o][s] # allowances[o][s] =>
               \/ caller' = o
               \/ caller' = s /\ allowances'[o][s] < allowances[o][s]
               \/ /\ SignedNow(o, {"Permit"})
                  /\ LET m == LastOf(executed').message
                     IN  m.spender = s /\ m.value = allowances'[o][s]
         /\ \A t \in DelegationTypes, a \in Accounts :
               delegates'[t][a] # delegates[t][a] =>
               \/ caller' = a
               \/ /\ SignedNow(a, {"DelegateByType", "Delegate"})
                  /\ delegates'[t][a] = LastOf(executed').message.delegatee
<1>1. TypeOK /\ balances \in [Accounts -> Nat]
  BY Uint256MaxAssumption DEF CallsTypeOK, TypeOK, ERC20TypeOK, Uint256
<1>2. ASSUME UNCHANGED balances, NEW o \in Accounts
      PROVE  ~(balances'[o] < balances[o])
  <2>1. balances[o] \in Nat
    BY <1>1
  <2> QED BY <1>2, <2>1
<1>3. CASE \E c \in Accounts : SendCall(c)
  <2>1. PICK c \in Accounts : Call(c) /\ caller' = c
    BY <1>3 DEF SendCall
  <2> QED BY <1>1, <2>1, CallEffects
<1>4. CASE \E m \in SignedMessages : Takes(m)
  <2>1. PICK m \in SignedMessages : Takes(m)
    BY <1>4
  <2>2. executed' # executed /\ LastOf(executed').message = m
    BY <2>1, TakenIsLast
  <2>3. /\ m.kind = "Permit" => SignedNow(m.signer, {"Permit"})
        /\ m.kind \in {"DelegateByType", "Delegate"} =>
              SignedNow(m.signer, {"DelegateByType", "Delegate"})
    BY <2>2 DEF SignedNow
  <2>4. m \in SignedMessages /\ Relay(m) /\ LastOf(executed').message = m
    BY <2>1, <2>2 DEF Takes
  <2>5. UNCHANGED balances
    BY <1>1, <2>4, RelayEffects
  <2>6. \A o, a \in Accounts : allowances'[o][a] # allowances[o][a] =>
           /\ SignedNow(o, {"Permit"})
           /\ m.spender = a /\ m.value = allowances'[o][a]
    BY <1>1, <2>3, <2>4, RelayEffects
  <2>7. \A t \in DelegationTypes, a \in Accounts : delegates'[t][a] # delegates[t][a] =>
           /\ SignedNow(a, {"DelegateByType", "Delegate"})
           /\ delegates'[t][a] = m.delegatee
    BY <1>1, <2>3, <2>4, RelayEffects
  <2> QED BY <1>2, <2>4, <2>5, <2>6, <2>7
<1>5. CASE MineBlock
  <2>1. UNCHANGED <<balances, allowances, delegates>>
    BY <1>5 DEF MineBlock, NextBlock
  <2> QED BY <1>2, <2>1
<1> QED BY <1>3, <1>4, <1>5, StepKinds

\* Tokens leave an account by its own call, or against an allowance that falls
\* by as much.
THEOREM DebitsAreAuthorised == CallSpec => DebitsAuthorised
<1>1. CallsTypeOK /\ [CallNext]_callVars =>
        [\A o \in Accounts : balances'[o] < balances[o] /\ caller' # o =>
          /\ caller' \in Accounts
          /\ allowances'[o][caller'] = allowances[o][caller'] - (balances[o] - balances'[o])
        ]_callVars
  BY StepEffects
<1> QED BY <1>1, CallsType, PTL DEF CallSpec, DebitsAuthorised

\* An allowance rises by its owner's call or by a permit the owner signed.
THEOREM GrantsAreAuthorised == CallSpec => GrantsAuthorised
<1>1. CallsTypeOK /\ [CallNext]_callVars =>
        [\A o, s \in Accounts : allowances'[o][s] # allowances[o][s] =>
          \/ caller' = o
          \/ caller' = s /\ allowances'[o][s] < allowances[o][s]
          \/ /\ SignedNow(o, {"Permit"})
             /\ LET m == LastOf(executed').message
                IN  m.spender = s /\ m.value = allowances'[o][s]
        ]_callVars
  BY StepEffects
<1> QED BY <1>1, CallsType, PTL DEF CallSpec, GrantsAuthorised

\* An account's delegatee changes by its own call or by a delegation it signed.
THEOREM DelegationsAreAuthorised == CallSpec => DelegationsAuthorised
<1>1. CallsTypeOK /\ [CallNext]_callVars =>
        [\A t \in DelegationTypes, a \in Accounts :
          delegates'[t][a] # delegates[t][a] =>
          \/ caller' = a
          \/ /\ SignedNow(a, {"DelegateByType", "Delegate"})
             /\ delegates'[t][a] = LastOf(executed').message.delegatee
        ]_callVars
  BY StepEffects
<1> QED BY <1>1, CallsType, PTL DEF CallSpec, DelegationsAuthorised

-----------------------------------------------------------------------------
\* A message uses its signer's nonce, in time.
LEMMA RelayUsesNonce ==
  ASSUME NEW m, Relay(m)
  PROVE  /\ m.nonce = nonces[m.signer]
         /\ nonces' = [nonces EXCEPT ![m.signer] = @ + 1]
         /\ block <= m.deadline
BY DEF Relay, Permit, DelegateByTypeBySig, DelegateBySig, UseNonce

\* The calls accounts send for themselves use no nonce.
LEMMA CallUsesNoNonce ==
  ASSUME NEW c, Call(c)
  PROVE  UNCHANGED nonces
BY DEF Call, TokenTransfer, TokenTransferFrom, BeforeTokenTransfer, Approvals, DelegateByType,
       Delegate

\* A message's place among its signer's is not changed by the next one.
LEMMA ExecutedPrefix ==
  ASSUME executed \in Seq([message : SignedMessages, at : Nat]),
         NEW entry \in [message : SignedMessages, at : Nat],
         executed' = Append(executed, entry),
         NEW a, NEW n \in 0 .. Len(executed)
  PROVE  ExecutedOf(a, n)' = ExecutedOf(a, n)
<1>1. \A i \in 1 .. n : executed'[i] = executed[i]
  OBVIOUS
<1> QED BY <1>1 DEF ExecutedOf

\* The next message is counted for its signer, and for nobody else.
LEMMA ExecutedCounted ==
  ASSUME executed \in Seq([message : SignedMessages, at : Nat]),
         NEW entry \in [message : SignedMessages, at : Nat],
         executed' = Append(executed, entry),
         NEW a \in Accounts
  PROVE  Cardinality(ExecutedOf(a, Len(executed)))' =
            IF a = entry.message.signer
            THEN Cardinality(ExecutedOf(a, Len(executed))) + 1
            ELSE Cardinality(ExecutedOf(a, Len(executed)))
<1> DEFINE n == Len(executed)
           before == ExecutedOf(a, n)
           after == ExecutedOf(a, Len(executed))'
<1>1. n \in Nat /\ Len(executed') = n + 1
  OBVIOUS
<1>2. /\ \A i \in 1 .. n : executed'[i] = executed[i]
      /\ executed'[n + 1] = entry
  OBVIOUS
<1>3. IsFiniteSet(before) /\ n + 1 \notin before
  <2>1. before \subseteq 1 .. n
    BY DEF ExecutedOf
  <2>2. IsFiniteSet(1 .. n) /\ n + 1 \notin 1 .. n
    BY <1>1, FS_Interval
  <2> QED BY <2>1, <2>2, FS_Subset
<1>4. after = IF a = entry.message.signer THEN before \cup {n + 1} ELSE before
  <2>1. after = {i \in 1 .. n + 1 : executed'[i].message.signer = a}
    BY <1>1 DEF ExecutedOf
  <2>2. 1 .. n + 1 = (1 .. n) \cup {n + 1}
    BY <1>1
  <2>3. before = {i \in 1 .. n : executed[i].message.signer = a}
    BY DEF ExecutedOf
  <2> HIDE DEF n, before, after
  <2> QED BY <1>2, <2>1, <2>2, <2>3
<1>5. Cardinality(ExecutedOf(a, Len(executed)))' = Cardinality(after)
  BY DEF Cardinality
<1> HIDE DEF n, before, after
<1>6. Cardinality(before \cup {n + 1}) = Cardinality(before) + 1
  BY <1>3, FS_AddElement
<1>7. Cardinality(after) =
         IF a = entry.message.signer THEN Cardinality(before) + 1 ELSE Cardinality(before)
  BY <1>4, <1>6
<1> USE DEF n, before
<1> QED BY <1>5, <1>7

\* Messages that are honoured stay so when another is executed.
LEMMA TakenKeepsHonoured ==
  ASSUME CallsTypeOK, MessagesHonoured, NEW m \in SignedMessages, Takes(m)
  PROVE  MessagesHonoured'
<1> DEFINE entry == [message |-> m, at |-> block]
<1>1. m \in SignedMessages /\ Relay(m) /\ m.signer \in Accounts
  BY MessageTypes DEF Takes
<1>2. /\ m.nonce = nonces[m.signer]
      /\ nonces' = [nonces EXCEPT ![m.signer] = @ + 1]
      /\ block <= m.deadline
  BY <1>1, RelayUsesNonce
<1>3. /\ executed \in Seq([message : SignedMessages, at : Nat])
      /\ nonces \in [Accounts -> Nat]
      /\ block \in Nat
  BY MaxBlockAssumption DEF CallsTypeOK, TypeOK
<1>4. /\ executed' = Append(executed, entry)
      /\ entry.message = m /\ entry.at = block
      /\ entry \in [message : SignedMessages, at : Nat]
  BY <1>1, <1>3 DEF Takes
<1> HIDE DEF entry
<1>5. ASSUME NEW a \in Accounts
      PROVE  nonces'[a] = Cardinality(ExecutedOf(a, Len(executed)))'
  <2>1. nonces'[a] = IF a = m.signer THEN nonces[a] + 1 ELSE nonces[a]
    BY <1>1, <1>2, <1>3
  <2>2. nonces[a] = Cardinality(ExecutedOf(a, Len(executed)))
    BY DEF MessagesHonoured
  <2>3. Cardinality(ExecutedOf(a, Len(executed)))' =
           IF a = m.signer THEN Cardinality(ExecutedOf(a, Len(executed))) + 1
           ELSE Cardinality(ExecutedOf(a, Len(executed)))
    BY <1>3, <1>4, ExecutedCounted
  <2> QED BY <2>1, <2>2, <2>3
<1>6. ASSUME NEW i \in DOMAIN executed'
      PROVE  /\ executed'[i].message.nonce =
                   Cardinality(ExecutedOf(executed[i].message.signer, i - 1))'
             /\ executed'[i].at <= executed'[i].message.deadline
  <2>1. /\ Len(executed) \in Nat /\ i \in 1 .. Len(executed) + 1
        /\ i - 1 \in 0 .. Len(executed)
    BY <1>3, <1>4
  <2> DEFINE a == executed'[i].message.signer
  <2>2. Cardinality(ExecutedOf(executed[i].message.signer, i - 1))'
           = Cardinality(ExecutedOf(a, i - 1))
    <3>1. ExecutedOf(executed[i].message.signer, i - 1)' = ExecutedOf(a, i - 1)
      <4>1. \A b : ExecutedOf(b, i - 1)' = ExecutedOf(b, i - 1)
        BY <1>3, <1>4, <2>1, ExecutedPrefix
      <4>2. ExecutedOf(executed[i].message.signer, i - 1)'
               = {j \in 1 .. i - 1 : executed'[j].message.signer = a}
        BY DEF ExecutedOf
      <4>3. {j \in 1 .. i - 1 : executed'[j].message.signer = a} = ExecutedOf(a, i - 1)
        <5>1. \A j \in 1 .. i - 1 : executed'[j] = executed[j]
          BY <1>3, <1>4, <2>1
        <5> HIDE DEF a
        <5> QED BY <5>1 DEF ExecutedOf
      <4> QED BY <4>2, <4>3
    <3> QED BY <3>1 DEF Cardinality
  <2>3. CASE i <= Len(executed)
    <3>1. i \in DOMAIN executed /\ executed'[i] = executed[i]
      BY <1>3, <1>4, <2>1, <2>3
    <3> QED BY <2>2, <3>1 DEF MessagesHonoured
  <2>4. CASE i = Len(executed) + 1
    <3>1. executed'[i] = entry /\ i - 1 = Len(executed)
      BY <1>3, <1>4, <2>1, <2>4
    <3>2. nonces[m.signer] = Cardinality(ExecutedOf(m.signer, Len(executed)))
      BY <1>1 DEF MessagesHonoured
    <3>3. a = m.signer /\ executed'[i].message = m /\ executed'[i].at = block
      BY <1>4, <3>1
    <3> HIDE DEF a
    <3> QED BY <1>2, <2>2, <3>1, <3>2, <3>3
  <2> QED BY <2>1, <2>3, <2>4
<1> QED BY <1>5, <1>6 DEF MessagesHonoured

\* What is honoured depends on the nonces and on the messages executed so far.
LEMMA HonouredDependsOn ==
  ASSUME MessagesHonoured, UNCHANGED <<nonces, executed>>
  PROVE  MessagesHonoured'
BY DEF MessagesHonoured, ExecutedOf

\* Messages take effect once each, in the order of their signer's nonces and
\* in time, whoever sends them, whenever and however often.
THEOREM MessagesAreHonoured == CallSpec => []MessagesHonoured
<1>1. CallInit => MessagesHonoured
  <2> SUFFICES ASSUME CallInit PROVE MessagesHonoured
    OBVIOUS
  <2>1. executed = <<>> /\ nonces = [a \in Accounts |-> 0]
    BY DEF CallInit, Init
  <2>2. \A a \in Accounts : ExecutedOf(a, Len(executed)) = {}
    BY <2>1 DEF ExecutedOf
  <2> QED BY <2>1, <2>2, FS_EmptySet DEF MessagesHonoured
<1>2. CallsTypeOK /\ MessagesHonoured /\ [CallNext]_callVars => MessagesHonoured'
  <2> SUFFICES ASSUME CallsTypeOK, MessagesHonoured, [CallNext]_callVars
               PROVE  MessagesHonoured'
    OBVIOUS
  <2>1. ASSUME NEW c \in Accounts, SendCall(c) PROVE UNCHANGED <<nonces, executed>>
    BY <2>1, CallUsesNoNonce DEF SendCall
  <2>2. ASSUME NEW m \in SignedMessages, Takes(m)
        PROVE  MessagesHonoured'
    BY <2>2, TakenKeepsHonoured
  <2>3. CASE MineBlock
    BY <2>3, HonouredDependsOn DEF MineBlock, NextBlock
  <2>4. CASE UNCHANGED callVars
    BY <2>4, HonouredDependsOn DEF callVars, observers, vars
  <2> QED BY <2>1, <2>2, <2>3, <2>4, HonouredDependsOn, StepKinds
<1> QED BY <1>1, <1>2, CallsType, PTL DEF CallSpec

=============================================================================
