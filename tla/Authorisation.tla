---------------------------- MODULE Authorisation ----------------------------
(***************************************************************************)
(* Who may change what: the calls holders send for themselves, and the     *)
(* calls anybody sends with any signature, with two observers: who sent    *)
(* the last transaction, and every message that took effect so far, with   *)
(* the block it did in.  The observers let the properties say who acted    *)
(* and who signed what; no action reads them.                              *)
(***************************************************************************)
EXTENDS SignedCalls

CONSTANTS
    Relayer,        \* the sender of signed messages
    Paid,           \* bound: the accounts whose balances rise
    Approved        \* bound: the owners and spenders whose allowances rise

ASSUME RelayerAssumption == Relayer \notin Accounts

VARIABLES caller, executed

observers == <<caller, executed>>
callVars  == <<vars, observers>>

CallInit == Init /\ caller = Relayer /\ executed = <<>>

\* Bound on the calls holders send for themselves: who is paid, and who is
\* allowed more to spend.
WithinBounds ==
    /\ \A a \in Accounts : balances'[a] > balances[a] => a \in Paid
    /\ \A o, s \in Accounts : allowances'[o][s] > allowances[o][s] => <<o, s>> \in Approved

SendCall(c) ==
    /\ Call(c)
    /\ WithinBounds
    /\ caller' = c
    /\ UNCHANGED executed

\* Anybody sends any call with any signature.  The contract recovers a holder:
\* the message the holder signed takes effect.
SendSigned(c, s) ==
    /\ Signatory(c, s.of) \in Holders
    /\ ExecuteSigned(c, s.of)
    /\ caller' = Relayer
    /\ executed' = Append(executed, [message |-> s.message, at |-> block])

\* It recovers a stray: a delegation in its name, which nobody signed.
SendForeign(c, sig) ==
    /\ Signatory(c, sig) \in Strays
    /\ ExecuteSigned(c, sig)
    /\ caller' = Relayer
    /\ executed' = Append(executed, [message |-> DelegationFor(c, Signatory(c, sig)),
                                     at |-> block])

MineBlock ==
    /\ NextBlock
    /\ caller' = Relayer
    /\ UNCHANGED executed

CallNext ==
    \/ \E c \in Holders : SendCall(c)
    \/ \E c \in Calls, s \in Signatures : SendSigned(c, s)
    \/ \E c \in Calls, sig \in AllSignatures : SendForeign(c, sig)
    \/ MineBlock

CallSpec == CallInit /\ [][CallNext]_callVars

-----------------------------------------------------------------------------
\* A call with a signature does what PlmyTokenV2 says of one message: of the
\* one its signer, a holder, signed, or of a delegation by an address nobody
\* has the key of.  With the steps that are the same in both, the token that
\* recovers signers implements the one that is given messages (about which more
\* is checked and proved).
SignedCallsAreRelays ==
    [][executed' # executed =>
          LET m == LastOf(executed').message
          IN  /\ Relay(m)
              /\ m \in HolderMessages \/ (m.signer \in Strays /\ m.kind # "Permit")
      ]_callVars

\* A delegation nobody signed, by an address that holds nothing, gives and takes
\* no power: it changes no answer of getPowerCurrent, nor one of getPowerAtBlock
\* for an earlier block, although it writes an entry in the history of whomever
\* it names.  The exception is an address without a history of proposition
\* power, which answers zero for earlier blocks from then on.
ForeignSignaturesGiveNoPower ==
    [][LET a == LastOf(executed').message.signer
       IN  executed' # executed /\ a \in Strays /\ balances[a] = 0 =>
             \A t \in DelegationTypes, u \in Accounts, b \in 0 .. block :
                \/ GetPowerAtBlock(t, u, b)' = GetPowerAtBlock(t, u, b)
                \/ /\ t = PROPOSITION_POWER /\ b < block
                   /\ snapshots[t][u] = <<>> /\ GetPowerAtBlock(t, u, b)' = 0
      ]_callVars

\* Which of the first n messages that took effect are a's.
ExecutedOf(a, n) == {i \in 1 .. n : executed[i].message.signer = a}

\* Messages take effect in the order of their nonces, each at most once and
\* none after its deadline, although permit and the two kinds of delegation
\* check the one nonce in three places and anybody may send any message at
\* any time, again or late: a message's nonce is the number of its signer's
\* messages that took effect before it.
MessagesHonoured ==
    /\ \A a \in Accounts : nonces[a] = Cardinality(ExecutedOf(a, Len(executed)))
    /\ \A i \in DOMAIN executed :
          LET e == executed[i]
          IN  /\ e.message.nonce = Cardinality(ExecutedOf(e.message.signer, i - 1))
              /\ e.at <= e.message.deadline

\* The message this step executes, if it executes one, is of a.
SignedNow(a, kinds) ==
    /\ executed' # executed
    /\ LET m == LastOf(executed').message
       IN  m.signer = a /\ m.kind \in kinds

\* Tokens leave an account by its own call, or by the call of a spender whose
\* allowance falls by as much.
DebitsAuthorised ==
    [][\A o \in Accounts : balances'[o] < balances[o] /\ caller' # o =>
          /\ caller' \in Accounts
          /\ allowances'[o][caller'] = allowances[o][caller'] - (balances[o] - balances'[o])
      ]_callVars

\* An allowance rises by its owner's call, or to the value of a permit the
\* owner signed for that spender; it falls by the owner's call, the spender's,
\* or such a permit.
GrantsAuthorised ==
    [][\A o, s \in Accounts : allowances'[o][s] # allowances[o][s] =>
          \/ caller' = o
          \/ caller' = s /\ allowances'[o][s] < allowances[o][s]
          \/ /\ SignedNow(o, {"Permit"})
             /\ LET m == LastOf(executed').message
                IN  m.spender = s /\ m.value = allowances'[o][s]
      ]_callVars

\* Whom an account delegates to changes by its own call or by a delegation it
\* signed, to the address it named (for one nobody has the key of, by a
\* delegation it was recovered for).
DelegationsAuthorised ==
    [][\A t \in DelegationTypes, a \in Accounts :
          delegates'[t][a] # delegates[t][a] =>
          \/ caller' = a
          \/ /\ SignedNow(a, {"DelegateByType", "Delegate"})
             /\ delegates'[t][a] = LastOf(executed').message.delegatee
      ]_callVars

=============================================================================
