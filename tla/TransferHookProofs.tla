------------------------- MODULE TransferHookProofs -------------------------
(***************************************************************************)
(* Proofs about transfers whose hook calls back, for every set of          *)
(* transfers, however deep they are inside each other.  A power is what    *)
(* its delegators hold but for the tokens on their way, and the invariant  *)
(* adds what that sum cannot say: a power that is read from the balance is *)
(* that of an address no open transfer takes power from or gives power to, *)
(* and the powers of all addresses add up to the supply, so that none      *)
(* outgrows its uint128.                                                   *)
(***************************************************************************)
EXTENDS TransferHook, PlmyTokenV2Proofs

\* The power of u, by its history or by its balance.
PowerIn(snaps, bal, u) == IF snaps[u] # <<>> THEN LastOf(snaps[u]).value ELSE bal[u]
PowersIn(snaps, bal)   == [u \in Accounts |-> PowerIn(snaps, bal, u)]

\* What the transfers trs take from the delegators of u, and give to them.
Amounts(trs)         == [i \in DOMAIN trs |-> trs[i].amount]
Sent(chosen, trs, u) == Total(Amounts(trs), {i \in DOMAIN trs : GetDelegatee(chosen, trs[i].from) = u})
Due(chosen, trs, u)  == Total(Amounts(trs), {i \in DOMAIN trs : GetDelegatee(chosen, trs[i].to) = u})

\* None of the transfers trs moves power to or from u.
Untouched(chosen, trs, u) ==
    \A i \in DOMAIN trs :
        GetDelegatee(chosen, trs[i].from) = u <=> GetDelegatee(chosen, trs[i].to) = u

\* One type's histories follow the balances and the open transfers.
Follows(snaps, bal, chosen, trs) ==
    \A u \in Accounts :
        IF snaps[u] = <<>>
        THEN DelegatorsIn(chosen, u) = {u} /\ Untouched(chosen, trs, u)
        ELSE LastOf(snaps[u]).value + Sent(chosen, trs, u)
                = Total(bal, DelegatorsIn(chosen, u)) + Due(chosen, trs, u)

\* The part of the invariant about one type of power.
HookBooks(snaps, bal, chosen, trs) ==
    /\ snaps \in [Accounts -> Seq(Snapshot)]
    /\ chosen \in [Accounts -> Addresses]
    /\ Follows(snaps, bal, chosen, trs)
    /\ Total(PowersIn(snaps, bal), Accounts) = Supply

\* What every step keeps.
HookInv ==
    /\ balances \in [Accounts -> Nat]
    /\ Total(balances, Accounts) = Supply
    /\ snapshots \in [DelegationTypes -> [Accounts -> Seq(Snapshot)]]
    /\ delegates \in [DelegationTypes -> [Accounts -> Addresses]]
    /\ block \in 1 .. MaxBlock
    /\ open \in Seq(Transfers)
    /\ \A t \in DelegationTypes : HookBooks(snapshots[t], balances, delegates[t], open)

-----------------------------------------------------------------------------
\* Powers are natural numbers.
LEMMA PowersNatural ==
  ASSUME NEW snaps \in [Accounts -> Seq(Snapshot)], NEW bal \in [Accounts -> Nat]
  PROVE  PowersIn(snaps, bal) \in [Accounts -> Nat]
<1> SUFFICES ASSUME NEW u \in Accounts PROVE PowerIn(snaps, bal, u) \in Nat
  BY DEF PowersIn
<1>1. CASE snaps[u] = <<>>
  BY <1>1 DEF PowerIn
<1>2. CASE snaps[u] # <<>>
  <2>1. snaps[u] \in Seq(Snapshot) /\ Len(snaps[u]) \in 1 .. Len(snaps[u])
    BY <1>2
  <2>2. LastOf(snaps[u]) \in Snapshot
    BY <2>1 DEF LastOf
  <2> QED BY <1>2, <2>2 DEF PowerIn, Snapshot
<1> QED BY <1>1, <1>2

\* Histories of which the last values show that amount has moved.
Written(snaps, from, to, amount, new) ==
    /\ new \in [Accounts -> Seq(Snapshot)]
    /\ \A u \in Accounts \ {from, to} : new[u] = snaps[u]
    /\ new[from] # <<>> /\ new[to] # <<>>
    /\ LastOf(new[from]).value = PowerIn(snaps, balances, from) - amount
    /\ LastOf(new[to]).value = PowerIn(snaps, balances, to) + amount
    /\ Total(PowersIn(new, balances), Accounts) = Supply

\* A move of power between two addresses writes both histories, casts nothing
\* away and leaves the sum of the powers what it is.
LEMMA MoveWrites ==
  ASSUME block \in 1 .. Uint128Range - 1,
         balances \in [Accounts -> Nat],
         NEW snaps \in [Accounts -> Seq(Snapshot)],
         Total(PowersIn(snaps, balances), Accounts) = Supply,
         NEW from \in Accounts, NEW to \in Accounts, from # to,
         NEW amount \in Nat, amount <= PowerIn(snaps, balances, from)
  PROVE  Written(snaps, from, to, amount, MoveDelegatesByType(snaps, from, to, amount))
<1> DEFINE new == MoveDelegatesByType(snaps, from, to, amount)
           p == PowersIn(snaps, balances)
           q == [[p EXCEPT ![from] = @ - amount] EXCEPT ![to] = @ + amount]
<1>1. p \in [Accounts -> Nat]
  BY PowersNatural
<1>2. \A u \in Accounts : /\ p[u] = PowerIn(snaps, balances, u)
                          /\ PreviousPower(snaps, u) = p[u]
  BY DEF PowersIn, PowerIn, PreviousPower
<1>3. Total(p, Accounts) = Supply /\ Supply <= Supply
  BY SupplyAssumption
<1> HIDE DEF p
<1>4. IsTransfer(Accounts, p, q, from, to, amount)
  BY <1>1, <1>2 DEF IsTransfer
<1>5. /\ q[from] = p[from] - amount /\ q[to] = p[to] + amount
      /\ \A u \in Accounts \ {from, to} : q[u] = p[u]
  BY <1>1
<1>6. q \in [Accounts -> Nat] /\ Total(q, Accounts) = Supply
  <2> HIDE DEF q
  <2> QED BY <1>3, <1>4, TransferKeepsLedger
<1> HIDE DEF q
<1>7. \A u \in Accounts : q[u] \in 0 .. Uint128Range - 1
  <2>1. \A u \in Accounts : q[u] \in 0 .. Supply
    BY <1>3, <1>6, HoldingsBounded
  <2> QED BY <2>1, SupplyAssumption, Uint128RangeAssumption
<1>8. ASSUME NEW u \in {from, to}
      PROVE  /\ new[u] \in Seq(Snapshot) /\ new[u] # <<>>
             /\ LastOf(new[u]).value = q[u]
  <2>1. u \in Accounts /\ snaps[u] \in Seq(Snapshot) /\ q[u] \in 0 .. Uint128Range - 1
    BY <1>7
  <2>2. new[u] = WriteSnapshot(snaps[u], block, Uint128(q[u]))
    BY <1>2, <1>5, <2>1 DEF MoveDelegatesByType
  <2>3. new[u] = WriteSnapshot(snaps[u], block, q[u])
    BY <2>1, <2>2, CastKeeps
  <2>4. block \in 0 .. Uint128Range - 1
    BY Uint128RangeAssumption
  <2>5. IsWrite(snaps[u], block, q[u], new[u])
    BY <2>1, <2>3, <2>4, WriteEntries
  <2>6. new[u] # <<>>
    BY <2>1, <2>3, WriteNotEmpty
  <2> QED BY <2>5, <2>6 DEF IsWrite, LastOf
<1>9. \A u \in Accounts \ {from, to} : new[u] = snaps[u]
  BY DEF MoveDelegatesByType
<1>10. new \in [Accounts -> Seq(Snapshot)]
  <2>1. \A u \in Accounts : new[u] \in Seq(Snapshot)
    BY <1>8, <1>9
  <2>2. new = [u \in Accounts |-> new[u]]
    BY DEF MoveDelegatesByType
  <2> QED BY <2>1, <2>2
<1>11. Total(PowersIn(new, balances), Accounts) = Supply
  <2>1. \A u \in Accounts : PowersIn(new, balances)[u] = q[u]
    <3> SUFFICES ASSUME NEW u \in Accounts
                 PROVE  PowerIn(new, balances, u) = q[u]
      BY DEF PowersIn
    <3>1. CASE u \in {from, to}
      BY <1>8, <3>1 DEF PowerIn
    <3>2. CASE u \notin {from, to}
      BY <1>2, <1>5, <1>9, <3>2 DEF PowerIn
    <3> QED BY <3>1, <3>2
  <2> QED BY <1>6, <2>1, TotalAgree
<1>12. Written(snaps, from, to, amount, new)
  <2> HIDE DEF new
  <2> QED BY <1>2, <1>5, <1>8, <1>9, <1>10, <1>11 DEF Written
<1> QED BY <1>12

-----------------------------------------------------------------------------
\* The fields of a transfer.
LEMMA TransferType ==
  ASSUME NEW tr \in Transfers
  PROVE  tr.from \in Accounts /\ tr.to \in Accounts /\ tr.amount \in Nat
<1>1. TransferAmounts \subseteq Nat
  BY InputsAssumption, Uint256MaxAssumption DEF Uint256
<1> QED BY <1>1, HookAssumption

\* The amounts of some transfers, of one more or of as many.
LEMMA AmountAppended ==
  ASSUME NEW trs \in Seq(Transfers), NEW tr \in Transfers,
         NEW S \in SUBSET DOMAIN trs, NEW counted \in BOOLEAN
  PROVE  /\ Total(Amounts(trs), S) \in Nat
         /\ Total(Amounts(Append(trs, tr)), IF counted THEN S \cup {Len(trs) + 1} ELSE S)
               = Total(Amounts(trs), S) + (IF counted THEN tr.amount ELSE 0)
<1> DEFINE n == Len(trs)
           new == Append(trs, tr)
<1>1. /\ n \in Nat /\ DOMAIN trs = 1 .. n /\ DOMAIN new = 1 .. n + 1
      /\ \A i \in 1 .. n : trs[i] \in Transfers /\ new[i] = trs[i]
      /\ new[n + 1] = tr
  OBVIOUS
<1> HIDE DEF n, new
<1>2. /\ \A i \in 1 .. n : Amounts(trs)[i] \in Nat /\ Amounts(new)[i] = Amounts(trs)[i]
      /\ Amounts(new)[n + 1] = tr.amount /\ tr.amount \in Nat
  <2>1. \A i \in 1 .. n : Amounts(trs)[i] = trs[i].amount /\ Amounts(new)[i] = new[i].amount
    BY <1>1 DEF Amounts
  <2>2. Amounts(new)[n + 1] = new[n + 1].amount
    BY <1>1 DEF Amounts
  <2> QED BY <1>1, <2>1, <2>2, TransferType
<1>3. IsFiniteSet(S) /\ n + 1 \notin S /\ S \subseteq 1 .. n
  <2>1. IsFiniteSet(1 .. n)
    BY <1>1, FS_Interval
  <2> QED BY <1>1, <2>1, FS_Subset
<1>4. Total(Amounts(trs), S) \in Nat
  BY <1>2, <1>3, TokensFinite
<1>5. Total(Amounts(new), S) = Total(Amounts(trs), S)
  BY <1>2, <1>3, TotalAgree
<1>6. Total(Amounts(new), S \cup {n + 1}) = Total(Amounts(new), S) + tr.amount
  <2>1. \A i \in S \cup {n + 1} : Amounts(new)[i] \in Nat
    BY <1>2, <1>3
  <2> QED BY <1>2, <1>3, <2>1, TotalAdd
<1>7. Total(Amounts(new), IF counted THEN S \cup {n + 1} ELSE S)
         = Total(Amounts(trs), S) + (IF counted THEN tr.amount ELSE 0)
  BY <1>4, <1>5, <1>6
<1> QED BY <1>4, <1>7 DEF n, new

\* What one more open transfer adds to what is on its way.
LEMMA OneMoreTransfer ==
  ASSUME NEW trs \in Seq(Transfers), NEW tr \in Transfers, NEW chosen, NEW u
  PROVE  LET new == Append(trs, tr)
         IN  /\ Sent(chosen, trs, u) \in Nat /\ Due(chosen, trs, u) \in Nat
             /\ Sent(chosen, new, u) = Sent(chosen, trs, u)
                    + (IF GetDelegatee(chosen, tr.from) = u THEN tr.amount ELSE 0)
             /\ Due(chosen, new, u) = Due(chosen, trs, u)
                    + (IF GetDelegatee(chosen, tr.to) = u THEN tr.amount ELSE 0)
             /\ Untouched(chosen, new, u) <=>
                    /\ Untouched(chosen, trs, u)
                    /\ GetDelegatee(chosen, tr.from) = u <=> GetDelegatee(chosen, tr.to) = u
<1> DEFINE n == Len(trs)
           new == Append(trs, tr)
           From(w) == {i \in DOMAIN w : GetDelegatee(chosen, w[i].from) = u}
           To(w) == {i \in DOMAIN w : GetDelegatee(chosen, w[i].to) = u}
           out == GetDelegatee(chosen, tr.from) = u
           in == GetDelegatee(chosen, tr.to) = u
<1>1. /\ n \in Nat /\ DOMAIN trs = 1 .. n /\ DOMAIN new = (1 .. n) \cup {n + 1}
      /\ \A i \in 1 .. n : new[i] = trs[i]
      /\ new[n + 1] = tr
  OBVIOUS
<1>2. From(trs) \subseteq DOMAIN trs /\ To(trs) \subseteq DOMAIN trs
  OBVIOUS
<1>3. /\ Sent(chosen, trs, u) = Total(Amounts(trs), From(trs))
      /\ Sent(chosen, new, u) = Total(Amounts(new), From(new))
      /\ Due(chosen, trs, u) = Total(Amounts(trs), To(trs))
      /\ Due(chosen, new, u) = Total(Amounts(new), To(new))
  BY DEF Sent, Due
<1>4. From(new) = IF out THEN From(trs) \cup {n + 1} ELSE From(trs)
  <2> HIDE DEF n, new
  <2> QED BY <1>1
<1>5. To(new) = IF in THEN To(trs) \cup {n + 1} ELSE To(trs)
  <2> HIDE DEF n, new
  <2> QED BY <1>1
<1>6. Untouched(chosen, new, u) <=> Untouched(chosen, trs, u) /\ (out <=> in)
  <2> HIDE DEF n, new
  <2> QED BY <1>1 DEF Untouched
<1>7. out \in BOOLEAN /\ in \in BOOLEAN
  OBVIOUS
<1> HIDE DEF From, To, out, in
<1>8. /\ Total(Amounts(trs), From(trs)) \in Nat
      /\ Total(Amounts(new), IF out THEN From(trs) \cup {n + 1} ELSE From(trs))
            = Total(Amounts(trs), From(trs)) + (IF out THEN tr.amount ELSE 0)
  BY <1>2, <1>7, AmountAppended
<1>9. /\ Total(Amounts(trs), To(trs)) \in Nat
      /\ Total(Amounts(new), IF in THEN To(trs) \cup {n + 1} ELSE To(trs))
            = Total(Amounts(trs), To(trs)) + (IF in THEN tr.amount ELSE 0)
  BY <1>2, <1>7, AmountAppended
<1>10. /\ Sent(chosen, trs, u) \in Nat /\ Due(chosen, trs, u) \in Nat
       /\ Sent(chosen, new, u) = Sent(chosen, trs, u) + (IF out THEN tr.amount ELSE 0)
       /\ Due(chosen, new, u) = Due(chosen, trs, u) + (IF in THEN tr.amount ELSE 0)
  <2> HIDE DEF n, new
  <2> QED BY <1>3, <1>4, <1>5, <1>8, <1>9
<1> USE DEF out, in
<1> QED BY <1>6, <1>10

\* What is on its way is a natural number, and as much arrives as leaves at an
\* address that no transfer touches.
LEMMA OnTheirWay ==
  ASSUME NEW trs \in Seq(Transfers), NEW chosen, NEW u
  PROVE  /\ Sent(chosen, trs, u) \in Nat /\ Due(chosen, trs, u) \in Nat
         /\ Untouched(chosen, trs, u) => Sent(chosen, trs, u) = Due(chosen, trs, u)
<1> DEFINE From == {i \in DOMAIN trs : GetDelegatee(chosen, trs[i].from) = u}
           To == {i \in DOMAIN trs : GetDelegatee(chosen, trs[i].to) = u}
<1>1. \A i \in DOMAIN trs : Amounts(trs)[i] \in Nat
  BY TransferType DEF Amounts
<1>2. IsFiniteSet(From) /\ IsFiniteSet(To)
  <2>1. IsFiniteSet(1 .. Len(trs)) /\ DOMAIN trs = 1 .. Len(trs)
    BY FS_Interval
  <2> QED BY <2>1, FS_Subset
<1>3. Total(Amounts(trs), From) \in Nat /\ Total(Amounts(trs), To) \in Nat
  <2>1. From \subseteq DOMAIN trs /\ To \subseteq DOMAIN trs
    OBVIOUS
  <2> HIDE DEF From, To
  <2> QED BY <1>1, <1>2, <2>1, TokensFinite
<1>4. Untouched(chosen, trs, u) => From = To
  BY DEF Untouched
<1> QED BY <1>3, <1>4 DEF Sent, Due

\* The power of any address, with a history or without.
LEMMA FollowedPower ==
  ASSUME NEW snaps, NEW bal \in [Accounts -> Nat], NEW chosen, NEW trs \in Seq(Transfers),
         Follows(snaps, bal, chosen, trs), NEW u \in Accounts
  PROVE  /\ PowerIn(snaps, bal, u) + Sent(chosen, trs, u)
               = Total(bal, DelegatorsIn(chosen, u)) + Due(chosen, trs, u)
         /\ Total(bal, DelegatorsIn(chosen, u)) \in Nat
<1>1. Total(bal, DelegatorsIn(chosen, u)) \in Nat
  BY DelegatorsFinite, TokensFinite
<1>2. CASE snaps[u] = <<>>
  <2>1. DelegatorsIn(chosen, u) = {u} /\ Sent(chosen, trs, u) = Due(chosen, trs, u)
    BY <1>2, OnTheirWay DEF Follows
  <2>2. Total(bal, {u}) = bal[u]
    BY TotalSingleton
  <2> QED BY <1>1, <1>2, <2>1, <2>2 DEF PowerIn
<1>3. CASE snaps[u] # <<>>
  BY <1>1, <1>3 DEF Follows, PowerIn
<1> QED BY <1>1, <1>2, <1>3

-----------------------------------------------------------------------------
\* Delegates and open transfers change so that amount more is owed to to, and
\* by from, whether by balances that count for another address or by tokens
\* that are on their way.
Accounted(chosen, trs, chosen2, trs2, from, to, amount) ==
    \A u \in Accounts :
        /\ Total(balances, DelegatorsIn(chosen2, u)) + Due(chosen2, trs2, u)
              + Sent(chosen, trs, u)
              = Total(balances, DelegatorsIn(chosen, u)) + Due(chosen, trs, u)
                + Sent(chosen2, trs2, u)
                - (IF u = from /\ from # to THEN amount ELSE 0)
                + (IF u = to /\ from # to THEN amount ELSE 0)
        /\ from = to \/ u \notin {from, to} =>
              /\ DelegatorsIn(chosen2, u) = DelegatorsIn(chosen, u)
              /\ Untouched(chosen, trs, u) => Untouched(chosen2, trs2, u)

\* The power an address has after such a move.
LEMMA PowerAfterMove ==
  ASSUME balances \in [Accounts -> Nat],
         NEW snaps, NEW chosen, NEW trs \in Seq(Transfers),
         HookBooks(snaps, balances, chosen, trs),
         NEW from, NEW to, NEW amount \in Nat,
         NEW chosen2, NEW trs2 \in Seq(Transfers),
         Accounted(chosen, trs, chosen2, trs2, from, to, amount),
         NEW u \in Accounts
  PROVE  PowerIn(snaps, balances, u)
            - (IF u = from /\ from # to THEN amount ELSE 0)
            + (IF u = to /\ from # to THEN amount ELSE 0)
            + Sent(chosen2, trs2, u)
          = Total(balances, DelegatorsIn(chosen2, u)) + Due(chosen2, trs2, u)
<1> DEFINE power  == PowerIn(snaps, balances, u)
           held   == Total(balances, DelegatorsIn(chosen, u))
           held2  == Total(balances, DelegatorsIn(chosen2, u))
           sent   == Sent(chosen, trs, u)
           sent2  == Sent(chosen2, trs2, u)
           due    == Due(chosen, trs, u)
           due2   == Due(chosen2, trs2, u)
           out    == IF u = from /\ from # to THEN amount ELSE 0
           in     == IF u = to /\ from # to THEN amount ELSE 0
<1>1. sent \in Nat /\ due \in Nat /\ sent2 \in Nat /\ due2 \in Nat
  BY OnTheirWay
<1>2. held2 \in Nat
  BY DelegatorsFinite, TokensFinite
<1>3. power + sent = held + due /\ held \in Nat
  BY FollowedPower DEF HookBooks
<1>4. power \in Nat
  BY PowersNatural DEF HookBooks, PowersIn
<1>5. held2 + due2 + sent = held + due + sent2 - out + in
  BY DEF Accounted
<1>6. out \in Nat /\ in \in Nat
  OBVIOUS
<1>7. power - out + in + sent2 = held2 + due2
  <2> HIDE DEF power, held, held2, sent, sent2, due, due2, out, in
  <2> QED BY <1>1, <1>2, <1>3, <1>4, <1>5, <1>6
<1> QED BY <1>7

\* A move of power from one delegatee to another, or to itself, keeps the books
\* when the balances, the delegates and what is on its way account for it.
LEMMA MoveKeepsBooks ==
  ASSUME block \in 1 .. Uint128Range - 1,
         balances \in [Accounts -> Nat],
         NEW snaps \in [Accounts -> Seq(Snapshot)], NEW chosen, NEW trs \in Seq(Transfers),
         HookBooks(snaps, balances, chosen, trs),
         NEW from \in Accounts, NEW to \in Accounts, NEW amount \in Nat,
         CanMove(snaps, from, to, amount),
         NEW chosen2 \in [Accounts -> Addresses], NEW trs2 \in Seq(Transfers),
         Accounted(chosen, trs, chosen2, trs2, from, to, amount)
  PROVE  HookBooks(MoveDelegatesByType(snaps, from, to, amount), balances, chosen2, trs2)
<1> DEFINE new == MoveDelegatesByType(snaps, from, to, amount)
           power(u) == PowerIn(snaps, balances, u)
           sent2(u) == Sent(chosen2, trs2, u)
           owed2(u) == Total(balances, DelegatorsIn(chosen2, u)) + Due(chosen2, trs2, u)
<1>1. /\ snaps \in [Accounts -> Seq(Snapshot)]
      /\ Follows(snaps, balances, chosen, trs)
      /\ Total(PowersIn(snaps, balances), Accounts) = Supply
  BY DEF HookBooks
<1>2. \A u \in Accounts : /\ power(u) - (IF u = from /\ from # to THEN amount ELSE 0)
                                      + (IF u = to /\ from # to THEN amount ELSE 0)
                                      + sent2(u) = owed2(u)
                          /\ power(u) \in Nat
                          /\ snaps[u] # <<>> => power(u) = LastOf(snaps[u]).value
  <2> TAKE u \in Accounts
  <2>1. power(u) - (IF u = from /\ from # to THEN amount ELSE 0)
                 + (IF u = to /\ from # to THEN amount ELSE 0)
                 + sent2(u) = owed2(u)
    BY PowerAfterMove
  <2>2. power(u) \in Nat
    BY <1>1, PowersNatural DEF PowersIn
  <2>3. snaps[u] # <<>> => power(u) = LastOf(snaps[u]).value
    BY DEF PowerIn
  <2> HIDE DEF power, sent2, owed2
  <2> QED BY <2>1, <2>2, <2>3
<1>3. \A u \in Accounts : (from = to \/ u \notin {from, to}) /\ snaps[u] = <<>> =>
         DelegatorsIn(chosen2, u) = {u} /\ Untouched(chosen2, trs2, u)
  BY <1>1 DEF Follows, Accounted
<1>4. /\ new \in [Accounts -> Seq(Snapshot)]
      /\ Total(PowersIn(new, balances), Accounts) = Supply
      /\ \A u \in Accounts : from = to \/ u \notin {from, to} => new[u] = snaps[u]
      /\ from # to => /\ new[from] # <<>> /\ new[to] # <<>>
                      /\ LastOf(new[from]).value = power(from) - amount
                      /\ LastOf(new[to]).value = power(to) + amount
  <2>1. CASE from = to
    <3>1. new = snaps
      BY <2>1 DEF MoveDelegatesByType
    <3> HIDE DEF new
    <3> QED BY <1>1, <2>1, <3>1
  <2>2. CASE from # to
    <3>1. amount <= power(from)
      BY <2>2, AccountsAssumption DEF CanMove, PreviousPower, PowerIn
    <3>2. /\ new \in [Accounts -> Seq(Snapshot)]
          /\ \A u \in Accounts \ {from, to} : new[u] = snaps[u]
          /\ new[from] # <<>> /\ new[to] # <<>>
          /\ LastOf(new[from]).value = PowerIn(snaps, balances, from) - amount
          /\ LastOf(new[to]).value = PowerIn(snaps, balances, to) + amount
          /\ Total(PowersIn(new, balances), Accounts) = Supply
      <4>1. amount <= PowerIn(snaps, balances, from)
        BY <3>1
      <4>2. Written(snaps, from, to, amount, new)
        BY <1>1, <2>2, <4>1, MoveWrites
      <4> QED BY <4>2 DEF Written
    <3> HIDE DEF new
    <3> QED BY <2>2, <3>2
  <2> QED BY <2>1, <2>2
<1>5. Follows(new, balances, chosen2, trs2)
  <2> SUFFICES ASSUME NEW u \in Accounts
               PROVE  IF new[u] = <<>>
                      THEN DelegatorsIn(chosen2, u) = {u} /\ Untouched(chosen2, trs2, u)
                      ELSE LastOf(new[u]).value + sent2(u) = owed2(u)
    BY DEF Follows
  <2> HIDE DEF new, power, sent2, owed2
  <2>1. CASE from # to /\ u = from
    <3>1. power(u) - amount + 0 + sent2(u) = owed2(u) /\ power(u) \in Nat
      BY <1>2, <2>1
    <3> QED BY <1>4, <2>1, <3>1
  <2>2. CASE from # to /\ u = to
    <3>1. power(u) - 0 + amount + sent2(u) = owed2(u) /\ power(u) \in Nat
      BY <1>2, <2>2
    <3> QED BY <1>4, <2>2, <3>1
  <2>3. CASE from = to \/ u \notin {from, to}
    <3>1. new[u] = snaps[u]
      BY <1>4, <2>3
    <3>2. CASE snaps[u] = <<>>
      BY <1>3, <2>3, <3>1, <3>2
    <3>3. CASE snaps[u] # <<>>
      <4>1. power(u) - 0 + 0 + sent2(u) = owed2(u) /\ power(u) \in Nat
        BY <1>2, <2>3
      <4>2. LastOf(snaps[u]).value = power(u)
        BY <1>2, <3>3
      <4> QED BY <3>1, <3>3, <4>1, <4>2
    <3> QED BY <3>2, <3>3
  <2> QED BY <2>1, <2>2, <2>3
<1> QED BY <1>4, <1>5 DEF HookBooks

-----------------------------------------------------------------------------
\* Opening a transfer accounts for the power it moves by what is on its way.
LEMMA OpeningAccounted ==
  ASSUME balances \in [Accounts -> Nat], NEW chosen,
         NEW trs \in Seq(Transfers), NEW tr \in Transfers
  PROVE  Accounted(chosen, trs, chosen, Append(trs, tr),
                   GetDelegatee(chosen, tr.from), GetDelegatee(chosen, tr.to), tr.amount)
<1> DEFINE from == GetDelegatee(chosen, tr.from)
           to == GetDelegatee(chosen, tr.to)
           new == Append(trs, tr)
<1> SUFFICES ASSUME NEW u \in Accounts
             PROVE  /\ Total(balances, DelegatorsIn(chosen, u)) + Due(chosen, new, u)
                          + Sent(chosen, trs, u)
                          = Total(balances, DelegatorsIn(chosen, u)) + Due(chosen, trs, u)
                            + Sent(chosen, new, u)
                            - (IF u = from /\ from # to THEN tr.amount ELSE 0)
                            + (IF u = to /\ from # to THEN tr.amount ELSE 0)
                    /\ (from = to \/ u \notin {from, to}) /\ Untouched(chosen, trs, u) =>
                          Untouched(chosen, new, u)
  BY DEF Accounted
<1> DEFINE held   == Total(balances, DelegatorsIn(chosen, u))
           amount == tr.amount
           sent   == Sent(chosen, trs, u)
           sent2  == Sent(chosen, new, u)
           due    == Due(chosen, trs, u)
           due2   == Due(chosen, new, u)
<1>1. held \in Nat /\ amount \in Nat
  BY DelegatorsFinite, TokensFinite, TransferType
<1>2. /\ sent \in Nat /\ due \in Nat
      /\ sent2 = sent + (IF from = u THEN amount ELSE 0)
      /\ due2 = due + (IF to = u THEN amount ELSE 0)
      /\ Untouched(chosen, new, u) <=> Untouched(chosen, trs, u) /\ (from = u <=> to = u)
  BY OneMoreTransfer
<1> HIDE DEF from, to, new, held, amount, sent, sent2, due, due2
<1>3. held + due2 + sent = held + due + sent2
                           - (IF u = from /\ from # to THEN amount ELSE 0)
                           + (IF u = to /\ from # to THEN amount ELSE 0)
  BY <1>1, <1>2
<1>4. (from = to \/ u \notin {from, to}) /\ Untouched(chosen, trs, u) =>
         Untouched(chosen, new, u)
  BY <1>2
<1> QED BY <1>3, <1>4 DEF held, amount, sent, sent2, due, due2

\* A delegation accounts for it by the delegator's balance: what is on its way
\* is on its way between others.
LEMMA DelegationAccounted ==
  ASSUME balances \in [Accounts -> Nat], NEW chosen \in [Accounts -> Addresses],
         NEW trs \in Seq(Transfers), NEW a \in Accounts, NEW to \in Accounts,
         \A i \in DOMAIN trs : a \notin {trs[i].from, trs[i].to},
         NEW chosen2, chosen2 = [chosen EXCEPT ![a] = to]
  PROVE  Accounted(chosen, trs, chosen2, trs, GetDelegatee(chosen, a), to, balances[a])
<1> DEFINE from == GetDelegatee(chosen, a)
           amount == balances[a]
<1>1. PowerMoves(balances, chosen, balances, chosen2, from, to, amount)
  BY DelegationMovesPower
<1>2. \A i \in DOMAIN trs :
         /\ GetDelegatee(chosen2, trs[i].from) = GetDelegatee(chosen, trs[i].from)
         /\ GetDelegatee(chosen2, trs[i].to) = GetDelegatee(chosen, trs[i].to)
  BY DEF GetDelegatee
<1>3. \A u : /\ Sent(chosen2, trs, u) = Sent(chosen, trs, u)
             /\ Due(chosen2, trs, u) = Due(chosen, trs, u)
             /\ Untouched(chosen2, trs, u) <=> Untouched(chosen, trs, u)
  BY <1>2 DEF Sent, Due, Untouched
<1>4. amount \in Nat
  OBVIOUS
<1> HIDE DEF from, amount
<1> SUFFICES ASSUME NEW u \in Accounts
             PROVE  /\ Total(balances, DelegatorsIn(chosen2, u)) + Due(chosen, trs, u)
                          + Sent(chosen, trs, u)
                          = Total(balances, DelegatorsIn(chosen, u)) + Due(chosen, trs, u)
                            + Sent(chosen, trs, u)
                            - (IF u = from /\ from # to THEN amount ELSE 0)
                            + (IF u = to /\ from # to THEN amount ELSE 0)
                    /\ from = to \/ u \notin {from, to} =>
                          DelegatorsIn(chosen2, u) = DelegatorsIn(chosen, u)
  BY <1>3 DEF Accounted, from, amount
<1> DEFINE held == Total(balances, DelegatorsIn(chosen, u))
           held2 == Total(balances, DelegatorsIn(chosen2, u))
           sent == Sent(chosen, trs, u)
           due == Due(chosen, trs, u)
<1>5. held \in Nat /\ held2 \in Nat /\ sent \in Nat /\ due \in Nat
  BY DelegatorsFinite, TokensFinite, OnTheirWay
<1>6. /\ held2 = held - (IF u = from /\ from # to THEN amount ELSE 0)
                      + (IF u = to /\ from # to THEN amount ELSE 0)
      /\ from = to \/ u \notin {from, to} => DelegatorsIn(chosen2, u) = DelegatorsIn(chosen, u)
  BY <1>1 DEF PowerMoves
<1> HIDE DEF held, held2, sent, due
<1>7. held2 + due + sent = held + due + sent
                            - (IF u = from /\ from # to THEN amount ELSE 0)
                            + (IF u = to /\ from # to THEN amount ELSE 0)
  BY <1>4, <1>5, <1>6
<1> QED BY <1>6, <1>7 DEF held, held2, sent, due

\* Closing the innermost transfer keeps the books: the tokens on their way are
\* held now, and no balance that is read as a power changes.
LEMMA ClosingKeepsBooks ==
  ASSUME NEW snaps \in [Accounts -> Seq(Snapshot)], NEW bal, NEW bal2,
         NEW chosen, NEW trs \in Seq(Transfers), NEW tr \in Transfers,
         HookBooks(snaps, bal, chosen, Append(trs, tr)),
         IsTransfer(Accounts, bal, bal2, tr.from, tr.to, tr.amount)
  PROVE  HookBooks(snaps, bal2, chosen, trs)
<1> DEFINE from == GetDelegatee(chosen, tr.from)
           to == GetDelegatee(chosen, tr.to)
           amount == tr.amount
           old == Append(trs, tr)
<1>1. /\ chosen \in [Accounts -> Addresses]
      /\ Follows(snaps, bal, chosen, old)
      /\ Total(PowersIn(snaps, bal), Accounts) = Supply
  BY DEF HookBooks
<1>2. bal \in [Accounts -> Nat] /\ bal2 \in [Accounts -> Nat] /\ amount \in Nat
  BY DEF IsTransfer
<1>3. PowerMoves(bal, chosen, bal2, chosen, from, to, amount)
  BY <1>1, TransferMovesPower
<1>4. ASSUME NEW u \in Accounts
      PROVE  /\ Sent(chosen, trs, u) \in Nat /\ Due(chosen, trs, u) \in Nat
             /\ Sent(chosen, old, u) = Sent(chosen, trs, u) + (IF from = u THEN amount ELSE 0)
             /\ Due(chosen, old, u) = Due(chosen, trs, u) + (IF to = u THEN amount ELSE 0)
             /\ Untouched(chosen, old, u) => Untouched(chosen, trs, u) /\ (from = u <=> to = u)
             /\ Total(bal, DelegatorsIn(chosen, u)) \in Nat
             /\ Total(bal2, DelegatorsIn(chosen, u)) =
                   Total(bal, DelegatorsIn(chosen, u))
                     - (IF u = from /\ from # to THEN amount ELSE 0)
                     + (IF u = to /\ from # to THEN amount ELSE 0)
  <2>1. Total(bal, DelegatorsIn(chosen, u)) \in Nat
    BY <1>2, DelegatorsFinite, TokensFinite
  <2>2. Total(bal2, DelegatorsIn(chosen, u)) =
          Total(bal, DelegatorsIn(chosen, u))
            - (IF u = from /\ from # to THEN amount ELSE 0)
            + (IF u = to /\ from # to THEN amount ELSE 0)
    BY <1>3 DEF PowerMoves
  <2>3. /\ Sent(chosen, trs, u) \in Nat /\ Due(chosen, trs, u) \in Nat
        /\ Sent(chosen, old, u) = Sent(chosen, trs, u) + (IF from = u THEN amount ELSE 0)
        /\ Due(chosen, old, u) = Due(chosen, trs, u) + (IF to = u THEN amount ELSE 0)
        /\ Untouched(chosen, old, u) <=> Untouched(chosen, trs, u) /\ (from = u <=> to = u)
    BY OneMoreTransfer
  <2> HIDE DEF from, to, amount, old
  <2> QED BY <2>1, <2>2, <2>3
<1> HIDE DEF from, to, amount, old
<1>5. ASSUME NEW u \in Accounts, snaps[u] = <<>>
      PROVE  /\ DelegatorsIn(chosen, u) = {u} /\ Untouched(chosen, trs, u)
             /\ bal2[u] = bal[u]
  <2>1. DelegatorsIn(chosen, u) = {u} /\ Untouched(chosen, old, u)
    BY <1>1, <1>5 DEF Follows
  <2>2. Total(bal, {u}) = bal[u] /\ Total(bal2, {u}) = bal2[u] /\ bal[u] \in Nat
    BY <1>2, TotalSingleton
  <2>3. Untouched(chosen, trs, u) /\ (from = u <=> to = u)
    BY <1>4, <2>1
  <2>4. Total(bal2, DelegatorsIn(chosen, u)) = Total(bal, DelegatorsIn(chosen, u))
    BY <1>2, <1>4, <2>3
  <2> QED BY <2>1, <2>2, <2>3, <2>4
<1>6. Follows(snaps, bal2, chosen, trs)
  <2> SUFFICES ASSUME NEW u \in Accounts, snaps[u] # <<>>
               PROVE  LastOf(snaps[u]).value + Sent(chosen, trs, u)
                        = Total(bal2, DelegatorsIn(chosen, u)) + Due(chosen, trs, u)
    BY <1>5 DEF Follows
  <2> DEFINE power == LastOf(snaps[u]).value
             held  == Total(bal, DelegatorsIn(chosen, u))
             held2 == Total(bal2, DelegatorsIn(chosen, u))
             sent  == Sent(chosen, trs, u)
             due   == Due(chosen, trs, u)
  <2>1. power + Sent(chosen, old, u) = held + Due(chosen, old, u)
    BY <1>1 DEF Follows
  <2>2. /\ sent \in Nat /\ due \in Nat /\ held \in Nat
        /\ Sent(chosen, old, u) = sent + (IF from = u THEN amount ELSE 0)
        /\ Due(chosen, old, u) = due + (IF to = u THEN amount ELSE 0)
        /\ held2 = held - (IF u = from /\ from # to THEN amount ELSE 0)
                        + (IF u = to /\ from # to THEN amount ELSE 0)
    BY <1>4
  <2>3. power \in Nat
    <3>1. PowerIn(snaps, bal, u) \in Nat
      BY <1>2, PowersNatural DEF PowersIn
    <3> QED BY <3>1 DEF PowerIn
  <2> HIDE DEF power, held, held2, sent, due
  <2>4. power + sent = held2 + due
    BY <1>2, <2>1, <2>2, <2>3
  <2> QED BY <2>4 DEF power, held, held2, sent, due
<1>7. Total(PowersIn(snaps, bal2), Accounts) = Supply
  <2>1. \A u \in Accounts : PowersIn(snaps, bal2)[u] = PowersIn(snaps, bal)[u]
    BY <1>5 DEF PowersIn, PowerIn
  <2> QED BY <1>1, <2>1, TotalAgree
<1> QED BY <1>1, <1>6, <1>7 DEF HookBooks

-----------------------------------------------------------------------------
\* Blocks fit a snapshot.
LEMMA HookBlock ==
  ASSUME HookInv
  PROVE  block \in 1 .. Uint128Range - 1
BY MaxBlockAssumption, Uint128RangeAssumption DEF HookInv

\* A transfer up to the call of its hook.
LEMMA OpenKeeps ==
  ASSUME HookInv, NEW tr \in Transfers, OpenTransfer(tr)
  PROVE  HookInv'
<1>1. /\ tr.from \in Accounts /\ tr.to \in Accounts /\ tr.amount \in Nat
      /\ open' = Append(open, tr) /\ open \in Seq(Transfers)
      /\ block \in 1 .. Uint128Range - 1
      /\ UNCHANGED <<balances, delegates, block>>
  BY TransferType, HookBlock DEF OpenTransfer, BeforeTokenTransfer, HookInv
<1>2. Append(open, tr) \in Seq(Transfers)
  BY <1>1
<1>3. ASSUME NEW t \in DelegationTypes
      PROVE  HookBooks(snapshots'[t], balances, delegates[t], Append(open, tr))
  <2> DEFINE snaps == snapshots[t]
             chosen == delegates[t]
             from == GetDelegatee(chosen, tr.from)
             to == GetDelegatee(chosen, tr.to)
  <2>1. /\ CanMove(snaps, from, to, tr.amount)
        /\ snapshots'[t] = MoveDelegatesByType(snaps, from, to, tr.amount)
    BY DEF OpenTransfer, BeforeTokenTransfer, MovePowers
  <2>2. /\ snaps \in [Accounts -> Seq(Snapshot)] /\ chosen \in [Accounts -> Addresses]
        /\ HookBooks(snaps, balances, chosen, open)
        /\ balances \in [Accounts -> Nat]
    BY DEF HookInv
  <2>3. from \in Accounts /\ to \in Accounts
    BY <1>1, <2>2, DelegateeType
  <2>4. Accounted(chosen, open, chosen, Append(open, tr), from, to, tr.amount)
    BY <1>1, <2>2, OpeningAccounted
  <2> HIDE DEF snaps, chosen, from, to
  <2>5. HookBooks(MoveDelegatesByType(snaps, from, to, tr.amount), balances, chosen, Append(open, tr))
    BY <1>1, <1>2, <2>1, <2>2, <2>3, <2>4, MoveKeepsBooks
  <2> QED BY <2>1, <2>5 DEF chosen
<1>4. snapshots' \in [DelegationTypes -> [Accounts -> Seq(Snapshot)]]
  <2>1. \A t \in DelegationTypes : snapshots'[t] \in [Accounts -> Seq(Snapshot)]
    BY <1>3 DEF HookBooks
  <2>2. snapshots' = [t \in DelegationTypes |-> snapshots'[t]]
    BY DEF OpenTransfer, BeforeTokenTransfer, MovePowers
  <2> QED BY <2>1, <2>2
<1> QED BY <1>1, <1>2, <1>3, <1>4 DEF HookInv

\* The transfers that are open are those that were, and the innermost.
LEMMA InnermostLast ==
  ASSUME NEW trs \in Seq(Transfers), trs # <<>>
  PROVE  /\ Front(trs) \in Seq(Transfers) /\ Last(trs) \in Transfers
         /\ trs = Append(Front(trs), Last(trs))
<1>1. Len(trs) \in Nat \ {0} /\ \A i \in 1 .. Len(trs) : trs[i] \in Transfers
  OBVIOUS
<1> QED BY <1>1 DEF Front, Last

\* The rest of the innermost transfer.
LEMMA CloseKeeps ==
  ASSUME HookInv, CloseTransfer
  PROVE  HookInv'
<1> DEFINE tr == Last(open)
           rest == Front(open)
<1>1. open \in Seq(Transfers) /\ open # <<>> /\ open' = rest
  BY DEF HookInv, CloseTransfer
<1>2. tr \in Transfers /\ rest \in Seq(Transfers) /\ open = Append(rest, tr)
  BY <1>1, InnermostLast
<1>3. /\ MoveTokens(tr.from, tr.to, tr.amount)
      /\ UNCHANGED <<snapshots, delegates, block>>
  BY DEF CloseTransfer, Transfer, TransferFrom
<1> HIDE DEF tr, rest
<1>4. tr.from \in Accounts /\ tr.to \in Accounts /\ tr.amount \in Nat
  BY <1>2, TransferType
<1>5. IsTransfer(Accounts, balances, balances', tr.from, tr.to, tr.amount)
  BY <1>3, <1>4 DEF MoveTokens, IsTransfer, HookInv
<1>6. balances' \in [Accounts -> Nat] /\ Total(balances', Accounts) = Supply
  <2>1. Total(balances, Accounts) = Supply /\ Supply <= Supply
    BY SupplyAssumption DEF HookInv
  <2> QED BY <1>5, <2>1, TransferKeepsLedger
<1>7. ASSUME NEW t \in DelegationTypes
      PROVE  HookBooks(snapshots[t], balances', delegates[t], rest)
  <2> DEFINE snaps == snapshots[t]
             chosen == delegates[t]
  <2>1. /\ snaps \in [Accounts -> Seq(Snapshot)]
        /\ HookBooks(snaps, balances, chosen, Append(rest, tr))
    BY <1>2 DEF HookInv
  <2> HIDE DEF snaps, chosen
  <2>2. HookBooks(snaps, balances', chosen, rest)
    BY <1>2, <1>5, <2>1, ClosingKeepsBooks
  <2> QED BY <2>2 DEF snaps, chosen
<1> QED BY <1>1, <1>2, <1>3, <1>6, <1>7 DEF HookInv

\* _delegateByType for any of the types, by an account between which and others
\* nothing is on its way.
LEMMA DelegationKeeps ==
  ASSUME HookInv, NEW a \in Accounts, a \notin Parties, NEW delegatee \in Addresses,
         NEW types \in SUBSET DelegationTypes,
         DelegateTypes(a, delegatee, types),
         UNCHANGED <<balances, block, open>>
  PROVE  HookInv'
<1>1. /\ delegatee \in Accounts
      /\ block \in 1 .. Uint128Range - 1
      /\ balances \in [Accounts -> Nat]
      /\ open \in Seq(Transfers)
  BY HookBlock DEF DelegateTypes, Addresses, HookInv
<1>2. \A i \in DOMAIN open : a \notin {open[i].from, open[i].to}
  BY DEF Parties
<1>3. ASSUME NEW t \in DelegationTypes
      PROVE  HookBooks(snapshots'[t], balances, delegates'[t], open)
  <2> DEFINE snaps == snapshots[t]
             chosen == delegates[t]
             chosen2 == delegates'[t]
             from == GetDelegatee(chosen, a)
             amount == balances[a]
  <2>1. /\ snaps \in [Accounts -> Seq(Snapshot)] /\ chosen \in [Accounts -> Addresses]
        /\ HookBooks(snaps, balances, chosen, open)
    BY DEF HookInv
  <2>2. CASE t \notin types
    BY <2>1, <2>2 DEF DelegateTypes
  <2>3. CASE t \in types
    <3>1. /\ CanMove(snaps, from, delegatee, amount)
          /\ snapshots'[t] = MoveDelegatesByType(snaps, from, delegatee, amount)
          /\ chosen2 = [chosen EXCEPT ![a] = delegatee]
      BY <2>3 DEF DelegateTypes
    <3>2. from \in Accounts /\ amount \in Nat
      BY <1>1, <2>1, DelegateeType
    <3>3. chosen2 \in [Accounts -> Addresses]
      BY <2>1, <3>1
    <3>4. Accounted(chosen, open, chosen2, open, from, delegatee, amount)
      <4> HIDE DEF chosen, chosen2
      <4> QED BY <1>1, <1>2, <2>1, <3>1, DelegationAccounted
    <3> HIDE DEF snaps, chosen, chosen2, from, amount
    <3>5. HookBooks(MoveDelegatesByType(snaps, from, delegatee, amount), balances, chosen2, open)
      BY <1>1, <2>1, <3>1, <3>2, <3>3, <3>4, MoveKeepsBooks
    <3> QED BY <3>1, <3>5 DEF chosen2
  <2> QED BY <2>2, <2>3
<1>4. /\ snapshots' \in [DelegationTypes -> [Accounts -> Seq(Snapshot)]]
      /\ delegates' \in [DelegationTypes -> [Accounts -> Addresses]]
  <2>1. \A t \in DelegationTypes : /\ snapshots'[t] \in [Accounts -> Seq(Snapshot)]
                                   /\ delegates'[t] \in [Accounts -> Addresses]
    BY <1>3 DEF HookBooks
  <2>2. /\ snapshots' = [t \in DelegationTypes |-> snapshots'[t]]
        /\ delegates' = [t \in DelegationTypes |-> delegates'[t]]
    BY DEF DelegateTypes
  <2> QED BY <2>1, <2>2
<1> QED BY <1>3, <1>4 DEF HookInv

\* What is not about allowances or nonces is not changed by a step that changes
\* only them.
LEMMA RestKeeps ==
  ASSUME HookInv, UNCHANGED <<balances, snapshots, delegates, block, open>>
  PROVE  HookInv'
BY DEF HookInv

\* Every step keeps the invariant.
LEMMA HookStep ==
  ASSUME HookInv, [HookNext]_hookVars
  PROVE  HookInv'
<1>1. /\ Delegatees \subseteq Addresses
      /\ \A t \in DelegationTypes : DelegateesByType[t] \subseteq Addresses
  BY InputsAssumption
<1>2. ASSUME NEW tr \in Transfers, OpenTransfer(tr) PROVE HookInv'
  BY <1>2, OpenKeeps
<1>3. CASE CloseTransfer
  BY <1>3, CloseKeeps
<1>4. ASSUME NEW grant \in Grants, ApprovalCall(grant) PROVE HookInv'
  <2>1. UNCHANGED <<balances, snapshots, delegates, block, open>>
    BY <1>4 DEF ApprovalCall, Approve, IncreaseAllowance, DecreaseAllowance
  <2> QED BY <2>1, RestKeeps
<1>5. ASSUME NEW caller \in Accounts, DelegateCall(caller) PROVE HookInv'
  <2>1. caller \notin Parties /\ UNCHANGED open
    BY <1>5 DEF DelegateCall
  <2>2. ASSUME NEW t \in DelegationTypes, NEW delegatee \in DelegateesByType[t],
               DelegateByType(caller, delegatee, t)
        PROVE  HookInv'
    <3>1. delegatee \in Addresses /\ {t} \in SUBSET DelegationTypes
      BY <1>1
    <3> QED BY <2>1, <2>2, <3>1, DelegationKeeps DEF DelegateByType
  <2>3. ASSUME NEW delegatee \in Delegatees, Delegate(caller, delegatee)
        PROVE  HookInv'
    BY <1>1, <2>1, <2>3, DelegationKeeps DEF Delegate
  <2> QED BY <1>5, <2>2, <2>3 DEF DelegateCall
<1>6. ASSUME NEW m \in SignedMessages, RelayInHook(m) PROVE HookInv'
  <2>1. UNCHANGED open
    BY <1>6 DEF RelayInHook
  <2>2. CASE Permit(m)
    <3>1. UNCHANGED <<balances, snapshots, delegates, block>>
      BY <2>2 DEF Permit
    <3> QED BY <2>1, <3>1, RestKeeps
  <2>3. CASE DelegateByTypeBySig(m)
    <3>1. /\ m.signer \in Accounts /\ m.delegatee \in Addresses
          /\ {m.delegationType} \in SUBSET DelegationTypes
          /\ m.signer \notin Parties
      BY <1>6, <2>3, InputsAssumption DEF DelegateByTypeBySig, RelayInHook, Permits, Delegations
    <3> QED BY <2>1, <2>3, <3>1, DelegationKeeps DEF DelegateByTypeBySig
  <2>4. CASE DelegateBySig(m)
    <3>1. /\ m.signer \in Accounts /\ m.delegatee \in Addresses
          /\ m.signer \notin Parties
      BY <1>6, <2>4, InputsAssumption DEF DelegateBySig, RelayInHook, Permits, Delegations
    <3> QED BY <2>1, <2>4, <3>1, DelegationKeeps DEF DelegateBySig
  <2> QED BY <1>6, <2>2, <2>3, <2>4 DEF RelayInHook, Relay
<1>7. CASE UNCHANGED hookVars
  BY <1>7, RestKeeps DEF hookVars, vars
<1> QED BY <1>2, <1>3, <1>4, <1>5, <1>6, <1>7 DEF HookNext

\* In the first states every power is a balance, in a history or not.
LEMMA HookInitially ==
  ASSUME HookInit
  PROVE  HookInv
<1>1. /\ balances \in [Accounts -> Nat]
      /\ \A a \in Accounts : balances[a] \in 0 .. Supply
      /\ Total(balances, Accounts) = Supply
      /\ open = <<>>
      /\ block = 1
  BY DEF HookInit, Init
<1>2. delegates = [t \in DelegationTypes |-> [a \in Accounts |-> ZeroAddress]]
  BY DEF HookInit, Init
<1>3. PICK touched \in SUBSET Accounts :
        snapshots = [t \in DelegationTypes |-> [a \in Accounts |->
                IF t = VOTING_POWER /\ a \in touched
                THEN <<[blockNumber |-> 0, value |-> balances[a]]>>
                ELSE <<>>]]
  BY DEF HookInit, Init
<1>4. ASSUME NEW t \in DelegationTypes, NEW u \in Accounts
      PROVE  /\ snapshots[t][u] \in Seq(Snapshot)
             /\ snapshots[t][u] # <<>> => LastOf(snapshots[t][u]).value = balances[u]
             /\ DelegatorsIn(delegates[t], u) = {u}
             /\ Sent(delegates[t], open, u) = 0 /\ Due(delegates[t], open, u) = 0
             /\ Untouched(delegates[t], open, u)
  <2>1. [blockNumber |-> 0, value |-> balances[u]] \in Snapshot
    BY <1>1, SupplyAssumption, Uint128RangeAssumption DEF Snapshot
  <2>2. /\ snapshots[t][u] \in Seq(Snapshot)
        /\ snapshots[t][u] # <<>> => LastOf(snapshots[t][u]).value = balances[u]
    BY <1>3, <2>1 DEF LastOf
  <2>3. DelegatorsIn(delegates[t], u) = {u}
    BY <1>2 DEF DelegatorsIn, GetDelegatee
  <2>4. Untouched(delegates[t], open, u)
    BY <1>1 DEF Untouched
  <2>5. /\ Sent(delegates[t], open, u) = Total(Amounts(open), {})
        /\ Due(delegates[t], open, u) = Total(Amounts(open), {})
    BY <1>1 DEF Sent, Due
  <2>6. Total(Amounts(open), {}) = 0
    BY TotalSingleton, FS_EmptySet DEF Total, Tokens
  <2> QED BY <2>2, <2>3, <2>4, <2>5, <2>6
<1>5. ASSUME NEW t \in DelegationTypes
      PROVE  HookBooks(snapshots[t], balances, delegates[t], open)
  <2>1. snapshots[t] \in [Accounts -> Seq(Snapshot)] /\ delegates[t] \in [Accounts -> Addresses]
    BY <1>2, <1>3, <1>4 DEF Addresses
  <2>2. Follows(snapshots[t], balances, delegates[t], open)
    <3> SUFFICES ASSUME NEW u \in Accounts, snapshots[t][u] # <<>>
                 PROVE  balances[u] + 0 = Total(balances, {u}) + 0
      BY <1>4 DEF Follows
    <3> QED BY <1>1, TotalSingleton
  <2>3. Total(PowersIn(snapshots[t], balances), Accounts) = Supply
    <3>1. \A u \in Accounts : PowersIn(snapshots[t], balances)[u] = balances[u]
      BY <1>4 DEF PowersIn, PowerIn
    <3> QED BY <1>1, <3>1, TotalAgree
  <2> QED BY <2>1, <2>2, <2>3 DEF HookBooks
<1>6. /\ snapshots \in [DelegationTypes -> [Accounts -> Seq(Snapshot)]]
      /\ delegates \in [DelegationTypes -> [Accounts -> Addresses]]
  BY <1>2, <1>3, <1>5 DEF HookBooks
<1> QED BY <1>1, <1>5, <1>6, MaxBlockAssumption DEF HookInv

\* Whatever the hooks call back and however deep, the power in a history is what
\* its delegators hold with the tokens on their way counted where they go, and
\* a power read from a balance is that of an address nothing is on its way to.
THEOREM OpenTransfersAreCounted == HookSpec => []PowersMatchOpenTransfers
<1>1. HookInv => PowersMatchOpenTransfers
  <2> SUFFICES ASSUME HookInv, NEW t \in DelegationTypes, NEW u \in Accounts
               PROVE  IF snapshots[t][u] = <<>>
                      THEN Delegators(t, u) = {u} /\ Leaving(t, u) = Arriving(t, u)
                      ELSE LastOf(snapshots[t][u]).value + Leaving(t, u)
                              = PowerOf(t, u) + Arriving(t, u)
    BY DEF PowersMatchOpenTransfers
  <2>1. Follows(snapshots[t], balances, delegates[t], open) /\ open \in Seq(Transfers)
    BY DEF HookInv, HookBooks
  <2>2. /\ Leaving(t, u) = Sent(delegates[t], open, u)
        /\ Arriving(t, u) = Due(delegates[t], open, u)
    BY DEF Leaving, Arriving, OpenAmounts, Amounts, Sent, Due
  <2>3. /\ Delegators(t, u) = DelegatorsIn(delegates[t], u)
        /\ PowerOf(t, u) = Total(balances, DelegatorsIn(delegates[t], u))
    BY DEF Delegators, PowerOf, DelegatorsIn
  <2>4. CASE snapshots[t][u] = <<>>
    BY <2>1, <2>2, <2>3, <2>4, OnTheirWay DEF Follows
  <2>5. CASE snapshots[t][u] # <<>>
    BY <2>1, <2>2, <2>3, <2>5 DEF Follows
  <2> QED BY <2>4, <2>5
<1> QED BY <1>1, HookInitially, HookStep, PTL DEF HookSpec

=============================================================================
