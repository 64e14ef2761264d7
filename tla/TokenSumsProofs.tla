-------------------------- MODULE TokenSumsProofs --------------------------
(***************************************************************************)
(* What the proofs about the contracts need to know of Total: it is a      *)
(* natural number, an account can be taken out of it, it depends only on   *)
(* the summed accounts, it adds up over disjoint groups of them, and what  *)
(* an update of one account does to it.                                    *)
(***************************************************************************)
EXTENDS TokenSums, Integers, FiniteSetTheorems, WellFoundedInduction, TLAPS

\* The tokens of one account are as many as its balance.
LEMMA TokensOfOne ==
  ASSUME NEW a, NEW n \in Nat
  PROVE  /\ IsFiniteSet({a} \X (1 .. n))
         /\ Cardinality({a} \X (1 .. n)) = n
<1>1. IsFiniteSet({a}) /\ Cardinality({a}) = 1
  BY FS_Singleton
<1>2. IsFiniteSet(1 .. n) /\ Cardinality(1 .. n) = n
  BY FS_Interval
<1> DEFINE A == {a}
           B == 1 .. n
<1>3. IsFiniteSet(A) /\ Cardinality(A) = 1 /\ IsFiniteSet(B) /\ Cardinality(B) = n
  BY <1>1, <1>2
<1> HIDE DEF A, B
<1>4. IsFiniteSet(A \X B) /\ Cardinality(A \X B) = Cardinality(A) * Cardinality(B)
  BY <1>3, FS_Product
<1>5. Cardinality(A \X B) = n
  BY <1>3, <1>4
<1> QED BY <1>4, <1>5 DEF A, B

\* The tokens of finitely many accounts are finitely many.
LEMMA TokensFinite ==
  ASSUME NEW S, IsFiniteSet(S), NEW f, \A a \in S : f[a] \in Nat
  PROVE  /\ IsFiniteSet(Tokens(f, S))
         /\ Total(f, S) \in Nat
<1> DEFINE unit(a) == {a} \X (1 .. f[a])
           units == {unit(a) : a \in S}
           g == [a \in S |-> unit(a)]
<1>1. g \in Surjection(S, units)
  BY DEF Surjection
<1>2. IsFiniteSet(units)
  BY <1>1, FS_Surjection
<1>3. ASSUME NEW a \in S PROVE IsFiniteSet(unit(a))
  BY TokensOfOne
<1>4. IsFiniteSet(UNION units)
  <2>1. \A T \in units : IsFiniteSet(T)
    BY <1>3
  <2> HIDE DEF units
  <2> QED BY <1>2, <2>1, FS_UNION
<1> QED BY <1>4, FS_CardinalityType DEF Tokens, Total

\* One account's share can be taken out of a total.
LEMMA TotalRemove ==
  ASSUME NEW S, IsFiniteSet(S), NEW f, \A a \in S : f[a] \in Nat,
         NEW b \in S
  PROVE  Total(f, S) = Total(f, S \ {b}) + f[b]
<1> DEFINE rest == Tokens(f, S \ {b})
           mine == {b} \X (1 .. f[b])
<1>1. Tokens(f, S) = rest \cup mine
  BY DEF Tokens
<1>2. rest \cap mine = {}
  BY DEF Tokens
<1>3. IsFiniteSet(rest)
  BY TokensFinite, FS_RemoveElement
<1>4. IsFiniteSet(mine) /\ Cardinality(mine) = f[b]
  BY TokensOfOne
<1>5. Cardinality(rest \cup mine)
        = Cardinality(rest) + Cardinality(mine) - Cardinality({})
  <2> HIDE DEF rest, mine
  <2> QED BY <1>2, <1>3, <1>4, FS_Union
<1>6. Cardinality(rest) \in Nat
  BY <1>3, FS_CardinalityType
<1> QED BY <1>1, <1>4, <1>5, <1>6, FS_EmptySet DEF Total

\* A total only depends on the summed accounts.
LEMMA TotalAgree ==
  ASSUME NEW S, NEW f, NEW g, \A a \in S : f[a] = g[a]
  PROVE  Total(f, S) = Total(g, S)
BY DEF Total, Tokens

\* An account added to the sum adds its share.
LEMMA TotalAdd ==
  ASSUME NEW S, IsFiniteSet(S), NEW f, NEW b, b \notin S,
         \A a \in S \cup {b} : f[a] \in Nat
  PROVE  Total(f, S \cup {b}) = Total(f, S) + f[b]
<1>1. (S \cup {b}) \ {b} = S
  OBVIOUS
<1>2. IsFiniteSet(S \cup {b})
  BY FS_AddElement
<1> QED BY <1>1, <1>2, TotalRemove

\* A summed account holds no more than the total.
LEMMA TotalBounds ==
  ASSUME NEW S, IsFiniteSet(S), NEW f, \A a \in S : f[a] \in Nat,
         NEW b \in S
  PROVE  f[b] <= Total(f, S)
<1>1. Total(f, S) = Total(f, S \ {b}) + f[b]
  BY TotalRemove
<1>2. Total(f, S \ {b}) \in Nat
  BY TokensFinite, FS_RemoveElement
<1> QED BY <1>1, <1>2

\* Fewer accounts hold no more than all of them.
LEMMA TotalSubset ==
  ASSUME NEW S, IsFiniteSet(S), NEW f, \A a \in S : f[a] \in Nat,
         NEW T \in SUBSET S
  PROVE  Total(f, T) <= Total(f, S)
<1>1. IsFiniteSet(Tokens(f, S))
  BY TokensFinite
<1>2. Tokens(f, T) \in SUBSET Tokens(f, S)
  BY DEF Tokens
<1> QED BY <1>1, <1>2, FS_Subset DEF Total

\* The total of one account is its balance, and of none it is zero.
LEMMA TotalSingleton ==
  ASSUME NEW f, NEW b, f[b] \in Nat
  PROVE  /\ Total(f, {b}) = f[b]
         /\ Total(f, {}) = 0
<1>1. Tokens(f, {b}) = {b} \X (1 .. f[b])
  BY DEF Tokens
<1>2. Tokens(f, {}) = {}
  BY DEF Tokens
<1>3. Cardinality(Tokens(f, {b})) = f[b]
  BY <1>1, TokensOfOne
<1>4. Cardinality(Tokens(f, {})) = 0
  BY <1>2, FS_EmptySet
<1> QED BY <1>3, <1>4 DEF Total

\* Accounts that hold nothing hold nothing together.
LEMMA TotalZero ==
  ASSUME NEW S, NEW f, \A a \in S : f[a] = 0
  PROVE  Total(f, S) = 0
<1>1. Tokens(f, S) = {}
  BY DEF Tokens
<1> QED BY <1>1, FS_EmptySet DEF Total

\* A balance that changes changes the total by the difference.
LEMMA TotalUpdate ==
  ASSUME NEW S, IsFiniteSet(S), NEW f, \A a \in S : f[a] \in Nat,
         NEW g, NEW b \in S, g[b] \in Nat,
         \A a \in S \ {b} : g[a] = f[a]
  PROVE  Total(g, S) + f[b] = Total(f, S) + g[b]
<1>1. Total(f, S) = Total(f, S \ {b}) + f[b]
  BY TotalRemove
<1>2. Total(g, S) = Total(g, S \ {b}) + g[b]
  BY TotalRemove
<1>3. Total(g, S \ {b}) = Total(f, S \ {b})
  BY TotalAgree
<1>4. Total(f, S \ {b}) \in Nat
  BY TokensFinite, FS_RemoveElement
<1> QED BY <1>1, <1>2, <1>3, <1>4

\* bal2 is bal, the balances of the accounts of A, after a transfer: the debit
\* first, then the credit.
IsTransfer(A, bal, bal2, sender, recipient, amount) ==
    /\ bal \in [A -> Nat]
    /\ sender \in A /\ recipient \in A
    /\ amount \in Nat /\ amount <= bal[sender]
    /\ bal2 = [[bal EXCEPT ![sender] = @ - amount] EXCEPT ![recipient] = @ + amount]

\* What the accounts of S hold changes by what leaves and enters S.
TotalShifts(S, bal, bal2, sender, recipient, amount) ==
    Total(bal2, S) = Total(bal, S) - (IF sender \in S THEN amount ELSE 0)
                                   + (IF recipient \in S THEN amount ELSE 0)

\* The tokens of some accounts after amount moved from sender to recipient.
LEMMA TransferTotal ==
  ASSUME NEW A, NEW S \in SUBSET A, IsFiniteSet(S),
         NEW bal, NEW bal2, NEW sender, NEW recipient, NEW amount,
         IsTransfer(A, bal, bal2, sender, recipient, amount)
  PROVE  TotalShifts(S, bal, bal2, sender, recipient, amount)
<1> DEFINE mid == [bal EXCEPT ![sender] = @ - amount]
           out == IF sender \in S THEN amount ELSE 0
           in  == IF recipient \in S THEN amount ELSE 0
<1>1. /\ bal \in [A -> Nat] /\ sender \in A /\ recipient \in A
      /\ amount \in Nat /\ amount <= bal[sender]
  BY DEF IsTransfer
<1>2. /\ mid \in [A -> Nat]
      /\ \A a \in A \ {sender} : mid[a] = bal[a]
      /\ mid[sender] = bal[sender] - amount
  BY <1>1
<1>3. /\ bal2 \in [A -> Nat]
      /\ \A a \in A \ {recipient} : bal2[a] = mid[a]
      /\ bal2[recipient] = mid[recipient] + amount
  BY <1>1, <1>2 DEF IsTransfer
<1> HIDE DEF mid
<1>4. Total(bal, S) \in Nat /\ Total(mid, S) \in Nat /\ Total(bal2, S) \in Nat
  BY <1>1, <1>2, <1>3, TokensFinite
<1>5. Total(mid, S) = Total(bal, S) - out
  <2>1. CASE sender \in S
    <3>1. (\A a \in S : bal[a] \in Nat) /\ (\A a \in S \ {sender} : mid[a] = bal[a])
          /\ mid[sender] \in Nat /\ bal[sender] \in Nat
      BY <1>1, <1>2
    <3>2. Total(mid, S) + bal[sender] = Total(bal, S) + mid[sender]
      BY <2>1, <3>1, TotalUpdate
    <3> QED BY <1>1, <1>2, <1>4, <2>1, <3>1, <3>2
  <2>2. CASE sender \notin S
    <3>1. Total(mid, S) = Total(bal, S)
      BY <1>2, <2>2, TotalAgree
    <3> QED BY <1>4, <2>2, <3>1
  <2> QED BY <2>1, <2>2
<1>6. Total(bal2, S) = Total(mid, S) + in
  <2>1. CASE recipient \in S
    <3>1. (\A a \in S : mid[a] \in Nat) /\ (\A a \in S \ {recipient} : bal2[a] = mid[a])
          /\ bal2[recipient] \in Nat /\ mid[recipient] \in Nat
      BY <1>1, <1>2, <1>3
    <3>2. Total(bal2, S) + mid[recipient] = Total(mid, S) + bal2[recipient]
      BY <2>1, <3>1, TotalUpdate
    <3> QED BY <1>1, <1>3, <1>4, <2>1, <3>1, <3>2
  <2>2. CASE recipient \notin S
    <3>1. Total(bal2, S) = Total(mid, S)
      BY <1>3, <2>2, TotalAgree
    <3> QED BY <1>4, <2>2, <3>1
  <2> QED BY <2>1, <2>2
<1> QED BY <1>5, <1>6 DEF TotalShifts

\* The totals of two groups of accounts add up.
LEMMA TotalDisjoint ==
  ASSUME NEW S, IsFiniteSet(S), NEW T, IsFiniteSet(T), S \cap T = {},
         NEW f, \A a \in S \cup T : f[a] \in Nat
  PROVE  Total(f, S \cup T) = Total(f, S) + Total(f, T)
<1>1. IsFiniteSet(Tokens(f, S)) /\ IsFiniteSet(Tokens(f, T))
  BY TokensFinite
<1>2. Tokens(f, S \cup T) = Tokens(f, S) \cup Tokens(f, T)
  BY DEF Tokens
<1>3. Tokens(f, S) \cap Tokens(f, T) = {}
  BY DEF Tokens
<1>4. Cardinality(Tokens(f, S) \cup Tokens(f, T))
        = Cardinality(Tokens(f, S)) + Cardinality(Tokens(f, T)) - Cardinality({})
  BY <1>1, <1>3, FS_Union
<1>5. Total(f, S) \in Nat /\ Total(f, T) \in Nat
  BY TokensFinite
<1>6. Cardinality({}) = 0
  BY FS_EmptySet
<1>7. Total(f, S \cup T) = Total(f, S) + Total(f, T) - 0
  BY <1>2, <1>4, <1>6 DEF Total
<1> QED BY <1>5, <1>7

\* When every share is no more, the total is no more.
LEMMA TotalMonotone ==
  ASSUME NEW S, IsFiniteSet(S), NEW f, NEW g,
         \A a \in S : f[a] \in Nat /\ g[a] \in Nat /\ f[a] <= g[a]
  PROVE  Total(f, S) <= Total(g, S)
<1>1. IsFiniteSet(Tokens(g, S))
  BY TokensFinite
<1>2. Tokens(f, S) \in SUBSET Tokens(g, S)
  <2> SUFFICES ASSUME NEW a \in S, NEW i \in 1 .. f[a] PROVE <<a, i>> \in Tokens(g, S)
    BY DEF Tokens
  <2>1. f[a] \in Nat /\ g[a] \in Nat /\ f[a] <= g[a]
    OBVIOUS
  <2>2. i \in 1 .. g[a]
    BY <2>1
  <2>3. <<a, i>> \in {a} \X (1 .. g[a])
    BY <2>2
  <2> QED BY <2>3 DEF Tokens
<1> QED BY <1>1, <1>2, FS_Subset DEF Total

\* Each account's share counted for the account that group names: the totals
\* counted for all the accounts add up to the total.
LEMMA TotalPartition ==
  ASSUME NEW A, IsFiniteSet(A), NEW f, \A a \in A : f[a] \in Nat,
         NEW group, \A a \in A : group[a] \in A,
         NEW counted, \A u \in A : counted[u] = Total(f, {a \in A : group[a] = u})
  PROVE  Total(counted, A) = Total(f, A)
<1> DEFINE R      == OpToRel(<, Nat)
           Of(T)  == {a \in A : group[a] \in T}
           Off(T) == Total(counted, T) # Total(f, Of(T))
           bad    == {m \in Nat : \E T \in SUBSET A : Cardinality(T) = m /\ Off(T)}
<1>1. \A T \in SUBSET A : IsFiniteSet(T) /\ Cardinality(T) \in Nat
  BY FS_Subset, FS_CardinalityType
<1>2. \A u \in A : counted[u] \in Nat
  <2> TAKE u \in A
  <2> DEFINE mine == {a \in A : group[a] = u}
  <2>1. IsFiniteSet(mine) /\ \A a \in mine : f[a] \in Nat
    BY <1>1
  <2>2. counted[u] = Total(f, mine)
    OBVIOUS
  <2> HIDE DEF mine
  <2> QED BY <2>1, <2>2, TokensFinite
<1>3. bad = {}
  <2> SUFFICES ASSUME bad # {} PROVE FALSE
    OBVIOUS
  <2>1. PICK m \in bad : \A k \in bad : <<k, m>> \notin R
    <3>1. bad \subseteq Nat
      OBVIOUS
    <3> HIDE DEF bad, R
    <3> QED BY <3>1, NatLessThanWellFounded, WFMin DEF R
  <2>2. \A k \in bad : ~(k < m)
    <3>1. \A x, y \in Nat : x < y => <<x, y>> \in R
      BY DEF OpToRel
    <3> HIDE DEF R
    <3> QED BY <2>1, <3>1
  <2>3. PICK T \in SUBSET A : Cardinality(T) = m /\ Off(T)
    BY <2>1
  <2>4. CASE T = {}
    <3>1. Of(T) = {}
      BY <2>4
    <3>2. Tokens(counted, {}) = {} /\ Tokens(f, {}) = {}
      BY DEF Tokens
    <3> QED BY <2>3, <2>4, <3>1, <3>2 DEF Total
  <2>5. CASE T # {}
    <3>1. PICK u \in T : TRUE
      BY <2>5
    <3> DEFINE rest == T \ {u}
               mine == {a \in A : group[a] = u}
    <3>2. IsFiniteSet(rest) /\ Cardinality(rest) = m - 1 /\ m \in Nat /\ m - 1 \in Nat
      <4>1. IsFiniteSet(T) /\ m \in Nat /\ Cardinality(rest) \in Nat
        BY <1>1, <2>3
      <4>2. IsFiniteSet(rest) /\ Cardinality(rest) = Cardinality(T) - 1
        BY <3>1, <4>1, FS_RemoveElement
      <4> QED BY <2>3, <4>1, <4>2
    <3>3. Total(counted, rest) = Total(f, Of(rest))
      <4>1. ~Off(rest)
        <5>1. m - 1 < m /\ rest \in SUBSET A
          BY <3>2
        <5> HIDE DEF Off, rest
        <5> QED BY <2>2, <3>2, <5>1
      <4> QED BY <4>1
    <3>4. Total(counted, T) = Total(counted, rest) + counted[u]
      <4>1. IsFiniteSet(T) /\ \A a \in T : counted[a] \in Nat
        BY <1>1, <1>2
      <4> QED BY <3>1, <4>1, TotalRemove
    <3>5. /\ Of(T) = Of(rest) \cup mine /\ Of(rest) \cap mine = {}
          /\ Of(rest) \in SUBSET A /\ mine \in SUBSET A
      BY <3>1
    <3>6. Total(f, Of(T)) = Total(f, Of(rest)) + Total(f, mine)
      <4> DEFINE old == Of(rest)
      <4>1. IsFiniteSet(old) /\ IsFiniteSet(mine) /\ old \cap mine = {}
        BY <1>1, <3>5
      <4>2. \A a \in old \cup mine : f[a] \in Nat
        BY <3>5
      <4> HIDE DEF old, mine
      <4>3. Total(f, old \cup mine) = Total(f, old) + Total(f, mine)
        BY <4>1, <4>2, TotalDisjoint
      <4> QED BY <3>5, <4>3 DEF old
    <3>7. counted[u] = Total(f, mine)
      BY <3>1
    <3> HIDE DEF Of, mine, rest
    <3> QED BY <2>3, <3>3, <3>4, <3>6, <3>7
  <2> QED BY <2>4, <2>5
<1>4. ~Off(A)
  <2> HIDE DEF Off
  <2> QED BY <1>1, <1>3
<1>5. Of(A) = A
  OBVIOUS
<1> QED BY <1>4, <1>5

=============================================================================
