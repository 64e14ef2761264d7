------------------------- MODULE PlmyTokenV2Proofs -------------------------
(***************************************************************************)
(* Proofs about the token for every set of accounts, supply, input and     *)
(* bound.  The inductive invariant joins the ledger (balances add up to    *)
(* the supply) to the histories (the last entry of each is what its        *)
(* delegators hold): the casts to uint128 keep a value because a sum of    *)
(* some balances is no more than the supply, and the subtractions of       *)
(* SafeMath succeed because a power is such a sum.  With the lookup's      *)
(* theorem it gives what governance reads: powers of past blocks that no   *)
(* call changes, votes that are within the supply, and the refinement of   *)
(* GovernancePower.  The lemmas ask of the supply only that it is no more  *)
(* than Supply: they serve the token's life before the upgrade too.        *)
(***************************************************************************)
EXTENDS PlmyTokenV2Refinement, TokenSumsProofs, SequenceTheorems

(***************************************************************************)
(* One history: a write makes it end with the written value, keeps it in   *)
(* order of block, and keeps its value at every earlier block; the binary  *)
(* search finds in a history that is in order the value of the last entry  *)
(* up to the block, by a smallest counterexample in the length of the      *)
(* range that is left.                                                     *)
(***************************************************************************)

\* A number below the range is not changed by the cast.
LEMMA CastKeeps ==
  ASSUME NEW n \in 0 .. Uint128Range - 1
  PROVE  Uint128(n) = n
BY Uint128RangeAssumption, SMT DEF Uint128

\* A cast is below the range.
LEMMA CastBounded ==
  ASSUME NEW n \in Nat
  PROVE  Uint128(n) \in 0 .. Uint128Range - 1
BY Uint128RangeAssumption, SMT DEF Uint128

\* w is snaps with value v written at a block: its last entry, when it is of this
\* block, is replaced, or a new one follows.
IsWrite(snaps, at, v, w) ==
    /\ w \in Seq(Snapshot)
    /\ Len(w) \in Nat \ {0}
    /\ w # <<>>
    /\ w[Len(w)] = [blockNumber |-> at, value |-> v]
    /\ \A i \in 1 .. Len(w) - 1 : i \in 1 .. Len(snaps) /\ w[i] = snaps[i]
    /\ \/ Len(w) = Len(snaps) /\ LastOf(snaps).blockNumber = at
       \/ Len(w) = Len(snaps) + 1 /\ (snaps # <<>> => LastOf(snaps).blockNumber # at)

\* The history after a write, entry by entry.
LEMMA WriteEntries ==
  ASSUME NEW snaps \in Seq(Snapshot),
         NEW at \in 0 .. Uint128Range - 1,
         NEW v \in 0 .. Uint128Range - 1,
         NEW w, w = WriteSnapshot(snaps, at, v)
  PROVE  IsWrite(snaps, at, v, w)
<1> DEFINE entry == [blockNumber |-> at, value |-> v]
<1>1. Uint128(at) = at
  BY CastKeeps
<1>2. entry \in Snapshot
  BY DEF Snapshot
<1>3. Len(snaps) \in Nat /\ DOMAIN snaps = 1 .. Len(snaps)
  BY LenProperties
<1>4. CASE snaps # <<>> /\ LastOf(snaps).blockNumber = at
  <2>1. Len(snaps) \in 1 .. Len(snaps)
    BY <1>3, <1>4, EmptySeq
  <2>2. snaps[Len(snaps)] \in Snapshot
    BY <2>1, ElementOfSeq
  <2>3. [snaps[Len(snaps)] EXCEPT !.value = v] = entry
    BY <1>4, <2>2 DEF LastOf, Snapshot
  <2>4. w = [snaps EXCEPT ![Len(snaps)] = entry]
    BY <1>1, <1>4, <2>3 DEF WriteSnapshot
  <2>5. /\ w \in Seq(Snapshot)
        /\ Len(w) = Len(snaps)
        /\ \A j \in 1 .. Len(snaps) : w[j] = IF j = Len(snaps) THEN entry ELSE snaps[j]
    <3> HIDE DEF entry
    <3> QED BY <1>2, <2>1, <2>4, ExceptSeq
  <2>6. w # <<>>
    BY <2>1, <2>5, EmptySeq
  <2>7. Len(w) = Len(snaps) /\ Len(w) \in Nat \ {0}
    <3>1. Len(w) = Len(snaps)
      BY <2>5
    <3> QED BY <1>3, <2>1, <3>1
  <2>8. ASSUME NEW i \in 1 .. Len(w) - 1 PROVE i \in 1 .. Len(snaps) /\ w[i] = snaps[i]
    <3>1. i \in 1 .. Len(snaps) /\ i # Len(snaps)
      BY <2>7
    <3> QED BY <2>5, <3>1
  <2>9. w[Len(w)] = entry
    BY <2>1, <2>5, <2>7
  <2> QED BY <1>4, <2>5, <2>6, <2>7, <2>8, <2>9 DEF IsWrite
<1>5. CASE ~(snaps # <<>> /\ LastOf(snaps).blockNumber = at)
  <2>1. w = Append(snaps, entry)
    BY <1>1, <1>5 DEF WriteSnapshot
  <2>2. /\ w \in Seq(Snapshot)
        /\ w # <<>>
        /\ Len(w) = Len(snaps) + 1
        /\ \A j \in 1 .. Len(snaps) : w[j] = snaps[j]
        /\ w[Len(snaps) + 1] = entry
    <3> HIDE DEF entry
    <3> QED BY <1>2, <2>1, AppendProperties
  <2>3. Len(w) \in Nat \ {0}
    BY <1>3, <2>2
  <2>4. ASSUME NEW i \in 1 .. Len(w) - 1 PROVE i \in 1 .. Len(snaps) /\ w[i] = snaps[i]
    <3>1. i \in 1 .. Len(snaps)
      BY <1>3, <2>2
    <3> QED BY <2>2, <3>1
  <2>5. w[Len(w)] = entry
    BY <2>2
  <2> QED BY <1>5, <2>2, <2>3, <2>4, <2>5 DEF IsWrite
<1> QED BY <1>4, <1>5

\* A write in the present block keeps a history in order, up to that block.
LEMMA WriteOrdered ==
  ASSUME NEW snaps \in Seq(Snapshot), IsOrdered(snaps),
         NEW at \in 0 .. Uint128Range - 1,
         snaps # <<>> => LastOf(snaps).blockNumber <= at,
         NEW v \in 0 .. Uint128Range - 1,
         NEW w, w = WriteSnapshot(snaps, at, v)
  PROVE  IsOrdered(w) /\ LastOf(w).blockNumber <= at
<1> IsWrite(snaps, at, v, w)
  BY WriteEntries
<1>1. w \in Seq(Snapshot) /\ Len(w) \in Nat \ {0}
  BY DEF IsWrite
<1>8. w[Len(w)] = [blockNumber |-> at, value |-> v]
  BY DEF IsWrite
<1>9. \A i \in 1 .. Len(w) - 1 : i \in 1 .. Len(snaps) /\ w[i] = snaps[i]
  BY DEF IsWrite
<1>10. \/ Len(w) = Len(snaps) /\ LastOf(snaps).blockNumber = at
       \/ Len(w) = Len(snaps) + 1 /\ (snaps # <<>> => LastOf(snaps).blockNumber # at)
  BY DEF IsWrite
<1>2. DOMAIN w = 1 .. Len(w) /\ DOMAIN snaps = 1 .. Len(snaps) /\ Len(snaps) \in Nat
  BY <1>1, LenProperties
<1>3. \A i \in 1 .. Len(snaps) : snaps[i].blockNumber \in Nat
  <2>1. \A i \in 1 .. Len(snaps) : snaps[i] \in Snapshot
    BY ElementOfSeq
  <2> QED BY <2>1, Uint128RangeAssumption DEF Snapshot
<1>4. ASSUME NEW i \in 1 .. Len(w) - 1 PROVE snaps[i].blockNumber < at
  <2>1. i \in 1 .. Len(snaps) /\ Len(snaps) \in 1 .. Len(snaps)
    <3>1. i \in 1 .. Len(snaps)
      BY <1>9
    <3> QED BY <1>2, <3>1
  <2>2. snaps # <<>>
    BY <2>1, EmptySeq
  <2>3. CASE i = Len(snaps)
    <3>1. Len(w) # Len(snaps)
      BY <1>1, <2>3
    <3>2. LastOf(snaps).blockNumber # at
      BY <1>10, <2>2, <3>1
    <3> QED BY <1>3, <2>1, <2>2, <2>3, <3>2 DEF LastOf
  <2>4. CASE i # Len(snaps)
    <3>1. i < Len(snaps)
      BY <2>1, <2>4
    <3>2. snaps[i].blockNumber < snaps[Len(snaps)].blockNumber
      BY <1>2, <2>1, <3>1 DEF IsOrdered
    <3> QED BY <1>3, <2>1, <2>2, <3>2 DEF LastOf
  <2> QED BY <2>3, <2>4
<1>5. ASSUME NEW i \in 1 .. Len(w), NEW j \in 1 .. Len(w), i < j
      PROVE  w[i].blockNumber < w[j].blockNumber
  <2>1. i \in 1 .. Len(w) - 1 /\ w[i] = snaps[i] /\ i \in 1 .. Len(snaps)
    <3>1. i \in 1 .. Len(w) - 1
      BY <1>1, <1>5
    <3> QED BY <1>9, <3>1
  <2>2. CASE j = Len(w)
    BY <1>8, <1>4, <2>1, <2>2
  <2>3. CASE j # Len(w)
    <3>1. j \in 1 .. Len(w) - 1
      BY <1>1, <2>3
    <3>2. w[j] = snaps[j] /\ j \in 1 .. Len(snaps)
      BY <1>9, <3>1
    <3> QED BY <1>2, <1>5, <2>1, <3>2 DEF IsOrdered
  <2> QED BY <2>2, <2>3
<1>6. IsOrdered(w)
  BY <1>2, <1>5 DEF IsOrdered
<1>7. LastOf(w).blockNumber = at
  BY <1>8 DEF LastOf
<1> QED BY <1>6, <1>7

\* A history that was written is not empty.
LEMMA WriteNotEmpty ==
  ASSUME NEW snaps \in Seq(Snapshot), NEW at, NEW v
  PROVE  WriteSnapshot(snaps, at, v) # <<>>
<1> DEFINE w == WriteSnapshot(snaps, at, v)
<1>1. Len(snaps) \in Nat /\ DOMAIN snaps = 1 .. Len(snaps)
  BY LenProperties
<1>2. CASE snaps # <<>> /\ LastOf(snaps).blockNumber = Uint128(at)
  <2>1. DOMAIN w = DOMAIN snaps
    BY <1>2 DEF WriteSnapshot
  <2>2. Len(snaps) \in DOMAIN snaps
    BY <1>1, <1>2, EmptySeq
  <2> HIDE DEF w
  <2>3. w # <<>>
    BY <2>1, <2>2
  <2> QED BY <2>3 DEF w
<1>3. CASE ~(snaps # <<>> /\ LastOf(snaps).blockNumber = Uint128(at))
  <2> DEFINE e == [blockNumber |-> Uint128(at), value |-> v]
  <2>1. w = Append(snaps, e)
    BY <1>3 DEF WriteSnapshot
  <2> HIDE DEF e, w
  <2>2. w # <<>>
    BY <1>1, <2>1
  <2> QED BY <2>2 DEF w
<1> QED BY <1>2, <1>3

\* Some entries among the first n have a last one.
LEMMA LatestExists ==
  ASSUME NEW n \in Nat, NEW S \in SUBSET (1 .. n), S # {}
  PROVE  \E i \in S : \A j \in S : j <= i
<1> DEFINE R    == OpToRel(<, Nat)
           gaps == {m \in Nat : n - m \in S}
<1>1. IsWellFoundedOn(R, Nat)
  BY NatLessThanWellFounded
<1>2. \A x, y \in Nat : x < y => <<x, y>> \in R
  BY DEF OpToRel
<1>3. gaps # {}
  <2>1. PICK i \in S : TRUE
    OBVIOUS
  <2>2. n - i \in Nat /\ n - (n - i) = i
    BY <2>1
  <2> QED BY <2>1, <2>2
<1>4. gaps \subseteq Nat
  OBVIOUS
<1>5. PICK m \in gaps : \A k \in gaps : <<k, m>> \notin R
  <2> HIDE DEF gaps, R
  <2> QED BY <1>1, <1>3, <1>4, WFMin
<1>6. ASSUME NEW j \in S PROVE j <= n - m
  <2>1. n - j \in gaps
    BY <1>6
  <2>2. ~(n - j < m)
    BY <1>2, <1>4, <1>5, <2>1
  <2>3. m \in Nat /\ j \in Nat
    <3>1. m \in Nat
      BY <1>5
    <3>2. j \in 1 .. n
      BY <1>6
    <3> QED BY <3>1, <3>2
  <2> HIDE DEF gaps
  <2> QED BY <2>2, <2>3
<1> QED BY <1>4, <1>5, <1>6

\* A history has one value for a block: that of its latest entry, or zero.
LEMMA ValueAtType ==
  ASSUME NEW snaps \in Seq(Snapshot), NEW b
  PROVE  /\ ValueAt(snaps, b) \in 0 .. Uint128Range - 1
         /\ snaps = <<>> => ValueAt(snaps, b) = 0
<1> DEFINE upTo == {i \in DOMAIN snaps : snaps[i].blockNumber <= b}
           latest == CHOOSE i \in upTo : \A j \in upTo : j <= i
<1>1. Len(snaps) \in Nat /\ DOMAIN snaps = 1 .. Len(snaps)
  BY LenProperties
<1>2. CASE upTo = {}
  <2>1. ValueAt(snaps, b) = 0
    BY <1>2 DEF ValueAt
  <2> QED BY <2>1, Uint128RangeAssumption
<1>3. CASE upTo # {}
  <2>1. ValueAt(snaps, b) = snaps[latest].value
    BY <1>3 DEF ValueAt
  <2>2. upTo \in SUBSET (1 .. Len(snaps))
    BY <1>1
  <2>3. latest \in upTo
    <3> HIDE DEF upTo
    <3> QED BY <1>1, <1>3, <2>2, LatestExists
  <2> HIDE DEF latest, upTo
  <2>4. latest \in 1 .. Len(snaps)
    BY <2>2, <2>3
  <2>5. snaps[latest] \in Snapshot
    BY <2>4, ElementOfSeq
  <2>6. snaps # <<>>
    BY <2>4, EmptySeq
  <2> QED BY <2>1, <2>5, <2>6 DEF Snapshot
<1> QED BY <1>2, <1>3

\* A write changes the value of no earlier block.
LEMMA WriteKeepsPast ==
  ASSUME NEW snaps \in Seq(Snapshot),
         NEW at \in 0 .. Uint128Range - 1,
         NEW v, NEW w, IsWrite(snaps, at, v, w),
         NEW b \in 0 .. at - 1
  PROVE  ValueAt(w, b) = ValueAt(snaps, b)
<1> DEFINE before == {i \in DOMAIN snaps : snaps[i].blockNumber <= b}
           after  == {i \in DOMAIN w : w[i].blockNumber <= b}
<1>1. w \in Seq(Snapshot) /\ Len(w) \in Nat \ {0}
  BY DEF IsWrite
<1>2. DOMAIN w = 1 .. Len(w) /\ DOMAIN snaps = 1 .. Len(snaps) /\ Len(snaps) \in Nat
  BY <1>1, LenProperties
<1>3. w[Len(w)].blockNumber = at
  BY DEF IsWrite
<1>4. \A i \in 1 .. Len(w) - 1 : i \in 1 .. Len(snaps) /\ w[i] = snaps[i]
  BY DEF IsWrite
<1>5. \/ Len(w) = Len(snaps) /\ snaps[Len(snaps)].blockNumber = at
      \/ Len(w) = Len(snaps) + 1
  BY DEF IsWrite, LastOf
<1>6. ~(at <= b)
  BY SMT
<1>7. after \subseteq before
  <2> SUFFICES ASSUME NEW i \in after PROVE i \in before
    OBVIOUS
  <2>1. i \in 1 .. Len(w) /\ w[i].blockNumber <= b
    BY <1>2
  <2>2. i # Len(w)
    BY <1>3, <1>6, <2>1
  <2>3. i \in 1 .. Len(w) - 1
    BY <1>1, <2>1, <2>2
  <2> QED BY <1>2, <1>4, <2>1, <2>3
<1>8. before \subseteq after
  <2> SUFFICES ASSUME NEW i \in before PROVE i \in after
    OBVIOUS
  <2>1. i \in 1 .. Len(snaps) /\ snaps[i].blockNumber <= b
    BY <1>2
  <2>2. ~(Len(w) = Len(snaps) /\ i = Len(snaps))
    BY <1>5, <1>6, <2>1
  <2>3. i \in 1 .. Len(w) - 1
    <3>1. CASE Len(w) = Len(snaps)
      BY <1>1, <1>2, <2>1, <2>2, <3>1
    <3>2. CASE Len(w) = Len(snaps) + 1
      <4> HIDE DEF before, after
      <4> QED BY <1>2, <2>1, <3>2
    <3> QED BY <1>5, <3>1, <3>2
  <2>4. i \in DOMAIN w
    BY <1>1, <1>2, <2>3
  <2> QED BY <1>4, <2>1, <2>3, <2>4
<1>9. after = before
  BY <1>7, <1>8
<1>10. ASSUME NEW i \in after PROVE w[i] = snaps[i]
  <2>1. i \in 1 .. Len(w) /\ w[i].blockNumber <= b
    BY <1>2
  <2>2. i # Len(w)
    BY <1>3, <1>6, <2>1
  <2>3. i \in 1 .. Len(w) - 1
    BY <1>1, <2>1, <2>2
  <2> QED BY <1>4, <2>3
<1>11. CASE before = {}
  BY <1>9, <1>11 DEF ValueAt
<1>12. CASE before # {}
  <2> DEFINE latest == CHOOSE i \in before : \A j \in before : j <= i
  <2>1. ValueAt(snaps, b) = snaps[latest].value
    BY <1>12 DEF ValueAt
  <2>2. ValueAt(w, b) = w[latest].value
    BY <1>9, <1>12 DEF ValueAt
  <2>3. latest \in before
    <3>1. before \subseteq 1 .. Len(snaps)
      BY <1>2
    <3>2. \E i \in before : \A j \in before : j <= i
      BY <1>2, <1>12, <3>1, LatestExists
    <3> HIDE DEF before
    <3> QED BY <3>2
  <2> HIDE DEF latest
  <2> QED BY <1>9, <1>10, <2>1, <2>2, <2>3
<1> QED BY <1>11, <1>12

-----------------------------------------------------------------------------
\* Of the entries from lower to upper, i is the last one that is not after
\* block b, or lower when there is none.
IsFound(snaps, b, lower, upper, i) ==
    /\ lower <= i
    /\ i = lower \/ (i <= upper /\ snaps[i].blockNumber <= b)
    /\ \A j \in lower .. upper : snaps[j].blockNumber <= b => j <= i

\* Where a search between lower and upper ends.
Found(snaps, b, lower, upper) ==
    CHOOSE i \in 1 .. Len(snaps) : IsFound(snaps, b, lower, upper, i)

\* There is exactly one such entry.
LEMMA FoundIsFound ==
  ASSUME NEW snaps \in Seq(Snapshot), NEW b \in Nat,
         NEW lower \in 1 .. Len(snaps), NEW upper \in 1 .. Len(snaps)
  PROVE  /\ Found(snaps, b, lower, upper) \in 1 .. Len(snaps)
         /\ \A i \in 1 .. Len(snaps) :
               IsFound(snaps, b, lower, upper, i) <=> i = Found(snaps, b, lower, upper)
<1> DEFINE n == Len(snaps)
           S == {lower} \cup {i \in lower .. upper : snaps[i].blockNumber <= b}
<1>1. n \in Nat
  BY LenProperties
<1>2. S \in SUBSET (1 .. n) /\ S # {}
  BY <1>1
<1>3. PICK i \in S : \A j \in S : j <= i
  <2> HIDE DEF S
  <2> QED BY <1>1, <1>2, LatestExists
<1>4. i \in 1 .. n /\ IsFound(snaps, b, lower, upper, i)
  BY <1>1, <1>3 DEF IsFound
<1>5. ASSUME NEW j \in 1 .. n, IsFound(snaps, b, lower, upper, j),
             NEW k \in 1 .. n, IsFound(snaps, b, lower, upper, k)
      PROVE  j = k
  <2>1. j <= k
    BY <1>1, <1>5 DEF IsFound
  <2>2. k <= j
    BY <1>1, <1>5 DEF IsFound
  <2> QED BY <1>1, <2>1, <2>2
<1> QED BY <1>4, <1>5 DEF Found

\* One iteration of the search keeps the entry that is looked for between its
\* bounds: the search ends there if the iterations after it do.
LEMMA SearchIteration ==
  ASSUME NEW snaps \in Seq(Snapshot), IsOrdered(snaps), NEW b \in Nat,
         NEW lower \in 1 .. Len(snaps), NEW upper \in 1 .. Len(snaps),
         NEW search,
         \A l, u \in 1 .. Len(snaps) :
            lower <= l /\ u <= upper /\ u - l < upper - lower =>
               search[<<l, u>>] = snaps[Found(snaps, b, l, u)].value
  PROVE  SearchFrom(snaps, b, search, lower, upper)
            = snaps[Found(snaps, b, lower, upper)].value
<1> DEFINE n == Len(snaps)
           center == upper - (upper - lower) \div 2
<1>1. n \in Nat /\ DOMAIN snaps = 1 .. n
  BY LenProperties
<1>2. \A i \in 1 .. n : snaps[i].blockNumber \in Nat
  <2>1. \A i \in 1 .. n : snaps[i] \in Snapshot
    BY ElementOfSeq
  <2> QED BY <2>1, Uint128RangeAssumption DEF Snapshot
<1>3. \A i, j \in 1 .. n : i < j => snaps[i].blockNumber < snaps[j].blockNumber
  BY <1>1 DEF IsOrdered
<1>4. \A l, u, i \in 1 .. n : IsFound(snaps, b, l, u, i) <=> i = Found(snaps, b, l, u)
  BY FoundIsFound
<1>5. CASE upper <= lower
  <2>1. IsFound(snaps, b, lower, upper, lower)
    BY <1>1, <1>5 DEF IsFound
  <2>2. lower = Found(snaps, b, lower, upper)
    BY <1>4, <2>1
  <2> QED BY <1>5, <2>2 DEF SearchFrom
<1>6. CASE ~(upper <= lower)
  <2>1. center \in 1 .. n /\ lower < center /\ center <= upper /\ center - 1 \in 1 .. n
    BY <1>1, <1>6
  <2>2. SearchFrom(snaps, b, search, lower, upper) =
          IF snaps[center].blockNumber = b THEN snaps[center].value
          ELSE IF snaps[center].blockNumber < b THEN search[<<center, upper>>]
          ELSE search[<<lower, center - 1>>]
    BY <1>6 DEF SearchFrom
  <2> HIDE DEF center, n
  <2>3. CASE snaps[center].blockNumber = b
    <3>1. \A j \in lower .. upper : snaps[j].blockNumber <= b => j <= center
      <4> SUFFICES ASSUME NEW j \in lower .. upper, center < j
                   PROVE  b < snaps[j].blockNumber
        BY <1>1, <1>2, <2>1 DEF n
      <4>1. j \in 1 .. n
        BY <1>1, <2>1 DEF n
      <4> QED BY <1>3, <2>1, <2>3, <4>1
    <3>2. IsFound(snaps, b, lower, upper, center)
      BY <1>1, <2>1, <2>3, <3>1 DEF IsFound
    <3>3. center = Found(snaps, b, lower, upper)
      BY <1>4, <2>1, <3>2 DEF n
    <3> QED BY <2>2, <2>3, <3>3
  <2>4. CASE snaps[center].blockNumber < b
    <3>1. search[<<center, upper>>] = snaps[Found(snaps, b, center, upper)].value
      BY <1>1, <2>1 DEF n
    <3> DEFINE i == Found(snaps, b, center, upper)
    <3>2. i \in 1 .. n /\ IsFound(snaps, b, center, upper, i)
      BY <2>1, FoundIsFound DEF n
    <3> HIDE DEF i
    <3>3. lower <= i /\ i <= upper /\ snaps[i].blockNumber <= b
      BY <1>1, <1>2, <2>1, <2>4, <3>2 DEF IsFound, n
    <3>4. \A j \in lower .. upper : snaps[j].blockNumber <= b => j <= i
      <4> SUFFICES ASSUME NEW j \in lower .. upper, snaps[j].blockNumber <= b
                   PROVE  j <= i
        OBVIOUS
      <4>1. CASE j < center
        BY <1>1, <2>1, <3>2, <4>1 DEF IsFound, n
      <4>2. CASE ~(j < center)
        BY <1>1, <2>1, <3>2, <4>2 DEF IsFound, n
      <4> QED BY <4>1, <4>2
    <3>5. IsFound(snaps, b, lower, upper, i)
      BY <3>3, <3>4 DEF IsFound
    <3>6. i = Found(snaps, b, lower, upper)
      BY <1>4, <3>2, <3>5 DEF n
    <3>7. ~(snaps[center].blockNumber = b)
      BY <1>2, <2>1, <2>4
    <3> QED BY <2>2, <2>4, <3>1, <3>6, <3>7 DEF i
  <2>5. CASE ~(snaps[center].blockNumber = b) /\ ~(snaps[center].blockNumber < b)
    <3>1. search[<<lower, center - 1>>] = snaps[Found(snaps, b, lower, center - 1)].value
      BY <1>1, <2>1 DEF n
    <3> DEFINE i == Found(snaps, b, lower, center - 1)
    <3>2. i \in 1 .. n /\ IsFound(snaps, b, lower, center - 1, i)
      BY <2>1, FoundIsFound DEF n
    <3> HIDE DEF i
    <3>3. \A j \in lower .. upper : snaps[j].blockNumber <= b => j <= i
      <4> SUFFICES ASSUME NEW j \in lower .. upper, snaps[j].blockNumber <= b
                   PROVE  j <= i
        OBVIOUS
      <4>1. j \in 1 .. n
        BY <1>1, <2>1 DEF n
      <4>2. b < snaps[center].blockNumber
        BY <1>2, <2>1, <2>5
      <4>3. j < center
        <5>1. CASE j = center
          BY <1>2, <2>1, <4>1, <4>2, <5>1
        <5>2. CASE center < j
          <6>1. snaps[center].blockNumber < snaps[j].blockNumber
            BY <1>3, <2>1, <4>1, <5>2
          <6> QED BY <1>2, <2>1, <4>1, <4>2, <6>1
        <5> QED BY <1>1, <2>1, <4>1, <5>1, <5>2
      <4>4. j \in lower .. center - 1
        BY <1>1, <2>1, <4>1, <4>3
      <4> QED BY <3>2, <4>4 DEF IsFound
    <3>4. IsFound(snaps, b, lower, upper, i)
      <4>1. i <= center - 1 => i <= upper
        BY <1>1, <2>1, <3>2 DEF n
      <4> QED BY <3>2, <3>3, <4>1 DEF IsFound
    <3>5. i = Found(snaps, b, lower, upper)
      BY <1>4, <3>2, <3>4 DEF n
    <3> QED BY <2>2, <2>5, <3>1, <3>5 DEF i
  <2> QED BY <2>3, <2>4, <2>5
<1> QED BY <1>5, <1>6

\* The search stops, with the last entry that is not after the block.
LEMMA SearchEnds ==
  ASSUME NEW snaps \in Seq(Snapshot), IsOrdered(snaps), snaps # <<>>, NEW b \in Nat
  PROVE  BinarySearch(snaps, b) = snaps[Found(snaps, b, 1, Len(snaps))].value
<1> DEFINE n == Len(snaps)
           Ranges == (1 .. n) \X (1 .. n)
           Ends(r) == snaps[Found(snaps, b, r[1], r[2])].value
           IsSearch(f) == f = [r \in Ranges |-> SearchFrom(snaps, b, f, r[1], r[2])]
           search == CHOOSE f : IsSearch(f)
<1>1. n \in Nat /\ n # 0
  BY LenProperties, EmptySeq
<1>2. BinarySearch(snaps, b) = search[<<1, n>>]
  BY DEF BinarySearch
<1>3. IsSearch([r \in Ranges |-> Ends(r)])
  <2> DEFINE f == [r \in Ranges |-> Ends(r)]
  <2>1. \A l, u \in 1 .. n : f[<<l, u>>] = snaps[Found(snaps, b, l, u)].value
    OBVIOUS
  <2> HIDE DEF f
  <2>2. \A l, u \in 1 .. n : SearchFrom(snaps, b, f, l, u) = snaps[Found(snaps, b, l, u)].value
    BY <2>1, SearchIteration
  <2>3. \A r \in Ranges : SearchFrom(snaps, b, f, r[1], r[2]) = Ends(r)
    BY <2>2
  <2>4. [r \in Ranges |-> SearchFrom(snaps, b, f, r[1], r[2])] = [r \in Ranges |-> Ends(r)]
    BY <2>3
  <2> QED BY <2>4 DEF f
<1>4. IsSearch(search)
  <2> HIDE DEF IsSearch
  <2> QED BY <1>3
<1>5. \A l, u \in 1 .. n : search[<<l, u>>] = SearchFrom(snaps, b, search, l, u)
  <2> HIDE DEF search
  <2> QED BY <1>4
<1> HIDE DEF search
<1> DEFINE R    == OpToRel(<, Nat)
           size(l, u) == IF l <= u THEN u - l ELSE 0
           wrong(l, u) == search[<<l, u>>] # snaps[Found(snaps, b, l, u)].value
           bad  == {m \in Nat : \E l, u \in 1 .. n : wrong(l, u) /\ size(l, u) = m}
<1>6. bad = {}
  <2> SUFFICES ASSUME bad # {} PROVE FALSE
    OBVIOUS
  <2>1. PICK m \in bad : \A k \in bad : <<k, m>> \notin R
    <3>1. bad \subseteq Nat
      OBVIOUS
    <3> HIDE DEF bad, R
    <3> QED BY <3>1, NatLessThanWellFounded, WFMin DEF R
  <2>2. \A k \in bad : ~(k < m)
    <3>1. \A x, y \in Nat : x < y => <<x, y>> \in R
      BY DEF OpToRel
    <3> HIDE DEF R
    <3> QED BY <2>1, <3>1
  <2>3. PICK lower \in 1 .. n, upper \in 1 .. n : wrong(lower, upper) /\ size(lower, upper) = m
    BY <2>1
  <2> HIDE DEF wrong
  <2>4. ASSUME NEW l \in 1 .. n, NEW u \in 1 .. n,
               lower <= l, u <= upper, u - l < upper - lower
        PROVE  ~wrong(l, u)
    <3>1. CASE lower < upper
      <4>1. size(l, u) \in Nat /\ size(l, u) < m
        BY <1>1, <2>3, <2>4, <3>1
      <4> HIDE DEF size
      <4> QED BY <2>2, <4>1
    <3>2. CASE ~(lower < upper)
      <4>1. u < l
        BY <1>1, <2>4, <3>2
      <4>2. search[<<l, u>>] = snaps[l].value
        <5>1. u <= l
          BY <1>1, <4>1
        <5>2. SearchFrom(snaps, b, search, l, u) = snaps[l].value
          BY <5>1 DEF SearchFrom
        <5> QED BY <1>5, <5>2
      <4>3. IsFound(snaps, b, l, u, l)
        BY <1>1, <4>1 DEF IsFound
      <4>4. l = Found(snaps, b, l, u)
        BY <4>3, FoundIsFound
      <4> QED BY <4>2, <4>4 DEF wrong
    <3> QED BY <3>1, <3>2
  <2>5. SearchFrom(snaps, b, search, lower, upper) = snaps[Found(snaps, b, lower, upper)].value
    BY <2>4, SearchIteration DEF wrong
  <2> QED BY <1>5, <2>3, <2>5 DEF wrong
<1>7. ~wrong(1, n)
  <2>1. 1 \in 1 .. n /\ n \in 1 .. n /\ size(1, n) \in Nat
    BY <1>1
  <2> HIDE DEF wrong, size
  <2> QED BY <1>6, <2>1
<1> QED BY <1>2, <1>7

\* The lookup of an address with a history finds the value of the latest entry
\* that is not after the block, for every history in order and every block.
THEOREM LookupFinds ==
  ASSUME NEW snaps \in Seq(Snapshot), IsOrdered(snaps), snaps # <<>>,
         NEW balance, NEW b \in Nat
  PROVE  SearchByBlockNumber(snaps, balance, b) = ValueAt(snaps, b)
<1> DEFINE n == Len(snaps)
           upTo == {i \in DOMAIN snaps : snaps[i].blockNumber <= b}
           latest == CHOOSE i \in upTo : \A j \in upTo : j <= i
<1>1. n \in Nat /\ DOMAIN snaps = 1 .. n /\ 1 \in 1 .. n /\ n \in 1 .. n
  BY LenProperties, EmptySeq
<1>2. \A i \in 1 .. n : snaps[i].blockNumber \in Nat
  <2>1. \A i \in 1 .. n : snaps[i] \in Snapshot
    BY ElementOfSeq
  <2> QED BY <2>1, Uint128RangeAssumption DEF Snapshot
<1>3. \A i, j \in 1 .. n : i < j => snaps[i].blockNumber < snaps[j].blockNumber
  BY <1>1 DEF IsOrdered
<1>4. ASSUME NEW i \in upTo, \A j \in upTo : j <= i
      PROVE  ValueAt(snaps, b) = snaps[i].value
  <2>1. upTo # {} /\ upTo \subseteq 1 .. n
    BY <1>1
  <2>2. latest \in upTo /\ \A j \in upTo : j <= latest
    <3> HIDE DEF upTo
    <3> QED BY <1>4
  <2>3. ValueAt(snaps, b) = snaps[latest].value
    BY <2>1 DEF ValueAt
  <2> HIDE DEF latest, upTo
  <2>4. latest <= i /\ i <= latest
    BY <1>4, <2>2
  <2>5. latest = i
    BY <1>1, <2>1, <2>2, <2>4
  <2> QED BY <2>3, <2>5
<1>5. CASE LastOf(snaps).blockNumber <= b
  <2>1. n \in upTo /\ \A j \in upTo : j <= n
    BY <1>1, <1>5 DEF LastOf
  <2>2. ValueAt(snaps, b) = snaps[n].value
    <3> HIDE DEF upTo
    <3> QED BY <1>4, <2>1
  <2> QED BY <1>5, <2>2 DEF SearchByBlockNumber, LastOf
<1>6. CASE ~(LastOf(snaps).blockNumber <= b) /\ snaps[1].blockNumber > b
  <2>1. ASSUME NEW i \in 1 .. n PROVE ~(snaps[i].blockNumber <= b)
    <3>1. i = 1 \/ 1 < i
      BY <1>1
    <3>2. CASE i = 1
      BY <1>1, <1>2, <1>6, <3>2
    <3>3. CASE 1 < i
      <4>1. snaps[1].blockNumber < snaps[i].blockNumber
        BY <1>1, <1>3, <3>3
      <4> QED BY <1>1, <1>2, <1>6, <4>1
    <3> QED BY <3>1, <3>2, <3>3
  <2>2. upTo = {}
    BY <1>1, <2>1
  <2> QED BY <1>6, <2>2 DEF SearchByBlockNumber, ValueAt
<1>7. CASE ~(LastOf(snaps).blockNumber <= b) /\ ~(snaps[1].blockNumber > b)
  <2> DEFINE i == Found(snaps, b, 1, n)
  <2>1. i \in 1 .. n /\ IsFound(snaps, b, 1, n, i)
    BY <1>1, FoundIsFound
  <2> HIDE DEF i
  <2>2. snaps[1].blockNumber <= b
    BY <1>1, <1>2, <1>7
  <2>3. i \in upTo /\ \A j \in upTo : j <= i
    BY <1>1, <2>1, <2>2 DEF IsFound
  <2>4. ValueAt(snaps, b) = snaps[i].value
    <3> HIDE DEF upTo
    <3> QED BY <1>4, <2>3
  <2>5. SearchByBlockNumber(snaps, balance, b) = BinarySearch(snaps, b)
    BY <1>7 DEF SearchByBlockNumber
  <2>6. BinarySearch(snaps, b) = snaps[i].value
    BY SearchEnds DEF i
  <2> QED BY <2>4, <2>5, <2>6
<1> QED BY <1>5, <1>6, <1>7

-----------------------------------------------------------------------------
(***************************************************************************)
(* The token: the ledger and the histories of all the addresses.           *)
(***************************************************************************)

\* Those of the accounts whose delegatee is u, when chosen are the delegates.
DelegatorsIn(chosen, u) == {a \in Accounts : GetDelegatee(chosen, a) = u}

\* One type's part of PowersMatchDelegators.
Agrees(snaps, bal, chosen) ==
    \A u \in Accounts :
        IF snaps[u] = <<>> THEN DelegatorsIn(chosen, u) = {u}
        ELSE LastOf(snaps[u]).value = Total(bal, DelegatorsIn(chosen, u))

\* One type's part of HistoriesOrdered.
InOrder(snaps, b) ==
    \A u \in Accounts :
        /\ IsOrdered(snaps[u])
        /\ snaps[u] # <<>> => LastOf(snaps[u]).blockNumber <= b

\* Balances and delegates change so that amount counts for to and no more for
\* from.
PowerMoves(bal, chosen, bal2, chosen2, from, to, amount) ==
    \A u \in Accounts :
        /\ Total(bal2, DelegatorsIn(chosen2, u)) =
              Total(bal, DelegatorsIn(chosen, u))
                - (IF u = from /\ from # to THEN amount ELSE 0)
                + (IF u = to /\ from # to THEN amount ELSE 0)
        /\ (from = to \/ u \notin {from, to}) =>
              DelegatorsIn(chosen2, u) = DelegatorsIn(chosen, u)

-----------------------------------------------------------------------------
\* A delegatee is one of the accounts.
LEMMA DelegateeType ==
  ASSUME NEW chosen \in [Accounts -> Addresses], NEW a \in Accounts
  PROVE  GetDelegatee(chosen, a) \in Accounts
BY AccountsAssumption DEF GetDelegatee, Addresses

\* The delegators of an address are finitely many accounts.
LEMMA DelegatorsFinite ==
  ASSUME NEW chosen, NEW u
  PROVE  DelegatorsIn(chosen, u) \in SUBSET Accounts /\ IsFiniteSet(DelegatorsIn(chosen, u))
<1>1. DelegatorsIn(chosen, u) \in SUBSET Accounts
  BY DEF DelegatorsIn
<1> QED BY <1>1, AccountsAssumption, FS_Subset

\* A transfer moves power between the delegatees of its two ends.
LEMMA TransferMovesPower ==
  ASSUME NEW chosen \in [Accounts -> Addresses],
         NEW bal, NEW bal2, NEW sender, NEW recipient, NEW amount,
         IsTransfer(Accounts, bal, bal2, sender, recipient, amount)
  PROVE  PowerMoves(bal, chosen, bal2, chosen,
                    GetDelegatee(chosen, sender), GetDelegatee(chosen, recipient), amount)
<1> DEFINE from == GetDelegatee(chosen, sender)
           to   == GetDelegatee(chosen, recipient)
<1> SUFFICES ASSUME NEW u \in Accounts
             PROVE  Total(bal2, DelegatorsIn(chosen, u)) =
                      Total(bal, DelegatorsIn(chosen, u))
                        - (IF u = from /\ from # to THEN amount ELSE 0)
                        + (IF u = to /\ from # to THEN amount ELSE 0)
  BY DEF PowerMoves
<1> DEFINE D == DelegatorsIn(chosen, u)
<1>1. D \in SUBSET Accounts /\ IsFiniteSet(D)
  BY DelegatorsFinite
<1>2. (sender \in D <=> from = u) /\ (recipient \in D <=> to = u)
  BY DEF DelegatorsIn, IsTransfer
<1>3. Total(bal, D) \in Nat /\ amount \in Nat
  BY <1>1, TokensFinite DEF IsTransfer
<1>4. Total(bal2, D) = Total(bal, D) - (IF sender \in D THEN amount ELSE 0)
                                     + (IF recipient \in D THEN amount ELSE 0)
  <2>1. TotalShifts(D, bal, bal2, sender, recipient, amount)
    <3> HIDE DEF D
    <3> QED BY <1>1, TransferTotal
  <2> QED BY <2>1 DEF TotalShifts
<1> HIDE DEF D, from, to
<1> QED BY <1>2, <1>3, <1>4 DEF D

\* A delegation moves the delegator's balance from its old delegatee.
LEMMA DelegationMovesPower ==
  ASSUME NEW chosen \in [Accounts -> Addresses],
         NEW bal \in [Accounts -> Nat],
         NEW a \in Accounts, NEW to \in Accounts,
         NEW chosen2, chosen2 = [chosen EXCEPT ![a] = to]
  PROVE  PowerMoves(bal, chosen, bal, chosen2, GetDelegatee(chosen, a), to, bal[a])
<1> DEFINE from == GetDelegatee(chosen, a)
<1>1. GetDelegatee(chosen2, a) = to
  BY AccountsAssumption DEF GetDelegatee
<1>2. \A b \in Accounts \ {a} : GetDelegatee(chosen2, b) = GetDelegatee(chosen, b)
  BY DEF GetDelegatee
<1> SUFFICES ASSUME NEW u \in Accounts
             PROVE  /\ Total(bal, DelegatorsIn(chosen2, u)) =
                         Total(bal, DelegatorsIn(chosen, u))
                           - (IF u = from /\ from # to THEN bal[a] ELSE 0)
                           + (IF u = to /\ from # to THEN bal[a] ELSE 0)
                    /\ (from = to \/ u \notin {from, to}) =>
                         DelegatorsIn(chosen2, u) = DelegatorsIn(chosen, u)
  BY DEF PowerMoves
<1> DEFINE D  == DelegatorsIn(chosen, u)
           D2 == DelegatorsIn(chosen2, u)
<1>3. IsFiniteSet(D) /\ IsFiniteSet(D2) /\ D \subseteq Accounts /\ D2 \subseteq Accounts
  BY DelegatorsFinite
<1>4. Total(bal, D) \in Nat /\ Total(bal, D2) \in Nat /\ bal[a] \in Nat
  BY <1>3, TokensFinite
<1>5. (a \in D <=> from = u) /\ (a \in D2 <=> to = u)
  BY <1>1 DEF DelegatorsIn
<1>6. D \ {a} = D2 \ {a}
  BY <1>2 DEF DelegatorsIn
<1>7. CASE from = to \/ u \notin {from, to}
  <2>1. a \in D <=> a \in D2
    BY <1>5, <1>7
  <2>2. D = D2
    <3> HIDE DEF D, D2
    <3> QED BY <1>6, <2>1
  <2> QED BY <1>4, <1>7, <2>2
<1>8. CASE from # to /\ u = from
  <2>1. a \in D /\ a \notin D2 /\ D2 = D \ {a}
    BY <1>5, <1>6, <1>8
  <2>2. Total(bal, D) = Total(bal, D2) + bal[a]
    <3> HIDE DEF D, D2
    <3> QED BY <1>3, <2>1, TotalRemove
  <2> QED BY <1>4, <1>8, <2>2
<1>9. CASE from # to /\ u = to
  <2>1. a \in D2 /\ a \notin D /\ D = D2 \ {a}
    BY <1>5, <1>6, <1>9
  <2>2. Total(bal, D2) = Total(bal, D) + bal[a]
    <3> HIDE DEF D, D2
    <3> QED BY <1>3, <2>1, TotalRemove
  <2> QED BY <1>4, <1>9, <2>2
<1> QED BY <1>7, <1>8, <1>9

-----------------------------------------------------------------------------
\* The power an address had, as _moveDelegatesByType reads it, is what its
\* delegators hold.
LEMMA PreviousPowerIsPower ==
  ASSUME balances \in [Accounts -> Nat],
         NEW snaps, NEW chosen, Agrees(snaps, balances, chosen),
         NEW u \in Accounts
  PROVE  PreviousPower(snaps, u) = Total(balances, DelegatorsIn(chosen, u))
<1>1. CASE snaps[u] = <<>>
  <2>1. DelegatorsIn(chosen, u) = {u}
    BY <1>1 DEF Agrees
  <2> QED BY <1>1, <2>1, TotalSingleton DEF PreviousPower
<1>2. CASE snaps[u] # <<>>
  BY <1>2 DEF Agrees, PreviousPower
<1> QED BY <1>1, <1>2

\* A move of power keeps the histories of its type in order and in agreement
\* with the balances and delegates it accounts for.
LEMMA MoveKeepsHistories ==
  ASSUME NEW snaps \in [Accounts -> Seq(Snapshot)],
         block \in 1 .. Uint128Range - 1,
         balances \in [Accounts -> Nat],
         NEW chosen, Agrees(snaps, balances, chosen), InOrder(snaps, block),
         NEW from \in Accounts, NEW to \in Accounts, NEW amount \in Nat,
         from # to => amount <= PreviousPower(snaps, from),
         NEW bal2, NEW chosen2,
         PowerMoves(balances, chosen, bal2, chosen2, from, to, amount),
         \A u \in Accounts : Total(bal2, DelegatorsIn(chosen2, u)) \in 0 .. Uint128Range - 1,
         NEW new, new = MoveDelegatesByType(snaps, from, to, amount)
  PROVE  /\ new \in [Accounts -> Seq(Snapshot)]
         /\ Agrees(new, bal2, chosen2)
         /\ InOrder(new, block)
<1>1. \A u \in Accounts : /\ PreviousPower(snaps, u) = Total(balances, DelegatorsIn(chosen, u))
                          /\ PreviousPower(snaps, u) \in Nat
  <2> TAKE u \in Accounts
  <2>1. PreviousPower(snaps, u) = Total(balances, DelegatorsIn(chosen, u))
    BY PreviousPowerIsPower
  <2>2. Total(balances, DelegatorsIn(chosen, u)) \in Nat
    BY DelegatorsFinite, TokensFinite
  <2> QED BY <2>1, <2>2
<1>2. CASE from = to
  <2>1. new = snaps
    BY <1>2 DEF MoveDelegatesByType
  <2>2. \A u \in Accounts : /\ Total(bal2, DelegatorsIn(chosen2, u)) = PreviousPower(snaps, u)
                            /\ DelegatorsIn(chosen2, u) = DelegatorsIn(chosen, u)
    BY <1>1, <1>2 DEF PowerMoves
  <2> QED BY <1>1, <2>1, <2>2 DEF Agrees
<1>3. CASE from # to
  <2> DEFINE after(u) == PreviousPower(snaps, u) - (IF u = from THEN amount ELSE 0)
                                                 + (IF u = to THEN amount ELSE 0)
  <2>1. \A u \in Accounts : after(u) = Total(bal2, DelegatorsIn(chosen2, u))
    BY <1>1, <1>3 DEF PowerMoves
  <2>2. DOMAIN new = Accounts
    BY <1>3 DEF MoveDelegatesByType
  <2>3. ASSUME NEW u \in {from, to}
        PROVE  /\ IsWrite(snaps[u], block, after(u), new[u])
               /\ new[u] \in Seq(Snapshot)
               /\ LastOf(new[u]).value = after(u)
               /\ IsOrdered(new[u]) /\ LastOf(new[u]).blockNumber <= block
    <3>1. u \in Accounts /\ snaps[u] \in Seq(Snapshot)
      BY <2>3
    <3>2. after(u) \in 0 .. Uint128Range - 1
      BY <2>1, <3>1
    <3>3. new[u] = WriteSnapshot(snaps[u], block, Uint128(after(u)))
      <4>1. CASE u = from
        <5>1. new[u] = WriteSnapshot(snaps[u], block, Uint128(PreviousPower(snaps, u) - amount))
          BY <1>3, <3>1, <4>1 DEF MoveDelegatesByType
        <5>2. PreviousPower(snaps, u) - amount = after(u)
          BY <1>1, <1>3, <3>1, <4>1
        <5> QED BY <5>1, <5>2
      <4>2. CASE u = to
        <5>1. new[u] = WriteSnapshot(snaps[u], block, Uint128(PreviousPower(snaps, u) + amount))
          BY <1>3, <3>1, <4>2 DEF MoveDelegatesByType
        <5>2. PreviousPower(snaps, u) + amount = after(u)
          BY <1>1, <1>3, <3>1, <4>2
        <5> QED BY <5>1, <5>2
      <4> QED BY <2>3, <4>1, <4>2
    <3>4. new[u] = WriteSnapshot(snaps[u], block, after(u))
      <4> HIDE DEF after
      <4> QED BY <3>2, <3>3, CastKeeps
    <3>5. block \in 0 .. Uint128Range - 1
      BY SMT
    <3>6. IsWrite(snaps[u], block, after(u), new[u])
      <4> HIDE DEF after
      <4> QED BY <3>1, <3>2, <3>4, <3>5, WriteEntries
    <3>7. IsOrdered(snaps[u]) /\ (snaps[u] # <<>> => LastOf(snaps[u]).blockNumber <= block)
      BY <3>1 DEF InOrder
    <3>8. IsOrdered(new[u]) /\ LastOf(new[u]).blockNumber <= block
      <4> HIDE DEF after
      <4> QED BY <3>1, <3>2, <3>4, <3>5, <3>7, WriteOrdered
    <3>9. LastOf(new[u]).value = after(u) /\ new[u] \in Seq(Snapshot)
      <4> HIDE DEF after
      <4> QED BY <3>6 DEF IsWrite, LastOf
    <3> QED BY <3>6, <3>8, <3>9
  <2>4. \A u \in Accounts \ {from, to} : new[u] = snaps[u]
    BY <1>3 DEF MoveDelegatesByType
  <2>5. \A u \in {from, to} : new[u] # <<>>
    BY <2>3 DEF IsWrite
  <2>6. new \in [Accounts -> Seq(Snapshot)]
    <3>1. \A u \in Accounts : new[u] \in Seq(Snapshot)
      BY <2>3, <2>4
    <3>2. new = [u \in Accounts |-> new[u]]
      BY <1>3 DEF MoveDelegatesByType
    <3> QED BY <3>1, <3>2
  <2>7. InOrder(new, block)
    BY <2>3, <2>4 DEF InOrder
  <2>8. Agrees(new, bal2, chosen2)
    <3> SUFFICES ASSUME NEW u \in Accounts
                 PROVE  IF new[u] = <<>> THEN DelegatorsIn(chosen2, u) = {u}
                        ELSE LastOf(new[u]).value = Total(bal2, DelegatorsIn(chosen2, u))
      BY DEF Agrees
    <3>1. CASE u \in {from, to}
      BY <2>1, <2>3, <2>5, <3>1
    <3>2. CASE u \notin {from, to}
      <4>1. DelegatorsIn(chosen2, u) = DelegatorsIn(chosen, u)
        BY <3>2 DEF PowerMoves
      <4>2. Total(bal2, DelegatorsIn(chosen2, u)) = Total(balances, DelegatorsIn(chosen, u))
        BY <1>1, <2>1, <3>2
      <4> QED BY <2>4, <3>2, <4>1, <4>2 DEF Agrees
    <3> QED BY <3>1, <3>2
  <2> QED BY <2>6, <2>7, <2>8
<1> QED BY <1>2, <1>3

-----------------------------------------------------------------------------
\* What every step keeps: the ledger adds up, and the histories follow it.
IInv ==
    /\ TypeOK
    /\ totalSupply <= Supply
    /\ SupplyConserved
    /\ PowersMatchDelegators
    /\ HistoriesOrdered

\* The part of the invariant about one type of power.
Bookkeeping(snaps, chosen, bal, b) ==
    /\ snaps \in [Accounts -> Seq(Snapshot)]
    /\ chosen \in [Accounts -> Addresses]
    /\ Agrees(snaps, bal, chosen)
    /\ InOrder(snaps, b)

\* The part of the invariant about the ledger alone.
LedgerInv ==
    /\ ERC20TypeOK
    /\ totalSupply <= Supply
    /\ Total(balances, Accounts) = totalSupply

\* The invariant, ledger and types of power apart.
Parts ==
    /\ LedgerInv
    /\ snapshots \in [DelegationTypes -> [Accounts -> Seq(Snapshot)]]
    /\ delegates \in [DelegationTypes -> [Accounts -> Addresses]]
    /\ \A t \in DelegationTypes : Bookkeeping(snapshots[t], delegates[t], balances, block)
    /\ block \in 1 .. MaxBlock
    /\ nonces \in [Accounts -> Nat]

\* The invariant, taken apart by type of power.
LEMMA InvariantParts == IInv <=> Parts
<1>1. PowersMatchDelegators <=>
        \A t \in DelegationTypes : Agrees(snapshots[t], balances, delegates[t])
  BY DEF PowersMatchDelegators, Agrees, DelegatorsIn, Delegators, PowerOf
<1>2. HistoriesOrdered <=> \A t \in DelegationTypes : InOrder(snapshots[t], block)
  BY DEF HistoriesOrdered, InOrder
<1> QED BY <1>1, <1>2 DEF IInv, Parts, LedgerInv, Bookkeeping, TypeOK, SupplyConserved

\* The same of the next state.
LEMMA InvariantPartsNext == IInv' <=> Parts'
<1>1. PowersMatchDelegators' <=>
        \A t \in DelegationTypes : Agrees(snapshots'[t], balances', delegates'[t])
  BY DEF PowersMatchDelegators, Agrees, DelegatorsIn, Delegators, PowerOf
<1>2. HistoriesOrdered' <=> \A t \in DelegationTypes : InOrder(snapshots'[t], block')
  BY DEF HistoriesOrdered, InOrder
<1> QED BY <1>1, <1>2 DEF IInv, Parts, LedgerInv, Bookkeeping, TypeOK, SupplyConserved

-----------------------------------------------------------------------------
\* When the balances add up to no more than Supply, what some accounts hold is
\* no more than it either, and fits a snapshot.
LEMMA HoldingsBounded ==
  ASSUME NEW bal \in [Accounts -> Nat], Total(bal, Accounts) <= Supply
  PROVE  /\ \A S \in SUBSET Accounts : Total(bal, S) \in 0 .. Uint128Range - 1
         /\ \A S \in SUBSET Accounts : Total(bal, S) <= Supply
         /\ \A a \in Accounts : bal[a] \in 0 .. Supply
<1>1. IsFiniteSet(Accounts) /\ \A a \in Accounts : bal[a] \in Nat
  BY AccountsAssumption
<1>2. ASSUME NEW S \in SUBSET Accounts
      PROVE  Total(bal, S) \in Nat /\ Total(bal, S) <= Supply
  <2>1. IsFiniteSet(S)
    BY <1>1, FS_Subset
  <2>2. Total(bal, S) \in Nat
    BY <1>1, <2>1, TokensFinite
  <2>3. Total(bal, S) <= Total(bal, Accounts)
    BY <1>1, TotalSubset
  <2>4. Total(bal, Accounts) \in Nat
    BY <1>1, TokensFinite
  <2> QED BY <2>2, <2>3, <2>4, SupplyAssumption
<1>3. \A S \in SUBSET Accounts : Total(bal, S) \in 0 .. Uint128Range - 1
  BY <1>2, SupplyAssumption, Uint128RangeAssumption
<1>4. \A a \in Accounts : bal[a] \in 0 .. Supply
  <2> SUFFICES ASSUME NEW a \in Accounts PROVE bal[a] \in 0 .. Supply
    OBVIOUS
  <2>1. bal[a] <= Total(bal, Accounts)
    BY <1>1, TotalBounds
  <2>2. Total(bal, Accounts) \in Nat
    BY <1>1, TokensFinite
  <2> QED BY <1>1, <2>1, <2>2, SupplyAssumption
<1> QED BY <1>2, <1>3, <1>4

\* What the invariant says of the balances and the block, in the form the
\* lemmas about moves take it.
LEMMA PartsTypes ==
  ASSUME Parts
  PROVE  /\ balances \in [Accounts -> Nat]
         /\ Total(balances, Accounts) = totalSupply
         /\ totalSupply \in 0 .. Supply
         /\ block \in 1 .. Uint128Range - 1
<1>1. Uint256 \subseteq Nat
  BY Uint256MaxAssumption DEF Uint256
<1>2. balances \in [Accounts -> Nat]
  BY <1>1 DEF Parts, LedgerInv, ERC20TypeOK
<1>3. block \in 1 .. Uint128Range - 1
  BY MaxBlockAssumption, Uint128RangeAssumption DEF Parts
<1>4. totalSupply \in 0 .. Supply
  BY <1>1, SupplyAssumption DEF Parts, LedgerInv, ERC20TypeOK
<1> QED BY <1>2, <1>3, <1>4 DEF Parts, LedgerInv

\* The same of the next state.
LEMMA PartsTypesNext ==
  ASSUME Parts'
  PROVE  /\ balances' \in [Accounts -> Nat]
         /\ Total(balances', Accounts) = totalSupply'
         /\ totalSupply' \in 0 .. Supply
<1>1. Uint256 \subseteq Nat
  BY Uint256MaxAssumption DEF Uint256
<1>2. balances' \in [Accounts -> Nat]
  BY <1>1 DEF Parts, LedgerInv, ERC20TypeOK
<1>3. totalSupply' \in 0 .. Supply
  BY <1>1, SupplyAssumption DEF Parts, LedgerInv, ERC20TypeOK
<1> QED BY <1>2, <1>3 DEF Parts, LedgerInv

\* A transfer keeps the ledger.
LEMMA TransferKeepsLedger ==
  ASSUME NEW bal, NEW bal2, NEW sender, NEW recipient, NEW amount,
         IsTransfer(Accounts, bal, bal2, sender, recipient, amount),
         Total(bal, Accounts) <= Supply
  PROVE  /\ bal2 \in [Accounts -> Nat]
         /\ bal2 \in [Accounts -> Uint256]
         /\ Total(bal2, Accounts) = Total(bal, Accounts)
<1>1. bal2 \in [Accounts -> Nat]
  BY DEF IsTransfer
<1>2. Total(bal2, Accounts) = Total(bal, Accounts)
  <2>1. TotalShifts(Accounts, bal, bal2, sender, recipient, amount)
    BY AccountsAssumption, TransferTotal
  <2>2. sender \in Accounts /\ recipient \in Accounts /\ amount \in Nat
    BY DEF IsTransfer
  <2>3. Total(bal, Accounts) \in Nat
    BY AccountsAssumption, TokensFinite DEF IsTransfer
  <2> QED BY <2>1, <2>2, <2>3 DEF TotalShifts
<1>3. \A a \in Accounts : bal2[a] \in Uint256
  <2>1. \A a \in Accounts : bal2[a] \in 0 .. Supply
    BY <1>1, <1>2, HoldingsBounded
  <2> QED BY <2>1, SupplyAssumption, Uint256MaxAssumption DEF Uint256
<1> QED BY <1>1, <1>2, <1>3

-----------------------------------------------------------------------------
\* A move of the power of one type that accounts for a step of the balances or
\* the delegates keeps the bookkeeping of that type.
LEMMA MoveKeepsBookkeeping ==
  ASSUME balances \in [Accounts -> Nat], block \in 1 .. Uint128Range - 1,
         NEW snaps, NEW chosen, Bookkeeping(snaps, chosen, balances, block),
         NEW from \in Accounts, NEW to \in Accounts, NEW amount \in Nat,
         CanMove(snaps, from, to, amount),
         NEW bal2 \in [Accounts -> Nat], Total(bal2, Accounts) <= Supply,
         NEW chosen2 \in [Accounts -> Addresses],
         PowerMoves(balances, chosen, bal2, chosen2, from, to, amount)
  PROVE  Bookkeeping(MoveDelegatesByType(snaps, from, to, amount), chosen2, bal2, block)
<1> DEFINE new == MoveDelegatesByType(snaps, from, to, amount)
<1>1. /\ snaps \in [Accounts -> Seq(Snapshot)]
      /\ Agrees(snaps, balances, chosen)
      /\ InOrder(snaps, block)
  BY DEF Bookkeeping
<1>2. from # to => amount <= PreviousPower(snaps, from)
  BY AccountsAssumption DEF CanMove
<1>3. \A u \in Accounts : Total(bal2, DelegatorsIn(chosen2, u)) \in 0 .. Uint128Range - 1
  <2>1. \A u : DelegatorsIn(chosen2, u) \in SUBSET Accounts
    BY DelegatorsFinite
  <2> QED BY <2>1, HoldingsBounded
<1>4. /\ new \in [Accounts -> Seq(Snapshot)]
      /\ Agrees(new, bal2, chosen2)
      /\ InOrder(new, block)
  <2> HIDE DEF new
  <2>1. new = MoveDelegatesByType(snaps, from, to, amount)
    BY DEF new
  <2> QED BY <1>1, <1>2, <1>3, <2>1, MoveKeepsHistories
<1> QED BY <1>4 DEF Bookkeeping

\* _transfer with its hook, whatever happens to the allowances.
LEMMA TransferKeepsParts ==
  ASSUME Parts, NEW sender \in Accounts, NEW recipient \in Addresses,
         NEW amount \in Nat,
         MoveTokens(sender, recipient, amount),
         BeforeTokenTransfer(sender, recipient, amount),
         UNCHANGED totalSupply,
         allowances' \in [Accounts -> [Accounts -> Uint256]]
  PROVE  Parts'
<1>1. /\ balances \in [Accounts -> Nat]
      /\ Total(balances, Accounts) = totalSupply
      /\ Total(balances, Accounts) <= Supply
      /\ block \in 1 .. Uint128Range - 1
  BY PartsTypes
<1>2. recipient \in Accounts
  BY DEF MoveTokens, Addresses
<1>3. IsTransfer(Accounts, balances, balances', sender, recipient, amount)
  BY <1>1, <1>2 DEF MoveTokens, IsTransfer
<1>4. /\ balances' \in [Accounts -> Nat]
      /\ balances' \in [Accounts -> Uint256]
      /\ Total(balances', Accounts) = totalSupply
      /\ Total(balances', Accounts) <= Supply
  BY <1>1, <1>2, <1>3, TransferKeepsLedger
<1>5. UNCHANGED <<delegates, block, nonces>>
  BY DEF BeforeTokenTransfer
<1>6. LedgerInv'
  BY <1>4 DEF Parts, LedgerInv, ERC20TypeOK
<1>7. /\ snapshots' \in [DelegationTypes -> [Accounts -> Seq(Snapshot)]]
      /\ \A t \in DelegationTypes : Bookkeeping(snapshots'[t], delegates[t], balances', block)
  <2>1. ASSUME NEW t \in DelegationTypes
        PROVE  Bookkeeping(snapshots'[t], delegates[t], balances', block)
    <3> DEFINE from == GetDelegatee(delegates[t], sender)
               to   == GetDelegatee(delegates[t], recipient)
    <3>1. /\ CanMove(snapshots[t], from, to, amount)
          /\ snapshots'[t] = MoveDelegatesByType(snapshots[t], from, to, amount)
      BY DEF BeforeTokenTransfer, MovePowers
    <3>2. /\ Bookkeeping(snapshots[t], delegates[t], balances, block)
          /\ delegates[t] \in [Accounts -> Addresses]
      BY DEF Parts
    <3>3. from \in Accounts /\ to \in Accounts
      BY <1>2, <3>2, DelegateeType
    <3>4. PowerMoves(balances, delegates[t], balances', delegates[t], from, to, amount)
      BY <1>1, <1>2, <1>3, <3>2, TransferMovesPower
    <3> HIDE DEF from, to
    <3> QED BY <1>1, <1>4, <3>1, <3>2, <3>3, <3>4, MoveKeepsBookkeeping
  <2>2. snapshots' = [t \in DelegationTypes |-> snapshots'[t]]
    BY DEF BeforeTokenTransfer, MovePowers
  <2>3. \A t \in DelegationTypes : snapshots'[t] \in [Accounts -> Seq(Snapshot)]
    BY <2>1 DEF Bookkeeping
  <2> QED BY <2>1, <2>2, <2>3
<1> QED BY <1>5, <1>6, <1>7 DEF Parts

\* _delegateByType for any of the types, whoever asks.
LEMMA DelegationKeepsParts ==
  ASSUME Parts, NEW a \in Accounts, NEW delegatee \in Addresses,
         NEW types \in SUBSET DelegationTypes,
         DelegateTypes(a, delegatee, types),
         UNCHANGED <<balances, allowances, totalSupply, block>>,
         nonces' \in [Accounts -> Nat]
  PROVE  Parts'
<1>1. /\ balances \in [Accounts -> Nat]
      /\ Total(balances, Accounts) = totalSupply
      /\ Total(balances, Accounts) <= Supply
      /\ block \in 1 .. Uint128Range - 1
  BY PartsTypes
<1>2. delegatee \in Accounts
  BY DEF DelegateTypes, Addresses
<1>3. ASSUME NEW t \in DelegationTypes
      PROVE  Bookkeeping(snapshots'[t], delegates'[t], balances, block)
  <2>1. /\ Bookkeeping(snapshots[t], delegates[t], balances, block)
        /\ delegates[t] \in [Accounts -> Addresses]
    BY DEF Parts
  <2>2. CASE t \notin types
    BY <2>1, <2>2 DEF DelegateTypes
  <2>3. CASE t \in types
    <3> DEFINE from == GetDelegatee(delegates[t], a)
    <3>1. /\ CanMove(snapshots[t], from, delegatee, balances[a])
          /\ snapshots'[t] = MoveDelegatesByType(snapshots[t], from, delegatee, balances[a])
          /\ delegates'[t] = [delegates[t] EXCEPT ![a] = delegatee]
      BY <2>3 DEF DelegateTypes
    <3>2. from \in Accounts /\ balances[a] \in Nat
      BY <1>1, <2>1, DelegateeType
    <3>3. delegates'[t] \in [Accounts -> Addresses]
      BY <2>1, <3>1
    <3>4. PowerMoves(balances, delegates[t], balances, delegates'[t], from, delegatee, balances[a])
      BY <1>1, <1>2, <2>1, <3>1, DelegationMovesPower
    <3> HIDE DEF from
    <3> QED BY <1>1, <1>2, <2>1, <3>1, <3>2, <3>3, <3>4, MoveKeepsBookkeeping
  <2> QED BY <2>2, <2>3
<1>4. /\ snapshots' \in [DelegationTypes -> [Accounts -> Seq(Snapshot)]]
      /\ delegates' \in [DelegationTypes -> [Accounts -> Addresses]]
  <2>1. /\ snapshots' = [t \in DelegationTypes |-> snapshots'[t]]
        /\ delegates' = [t \in DelegationTypes |-> delegates'[t]]
    BY DEF DelegateTypes
  <2>2. \A t \in DelegationTypes : /\ snapshots'[t] \in [Accounts -> Seq(Snapshot)]
                                   /\ delegates'[t] \in [Accounts -> Addresses]
    BY <1>3 DEF Bookkeeping
  <2> QED BY <2>1, <2>2
<1> QED BY <1>3, <1>4 DEF Parts, LedgerInv, ERC20TypeOK

-----------------------------------------------------------------------------
\* What _approve leaves, when only allowances and nonces change.
LEMMA AllowanceKeepsParts ==
  ASSUME Parts, allowances' \in [Accounts -> [Accounts -> Uint256]],
         nonces' \in [Accounts -> Nat],
         UNCHANGED <<balances, totalSupply, snapshots, delegates, block>>
  PROVE  Parts'
BY DEF Parts, LedgerInv, ERC20TypeOK

\* _approve keeps the allowances in their type.
LEMMA AllowanceType ==
  ASSUME Parts, NEW owner \in Addresses, NEW spender \in Addresses,
         NEW amount \in Uint256, SetAllowance(owner, spender, amount)
  PROVE  allowances' \in [Accounts -> [Accounts -> Uint256]]
<1>1. owner \in Accounts /\ spender \in Accounts
  BY DEF SetAllowance, Addresses
<1>2. allowances \in [Accounts -> [Accounts -> Uint256]]
  BY DEF Parts, LedgerInv, ERC20TypeOK
<1> QED BY <1>1, <1>2 DEF SetAllowance

\* Taking a nonce keeps the nonces natural.
LEMMA NonceType ==
  ASSUME Parts, NEW signer \in Accounts, NEW nonce, UseNonce(signer, nonce)
  PROVE  nonces' \in [Accounts -> Nat]
BY DEF Parts, UseNonce

\* The calls a holder makes for itself.
LEMMA CallKeepsParts ==
  ASSUME Parts, NEW caller \in Accounts, Call(caller)
  PROVE  Parts'
<1>1. /\ TransferAmounts \subseteq Nat /\ ApprovalAmounts \subseteq Uint256
      /\ Delegatees \subseteq Addresses
      /\ \A t \in DelegationTypes : DelegateesByType[t] \subseteq Addresses
      /\ Uint256 \subseteq Nat
  BY InputsAssumption, Uint256MaxAssumption DEF Uint256
<1>2. /\ allowances \in [Accounts -> [Accounts -> Uint256]]
      /\ nonces \in [Accounts -> Nat]
  BY DEF Parts, LedgerInv, ERC20TypeOK
<1>3. caller \in Addresses
  BY DEF Addresses
<1>4. ASSUME NEW recipient \in Addresses, NEW amount \in TransferAmounts,
             TokenTransfer(caller, recipient, amount)
      PROVE  Parts'
  <2>1. MoveTokens(caller, recipient, amount) /\ UNCHANGED <<allowances, totalSupply>>
    BY <1>4 DEF TokenTransfer, Transfer
  <2>2. BeforeTokenTransfer(caller, recipient, amount)
    BY <1>4 DEF TokenTransfer
  <2> QED BY <1>1, <1>2, <2>1, <2>2, TransferKeepsParts
<1>5. ASSUME NEW sender \in Accounts, NEW recipient \in Addresses,
             NEW amount \in TransferAmounts,
             TokenTransferFrom(caller, sender, recipient, amount)
      PROVE  Parts'
  <2>1. /\ MoveTokens(sender, recipient, amount) /\ UNCHANGED totalSupply
        /\ amount <= allowances[sender][caller]
        /\ SetAllowance(sender, caller, allowances[sender][caller] - amount)
    BY <1>5 DEF TokenTransferFrom, TransferFrom
  <2>2. BeforeTokenTransfer(sender, recipient, amount)
    BY <1>5 DEF TokenTransferFrom
  <2>3. allowances[sender][caller] - amount \in Uint256
    <3>1. amount \in Nat /\ allowances[sender][caller] \in Uint256
      BY <1>1, <1>2
    <3> QED BY <2>1, <3>1, Uint256MaxAssumption DEF Uint256
  <2>4. sender \in Addresses
    BY DEF Addresses
  <2>5. allowances' \in [Accounts -> [Accounts -> Uint256]]
    BY <1>3, <2>1, <2>3, <2>4, AllowanceType
  <2> QED BY <1>1, <2>1, <2>2, <2>5, TransferKeepsParts
<1>6. ASSUME Approvals(caller)
      PROVE  Parts'
  <2>1. PICK spender \in Addresses, amount \in ApprovalAmounts :
          /\ \/ Approve(caller, spender, amount)
             \/ IncreaseAllowance(caller, spender, amount)
             \/ DecreaseAllowance(caller, spender, amount)
          /\ UNCHANGED <<snapshots, delegates, block, nonces>>
    BY <1>6 DEF Approvals
  <2>2. amount \in Uint256
    BY <1>1
  <2>3. /\ \E value \in Uint256 : SetAllowance(caller, spender, value)
        /\ UNCHANGED <<balances, totalSupply>>
    <3>1. CASE Approve(caller, spender, amount)
      BY <2>2, <3>1 DEF Approve
    <3>2. CASE IncreaseAllowance(caller, spender, amount)
      <4>1. spender \in Accounts
        BY <3>2 DEF IncreaseAllowance, Addresses
      <4>2. allowances[caller][spender] + amount \in Uint256
        <5>1. allowances[caller][spender] \in Uint256
          BY <1>2, <4>1
        <5> QED BY <2>2, <3>2, <5>1, Uint256MaxAssumption DEF IncreaseAllowance, Uint256
      <4> QED BY <3>2, <4>2 DEF IncreaseAllowance
    <3>3. CASE DecreaseAllowance(caller, spender, amount)
      <4>1. spender \in Accounts
        BY <3>3 DEF DecreaseAllowance, Addresses
      <4>2. allowances[caller][spender] - amount \in Uint256
        <5>1. allowances[caller][spender] \in Uint256
          BY <1>2, <4>1
        <5> QED BY <2>2, <3>3, <5>1, Uint256MaxAssumption DEF DecreaseAllowance, Uint256
      <4> QED BY <3>3, <4>2 DEF DecreaseAllowance
    <3> QED BY <2>1, <3>1, <3>2, <3>3
  <2>4. allowances' \in [Accounts -> [Accounts -> Uint256]]
    BY <1>3, <2>3, AllowanceType
  <2> QED BY <1>2, <2>1, <2>3, <2>4, AllowanceKeepsParts
<1>7. ASSUME NEW t \in DelegationTypes, NEW delegatee \in DelegateesByType[t],
             DelegateByType(caller, delegatee, t)
      PROVE  Parts'
  <2>1. delegatee \in Addresses /\ {t} \in SUBSET DelegationTypes
    BY <1>1
  <2>2. /\ DelegateTypes(caller, delegatee, {t})
        /\ UNCHANGED <<balances, allowances, totalSupply, block, nonces>>
    BY <1>7 DEF DelegateByType
  <2> QED BY <1>2, <2>1, <2>2, DelegationKeepsParts
<1>8. ASSUME NEW delegatee \in Delegatees, Delegate(caller, delegatee)
      PROVE  Parts'
  <2>1. /\ DelegateTypes(caller, delegatee, DelegationTypes)
        /\ UNCHANGED <<balances, allowances, totalSupply, block, nonces>>
    BY <1>8 DEF Delegate
  <2> QED BY <1>1, <1>2, <2>1, DelegationKeepsParts
<1> QED BY <1>4, <1>5, <1>6, <1>7, <1>8 DEF Call

\* The messages anybody relays.
LEMMA RelayKeepsParts ==
  ASSUME Parts, NEW m \in SignedMessages, Relay(m)
  PROVE  Parts'
<1>1. m \in Permits \/ m \in Delegations
  BY InputsAssumption
<1>2. m.signer \in Accounts /\ m.signer \in Addresses
  BY <1>1 DEF Permits, Delegations, Addresses
<1>3. CASE Permit(m)
  <2>1. m \in Permits
    BY <1>1, <1>3 DEF Permit, Permits, Delegations
  <2>2. m.spender \in Addresses /\ m.value \in Uint256
    BY <2>1 DEF Permits
  <2>3. /\ UseNonce(m.signer, m.nonce)
        /\ SetAllowance(m.signer, m.spender, m.value)
        /\ UNCHANGED <<balances, totalSupply, snapshots, delegates, block>>
    BY <1>3 DEF Permit
  <2>4. nonces' \in [Accounts -> Nat]
    BY <1>2, <2>3, NonceType
  <2>5. allowances' \in [Accounts -> [Accounts -> Uint256]]
    BY <1>2, <2>2, <2>3, AllowanceType
  <2> QED BY <2>3, <2>4, <2>5, AllowanceKeepsParts
<1>4. ASSUME m.kind # "Permit"
      PROVE  m \in Delegations /\ m.delegatee \in Addresses
  BY <1>1, <1>4 DEF Permits, Delegations
<1>5. CASE DelegateByTypeBySig(m)
  <2>1. m.kind = "DelegateByType"
    BY <1>5 DEF DelegateByTypeBySig
  <2>2. m \in Delegations /\ m.delegatee \in Addresses
    BY <1>4, <2>1
  <2>3. {m.delegationType} \in SUBSET DelegationTypes
    BY <2>1, <2>2 DEF Delegations
  <2>4. /\ UseNonce(m.signer, m.nonce)
        /\ DelegateTypes(m.signer, m.delegatee, {m.delegationType})
        /\ UNCHANGED <<balances, allowances, totalSupply, block>>
    BY <1>5 DEF DelegateByTypeBySig
  <2>5. nonces' \in [Accounts -> Nat]
    BY <1>2, <2>4, NonceType
  <2> QED BY <1>2, <2>2, <2>3, <2>4, <2>5, DelegationKeepsParts
<1>6. CASE DelegateBySig(m)
  <2>1. m.kind = "Delegate"
    BY <1>6 DEF DelegateBySig
  <2>2. m.delegatee \in Addresses
    BY <1>4, <2>1
  <2>3. /\ UseNonce(m.signer, m.nonce)
        /\ DelegateTypes(m.signer, m.delegatee, DelegationTypes)
        /\ UNCHANGED <<balances, allowances, totalSupply, block>>
    BY <1>6 DEF DelegateBySig
  <2>4. nonces' \in [Accounts -> Nat]
    BY <1>2, <2>3, NonceType
  <2> QED BY <1>2, <2>2, <2>3, <2>4, DelegationKeepsParts
<1> QED BY <1>3, <1>5, <1>6 DEF Relay

-----------------------------------------------------------------------------
\* The state the upgrade leaves satisfies the invariant.
THEOREM InitEstablishes == Init => IInv
<1> SUFFICES ASSUME Init PROVE Parts
  BY InvariantParts
<1>1. PICK touched \in SUBSET Accounts :
        /\ {a \in Accounts : balances[a] > 0} \subseteq touched
        /\ snapshots = [t \in DelegationTypes |-> [a \in Accounts |->
              IF t = VOTING_POWER /\ a \in touched
              THEN <<[blockNumber |-> 0, value |-> balances[a]]>>
              ELSE <<>>]]
  BY DEF Init
<1>2. /\ balances \in [Accounts -> Nat]
      /\ Total(balances, Accounts) = Supply
      /\ totalSupply = Supply /\ Supply <= Supply
      /\ balances \in [Accounts -> 0 .. Supply]
  BY SupplyAssumption DEF Init
<1>3. \A a \in Accounts : balances[a] \in 0 .. Uint128Range - 1
  BY <1>2, SupplyAssumption, Uint128RangeAssumption
<1>4. LedgerInv
  <2>1. balances \in [Accounts -> Uint256] /\ Supply \in Uint256 /\ 0 \in Uint256
    BY <1>2, SupplyAssumption, Uint256MaxAssumption DEF Uint256
  <2>2. allowances \in [Accounts -> [Accounts -> Uint256]]
    BY <2>1 DEF Init
  <2> QED BY <1>2, <2>1, <2>2 DEF LedgerInv, ERC20TypeOK, Init
<1>5. ASSUME NEW t \in DelegationTypes
      PROVE  Bookkeeping(snapshots[t], delegates[t], balances, block)
  <2> DEFINE first(a) == [blockNumber |-> 0, value |-> balances[a]]
             snaps == snapshots[t]
  <2>1. /\ snaps = [a \in Accounts |->
               IF t = VOTING_POWER /\ a \in touched THEN <<first(a)>> ELSE <<>>]
        /\ delegates[t] = [a \in Accounts |-> ZeroAddress]
        /\ block = 1
    BY <1>1 DEF Init
  <2>2. \A a \in Accounts : first(a) \in Snapshot
    BY <1>3, Uint128RangeAssumption DEF Snapshot
  <2>3. \A a \in Accounts : snaps[a] \in {<<>>, <<first(a)>>}
    BY <2>1
  <2>4. snaps \in [Accounts -> Seq(Snapshot)]
    BY <2>1, <2>2
  <2>5. delegates[t] \in [Accounts -> Addresses]
    BY <2>1 DEF Addresses
  <2>6. \A u \in Accounts : DelegatorsIn(delegates[t], u) = {u}
    BY <2>1 DEF DelegatorsIn, GetDelegatee
  <2>7. \A a \in Accounts : snaps[a] # <<>> =>
          /\ LastOf(snaps[a]).value = Total(balances, {a})
          /\ LastOf(snaps[a]).blockNumber <= block
          /\ IsOrdered(snaps[a])
    <3> SUFFICES ASSUME NEW a \in Accounts, snaps[a] # <<>>
                 PROVE  /\ LastOf(snaps[a]).value = Total(balances, {a})
                        /\ LastOf(snaps[a]).blockNumber <= block
                        /\ IsOrdered(snaps[a])
      OBVIOUS
    <3>1. snaps[a] = <<first(a)>>
      BY <2>3
    <3>2. Total(balances, {a}) = balances[a]
      BY <1>2, TotalSingleton
    <3> QED BY <2>1, <3>1, <3>2 DEF LastOf, IsOrdered
  <2>8. \A a \in Accounts : snaps[a] = <<>> => IsOrdered(snaps[a])
    BY DEF IsOrdered
  <2>9. Agrees(snaps, balances, delegates[t]) /\ InOrder(snaps, block)
    <3> HIDE DEF snaps
    <3> QED BY <2>6, <2>7, <2>8 DEF Agrees, InOrder
  <2> QED BY <2>4, <2>5, <2>9 DEF Bookkeeping
<1>6. /\ snapshots = [t \in DelegationTypes |-> snapshots[t]]
      /\ delegates = [t \in DelegationTypes |-> delegates[t]]
  BY <1>1 DEF Init
<1>7. \A t \in DelegationTypes : /\ snapshots[t] \in [Accounts -> Seq(Snapshot)]
                                 /\ delegates[t] \in [Accounts -> Addresses]
  BY <1>5 DEF Bookkeeping
<1>8. /\ snapshots \in [DelegationTypes -> [Accounts -> Seq(Snapshot)]]
      /\ delegates \in [DelegationTypes -> [Accounts -> Addresses]]
  BY <1>6, <1>7
<1>9. block \in 1 .. MaxBlock /\ nonces \in [Accounts -> Nat]
  BY MaxBlockAssumption DEF Init
<1> QED BY <1>4, <1>5, <1>8, <1>9 DEF Parts

\* Every transaction, and the next block, keep the invariant.
THEOREM NextKeeps == IInv /\ [Next]_vars => IInv'
<1> SUFFICES ASSUME Parts, [Next]_vars PROVE Parts'
  BY InvariantParts, InvariantPartsNext
<1>1. ASSUME NEW caller \in Accounts, Call(caller)
      PROVE  Parts'
  BY <1>1, CallKeepsParts
<1>2. ASSUME NEW m \in SignedMessages, Relay(m)
      PROVE  Parts'
  BY <1>2, RelayKeepsParts
<1>3. CASE NextBlock
  <2>1. /\ block' \in 1 .. MaxBlock /\ block <= block'
        /\ UNCHANGED <<balances, allowances, totalSupply, snapshots, delegates, nonces>>
    BY <1>3, MaxBlockAssumption DEF NextBlock, Parts
  <2>2. ASSUME NEW t \in DelegationTypes
        PROVE  Bookkeeping(snapshots[t], delegates[t], balances, block')
    <3>1. Bookkeeping(snapshots[t], delegates[t], balances, block)
      BY DEF Parts
    <3>2. ASSUME NEW u \in Accounts, snapshots[t][u] # <<>>
          PROVE  LastOf(snapshots[t][u]).blockNumber <= block'
      <4>1. LastOf(snapshots[t][u]) \in Snapshot
        BY <3>1, <3>2, LenProperties DEF Bookkeeping, LastOf
      <4>2. LastOf(snapshots[t][u]).blockNumber \in Nat
        BY <4>1, Uint128RangeAssumption DEF Snapshot
      <4>3. LastOf(snapshots[t][u]).blockNumber <= block
        BY <3>1, <3>2 DEF Bookkeeping, InOrder
      <4> QED BY <2>1, <4>2, <4>3 DEF Parts
    <3> QED BY <3>1, <3>2 DEF Bookkeeping, InOrder
  <2> QED BY <2>1, <2>2 DEF Parts, LedgerInv, ERC20TypeOK
<1>4. CASE UNCHANGED vars
  BY <1>4 DEF vars, Parts, LedgerInv, ERC20TypeOK
<1> QED BY <1>1, <1>2, <1>3, <1>4 DEF Next

\* The invariant holds in every state of every behaviour.
THEOREM Invariance == Spec => []IInv
<1>1. Init => IInv
  BY InitEstablishes
<1>2. IInv /\ [Next]_vars => IInv'
  BY NextKeeps
<1> QED BY <1>1, <1>2, PTL DEF Spec

-----------------------------------------------------------------------------
\* The state stays well typed: in particular no balance, allowance, nonce or
\* snapshot leaves its range.
THEOREM TypeCorrect == Spec => []TypeOK
<1>1. IInv => TypeOK
  BY DEF IInv
<1> QED BY <1>1, Invariance, PTL

\* The balances always add up to the supply.
THEOREM SupplyIsConserved == Spec => []SupplyConserved
<1>1. IInv => SupplyConserved
  BY DEF IInv
<1> QED BY <1>1, Invariance, PTL

\* The last entry of every history is what its delegators hold.
THEOREM PowersAlwaysMatch == Spec => []PowersMatchDelegators
<1>1. IInv => PowersMatchDelegators
  BY DEF IInv
<1> QED BY <1>1, Invariance, PTL

\* Histories stay in order of block, one entry a block.
THEOREM HistoriesStayOrdered == Spec => []HistoriesOrdered
<1>1. IInv => HistoriesOrdered
  BY DEF IInv
<1> QED BY <1>1, Invariance, PTL

\* The invariant makes getPowerCurrent the sum of the balances delegated.
LEMMA InvariantPowers == IInv => PowerIsDelegatedBalances
<1>1. ASSUME IInv, NEW t \in DelegationTypes, NEW u \in Accounts
      PROVE  GetPowerAtBlock(t, u, block) = PowerOf(t, u)
  <2>1. CASE snapshots[t][u] = <<>>
    <3>1. Delegators(t, u) = {u}
      BY <1>1, <2>1 DEF IInv, PowersMatchDelegators
    <3>2. balances[u] \in Nat
      BY <1>1, InvariantParts, PartsTypes
    <3>3. PowerOf(t, u) = balances[u]
      BY <3>1, <3>2, TotalSingleton DEF PowerOf
    <3> QED BY <2>1, <3>3 DEF GetPowerAtBlock, SearchByBlockNumber
  <2>2. CASE snapshots[t][u] # <<>>
    <3>1. LastOf(snapshots[t][u]).blockNumber <= block
      BY <1>1, <2>2 DEF IInv, HistoriesOrdered
    <3>2. LastOf(snapshots[t][u]).value = PowerOf(t, u)
      BY <1>1, <2>2 DEF IInv, PowersMatchDelegators
    <3> QED BY <2>2, <3>1, <3>2 DEF GetPowerAtBlock, SearchByBlockNumber
  <2> QED BY <2>1, <2>2
<1> QED BY <1>1 DEF PowerIsDelegatedBalances

\* getPowerCurrent always answers the sum of the balances delegated to the
\* address.
THEOREM CurrentPowerIsDelegated == Spec => []PowerIsDelegatedBalances
BY InvariantPowers, Invariance, PTL

\* The checked arithmetic of _moveDelegatesByType never reverts: nobody's
\* transfer or delegation is blocked by how power was delegated before.
THEOREM MovesAreNeverBlocked == Spec => []MovesNotBlocked
<1>1. ASSUME IInv, NEW t \in DelegationTypes, NEW a \in Accounts, NEW to \in Accounts,
             NEW amount \in 0 .. balances[a]
      PROVE  CanMove(snapshots[t], GetDelegatee(delegates[t], a), to, amount)
  <2> DEFINE from == GetDelegatee(delegates[t], a)
             held(u) == Total(balances, DelegatorsIn(delegates[t], u))
  <2>1. Parts
    BY <1>1, InvariantParts
  <2>2. /\ balances \in [Accounts -> Nat]
        /\ Total(balances, Accounts) <= Supply
    BY <2>1, PartsTypes
  <2>3. /\ Agrees(snapshots[t], balances, delegates[t])
        /\ delegates[t] \in [Accounts -> Addresses]
    BY <2>1 DEF Parts, Bookkeeping
  <2>4. from \in Accounts
    BY <2>3, DelegateeType
  <2>5. \A u \in Accounts : PreviousPower(snapshots[t], u) = held(u)
    BY <2>2, <2>3, PreviousPowerIsPower
  <2>6. \A u \in Accounts : held(u) \in Nat /\ held(u) <= Supply
    BY <2>2, DelegatorsFinite, HoldingsBounded
  <2>7. balances[a] <= held(from)
    <3>1. a \in DelegatorsIn(delegates[t], from)
      BY DEF DelegatorsIn
    <3>2. /\ IsFiniteSet(DelegatorsIn(delegates[t], from))
          /\ DelegatorsIn(delegates[t], from) \in SUBSET Accounts
      BY DelegatorsFinite
    <3>3. \A c \in DelegatorsIn(delegates[t], from) : balances[c] \in Nat
      BY <2>2, <3>2
    <3> QED BY <3>1, <3>2, <3>3, TotalBounds
  <2>8. balances[a] \in 0 .. Supply
    BY <2>2, HoldingsBounded
  <2>9. amount <= held(from) /\ held(to) + amount <= Uint256Max
    <3>1. /\ amount \in Nat /\ amount <= balances[a] /\ balances[a] <= Supply
          /\ balances[a] \in Nat
      BY <2>8, SupplyAssumption
    <3>2. held(from) \in Nat /\ held(to) \in Nat /\ held(to) <= Supply
      BY <2>4, <2>6
    <3> HIDE DEF held, from
    <3> QED BY <2>7, <3>1, <3>2, SupplyAssumption, Uint256MaxAssumption
  <2> QED BY <2>4, <2>5, <2>9 DEF CanMove
<1>2. IInv => MovesNotBlocked
  <2> SUFFICES ASSUME IInv, NEW t \in DelegationTypes, NEW a \in Accounts, NEW b \in Accounts
               PROVE  /\ \A amount \in 0 .. balances[a] :
                           CanMove(snapshots[t], GetDelegatee(delegates[t], a),
                                   GetDelegatee(delegates[t], b), amount)
                      /\ CanMove(snapshots[t], GetDelegatee(delegates[t], a), b, balances[a])
    BY DEF MovesNotBlocked
  <2>1. balances[a] \in Nat /\ delegates[t] \in [Accounts -> Addresses]
    BY InvariantParts, PartsTypes DEF Parts
  <2>2. GetDelegatee(delegates[t], b) \in Accounts /\ balances[a] \in 0 .. balances[a]
    BY <2>1, DelegateeType
  <2> QED BY <1>1, <2>2
<1> QED BY <1>2, Invariance, PTL

-----------------------------------------------------------------------------
\* What the calls do to balances, histories and delegates: a transfer,
StepOfTokens(sender, recipient, amount) ==
    /\ IsTransfer(Accounts, balances, balances', sender, recipient, amount)
    /\ MovePowers(sender, recipient, amount)
    /\ UNCHANGED <<totalSupply, delegates, block>>

\* a delegation,
StepOfDelegation(a, delegatee, types) ==
    /\ DelegateTypes(a, delegatee, types)
    /\ UNCHANGED <<balances, totalSupply, block>>

\* the end of the block,
StepOfBlock ==
    /\ block < MaxBlock
    /\ block' = block + 1
    /\ UNCHANGED <<balances, totalSupply, snapshots, delegates>>

\* or nothing (approvals, permits).
StepOfNothing == UNCHANGED <<balances, totalSupply, snapshots, delegates, block>>

Moved == \E sender, recipient \in Accounts, amount \in Nat :
            StepOfTokens(sender, recipient, amount)
Delegated == \E a, delegatee \in Accounts, types \in SUBSET DelegationTypes :
                StepOfDelegation(a, delegatee, types)

\* Every step is one of them, whoever sends or has signed the call.
LEMMA StepShapes ==
  ASSUME Parts, [Next]_vars
  PROVE  Moved \/ Delegated \/ StepOfBlock \/ StepOfNothing
<1>1. balances \in [Accounts -> Nat]
  BY PartsTypes
<1>2. ASSUME NEW sender \in Accounts, NEW recipient \in Addresses, NEW amount \in Nat,
             MoveTokens(sender, recipient, amount), UNCHANGED totalSupply,
             BeforeTokenTransfer(sender, recipient, amount)
      PROVE  Moved
  <2>1. recipient \in Accounts
    BY <1>2 DEF MoveTokens, Addresses
  <2>2. IsTransfer(Accounts, balances, balances', sender, recipient, amount)
    BY <1>1, <1>2, <2>1 DEF MoveTokens, IsTransfer
  <2>3. StepOfTokens(sender, recipient, amount)
    BY <1>2, <2>2 DEF BeforeTokenTransfer, StepOfTokens
  <2> QED BY <2>1, <2>3 DEF Moved
<1>3. ASSUME NEW a \in Accounts, NEW delegatee \in Addresses,
             NEW types \in SUBSET DelegationTypes,
             DelegateTypes(a, delegatee, types),
             UNCHANGED <<balances, totalSupply, block>>
      PROVE  Delegated
  <2>1. delegatee \in Accounts
    BY <1>3 DEF DelegateTypes, Addresses
  <2>2. StepOfDelegation(a, delegatee, types)
    BY <1>3 DEF StepOfDelegation
  <2> QED BY <2>1, <2>2 DEF Delegated
<1>4. ASSUME NEW caller \in Accounts, Call(caller)
      PROVE  Moved \/ Delegated \/ StepOfNothing
  <2>1. /\ TransferAmounts \subseteq Nat /\ Delegatees \subseteq Addresses
        /\ \A t \in DelegationTypes : DelegateesByType[t] \subseteq Addresses
    BY InputsAssumption, Uint256MaxAssumption DEF Uint256
  <2>2. ASSUME NEW recipient \in Addresses, NEW amount \in TransferAmounts,
               TokenTransfer(caller, recipient, amount)
        PROVE  Moved
    BY <1>2, <2>1, <2>2 DEF TokenTransfer, Transfer
  <2>3. ASSUME NEW sender \in Accounts, NEW recipient \in Addresses,
               NEW amount \in TransferAmounts,
               TokenTransferFrom(caller, sender, recipient, amount)
        PROVE  Moved
    BY <1>2, <2>1, <2>3 DEF TokenTransferFrom, TransferFrom
  <2>4. CASE Approvals(caller)
    BY <2>4 DEF Approvals, Approve, IncreaseAllowance, DecreaseAllowance, StepOfNothing
  <2>5. ASSUME NEW t \in DelegationTypes, NEW delegatee \in DelegateesByType[t],
               DelegateByType(caller, delegatee, t)
        PROVE  Delegated
    <3>1. delegatee \in Addresses /\ {t} \in SUBSET DelegationTypes
      BY <2>1
    <3>2. DelegateTypes(caller, delegatee, {t}) /\ UNCHANGED <<balances, totalSupply, block>>
      BY <2>5 DEF DelegateByType
    <3> QED BY <1>3, <3>1, <3>2
  <2>6. ASSUME NEW delegatee \in Delegatees, Delegate(caller, delegatee)
        PROVE  Delegated
    <3>1. DelegateTypes(caller, delegatee, DelegationTypes) /\ UNCHANGED <<balances, totalSupply, block>>
      BY <2>6 DEF Delegate
    <3> QED BY <1>3, <2>1, <3>1
  <2> QED BY <1>4, <2>2, <2>3, <2>4, <2>5, <2>6 DEF Call
<1>5. ASSUME NEW m \in SignedMessages, Relay(m)
      PROVE  Delegated \/ StepOfNothing
  <2>1. m \in Permits \/ m \in Delegations
    BY InputsAssumption
  <2>2. m.signer \in Accounts
    BY <2>1 DEF Permits, Delegations
  <2>3. CASE Permit(m)
    BY <2>3 DEF Permit, StepOfNothing
  <2>4. ASSUME m.kind # "Permit"
        PROVE  m \in Delegations /\ m.delegatee \in Addresses
    BY <2>1, <2>4 DEF Permits, Delegations
  <2>5. CASE DelegateByTypeBySig(m)
    <3>1. m.kind = "DelegateByType"
      BY <2>5 DEF DelegateByTypeBySig
    <3>2. m.delegatee \in Addresses /\ {m.delegationType} \in SUBSET DelegationTypes
      BY <2>4, <3>1 DEF Delegations
    <3>3. /\ DelegateTypes(m.signer, m.delegatee, {m.delegationType})
          /\ UNCHANGED <<balances, totalSupply, block>>
      BY <2>5 DEF DelegateByTypeBySig
    <3> QED BY <1>3, <2>2, <3>2, <3>3
  <2>6. CASE DelegateBySig(m)
    <3>1. m.kind = "Delegate"
      BY <2>6 DEF DelegateBySig
    <3>2. m.delegatee \in Addresses
      BY <2>4, <3>1
    <3>3. /\ DelegateTypes(m.signer, m.delegatee, DelegationTypes)
          /\ UNCHANGED <<balances, totalSupply, block>>
      BY <2>6 DEF DelegateBySig
    <3> QED BY <1>3, <2>2, <3>2, <3>3
  <2> QED BY <1>5, <2>3, <2>5, <2>6 DEF Relay
<1>6. CASE NextBlock
  BY <1>6 DEF NextBlock, StepOfBlock
<1>7. CASE UNCHANGED vars
  BY <1>7 DEF vars, StepOfNothing
<1> QED BY <1>4, <1>5, <1>6, <1>7 DEF Next

-----------------------------------------------------------------------------
\* For the past blocks the new histories of one type have the values of the old.
PastKept(snaps, new) ==
    \A u \in Accounts : \A b \in 0 .. block - 1 :
        ValueAt(new[u], b) = ValueAt(snaps[u], b)

\* This step changes no value the histories have for a past block.
PastValuesKept == \A t \in DelegationTypes : PastKept(snapshots[t], snapshots'[t])

\* A move of power writes at most the entry of the current block.
LEMMA MoveKeepsPast ==
  ASSUME NEW snaps \in [Accounts -> Seq(Snapshot)],
         block \in 1 .. Uint128Range - 1, balances \in [Accounts -> Nat],
         NEW from \in Accounts, NEW to \in Accounts, NEW amount \in Nat,
         CanMove(snaps, from, to, amount)
  PROVE  PastKept(snaps, MoveDelegatesByType(snaps, from, to, amount))
<1> SUFFICES ASSUME NEW u \in Accounts, NEW b \in 0 .. block - 1
             PROVE  ValueAt(MoveDelegatesByType(snaps, from, to, amount)[u], b)
                      = ValueAt(snaps[u], b)
  BY DEF PastKept
<1> DEFINE w == MoveDelegatesByType(snaps, from, to, amount)[u]
<1>1. CASE from = to \/ u \notin {from, to}
  BY <1>1 DEF MoveDelegatesByType
<1>2. CASE from # to /\ u \in {from, to}
  <2>1. PreviousPower(snaps, u) \in Nat
    <3>1. CASE snaps[u] = <<>>
      BY <3>1 DEF PreviousPower
    <3>2. CASE snaps[u] # <<>>
      <4>1. LastOf(snaps[u]) \in Snapshot
        BY <3>2, LenProperties DEF LastOf
      <4> QED BY <3>2, <4>1, Uint128RangeAssumption DEF PreviousPower, Snapshot
    <3> QED BY <3>1, <3>2
  <2>2. \E n \in Nat : w = WriteSnapshot(snaps[u], block, Uint128(n))
    <3>1. CASE u = from
      <4>1. PreviousPower(snaps, u) - amount \in Nat
        BY <1>2, <2>1, <3>1, AccountsAssumption DEF CanMove
      <4> QED BY <1>2, <3>1, <4>1 DEF MoveDelegatesByType
    <3>2. CASE u = to
      <4>1. PreviousPower(snaps, u) + amount \in Nat
        BY <2>1
      <4> QED BY <1>2, <3>2, <4>1 DEF MoveDelegatesByType
    <3> QED BY <1>2, <3>1, <3>2
  <2>3. PICK v \in 0 .. Uint128Range - 1 : w = WriteSnapshot(snaps[u], block, v)
    BY <2>2, CastBounded
  <2>4. snaps[u] \in Seq(Snapshot) /\ block \in 0 .. Uint128Range - 1
    BY SMT
  <2> HIDE DEF w
  <2>5. IsWrite(snaps[u], block, v, w)
    BY <2>3, <2>4, WriteEntries
  <2>6. ValueAt(w, b) = ValueAt(snaps[u], b)
    BY <2>4, <2>5, WriteKeepsPast
  <2> QED BY <2>6 DEF w
<1> QED BY <1>1, <1>2

\* Every step keeps what the histories say of the blocks that are over.
THEOREM NextKeepsPast == IInv /\ [Next]_vars => [PastValuesKept]_vars
<1> SUFFICES ASSUME Parts, [Next]_vars PROVE PastValuesKept
  BY InvariantParts
<1>1. /\ balances \in [Accounts -> Nat] /\ block \in 1 .. Uint128Range - 1
  BY PartsTypes
<1>2. \A t \in DelegationTypes : /\ snapshots[t] \in [Accounts -> Seq(Snapshot)]
                                 /\ delegates[t] \in [Accounts -> Addresses]
  BY DEF Parts
<1>3. ASSUME UNCHANGED snapshots
      PROVE  PastValuesKept
  BY <1>3 DEF PastValuesKept, PastKept
<1>4. ASSUME NEW sender \in Accounts, NEW recipient \in Accounts, NEW amount \in Nat,
             StepOfTokens(sender, recipient, amount)
      PROVE  PastValuesKept
  <2> SUFFICES ASSUME NEW t \in DelegationTypes
               PROVE  PastKept(snapshots[t], snapshots'[t])
    BY DEF PastValuesKept
  <2> DEFINE from == GetDelegatee(delegates[t], sender)
             to   == GetDelegatee(delegates[t], recipient)
  <2>1. /\ CanMove(snapshots[t], from, to, amount)
        /\ snapshots'[t] = MoveDelegatesByType(snapshots[t], from, to, amount)
    BY <1>4 DEF StepOfTokens, MovePowers
  <2>2. from \in Accounts /\ to \in Accounts
    BY <1>2, DelegateeType
  <2> HIDE DEF from, to
  <2> QED BY <1>1, <1>2, <2>1, <2>2, MoveKeepsPast
<1>5. ASSUME NEW a \in Accounts, NEW delegatee \in Accounts,
             NEW types \in SUBSET DelegationTypes, StepOfDelegation(a, delegatee, types)
      PROVE  PastValuesKept
  <2>1. balances[a] \in Nat
    BY <1>1
  <2> SUFFICES ASSUME NEW t \in DelegationTypes
               PROVE  PastKept(snapshots[t], snapshots'[t])
    BY DEF PastValuesKept
  <2>2. CASE t \notin types
    BY <1>5, <2>2 DEF StepOfDelegation, DelegateTypes, PastKept
  <2>3. CASE t \in types
    <3> DEFINE from == GetDelegatee(delegates[t], a)
    <3>1. /\ CanMove(snapshots[t], from, delegatee, balances[a])
          /\ snapshots'[t] = MoveDelegatesByType(snapshots[t], from, delegatee, balances[a])
      BY <1>5, <2>3 DEF StepOfDelegation, DelegateTypes
    <3>2. from \in Accounts
      BY <1>2, DelegateeType
    <3> HIDE DEF from
    <3> QED BY <1>1, <1>2, <2>1, <3>1, <3>2, MoveKeepsPast
  <2> QED BY <2>2, <2>3
<1> QED BY <1>3, <1>4, <1>5, StepShapes DEF Moved, Delegated, StepOfBlock, StepOfNothing

\* The past is frozen: what the history of an address says of a block that is
\* over never changes.
THEOREM PastIsFrozen == Spec => [][PastValuesKept]_vars
<1>1. IInv /\ [Next]_vars => [PastValuesKept]_vars
  BY NextKeepsPast
<1> QED BY <1>1, Invariance, PTL DEF Spec

-----------------------------------------------------------------------------
\* Whoever holds tokens has a history of voting power: only an address that
\* never held any answers a lookup with its balance.
HoldersHaveHistories ==
    \A u \in Accounts : snapshots[VOTING_POWER][u] = <<>> => balances[u] = 0

\* A move writes the history of both its ends.
LEMMA MoveWritesBoth ==
  ASSUME NEW snaps \in [Accounts -> Seq(Snapshot)],
         NEW from, NEW to, NEW amount, NEW u \in Accounts,
         MoveDelegatesByType(snaps, from, to, amount)[u] = <<>>
  PROVE  snaps[u] = <<>> /\ (from = to \/ u \notin {from, to})
<1>1. \A v : WriteSnapshot(snaps[u], block, v) # <<>>
  BY WriteNotEmpty
<1> QED BY <1>1 DEF MoveDelegatesByType

\* No step empties a history, and one that stays empty is that of an address
\* whose balance does not change.
LEMMA StepKeepsEmpty ==
  ASSUME Parts, [Next]_vars, NEW t \in DelegationTypes, NEW u \in Accounts,
         snapshots'[t][u] = <<>>
  PROVE  snapshots[t][u] = <<>> /\ balances'[u] = balances[u]
<1>1. /\ snapshots[t] \in [Accounts -> Seq(Snapshot)]
      /\ Agrees(snapshots[t], balances, delegates[t])
  BY DEF Parts, Bookkeeping
<1>2. ASSUME NEW sender \in Accounts, NEW recipient \in Accounts, NEW amount \in Nat,
             StepOfTokens(sender, recipient, amount)
      PROVE  snapshots[t][u] = <<>> /\ balances'[u] = balances[u]
  <2> DEFINE from == GetDelegatee(delegates[t], sender)
             to   == GetDelegatee(delegates[t], recipient)
  <2>1. snapshots'[t] = MoveDelegatesByType(snapshots[t], from, to, amount)
    BY <1>2 DEF StepOfTokens, MovePowers
  <2>2. snapshots[t][u] = <<>> /\ (from = to \/ u \notin {from, to})
    <3> HIDE DEF from, to
    <3> QED BY <1>1, <2>1, MoveWritesBoth
  <2>3. DelegatorsIn(delegates[t], u) = {u}
    BY <1>1, <2>2 DEF Agrees
  <2>4. (from = u <=> sender = u) /\ (to = u <=> recipient = u)
    BY <2>3 DEF DelegatorsIn
  <2>5. u \in {sender, recipient} => sender = recipient
    BY <2>2, <2>4
  <2>6. IsTransfer(Accounts, balances, balances', sender, recipient, amount)
    BY <1>2 DEF StepOfTokens
  <2>7. balances'[u] = balances[u]
    BY <2>5, <2>6 DEF IsTransfer
  <2> QED BY <2>2, <2>7
<1>3. ASSUME NEW a \in Accounts, NEW delegatee \in Accounts,
             NEW types \in SUBSET DelegationTypes, StepOfDelegation(a, delegatee, types)
      PROVE  snapshots[t][u] = <<>> /\ balances'[u] = balances[u]
  <2>1. UNCHANGED balances
    BY <1>3 DEF StepOfDelegation
  <2>2. CASE t \notin types
    BY <1>3, <2>1, <2>2 DEF StepOfDelegation, DelegateTypes
  <2>3. CASE t \in types
    <3> DEFINE from   == GetDelegatee(delegates[t], a)
               amount == balances[a]
    <3>1. snapshots'[t] = MoveDelegatesByType(snapshots[t], from, delegatee, amount)
      BY <1>3, <2>3 DEF StepOfDelegation, DelegateTypes
    <3> HIDE DEF from, amount
    <3>2. snapshots[t][u] = <<>>
      BY <1>1, <3>1, MoveWritesBoth
    <3> QED BY <2>1, <3>2
  <2> QED BY <2>2, <2>3
<1> QED BY <1>2, <1>3, StepShapes DEF Moved, Delegated, StepOfBlock, StepOfNothing

\* What getPowerAtBlock answers, before and after a step.
LEMMA LookupNowAndNext ==
  ASSUME Parts, Parts', NEW t \in DelegationTypes, NEW u \in Accounts, NEW b \in Nat
  PROVE  /\ GetPowerAtBlock(t, u, b) =
               IF snapshots[t][u] = <<>> THEN balances[u] ELSE ValueAt(snapshots[t][u], b)
         /\ GetPowerAtBlock(t, u, b)' =
               IF snapshots'[t][u] = <<>> THEN balances'[u] ELSE ValueAt(snapshots'[t][u], b)
         /\ snapshots[t][u] \in Seq(Snapshot) /\ snapshots'[t][u] \in Seq(Snapshot)
<1>1. snapshots[t][u] \in Seq(Snapshot) /\ IsOrdered(snapshots[t][u])
  BY DEF Parts, Bookkeeping, InOrder
<1>2. snapshots'[t][u] \in Seq(Snapshot) /\ IsOrdered(snapshots'[t][u])
  BY DEF Parts, Bookkeeping, InOrder
<1>3. snapshots[t][u] # <<>> =>
        SearchByBlockNumber(snapshots[t][u], balances[u], b) = ValueAt(snapshots[t][u], b)
  BY <1>1, LookupFinds
<1>4. snapshots'[t][u] # <<>> =>
        SearchByBlockNumber(snapshots'[t][u], balances'[u], b) = ValueAt(snapshots'[t][u], b)
  BY <1>2, LookupFinds
<1>5. /\ snapshots[t][u] = <<>> =>
           SearchByBlockNumber(snapshots[t][u], balances[u], b) = balances[u]
      /\ snapshots'[t][u] = <<>> =>
           SearchByBlockNumber(snapshots'[t][u], balances'[u], b) = balances'[u]
  BY DEF SearchByBlockNumber
<1> QED BY <1>1, <1>2, <1>3, <1>4, <1>5 DEF GetPowerAtBlock

\* This step keeps the past of the histories of type t, and empties none: one
\* that stays empty is that of an address whose balance does not change.
HistoryKept(t) ==
    /\ PastKept(snapshots[t], snapshots'[t])
    /\ \A u \in Accounts : snapshots'[t][u] = <<>> =>
          snapshots[t][u] = <<>> /\ balances'[u] = balances[u]

\* Every step keeps the histories of both types so.
LEMMA StepKeepsHistory ==
  ASSUME Parts, [Next]_vars, NEW t \in DelegationTypes
  PROVE  HistoryKept(t)
<1>1. PastKept(snapshots[t], snapshots'[t])
  <2>1. PastValuesKept \/ UNCHANGED vars
    BY InvariantParts, NextKeepsPast
  <2>2. CASE PastValuesKept
    BY <2>2 DEF PastValuesKept
  <2>3. CASE UNCHANGED vars
    BY <2>3 DEF vars, PastKept
  <2> QED BY <2>1, <2>2, <2>3
<1> QED BY <1>1, StepKeepsEmpty DEF HistoryKept

\* What such a step does to the answer for a block that is over: nothing, but
\* for an address that gets its first entry and answers zero from then on.
LEMMA KeptAnswers ==
  ASSUME Parts, Parts', NEW t \in DelegationTypes, HistoryKept(t),
         NEW u \in Accounts, NEW b \in 0 .. block - 1
  PROVE  \/ GetPowerAtBlock(t, u, b)' = GetPowerAtBlock(t, u, b)
         \/ /\ snapshots[t][u] = <<>>
            /\ GetPowerAtBlock(t, u, b) = balances[u]
            /\ GetPowerAtBlock(t, u, b)' = 0
<1> b \in Nat
  BY DEF Parts
<1> DEFINE old == snapshots[t][u]
           new == snapshots'[t][u]
<1>1. /\ GetPowerAtBlock(t, u, b) = IF old = <<>> THEN balances[u] ELSE ValueAt(old, b)
      /\ GetPowerAtBlock(t, u, b)' = IF new = <<>> THEN balances'[u] ELSE ValueAt(new, b)
      /\ old \in Seq(Snapshot)
  BY LookupNowAndNext
<1>2. ValueAt(new, b) = ValueAt(old, b)
  BY DEF HistoryKept, PastKept
<1>3. new = <<>> => old = <<>> /\ balances'[u] = balances[u]
  BY DEF HistoryKept
<1>4. old = <<>> => ValueAt(old, b) = 0
  BY <1>1, ValueAtType
<1> HIDE DEF old, new
<1>5. CASE new = <<>>
  BY <1>1, <1>3, <1>5
<1>6. CASE new # <<>> /\ old # <<>>
  BY <1>1, <1>2, <1>6
<1>7. CASE new # <<>> /\ old = <<>>
  <2>1. GetPowerAtBlock(t, u, b) = balances[u] /\ GetPowerAtBlock(t, u, b)' = 0
    BY <1>1, <1>2, <1>4, <1>7
  <2> QED BY <1>7, <2>1 DEF old
<1> QED BY <1>5, <1>6, <1>7

\* The same of the token's own steps.
LEMMA StepKeepsAnswers ==
  ASSUME Parts, Parts', [Next]_vars,
         NEW t \in DelegationTypes, NEW u \in Accounts, NEW b \in 0 .. block - 1
  PROVE  \/ GetPowerAtBlock(t, u, b)' = GetPowerAtBlock(t, u, b)
         \/ /\ snapshots[t][u] = <<>>
            /\ GetPowerAtBlock(t, u, b) = balances[u]
            /\ GetPowerAtBlock(t, u, b)' = 0
BY StepKeepsHistory, KeptAnswers

\* Only an address that holds nothing has no history of voting power, always.
LEMMA StepKeepsHolders ==
  ASSUME Parts, HoldersHaveHistories, [Next]_vars
  PROVE  HoldersHaveHistories'
<1> SUFFICES ASSUME NEW u \in Accounts, snapshots'[VOTING_POWER][u] = <<>>
             PROVE  balances'[u] = 0
  BY DEF HoldersHaveHistories
<1>1. VOTING_POWER \in DelegationTypes
  BY DEF DelegationTypes
<1>2. snapshots[VOTING_POWER][u] = <<>> /\ balances'[u] = balances[u]
  BY <1>1, StepKeepsEmpty
<1> QED BY <1>2 DEF HoldersHaveHistories

\* The state the upgrade leaves: a history for every holder.
LEMMA InitHolders == Init => HoldersHaveHistories
<1> SUFFICES ASSUME Init, NEW u \in Accounts, snapshots[VOTING_POWER][u] = <<>>
             PROVE  balances[u] = 0
  BY DEF HoldersHaveHistories
<1>1. PICK touched \in SUBSET Accounts :
        /\ {a \in Accounts : balances[a] > 0} \subseteq touched
        /\ snapshots = [t \in DelegationTypes |-> [a \in Accounts |->
              IF t = VOTING_POWER /\ a \in touched
              THEN <<[blockNumber |-> 0, value |-> balances[a]]>>
              ELSE <<>>]]
  BY DEF Init
<1>2. u \notin touched
  BY <1>1 DEF DelegationTypes
<1>3. balances[u] \in Nat
  BY SupplyAssumption DEF Init
<1>4. ~(balances[u] > 0)
  BY <1>1, <1>2
<1> QED BY <1>3, <1>4

\* The invariant with the part about holders.
THEOREM HoldersInvariance == Spec => [](IInv /\ HoldersHaveHistories)
<1>1. Init => IInv /\ HoldersHaveHistories
  BY InitEstablishes, InitHolders
<1>2. IInv /\ HoldersHaveHistories /\ [Next]_vars => (IInv /\ HoldersHaveHistories)'
  BY NextKeeps, InvariantParts, StepKeepsHolders
<1> QED BY <1>1, <1>2, PTL DEF Spec

\* No later call changes what getPowerAtBlock answers for a block that is over:
\* voting power for every address, proposition power once it has a history.
THEOREM PastPowersAreFrozen == Spec => PastPowersFrozen
<1> DEFINE Frozen == \A t \in DelegationTypes, u \in Accounts :
                        t = VOTING_POWER \/ snapshots[t][u] # <<>> => PastPowersKept(t, u, 0)
<1>1. IInv /\ HoldersHaveHistories /\ (IInv /\ HoldersHaveHistories)' /\ [Next]_vars
        => [Frozen]_vars
  <2> SUFFICES ASSUME Parts, HoldersHaveHistories, Parts', [Next]_vars,
                      NEW t \in DelegationTypes, NEW u \in Accounts,
                      t = VOTING_POWER \/ snapshots[t][u] # <<>>,
                      NEW b \in 0 .. block - 1
               PROVE  GetPowerAtBlock(t, u, b)' = GetPowerAtBlock(t, u, b)
    BY InvariantParts, InvariantPartsNext DEF PastPowersKept
  <2>1. CASE /\ snapshots[t][u] = <<>>
             /\ GetPowerAtBlock(t, u, b) = balances[u]
             /\ GetPowerAtBlock(t, u, b)' = 0
    BY <2>1 DEF HoldersHaveHistories
  <2> QED BY <2>1, StepKeepsAnswers
<1>2. PastPowersFrozen <=> [][Frozen]_vars
  BY DEF PastPowersFrozen
<1> HIDE DEF Frozen
<1> QED BY <1>1, <1>2, HoldersInvariance, PTL DEF Spec

-----------------------------------------------------------------------------
\* getPowerAtBlock of type t for block b, over all the addresses.
PowersAt(t, b) == [u \in Accounts |-> GetPowerAtBlock(t, u, b)]

\* What is counted for all the delegatees adds up to what is held.
LEMMA PowersAddUp ==
  ASSUME NEW bal \in [Accounts -> Nat], NEW chosen \in [Accounts -> Addresses],
         NEW powers, \A u \in Accounts : powers[u] = Total(bal, DelegatorsIn(chosen, u))
  PROVE  Total(powers, Accounts) = Total(bal, Accounts)
<1> DEFINE group == [a \in Accounts |-> GetDelegatee(chosen, a)]
<1>1. \A a \in Accounts : group[a] \in Accounts /\ bal[a] \in Nat
  BY DelegateeType
<1>2. \A u \in Accounts : powers[u] = Total(bal, {a \in Accounts : group[a] = u})
  BY DEF DelegatorsIn
<1> HIDE DEF group
<1> QED BY <1>1, <1>2, AccountsAssumption, TotalPartition

\* The present power of an address is what its delegators hold.
LEMMA PresentPower ==
  ASSUME NEW snaps, NEW chosen, NEW bal \in [Accounts -> Nat], NEW b,
         Bookkeeping(snaps, chosen, bal, b), NEW u \in Accounts
  PROVE  SearchByBlockNumber(snaps[u], bal[u], b) = Total(bal, DelegatorsIn(chosen, u))
<1>1. CASE snaps[u] = <<>>
  <2>1. DelegatorsIn(chosen, u) = {u}
    BY <1>1 DEF Bookkeeping, Agrees
  <2>2. Total(bal, {u}) = bal[u]
    BY TotalSingleton
  <2> QED BY <1>1, <2>1, <2>2 DEF SearchByBlockNumber
<1>2. CASE snaps[u] # <<>>
  BY <1>2 DEF Bookkeeping, Agrees, InOrder, SearchByBlockNumber
<1> QED BY <1>1, <1>2

\* The present powers of either type add up to the supply.
LEMMA PresentPowersAddUp ==
  ASSUME Parts, NEW t \in DelegationTypes
  PROVE  Total(PowersAt(t, block), Accounts) = totalSupply
<1>1. balances \in [Accounts -> Nat] /\ Total(balances, Accounts) = totalSupply
  BY PartsTypes
<1>2. /\ Bookkeeping(snapshots[t], delegates[t], balances, block)
      /\ delegates[t] \in [Accounts -> Addresses]
  BY DEF Parts
<1>3. \A u \in Accounts : PowersAt(t, block)[u] = Total(balances, DelegatorsIn(delegates[t], u))
  BY <1>1, <1>2, PresentPower DEF PowersAt, GetPowerAtBlock
<1>4. Total(PowersAt(t, block), Accounts) = Total(balances, Accounts)
  BY <1>1, <1>2, <1>3, PowersAddUp
<1> QED BY <1>1, <1>4 DEF Parts, LedgerInv

\* The same after a step.
LEMMA PresentPowersAddUpNext ==
  ASSUME Parts', NEW t \in DelegationTypes
  PROVE  Total(PowersAt(t, block)', Accounts) = totalSupply'
<1>1. balances' \in [Accounts -> Nat] /\ Total(balances', Accounts) = totalSupply'
  BY PartsTypesNext
<1>2. /\ Bookkeeping(snapshots'[t], delegates'[t], balances', block')
      /\ delegates'[t] \in [Accounts -> Addresses]
  BY DEF Parts
<1> DEFINE powers == [u \in Accounts |->
                        SearchByBlockNumber(snapshots'[t][u], balances'[u], block')]
<1>3. \A u \in Accounts : powers[u] = Total(balances', DelegatorsIn(delegates'[t], u))
  BY <1>1, <1>2, PresentPower
<1>4. Total(powers, Accounts) = Total(balances', Accounts)
  <2> HIDE DEF powers
  <2> QED BY <1>1, <1>2, <1>3, PowersAddUp
<1>5. PowersAt(t, block)' = powers
  BY DEF PowersAt, GetPowerAtBlock
<1> QED BY <1>1, <1>4, <1>5 DEF Parts, LedgerInv

\* Every power an address answers for is a natural number.
LEMMA AnswersAreNatural ==
  ASSUME Parts, Parts', NEW t \in DelegationTypes, NEW b \in Nat, NEW u \in Accounts
  PROVE  GetPowerAtBlock(t, u, b) \in Nat /\ GetPowerAtBlock(t, u, b)' \in Nat
<1>1. balances[u] \in Nat /\ balances'[u] \in Nat
  BY Uint256MaxAssumption DEF Parts, LedgerInv, ERC20TypeOK, Uint256
<1>2. /\ GetPowerAtBlock(t, u, b) =
            IF snapshots[t][u] = <<>> THEN balances[u] ELSE ValueAt(snapshots[t][u], b)
      /\ GetPowerAtBlock(t, u, b)' =
            IF snapshots'[t][u] = <<>> THEN balances'[u] ELSE ValueAt(snapshots'[t][u], b)
      /\ snapshots[t][u] \in Seq(Snapshot) /\ snapshots'[t][u] \in Seq(Snapshot)
  BY LookupNowAndNext
<1>3. ValueAt(snapshots[t][u], b) \in Nat /\ ValueAt(snapshots'[t][u], b) \in Nat
  BY <1>2, ValueAtType, Uint128RangeAssumption
<1> QED BY <1>1, <1>2, <1>3

\* In the state the upgrade leaves everyone answers its balance, for any block.
LEMMA InitAnswers ==
  ASSUME Init, NEW t \in DelegationTypes, NEW b \in 0 .. 1, NEW u \in Accounts
  PROVE  GetPowerAtBlock(t, u, b) = balances[u]
<1>1. PICK touched \in SUBSET Accounts :
        snapshots = [q \in DelegationTypes |-> [a \in Accounts |->
              IF q = VOTING_POWER /\ a \in touched
              THEN <<[blockNumber |-> 0, value |-> balances[a]]>>
              ELSE <<>>]]
  BY DEF Init
<1>2. snapshots[t][u] \in {<<>>, <<[blockNumber |-> 0, value |-> balances[u]]>>}
  BY <1>1
<1>3. 0 <= b
  OBVIOUS
<1> QED BY <1>2, <1>3 DEF GetPowerAtBlock, SearchByBlockNumber, LastOf

\* Its balances are the votes, and add up to the supply.
LEMMA InitVotes == Init => VotesWithinSupply
<1> SUFFICES ASSUME Init PROVE VotesWithinSupply
  OBVIOUS
<1>1. /\ block = 1 /\ totalSupply = Supply
      /\ Total(balances, Accounts) = Supply
      /\ VOTING_POWER \in DelegationTypes /\ PROPOSITION_POWER \in DelegationTypes
  BY DEF Init, DelegationTypes
<1>2. ASSUME NEW t \in DelegationTypes, NEW b \in 0 .. block
      PROVE  Total(PowersAt(t, b), Accounts) = totalSupply
  <2>1. \A u \in Accounts : PowersAt(t, b)[u] = balances[u]
    BY <1>1, InitAnswers DEF PowersAt
  <2>2. Total(PowersAt(t, b), Accounts) = Total(balances, Accounts)
    BY <2>1, TotalAgree
  <2> QED BY <1>1, <2>2
<1>3. totalSupply <= totalSupply
  BY <1>1, SupplyAssumption
<1> QED BY <1>1, <1>2, <1>3 DEF VotesWithinSupply, PowersAt

\* No step makes the votes of any block, present or past, exceed the supply.
LEMMA StepKeepsVotes ==
  ASSUME Parts, Parts', HoldersHaveHistories, VotesWithinSupply, [Next]_vars
  PROVE  VotesWithinSupply'
<1>1. /\ VOTING_POWER \in DelegationTypes /\ PROPOSITION_POWER \in DelegationTypes
  BY DEF DelegationTypes
<1>2. totalSupply' = totalSupply /\ totalSupply \in Nat
  <2>1. totalSupply \in Nat
    BY PartsTypes, SupplyAssumption
  <2>2. totalSupply' = totalSupply
    BY StepShapes
       DEF Moved, StepOfTokens, Delegated, StepOfDelegation, StepOfBlock, StepOfNothing
  <2> QED BY <2>1, <2>2
<1> SUFFICES ASSUME NEW b \in 0 .. block'
             PROVE  /\ Total(PowersAt(VOTING_POWER, b)', Accounts) = totalSupply'
                    /\ Total(PowersAt(PROPOSITION_POWER, b)', Accounts) <= totalSupply'
  BY DEF VotesWithinSupply, PowersAt
<1>3. block \in Nat /\ block' \in Nat /\ b \in Nat
  BY DEF Parts
<1>4. CASE b = block'
  <2>1. \A t \in DelegationTypes : Total(PowersAt(t, block)', Accounts) = totalSupply'
    BY PresentPowersAddUpNext
  <2>2. \A t : PowersAt(t, block)' = PowersAt(t, b)'
    BY <1>4 DEF PowersAt, GetPowerAtBlock
  <2> QED BY <1>1, <1>2, <2>1, <2>2
<1>5. CASE b # block'
  <2>1. b <= block
    BY <1>3, <1>5, StepShapes
       DEF Moved, StepOfTokens, Delegated, StepOfDelegation, StepOfBlock, StepOfNothing
  <2>2. /\ Total(PowersAt(VOTING_POWER, b), Accounts) = totalSupply
        /\ Total(PowersAt(PROPOSITION_POWER, b), Accounts) <= totalSupply
    BY <1>3, <2>1 DEF VotesWithinSupply, PowersAt
  <2>3. ASSUME NEW t \in DelegationTypes, NEW u \in Accounts
        PROVE  \/ PowersAt(t, b)'[u] = PowersAt(t, b)[u]
               \/ /\ snapshots[t][u] = <<>>
                  /\ PowersAt(t, b)[u] = balances[u]
                  /\ PowersAt(t, b)'[u] = 0
    <3>1. CASE b < block
      <4>1. b \in 0 .. block - 1
        BY <1>3, <3>1
      <4> QED BY <4>1, StepKeepsAnswers DEF PowersAt
    <3>2. CASE b = block
      <4>1. UNCHANGED <<snapshots, balances>>
        BY <1>5, <3>2, StepShapes
           DEF Moved, StepOfTokens, Delegated, StepOfDelegation, StepOfBlock, StepOfNothing
      <4> QED BY <4>1 DEF PowersAt, GetPowerAtBlock
    <3> QED BY <1>3, <2>1, <3>1, <3>2
  <2>4. Total(PowersAt(VOTING_POWER, b)', Accounts) = totalSupply'
    <3>1. \A u \in Accounts : PowersAt(VOTING_POWER, b)'[u] = PowersAt(VOTING_POWER, b)[u]
      BY <1>1, <2>3 DEF HoldersHaveHistories
    <3> DEFINE new == PowersAt(VOTING_POWER, b)'
               old == PowersAt(VOTING_POWER, b)
    <3>2. \A u \in Accounts : new[u] = old[u]
      BY <3>1
    <3> HIDE DEF new, old
    <3>3. Total(new, Accounts) = Total(old, Accounts)
      BY <3>2, TotalAgree
    <3> QED BY <1>2, <2>2, <3>3 DEF new, old
  <2>5. Total(PowersAt(PROPOSITION_POWER, b)', Accounts) <= totalSupply'
    <3> DEFINE new == PowersAt(PROPOSITION_POWER, b)'
               old == PowersAt(PROPOSITION_POWER, b)
    <3>1. \A u \in Accounts : new[u] \in Nat /\ old[u] \in Nat
      BY <1>1, <1>3, AnswersAreNatural DEF PowersAt
    <3>2. \A u \in Accounts : new[u] = old[u] \/ new[u] = 0
      BY <1>1, <2>3
    <3> HIDE DEF new, old
    <3>3. \A u \in Accounts : new[u] \in Nat /\ old[u] \in Nat /\ new[u] <= old[u]
      BY <3>1, <3>2
    <3>4. IsFiniteSet(Accounts)
      BY AccountsAssumption
    <3>5. Total(new, Accounts) <= Total(old, Accounts)
      BY <3>3, <3>4, TotalMonotone
    <3>6. Total(new, Accounts) \in Nat /\ Total(old, Accounts) \in Nat
      BY <3>1, <3>4, TokensFinite
    <3>7. Total(old, Accounts) <= totalSupply
      BY <2>2 DEF old
    <3>8. Total(new, Accounts) <= totalSupply
      BY <1>2, <3>5, <3>6, <3>7
    <3> QED BY <1>2, <3>8 DEF new
  <2> QED BY <2>4, <2>5
<1> QED BY <1>4, <1>5

\* The votes there are for any block add up to the supply, and the powers of
\* proposition to no more: totalSupplyAt is the number of votes.
THEOREM VotesAreWithinSupply == Spec => []VotesWithinSupply
<1> DEFINE Inv == IInv /\ HoldersHaveHistories /\ VotesWithinSupply
<1>1. Init => Inv
  BY InitEstablishes, InitHolders, InitVotes
<1>2. Inv /\ [Next]_vars => Inv'
  <2> SUFFICES ASSUME IInv, HoldersHaveHistories, VotesWithinSupply, [Next]_vars
               PROVE  Inv'
    OBVIOUS
  <2>1. IInv'
    BY NextKeeps
  <2>2. Parts /\ Parts'
    BY <2>1, InvariantParts, InvariantPartsNext
  <2>3. HoldersHaveHistories' /\ VotesWithinSupply'
    BY <2>2, StepKeepsHolders, StepKeepsVotes
  <2> QED BY <2>1, <2>3
<1>3. Inv => VotesWithinSupply
  OBVIOUS
<1> HIDE DEF Inv
<1> QED BY <1>1, <1>2, <1>3, PTL DEF Spec

-----------------------------------------------------------------------------
(***************************************************************************)
(* The refinement: seen through its lookups, voting power is what the      *)
(* abstract specification GovernancePower promises.                        *)
(***************************************************************************)

\* The abstract specification sums as the token does.
LEMMA VotingTotal == \A f, S : Voting!Total(f, S) = Total(f, S)
<1>1. \A S : Voting!Cardinality(S) = Cardinality(S)
  BY DEF Voting!Cardinality, Cardinality
<1> QED BY <1>1 DEF Voting!Total, Voting!Tokens, Total, Tokens

\* For each account, the account its voting power counts for.
VotingDelegatees == [a \in Accounts |-> GetDelegatee(delegates[VOTING_POWER], a)]

\* The abstract powers of the voting delegatees are what delegators hold.
LEMMA VotingPowers ==
  ASSUME NEW bal, NEW chosen
  PROVE  Voting!Powers(bal, [a \in Accounts |-> GetDelegatee(chosen, a)])
            = [u \in Accounts |-> Total(bal, DelegatorsIn(chosen, u))]
<1> DEFINE group == [a \in Accounts |-> GetDelegatee(chosen, a)]
<1>1. \A u \in Accounts : {a \in Accounts : group[a] = u} = DelegatorsIn(chosen, u)
  BY DEF DelegatorsIn
<1> HIDE DEF group
<1>2. Voting!Powers(bal, group) = [u \in Accounts |-> Total(bal, DelegatorsIn(chosen, u))]
  BY <1>1, VotingTotal DEF Voting!Powers
<1> QED BY <1>2 DEF group

\* The state the upgrade leaves is an initial state of the abstract one.
LEMMA InitRefines == Init => Voting!Init
<1> SUFFICES ASSUME Init PROVE Voting!Init
  OBVIOUS
<1>1. /\ block = 1
      /\ balances \in {f \in [Accounts -> 0 .. Supply] : Total(f, Accounts) = Supply}
      /\ VOTING_POWER \in DelegationTypes
      /\ delegates = [t \in DelegationTypes |-> [a \in Accounts |-> ZeroAddress]]
  BY DEF Init, DelegationTypes
<1>2. balances \in {f \in [Accounts -> 0 .. Supply] : Voting!Total(f, Accounts) = Supply}
  BY <1>1, VotingTotal
<1>3. VotingDelegatees = [a \in Accounts |-> a]
  BY <1>1 DEF VotingDelegatees, GetDelegatee
<1>4. RecordOf(VOTING_POWER) = <<balances, balances>>
  <2>1. \A b \in 0 .. 1 : [u \in Accounts |-> GetPowerAtBlock(VOTING_POWER, u, b)] = balances
    <3>1. \A b \in 0 .. 1, u \in Accounts : GetPowerAtBlock(VOTING_POWER, u, b) = balances[u]
      BY <1>1, InitAnswers
    <3> QED BY <1>1, <3>1
  <2> QED BY <1>1, <2>1 DEF RecordOf
<1> QED BY <1>1, <1>2, <1>3, <1>4 DEF Voting!Init, VotingDelegatees

\* The record of the blocks that are over is kept, and the last entry of the
\* record is what the delegators hold.
LEMMA RecordNext ==
  ASSUME Parts, Parts', HoldersHaveHistories, [Next]_vars
  PROVE  /\ \A i \in 1 .. block : RecordOf(VOTING_POWER)'[i] = RecordOf(VOTING_POWER)[i]
         /\ RecordOf(VOTING_POWER)[block + 1] = Voting!Powers(balances, VotingDelegatees)
         /\ RecordOf(VOTING_POWER)'[block' + 1] = Voting!Powers(balances', VotingDelegatees')
         /\ RecordOf(VOTING_POWER) \in Seq([Accounts -> Nat])
         /\ Len(RecordOf(VOTING_POWER)) = block + 1
<1> DEFINE V == VOTING_POWER
           old == RecordOf(V)
           new == RecordOf(V)'
<1>1. V \in DelegationTypes
  BY DEF DelegationTypes
<1>2. block \in Nat \ {0} /\ block' \in Nat \ {0}
  BY DEF Parts
<1>3. block <= block'
  BY <1>2, StepShapes
     DEF Moved, StepOfTokens, Delegated, StepOfDelegation, StepOfBlock, StepOfNothing
<1>4. /\ old = [i \in 1 .. block + 1 |-> [u \in Accounts |-> GetPowerAtBlock(V, u, i - 1)]]
      /\ new = [i \in 1 .. block' + 1 |-> [u \in Accounts |-> GetPowerAtBlock(V, u, i - 1)']]
  BY DEF RecordOf, GetPowerAtBlock
<1> HIDE DEF old, new
<1>5. ASSUME NEW i \in 1 .. block PROVE new[i] = old[i]
  <2>1. i - 1 \in 0 .. block - 1 /\ i \in 1 .. block + 1 /\ i \in 1 .. block' + 1
    <3>1. i \in Nat /\ 1 <= i /\ i <= block
      BY <1>2
    <3>2. i <= block'
      BY <1>2, <1>3, <3>1
    <3>3. i - 1 \in 0 .. block - 1
      BY <1>2, <3>1
    <3>4. i \in 1 .. block + 1
      BY <1>2, <3>1
    <3>5. \A n \in Nat : i <= n => i \in 1 .. n + 1
      BY <3>1
    <3> QED BY <1>2, <3>2, <3>3, <3>4, <3>5
  <2>2. ASSUME NEW u \in Accounts
        PROVE  GetPowerAtBlock(V, u, i - 1)' = GetPowerAtBlock(V, u, i - 1)
    <3>1. CASE /\ snapshots[V][u] = <<>>
               /\ GetPowerAtBlock(V, u, i - 1) = balances[u]
               /\ GetPowerAtBlock(V, u, i - 1)' = 0
      BY <3>1 DEF HoldersHaveHistories
    <3> QED BY <1>1, <2>1, <3>1, StepKeepsAnswers
  <2> QED BY <1>4, <2>1, <2>2
<1>6. old[block + 1] = Voting!Powers(balances, VotingDelegatees)
  <2>1. /\ balances \in [Accounts -> Nat]
        /\ Bookkeeping(snapshots[V], delegates[V], balances, block)
    BY <1>1, PartsTypes DEF Parts
  <2>2. \A u \in Accounts :
          GetPowerAtBlock(V, u, block) = Total(balances, DelegatorsIn(delegates[V], u))
    BY <2>1, PresentPower DEF GetPowerAtBlock
  <2>3. old[block + 1] = [u \in Accounts |-> GetPowerAtBlock(V, u, block)]
    BY <1>2, <1>4
  <2>4. old[block + 1] = [u \in Accounts |-> Total(balances, DelegatorsIn(delegates[V], u))]
    BY <2>2, <2>3
  <2> QED BY <2>4, VotingPowers DEF VotingDelegatees
<1>7. new[block' + 1] = Voting!Powers(balances', VotingDelegatees')
  <2>1. /\ balances' \in [Accounts -> Nat]
        /\ Bookkeeping(snapshots'[V], delegates'[V], balances', block')
    BY <1>1, Uint256MaxAssumption DEF Parts, LedgerInv, ERC20TypeOK, Uint256
  <2>2. \A u \in Accounts :
          SearchByBlockNumber(snapshots'[V][u], balances'[u], block')
             = Total(balances', DelegatorsIn(delegates'[V], u))
    BY <2>1, PresentPower
  <2>3. new[block' + 1] = [u \in Accounts |->
                             SearchByBlockNumber(snapshots'[V][u], balances'[u], block')]
    BY <1>2, <1>4 DEF GetPowerAtBlock
  <2>4. new[block' + 1] = [u \in Accounts |-> Total(balances', DelegatorsIn(delegates'[V], u))]
    BY <2>2, <2>3
  <2>5. VotingDelegatees' = [a \in Accounts |-> GetDelegatee(delegates'[V], a)]
    BY DEF VotingDelegatees, GetDelegatee
  <2> QED BY <2>4, <2>5, VotingPowers
<1>8. old \in Seq([Accounts -> Nat]) /\ Len(old) = block + 1
  <2>1. \A i \in 1 .. block + 1, u \in Accounts : GetPowerAtBlock(V, u, i - 1) \in Nat
    BY <1>1, <1>2, AnswersAreNatural
  <2>2. block + 1 \in Nat /\ old \in [1 .. block + 1 -> [Accounts -> Nat]]
    BY <1>2, <1>4, <2>1
  <2> QED BY <2>2
<1> QED BY <1>5, <1>6, <1>7, <1>8 DEF old, new

\* Every step is a step of the abstract specification, or changes nothing there.
LEMMA StepRefines ==
  ASSUME Parts, Parts', HoldersHaveHistories, [Next]_vars
  PROVE  [Voting!Next]_(Voting!vars)
<1> DEFINE V   == VOTING_POWER
           old == RecordOf(V)
           new == RecordOf(V)'
           last == Voting!Powers(balances', VotingDelegatees')
<1>1. /\ \A i \in 1 .. block : new[i] = old[i]
      /\ old[block + 1] = Voting!Powers(balances, VotingDelegatees)
      /\ new[block' + 1] = last
      /\ old \in Seq([Accounts -> Nat]) /\ Len(old) = block + 1
  BY RecordNext
<1>2. block \in Nat \ {0} /\ block' \in Nat \ {0} /\ V \in DelegationTypes
  BY DEF Parts, DelegationTypes
<1>3. new = [i \in 1 .. block' + 1 |-> new[i]] /\ old = [i \in 1 .. block + 1 |-> old[i]]
  BY DEF RecordOf
<1>4. balances \in [Accounts -> Nat] /\ delegates[V] \in [Accounts -> Addresses]
  BY <1>2, PartsTypes DEF Parts
<1>5. block' = block => new = [old EXCEPT ![block + 1] = last]
  <2> SUFFICES ASSUME block' = block PROVE new = [old EXCEPT ![block + 1] = last]
    OBVIOUS
  <2>1. \A i \in 1 .. block + 1 : i \in 1 .. block \/ i = block + 1
    BY <1>2
  <2> HIDE DEF new, old, last
  <2> QED BY <1>1, <1>2, <1>3, <2>1
<1>6. VotingDelegatees' = [a \in Accounts |-> GetDelegatee(delegates'[V], a)]
  BY DEF VotingDelegatees, GetDelegatee
<1>7. ASSUME NEW sender \in Accounts, NEW recipient \in Accounts, NEW amount \in Nat,
             StepOfTokens(sender, recipient, amount)
      PROVE  Voting!Next
  <2>1. /\ IsTransfer(Accounts, balances, balances', sender, recipient, amount)
        /\ UNCHANGED <<delegates, block>>
    BY <1>7 DEF StepOfTokens
  <2>2. amount \in 0 .. balances[sender]
    BY <1>4, <2>1 DEF IsTransfer
  <2>3. balances' = [a \in Accounts |-> balances[a]
                       - (IF a = sender THEN amount ELSE 0)
                       + (IF a = recipient THEN amount ELSE 0)]
    <3>1. /\ amount \in Nat /\ amount <= balances[sender]
          /\ balances' = [[balances EXCEPT ![sender] = @ - amount]
                            EXCEPT ![recipient] = @ + amount]
      BY <2>1 DEF IsTransfer
    <3>2. \A a \in Accounts : balances[a] \in Nat
      BY <1>4
    <3>3. \A a \in Accounts : balances'[a] = balances[a]
                                 - (IF a = sender THEN amount ELSE 0)
                                 + (IF a = recipient THEN amount ELSE 0)
      BY <1>4, <3>1, <3>2
    <3>4. balances' = [a \in Accounts |-> balances'[a]]
      BY <1>4, <3>1
    <3> QED BY <3>3, <3>4
  <2>4. VotingDelegatees' = VotingDelegatees
    BY <1>6, <2>1 DEF VotingDelegatees
  <2>5. new = [old EXCEPT ![block + 1] = last]
    BY <1>5, <2>1
  <2>6. Voting!Transfer(sender, recipient, amount)
    BY <2>1, <2>3, <2>4, <2>5 DEF Voting!Transfer, Voting!Recount, VotingDelegatees
  <2> QED BY <2>2, <2>6 DEF Voting!Next
<1>8. ASSUME NEW a \in Accounts, NEW delegatee \in Accounts,
             NEW types \in SUBSET DelegationTypes, StepOfDelegation(a, delegatee, types)
      PROVE  Voting!Next \/ UNCHANGED Voting!vars
  <2>1. UNCHANGED <<balances, block>>
    BY <1>8 DEF StepOfDelegation
  <2>2. CASE V \in types
    <3>1. delegates'[V] = [delegates[V] EXCEPT ![a] = delegatee]
      BY <1>2, <1>8, <2>2 DEF StepOfDelegation, DelegateTypes
    <3>2. VotingDelegatees' = [VotingDelegatees EXCEPT ![a] = delegatee]
      <4>1. delegatee # ZeroAddress
        BY AccountsAssumption
      <4>2. \A c \in Accounts : GetDelegatee(delegates'[V], c)
                                  = IF c = a THEN delegatee ELSE GetDelegatee(delegates[V], c)
        BY <1>4, <3>1, <4>1 DEF GetDelegatee
      <4> QED BY <1>6, <4>2 DEF VotingDelegatees
    <3>3. new = [old EXCEPT ![block + 1] = last]
      BY <1>5, <2>1
    <3>4. Voting!Delegate(a, delegatee)
      BY <2>1, <3>2, <3>3 DEF Voting!Delegate, Voting!Recount, VotingDelegatees
    <3> QED BY <3>4 DEF Voting!Next
  <2>3. CASE V \notin types
    <3>1. delegates'[V] = delegates[V] /\ snapshots'[V] = snapshots[V]
      BY <1>2, <1>8, <2>3 DEF StepOfDelegation, DelegateTypes
    <3>2. VotingDelegatees' = VotingDelegatees
      BY <1>6, <3>1 DEF VotingDelegatees
    <3>3. RecordOf(V)' = RecordOf(V)
      BY <2>1, <3>1 DEF RecordOf, GetPowerAtBlock
    <3> QED BY <2>1, <3>2, <3>3 DEF Voting!vars, VotingDelegatees
  <2> QED BY <2>2, <2>3
<1>9. CASE StepOfBlock
  <2>1. /\ block < MaxBlock /\ block' = block + 1
        /\ UNCHANGED <<balances, delegates>>
    BY <1>9 DEF StepOfBlock
  <2>2. VotingDelegatees' = VotingDelegatees
    BY <1>6, <2>1 DEF VotingDelegatees
  <2>3. new[block + 1] = old[block + 1]
    <3>1. RecordOf(V)'[block + 1] = RecordOf(V)[block + 1]
      BY <1>2, <1>9 DEF StepOfBlock, RecordOf, GetPowerAtBlock
    <3> QED BY <3>1
  <2>4. last = old[block + 1]
    BY <1>1, <2>1, <2>2
  <2>5. new = Append(old, old[block + 1])
    <3> DEFINE ext == Append(old, old[block + 1])
    <3>1. old[block + 1] \in [Accounts -> Nat]
      <4>1. block + 1 \in 1 .. Len(old)
        BY <1>1, <1>2
      <4> HIDE DEF old
      <4> QED BY <1>1, <4>1, ElementOfSeq
    <3>2. /\ Len(ext) = block + 2
          /\ \A i \in 1 .. block + 1 : ext[i] = old[i]
          /\ ext[block + 2] = old[block + 1]
          /\ DOMAIN ext = 1 .. block + 2
          /\ ext = [i \in DOMAIN ext |-> ext[i]]
      <4> HIDE DEF old
      <4>1. /\ Len(ext) = Len(old) + 1
            /\ \A i \in 1 .. Len(old) : ext[i] = old[i]
            /\ ext[Len(old) + 1] = old[block + 1]
            /\ ext \in Seq([Accounts -> Nat])
        BY <1>1, <3>1, AppendProperties
      <4> HIDE DEF ext
      <4>2. Len(old) = block + 1 /\ Len(old) + 1 = block + 2
        BY <1>1, <1>2
      <4>3. DOMAIN ext = 1 .. Len(ext) /\ ext \in [1 .. Len(ext) -> [Accounts -> Nat]]
        BY <4>1, LenProperties
      <4> QED BY <4>1, <4>2, <4>3
    <3>3. /\ DOMAIN new = 1 .. block + 2
          /\ new[block + 2] = old[block + 1]
          /\ \A i \in 1 .. block : new[i] = old[i]
      <4>1. block' + 1 = block + 2
        BY <1>2, <2>1
      <4>2. DOMAIN new = 1 .. block' + 1
        BY DEF RecordOf
      <4> HIDE DEF old, new, last
      <4> QED BY <1>1, <2>4, <4>1, <4>2
    <3>4. \A i \in 1 .. block + 2 : i \in 1 .. block \/ i = block + 1 \/ i = block + 2
      BY <1>2
    <3>5. \A i \in 1 .. block + 2 : new[i] = ext[i]
      <4>1. \A i \in 1 .. block : i \in 1 .. block + 1
        BY <1>2
      <4>2. block + 1 \in 1 .. block + 1
        BY <1>2
      <4> HIDE DEF old, new, ext
      <4> QED BY <2>3, <3>2, <3>3, <3>4, <4>1, <4>2
    <3>6. new = [i \in DOMAIN new |-> new[i]]
      BY DEF RecordOf
    <3> HIDE DEF new, ext
    <3>7. new = ext
      BY <3>2, <3>3, <3>5, <3>6
    <3> QED BY <3>7 DEF ext
  <2>6. Voting!EndBlock
    BY <2>1, <2>2, <2>5 DEF Voting!EndBlock, VotingDelegatees
  <2> QED BY <2>6 DEF Voting!Next
<1>10. CASE StepOfNothing
  <2>1. VotingDelegatees' = VotingDelegatees
    BY <1>6, <1>10 DEF StepOfNothing, VotingDelegatees
  <2>2. RecordOf(V)' = RecordOf(V)
    BY <1>10 DEF StepOfNothing, RecordOf, GetPowerAtBlock
  <2> QED BY <1>10, <2>1, <2>2 DEF StepOfNothing, Voting!vars, VotingDelegatees
<1> QED BY <1>7, <1>8, <1>9, <1>10, StepShapes DEF Moved, Delegated

\* The token implements GovernancePower for voting power: every transfer and
\* delegation, however it is called, is one of the abstract specification, and
\* getPowerAtBlock answers for every block what its record says.
THEOREM VotingPowerIsPromised == Spec => VotingPowerPromise
<1>1. Init => Voting!Init
  BY InitRefines
<1>2. IInv /\ HoldersHaveHistories /\ (IInv /\ HoldersHaveHistories)' /\ [Next]_vars
        => [Voting!Next]_(Voting!vars)
  BY InvariantParts, InvariantPartsNext, StepRefines
<1> QED BY <1>1, <1>2, HoldersInvariance, PTL DEF Spec, VotingPowerPromise, Voting!Spec

=============================================================================
