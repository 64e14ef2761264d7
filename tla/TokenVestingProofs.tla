------------------------- MODULE TokenVestingProofs -------------------------
(***************************************************************************)
(* Proofs about the vesting contract for every supply, set of accounts,    *)
(* terms and bound.  The inductive invariant joins the total the contract  *)
(* keeps to what its schedules promise and to the tokens it holds; it      *)
(* needs the ids to be fresh (a new schedule overwrites none) and the      *)
(* cliff of a schedule not to precede its start (nothing vests before it). *)
(***************************************************************************)
EXTENDS VestingHelpers, TokenSumsProofs, SequenceTheorems

\* What each schedule still promises.
Promised(scheds) == [id \in DOMAIN scheds |-> Unreleased(scheds[id])]

\* The cliff is start plus a duration, checked for overflow.
CliffsAfterStarts ==
    \A id \in DOMAIN schedules : schedules[id].start <= schedules[id].cliff

VestingInv ==
    /\ TypeOK
    /\ TotalIsPromised
    /\ Solvent
    /\ IdsListed
    /\ CliffsAfterStarts
    /\ ReleasedHadVested
    /\ Total(tokens, Parties) = Supply

-----------------------------------------------------------------------------
\* The parties are finitely many, the contract and the accounts among them.
LEMMA PartiesFinite == IsFiniteSet(Parties) /\ Vesting \in Parties /\ Accounts \subseteq Parties
<1>1. IsFiniteSet(Accounts \cup {Vesting})
  BY PartiesAssumption, FS_AddElement
<1> QED BY <1>1 DEF Parties

\* A uint256 is a natural number.
LEMMA WordsAreNaturals == Uint256 \subseteq Nat /\ 0 \in Uint256
BY ArgumentsAssumption DEF Uint256

\* Whole slices are no more than the seconds that passed.
LEMMA SlicesBounded ==
  ASSUME NEW n \in Nat, NEW p \in Nat \ {0}
  PROVE  (n \div p) * p \in Nat /\ (n \div p) * p <= n
<1>1. n \div p \in Nat /\ n = p * (n \div p) + (n % p) /\ n % p \in Nat
  OBVIOUS
<1>2. p * (n \div p) \in Nat /\ p * (n \div p) = (n \div p) * p
  BY <1>1
<1> QED BY <1>1, <1>2

\* A share of part out of whole is no more than all.
LEMMA ShareBounded ==
  ASSUME NEW all \in Nat, NEW part \in Nat, NEW whole \in Nat \ {0}, part <= whole
  PROVE  (all * part) \div whole \in 0 .. all
<1>1. all * part \in Nat /\ all * part <= all * whole
  BY SMT
<1>2. (all * part) \div whole \in Nat
  BY <1>1
<1>3. (all * part) \div whole <= (all * whole) \div whole
  BY <1>1, SMT
<1>4. (all * whole) \div whole = all
  BY SMT
<1> QED BY <1>2, <1>3, <1>4

\* No more than the whole amount ever vests.
LEMMA VestedBounded ==
  ASSUME NEW s \in VestingSchedule, s.start <= s.cliff, NEW t \in Nat
  PROVE  Vested(s, t) \in 0 .. s.amountTotal
<1>1. /\ s.start \in Nat /\ s.cliff \in Nat /\ s.amountTotal \in Nat
      /\ s.duration \in Nat \ {0} /\ s.slicePeriodSeconds \in Nat \ {0}
  BY WordsAreNaturals DEF VestingSchedule
<1>2. CASE t < s.cliff
  BY <1>1, <1>2 DEF Vested
<1>3. CASE t >= s.cliff /\ t >= EndOf(s)
  BY <1>1, <1>3 DEF Vested
<1>4. CASE t >= s.cliff /\ t < EndOf(s)
  <2>1. t - s.start \in Nat /\ t - s.start <= s.duration
    BY <1>1, <1>4 DEF EndOf
  <2>2. VestedSeconds(s, t) \in Nat /\ VestedSeconds(s, t) <= s.duration
    <3> DEFINE n == t - s.start
    <3>1. VestedSeconds(s, t) = (n \div s.slicePeriodSeconds) * s.slicePeriodSeconds
      BY DEF VestedSeconds
    <3>2. n \in Nat /\ n <= s.duration
      BY <2>1
    <3> HIDE DEF n
    <3>3. VestedSeconds(s, t) \in Nat /\ VestedSeconds(s, t) <= n
      BY ONLY <1>1, <3>1, <3>2, SlicesBounded, Zenon
    <3> QED BY ONLY <1>1, <3>2, <3>3
  <2>3. Vested(s, t) = (s.amountTotal * VestedSeconds(s, t)) \div s.duration
    BY <1>1, <1>4 DEF Vested, EndOf
  <2> QED BY <1>1, <2>2, <2>3, ShareBounded
<1> QED BY <1>1, <1>2, <1>3, <1>4 DEF EndOf

\* What has vested only grows.
LEMMA VestedGrows ==
  ASSUME NEW s \in VestingSchedule, s.start <= s.cliff, NEW t \in Nat
  PROVE  Vested(s, t) <= Vested(s, t + 1)
<1>1. /\ s.start \in Nat /\ s.cliff \in Nat /\ s.amountTotal \in Nat
      /\ s.duration \in Nat \ {0} /\ s.slicePeriodSeconds \in Nat \ {0}
  BY WordsAreNaturals DEF VestingSchedule
<1>2. /\ Vested(s, t) \in 0 .. s.amountTotal
      /\ Vested(s, t + 1) \in 0 .. s.amountTotal
  BY VestedBounded
<1>3. CASE t < s.cliff
  <2>1. Vested(s, t) = 0
    BY <1>1, <1>3 DEF Vested
  <2> QED BY <1>1, <1>2, <2>1
<1>4. CASE t >= s.cliff /\ t + 1 >= EndOf(s)
  <2>1. Vested(s, t + 1) = s.amountTotal
    BY <1>1, <1>4 DEF Vested, EndOf
  <2> QED BY <1>1, <1>2, <2>1
<1>5. CASE t >= s.cliff /\ t + 1 < EndOf(s)
  <2> DEFINE n == t - s.start
             p == s.slicePeriodSeconds
  <2>1. n \in Nat /\ p \in Nat \ {0} /\ t + 1 - s.start = n + 1
    BY <1>1, <1>5
  <2>2. /\ VestedSeconds(s, t) = (n \div p) * p
        /\ VestedSeconds(s, t + 1) = ((n + 1) \div p) * p
    <3>1. VestedSeconds(s, t) = (n \div p) * p
      BY DEF VestedSeconds
    <3>2. VestedSeconds(s, t + 1) = ((t + 1 - s.start) \div p) * p
      BY <1>1 DEF VestedSeconds
    <3> HIDE DEF n, p
    <3> QED BY <2>1, <3>1, <3>2
  <2>3. /\ (n \div p) * p \in Nat /\ ((n + 1) \div p) * p \in Nat
        /\ (n \div p) * p <= ((n + 1) \div p) * p
    <3> HIDE DEF n, p
    <3>1. n \div p \in Nat /\ (n + 1) \div p \in Nat /\ n \div p <= (n + 1) \div p
      BY <2>1
    <3> QED BY <2>1, <3>1
  <2>4. /\ Vested(s, t) = (s.amountTotal * VestedSeconds(s, t)) \div s.duration
        /\ Vested(s, t + 1) = (s.amountTotal * VestedSeconds(s, t + 1)) \div s.duration
    BY <1>1, <1>5 DEF Vested, EndOf
  <2>5. ASSUME NEW x \in Nat, NEW y \in Nat, x <= y
        PROVE  (s.amountTotal * x) \div s.duration <= (s.amountTotal * y) \div s.duration
    <3>1. /\ s.amountTotal * x \in Nat /\ s.amountTotal * y \in Nat
          /\ s.amountTotal * x <= s.amountTotal * y
      BY <1>1, <2>5
    <3>2. \A b, c \in Nat, d \in Nat \ {0} : b <= c => b \div d <= c \div d
      OBVIOUS
    <3> QED BY <1>1, <3>1, <3>2
  <2> HIDE DEF n, p
  <2> QED BY <2>2, <2>3, <2>4, <2>5
<1> QED BY <1>1, <1>3, <1>4, <1>5 DEF EndOf

-----------------------------------------------------------------------------
\* A payment moves tokens of the contract, and the contract holds at least what
\* it held less the amount.
LEMMA PayMoves ==
  ASSUME tokens \in [Parties -> Nat], Total(tokens, Parties) = Supply,
         NEW to \in Parties \cup {ZeroAddress}, NEW amount \in Nat, Pay(to, amount)
  PROVE  /\ IsTransfer(Parties, tokens, tokens', Vesting, to, amount)
         /\ tokens'[Vesting] >= tokens[Vesting] - amount
         /\ to # Vesting => tokens'[to] = tokens[to] + amount
<1>1. to \in Parties /\ Vesting \in Parties /\ amount <= tokens[Vesting]
  BY PartiesFinite DEF Pay
<1>2. tokens' = [p \in Parties |->
          tokens[p] - (IF p = Vesting THEN amount ELSE 0) + (IF p = to THEN amount ELSE 0)]
  BY DEF Pay
<1>3. tokens' = [[tokens EXCEPT ![Vesting] = @ - amount] EXCEPT ![to] = @ + amount]
  <2> DEFINE moved == [[tokens EXCEPT ![Vesting] = @ - amount] EXCEPT ![to] = @ + amount]
  <2>1. moved = [p \in Parties |-> moved[p]]
    OBVIOUS
  <2>2. \A p \in Parties : moved[p] = tokens'[p]
    BY <1>1, <1>2
  <2>3. tokens' = [p \in Parties |-> tokens'[p]]
    BY <1>2
  <2> HIDE DEF moved
  <2>4. tokens' = moved
    BY <2>1, <2>2, <2>3
  <2> QED BY <2>4 DEF moved
<1>4. IsTransfer(Parties, tokens, tokens', Vesting, to, amount)
  BY <1>1, <1>3 DEF IsTransfer
<1>5. tokens[Vesting] \in Nat /\ tokens[to] \in Nat
  BY <1>1
<1>6. to # Vesting => tokens'[to] = tokens[to] + amount
  BY <1>1, <1>2, <1>5
<1>7. tokens'[Vesting] = tokens[Vesting] - amount + (IF Vesting = to THEN amount ELSE 0)
  BY <1>1, <1>2
<1>8. tokens'[Vesting] >= tokens[Vesting] - amount
  BY <1>5, <1>7
<1> QED BY <1>4, <1>6, <1>8

\* A transfer keeps the types of the balances and their sum.
LEMMA TokensKept ==
  ASSUME NEW bal, NEW bal2, NEW from, NEW to, NEW amount,
         IsTransfer(Parties, bal, bal2, from, to, amount),
         Total(bal, Parties) = Supply
  PROVE  bal2 \in [Parties -> Uint256] /\ Total(bal2, Parties) = Supply
<1>1. bal2 \in [Parties -> Nat]
  BY DEF IsTransfer
<1>2. Total(bal2, Parties) = Supply
  <2>1. TotalShifts(Parties, bal, bal2, from, to, amount)
    BY PartiesFinite, TransferTotal
  <2>2. from \in Parties /\ to \in Parties /\ amount \in Nat
    BY DEF IsTransfer
  <2>3. Supply \in Nat
    BY ArgumentsAssumption DEF Uint256
  <2> QED BY <2>1, <2>2, <2>3 DEF TotalShifts
<1>3. \A p \in Parties : bal2[p] <= Supply
  BY <1>1, <1>2, PartiesFinite, TotalBounds
<1>4. \A p \in Parties : bal2[p] \in Uint256
  BY <1>1, <1>3, ArgumentsAssumption DEF Uint256
<1> QED BY <1>1, <1>2, <1>4

\* A change of one schedule changes the total promised by what it changes of
\* that schedule's promise.
LEMMA PromiseUpdate ==
  ASSUME NEW scheds, IsFiniteSet(DOMAIN scheds),
         NEW id \in DOMAIN scheds, NEW scheds2, DOMAIN scheds2 = DOMAIN scheds,
         \A i \in DOMAIN scheds : Unreleased(scheds[i]) \in Nat,
         \A i \in DOMAIN scheds \ {id} : scheds2[i] = scheds[i],
         Unreleased(scheds2[id]) \in Nat
  PROVE  Total(Promised(scheds2), DOMAIN scheds) + Unreleased(scheds[id]) =
           Total(Promised(scheds), DOMAIN scheds) + Unreleased(scheds2[id])
<1> DEFINE f == Promised(scheds)
           g == Promised(scheds2)
<1>1. /\ \A i \in DOMAIN scheds : f[i] \in Nat /\ f[i] = Unreleased(scheds[i])
      /\ \A i \in DOMAIN scheds : g[i] = Unreleased(scheds2[i])
      /\ \A i \in DOMAIN scheds \ {id} : g[i] = f[i]
  BY DEF Promised
<1>2. g[id] \in Nat
  BY <1>1
<1> HIDE DEF f, g
<1>3. Total(g, DOMAIN scheds) + f[id] = Total(f, DOMAIN scheds) + g[id]
  BY <1>1, <1>2, TotalUpdate
<1> QED BY <1>1, <1>3 DEF f, g

-----------------------------------------------------------------------------
\* What the invariant says of one schedule.
LEMMA OneSchedule ==
  ASSUME VestingInv, NEW id \in DOMAIN schedules
  PROVE  /\ schedules[id] \in VestingSchedule
         /\ schedules[id].start <= schedules[id].cliff
         /\ schedules[id].released <= schedules[id].amountTotal
         /\ schedules[id].released \in Nat /\ schedules[id].amountTotal \in Nat
         /\ Unreleased(schedules[id]) \in Nat
<1>1. schedules[id] \in VestingSchedule
  BY DEF VestingInv, TypeOK
<1>2. schedules[id].released \in Nat /\ schedules[id].amountTotal \in Nat
  BY <1>1, WordsAreNaturals DEF VestingSchedule
<1>3. schedules[id].released <= schedules[id].amountTotal
  BY DEF VestingInv, TotalIsPromised
<1>4. Unreleased(schedules[id]) \in Nat
  BY <1>2, <1>3 DEF Unreleased
<1> QED BY <1>1, <1>2, <1>3, <1>4 DEF VestingInv, CliffsAfterStarts

\* What the invariant says of the total and the tokens.
LEMMA Holdings ==
  ASSUME VestingInv
  PROVE  /\ tokens \in [Parties -> Nat] /\ tokens[Vesting] \in Nat
         /\ vestingSchedulesTotalAmount \in Nat
         /\ vestingSchedulesTotalAmount <= tokens[Vesting]
         /\ vestingSchedulesTotalAmount = Total(Promised(schedules), DOMAIN schedules)
         /\ now \in Nat
<1>1. tokens \in [Parties -> Nat] /\ vestingSchedulesTotalAmount \in Nat
  BY WordsAreNaturals DEF VestingInv, TypeOK
<1>2. tokens[Vesting] \in Nat
  BY <1>1, PartiesFinite
<1>3. now \in Nat
  BY BoundsAssumption DEF VestingInv, TypeOK
<1> QED BY <1>1, <1>2, <1>3 DEF VestingInv, Solvent, TotalIsPromised, Promised

\* The owner promises tokens that nobody was promised.
LEMMA CreateKeeps ==
  ASSUME VestingInv, NEW caller \in Accounts, NEW beneficiary \in Beneficiaries,
         NEW terms \in Terms, CreateVestingSchedule(caller, beneficiary, terms)
  PROVE  VestingInv'
<1> DEFINE id == NextId(beneficiary)
           s  == NewSchedule(beneficiary, terms)
           D  == DOMAIN schedules
<1>1. beneficiary \in Parties /\ terms \in TermsType
  BY ArgumentsAssumption DEF CreateVestingSchedule, ValidTerms
<1>2. /\ s \in VestingSchedule /\ s.released = 0 /\ ~s.revoked
      /\ s.amountTotal = terms.amount /\ s.beneficiary = beneficiary
      /\ s.start <= s.cliff
  <2>1. terms.start + terms.cliff \in Uint256 /\ terms.start <= terms.start + terms.cliff
    BY <1>1, ArgumentsAssumption DEF CreateVestingSchedule, ValidTerms, TermsType, Uint256
  <2>2. terms.duration \in Uint256 \ {0} /\ terms.amount \in Uint256 \ {0}
        /\ terms.slicePeriodSeconds \in Uint256 \ {0}
    BY <1>1, ArgumentsAssumption DEF CreateVestingSchedule, ValidTerms, TermsType, Uint256
  <2>3. terms.start \in Uint256 /\ terms.revocable \in BOOLEAN /\ 0 \in Uint256
    BY <1>1, WordsAreNaturals DEF TermsType
  <2> QED BY <1>1, <2>1, <2>2, <2>3 DEF NewSchedule, VestingSchedule
<1>3. id \in Ids /\ id[1] = beneficiary /\ id[2] = holdersVestingCount[beneficiary]
  BY <1>1 DEF NextId, Ids, VestingInv, TypeOK
<1>4. id \notin D
  <2>1. holdersVestingCount[beneficiary] \in Nat
    BY <1>1 DEF VestingInv, TypeOK
  <2>2. \A i \in D : id[1] = i[1] => i[2] < holdersVestingCount[beneficiary]
    BY <1>3 DEF VestingInv, IdsListed
  <2> HIDE DEF id, D
  <2> QED BY <1>3, <2>1, <2>2
<1>5. /\ schedules' = [i \in D \cup {id} |-> IF i = id THEN s ELSE schedules[i]]
      /\ vestingSchedulesIds' = Append(vestingSchedulesIds, id)
      /\ vestingSchedulesTotalAmount' = vestingSchedulesTotalAmount + terms.amount
      /\ vestingSchedulesTotalAmount + terms.amount <= Uint256Max
      /\ holdersVestingCount' = [holdersVestingCount EXCEPT ![beneficiary] = @ + 1]
      /\ terms.amount <= tokens[Vesting] - vestingSchedulesTotalAmount
      /\ UNCHANGED <<owner, initialized, tokens, now>>
  BY DEF CreateVestingSchedule, CanPromise, WithdrawableAmount, adminVars
<1> HIDE DEF id, s
<1>6. /\ DOMAIN schedules' = D \cup {id} /\ schedules'[id] = s
      /\ \A i \in D : schedules'[i] = schedules[i]
  BY <1>4, <1>5
<1>7. /\ tokens[Vesting] \in Nat /\ vestingSchedulesTotalAmount \in Nat /\ now \in Nat
      /\ vestingSchedulesTotalAmount = Total(Promised(schedules), D)
  BY Holdings
<1>8. terms.amount \in Nat
  BY <1>1, WordsAreNaturals DEF TermsType
<1>9. IsFiniteSet(D) /\ Cardinality(D) \in Nat
  BY FS_CardinalityType DEF VestingInv, TypeOK
<1>10. TypeOK'
  <2>1. DOMAIN schedules' \subseteq Ids /\ IsFiniteSet(DOMAIN schedules')
    BY <1>3, <1>6, <1>9, FS_AddElement DEF VestingInv, TypeOK
  <2>2. schedules' \in [DOMAIN schedules' -> VestingSchedule]
    BY <1>2, <1>5, <1>6 DEF VestingInv, TypeOK
  <2>3. vestingSchedulesIds' \in Seq(Ids)
    BY <1>3, <1>5 DEF VestingInv, TypeOK
  <2>4. vestingSchedulesTotalAmount' \in Uint256
    BY <1>5, <1>7, <1>8, ArgumentsAssumption DEF Uint256
  <2>5. holdersVestingCount' \in [Parties -> Nat]
    BY <1>1, <1>5 DEF VestingInv, TypeOK
  <2> QED BY <1>5, <2>1, <2>2, <2>3, <2>4, <2>5 DEF VestingInv, TypeOK
<1>11. TotalIsPromised'
  <2> DEFINE f == Promised(schedules')
  <2>1. \A i \in D : f[i] = Promised(schedules)[i] /\ f[i] \in Nat
    BY <1>6, OneSchedule DEF Promised
  <2>2. f[id] = terms.amount
    BY <1>2, <1>6, <1>8 DEF Promised, Unreleased
  <2>3. Total(f, D) = Total(Promised(schedules), D)
    BY <2>1, TotalAgree
  <2>4. \A i \in D \cup {id} : f[i] \in Nat
    BY <1>8, <2>1, <2>2
  <2> HIDE DEF f
  <2>5. Total(f, D \cup {id}) = Total(f, D) + f[id]
    BY <1>4, <1>9, <2>4, TotalAdd
  <2>6. vestingSchedulesTotalAmount' = Total(Promised(schedules'), DOMAIN schedules')
    BY <1>5, <1>6, <1>7, <2>2, <2>3, <2>5 DEF f
  <2>7. \A i \in DOMAIN schedules' : schedules'[i].released <= schedules'[i].amountTotal
    BY <1>2, <1>6, <1>8, OneSchedule
  <2> QED BY <2>6, <2>7 DEF TotalIsPromised, Promised
<1>12. Solvent'
  BY <1>5, <1>7, <1>8 DEF Solvent
<1>13. IdsListed'
  <2>1. {vestingSchedulesIds'[i] : i \in DOMAIN vestingSchedulesIds'} = DOMAIN schedules'
    <3>1. vestingSchedulesIds \in Seq(Ids)
      BY DEF VestingInv, TypeOK
    <3>2. {vestingSchedulesIds[i] : i \in DOMAIN vestingSchedulesIds} = D
      BY DEF VestingInv, IdsListed
    <3>3. /\ DOMAIN vestingSchedulesIds' = DOMAIN vestingSchedulesIds \cup {Len(vestingSchedulesIds) + 1}
          /\ \A i \in DOMAIN vestingSchedulesIds : vestingSchedulesIds'[i] = vestingSchedulesIds[i]
          /\ vestingSchedulesIds'[Len(vestingSchedulesIds) + 1] = id
      BY <1>3, <1>5, <3>1, AppendProperties, LenProperties
    <3> QED BY <1>6, <3>2, <3>3
  <2>2. Len(vestingSchedulesIds') = Cardinality(DOMAIN schedules')
    <3>1. /\ vestingSchedulesIds \in Seq(Ids)
          /\ Len(vestingSchedulesIds) = Cardinality(D)
      BY DEF VestingInv, TypeOK, IdsListed
    <3>2. Len(vestingSchedulesIds') = Len(vestingSchedulesIds) + 1
      BY <1>3, <1>5, <3>1, AppendProperties
    <3>3. Cardinality(D \cup {id}) = Cardinality(D) + 1
      BY <1>4, <1>9, FS_AddElement
    <3> QED BY <1>6, <3>1, <3>2, <3>3
  <2>3. ASSUME NEW i \in DOMAIN schedules'
        PROVE  /\ i[1] = schedules'[i].beneficiary
               /\ i[2] < holdersVestingCount'[i[1]]
    <3>1. holdersVestingCount \in [Parties -> Nat]
      BY DEF VestingInv, TypeOK
    <3>2. CASE i = id
      BY <1>1, <1>2, <1>3, <1>5, <1>6, <3>1, <3>2
    <3>3. CASE i \in D
      <4>1. i[1] = schedules[i].beneficiary /\ i[2] < holdersVestingCount[i[1]]
        BY <3>3 DEF VestingInv, IdsListed
      <4>2. i[1] \in Parties /\ i[2] \in Nat
        BY <3>3 DEF VestingInv, TypeOK, Ids
      <4> QED BY <1>1, <1>5, <1>6, <3>1, <3>3, <4>1, <4>2
    <3> QED BY <1>6, <3>2, <3>3
  <2> QED BY <2>1, <2>2, <2>3 DEF IdsListed
<1>14. CliffsAfterStarts'
  BY <1>2, <1>6 DEF CliffsAfterStarts, VestingInv
<1>15. ReleasedHadVested'
  <2>1. Vested(s, now) \in Nat
    BY <1>2, <1>7, <1>8, VestedBounded
  <2> SUFFICES ASSUME NEW i \in D \cup {id}
               PROVE  IF now < schedules'[i].cliff THEN schedules'[i].released = 0
                      ELSE schedules'[i].released <= Vested(schedules'[i], now)
    BY <1>5, <1>6 DEF ReleasedHadVested
  <2>2. CASE i = id
    BY <1>2, <1>6, <2>1, <2>2
  <2>3. CASE i \in D
    BY <1>6, <2>3 DEF VestingInv, ReleasedHadVested
  <2> QED BY <2>2, <2>3
<1> QED BY <1>5, <1>10, <1>11, <1>12, <1>13, <1>14, <1>15 DEF VestingInv

-----------------------------------------------------------------------------
\* s2 is schedule s after more of it is released, or after it is revoked.
IsSettled(s, s2, t) ==
    /\ s2 = [s EXCEPT !.released = s2.released, !.revoked = s2.revoked]
    /\ s2.revoked \in BOOLEAN
    /\ s2.released \in Nat /\ s2.released <= s.amountTotal
    /\ IF t < s.cliff THEN s2.released = 0 ELSE s2.released <= Vested(s, t)

\* A settled schedule keeps its terms.
LEMMA SettledTerms ==
  ASSUME NEW s \in VestingSchedule, NEW s2, NEW t, IsSettled(s, s2, t)
  PROVE  /\ s2 \in VestingSchedule
         /\ s2.beneficiary = s.beneficiary /\ s2.start = s.start /\ s2.cliff = s.cliff
         /\ s2.duration = s.duration /\ s2.amountTotal = s.amountTotal
         /\ s2.slicePeriodSeconds = s.slicePeriodSeconds
         /\ Unreleased(s2) \in Nat
<1>1. /\ s2.beneficiary = s.beneficiary /\ s2.start = s.start /\ s2.cliff = s.cliff
      /\ s2.duration = s.duration /\ s2.amountTotal = s.amountTotal
      /\ s2.slicePeriodSeconds = s.slicePeriodSeconds /\ s2.revocable = s.revocable
  BY DEF IsSettled, VestingSchedule
<1>2. s.amountTotal \in Uint256 /\ s2.released \in Uint256 /\ s.amountTotal \in Nat
  BY ArgumentsAssumption DEF IsSettled, VestingSchedule, Uint256
<1>3. s2 \in VestingSchedule
  BY <1>2 DEF IsSettled, VestingSchedule
<1>4. Unreleased(s2) \in Nat
  BY <1>1, <1>2 DEF IsSettled, Unreleased
<1> QED BY <1>1, <1>3, <1>4

\* One schedule is settled, and the total drops by what it no longer promises.
LEMMA SettleKeeps ==
  ASSUME VestingInv, NEW id \in DOMAIN schedules, NEW s2,
         IsSettled(schedules[id], s2, now),
         schedules' = [schedules EXCEPT ![id] = s2],
         Unreleased(s2) <= Unreleased(schedules[id]),
         vestingSchedulesTotalAmount' =
           vestingSchedulesTotalAmount - (Unreleased(schedules[id]) - Unreleased(s2)),
         tokens' \in [Parties -> Uint256], Total(tokens', Parties) = Supply,
         tokens'[Vesting] >=
           tokens[Vesting] - (Unreleased(schedules[id]) - Unreleased(s2)),
         UNCHANGED <<adminVars, vestingSchedulesIds, holdersVestingCount, now>>
  PROVE  VestingInv'
<1> DEFINE s == schedules[id]
           D == DOMAIN schedules
<1>1. /\ s \in VestingSchedule /\ s.start <= s.cliff /\ Unreleased(s) \in Nat
  BY OneSchedule
<1>2. /\ s2 \in VestingSchedule
      /\ s2.beneficiary = s.beneficiary /\ s2.start = s.start /\ s2.cliff = s.cliff
      /\ s2.duration = s.duration /\ s2.amountTotal = s.amountTotal
      /\ s2.slicePeriodSeconds = s.slicePeriodSeconds
      /\ Unreleased(s2) \in Nat
  BY <1>1, SettledTerms
<1>3. /\ DOMAIN schedules' = D /\ schedules'[id] = s2
      /\ \A i \in D \ {id} : schedules'[i] = schedules[i]
  BY DEF VestingInv, TypeOK
<1>4. /\ tokens[Vesting] \in Nat /\ vestingSchedulesTotalAmount \in Nat
      /\ vestingSchedulesTotalAmount <= tokens[Vesting]
      /\ vestingSchedulesTotalAmount = Total(Promised(schedules), D)
  BY Holdings
<1>5. /\ vestingSchedulesTotalAmount' = Total(Promised(schedules'), DOMAIN schedules')
      /\ vestingSchedulesTotalAmount' \in Nat
  <2>1. IsFiniteSet(D) /\ \A i \in D : Unreleased(schedules[i]) \in Nat
    BY OneSchedule DEF VestingInv, TypeOK
  <2>2. Total(Promised(schedules'), D) + Unreleased(s) =
          Total(Promised(schedules), D) + Unreleased(s2)
    <3>1. /\ DOMAIN schedules' = D
          /\ \A i \in D \ {id} : schedules'[i] = schedules[i]
          /\ Unreleased(schedules'[id]) \in Nat
      BY <1>2, <1>3
    <3>2. Total(Promised(schedules'), D) + Unreleased(schedules[id]) =
            Total(Promised(schedules), D) + Unreleased(schedules'[id])
      BY ONLY <2>1, <3>1, id \in DOMAIN schedules, PromiseUpdate
    <3> QED BY <1>3, <3>2
  <2>3. Total(Promised(schedules'), D) \in Nat
    <3>1. \A i \in D : Promised(schedules')[i] \in Nat
      BY <1>2, <1>3, <2>1 DEF Promised
    <3> QED BY <2>1, <3>1, TokensFinite
  <2> QED BY <1>1, <1>2, <1>3, <1>4, <2>2, <2>3
<1>6. UNCHANGED <<owner, initialized, vestingSchedulesIds, holdersVestingCount, now>>
  BY DEF adminVars
<1>7. vestingSchedulesTotalAmount' \in Uint256
  <2>1. vestingSchedulesTotalAmount' <= vestingSchedulesTotalAmount
    BY <1>1, <1>2, <1>4
  <2>2. vestingSchedulesTotalAmount <= Uint256Max
    BY ArgumentsAssumption DEF VestingInv, TypeOK, Uint256
  <2> QED BY <1>4, <1>5, <2>1, <2>2, ArgumentsAssumption DEF Uint256
<1>8. TypeOK'
  BY <1>2, <1>3, <1>6, <1>7 DEF VestingInv, TypeOK
<1>9. TotalIsPromised'
  <2>1. s2.released <= s2.amountTotal
    BY <1>2 DEF IsSettled
  <2>2. \A i \in DOMAIN schedules' : schedules'[i].released <= schedules'[i].amountTotal
    BY <1>3, <2>1, OneSchedule
  <2> QED BY <1>5, <2>2 DEF TotalIsPromised, Promised
<1>10. Solvent'
  <2>1. tokens'[Vesting] \in Nat
    BY PartiesFinite, WordsAreNaturals
  <2> QED BY <1>1, <1>2, <1>4, <2>1 DEF Solvent
<1>11. IdsListed'
  BY <1>2, <1>3, <1>6 DEF VestingInv, IdsListed
<1>12. CliffsAfterStarts'
  BY <1>1, <1>2, <1>3 DEF VestingInv, CliffsAfterStarts
<1>13. ReleasedHadVested'
  <2>1. Vested(s2, now) = Vested(s, now)
    BY <1>2 DEF Vested, VestedSeconds, EndOf
  <2>2. IF now < s2.cliff THEN s2.released = 0 ELSE s2.released <= Vested(s2, now)
    BY <1>2, <2>1 DEF IsSettled
  <2> QED BY <1>3, <1>6, <2>2 DEF VestingInv, ReleasedHadVested
<1> QED BY <1>8, <1>9, <1>10, <1>11, <1>12, <1>13 DEF VestingInv

\* What is releasable has vested and is not released yet.
LEMMA ReleasableBounded ==
  ASSUME VestingInv, NEW id \in DOMAIN schedules, ~schedules[id].revoked,
         CanComputeReleasable(schedules[id])
  PROVE  LET s == schedules[id]
         IN  /\ Releasable(s) \in Nat
             /\ s.released + Releasable(s) <= s.amountTotal
             /\ IF now < s.cliff THEN Releasable(s) = 0 /\ s.released = 0
                ELSE s.released + Releasable(s) = Vested(s, now)
             /\ s.released + Releasable(s) = Vested(s, now)
<1> DEFINE s == schedules[id]
<1>1. /\ s \in VestingSchedule /\ s.start <= s.cliff /\ s.released \in Nat
      /\ s.amountTotal \in Nat /\ s.released <= s.amountTotal /\ now \in Nat
      /\ s.cliff \in Nat
  BY OneSchedule, Holdings, WordsAreNaturals DEF VestingSchedule
<1>2. Vested(s, now) \in 0 .. s.amountTotal
  BY <1>1, VestedBounded
<1>3. CASE now < s.cliff
  <2>1. s.released = 0 /\ Releasable(s) = 0
    BY <1>3 DEF VestingInv, ReleasedHadVested, Releasable
  <2>2. Vested(s, now) = 0
    BY <1>1, <1>3 DEF Vested
  <2> QED BY <1>1, <1>3, <2>1, <2>2
<1>4. CASE ~(now < s.cliff)
  <2>1. s.released <= Vested(s, now) /\ Releasable(s) = Vested(s, now) - s.released
    BY <1>4 DEF VestingInv, ReleasedHadVested, Releasable
  <2> QED BY <1>1, <1>2, <1>4, <2>1
<1> QED BY <1>3, <1>4

\* release settles a schedule by what it pays.
LEMMA ReleaseKeeps ==
  ASSUME VestingInv, NEW caller \in Accounts, NEW id \in DOMAIN schedules,
         NEW amount \in Amounts \cup {Releasable(schedules[id])},
         Release(caller, id, amount)
  PROVE  VestingInv'
<1> DEFINE s  == schedules[id]
           s2 == [s EXCEPT !.released = @ + amount]
<1>1. /\ ~s.revoked /\ CanComputeReleasable(s) /\ amount <= Releasable(s)
      /\ schedules' = [schedules EXCEPT ![id] = s2]
      /\ vestingSchedulesTotalAmount' = vestingSchedulesTotalAmount - amount
      /\ Pay(s.beneficiary, amount)
      /\ UNCHANGED <<adminVars, vestingSchedulesIds, holdersVestingCount, now>>
  BY DEF Release
<1>2. /\ s \in VestingSchedule /\ s.released \in Nat /\ s.amountTotal \in Nat
      /\ s.beneficiary \in Parties
  BY OneSchedule DEF VestingSchedule
<1>3. /\ Releasable(s) \in Nat /\ s.released + Releasable(s) <= s.amountTotal
      /\ now < s.cliff => Releasable(s) = 0 /\ s.released = 0
      /\ s.released + Releasable(s) = Vested(s, now)
  BY <1>1, ReleasableBounded
<1>4. amount \in Nat
  BY <1>3, ArgumentsAssumption, WordsAreNaturals
<1>5. /\ s2.released = s.released + amount /\ s2.revoked = s.revoked
      /\ s2 = [s EXCEPT !.released = s2.released, !.revoked = s2.revoked]
  BY <1>2 DEF VestingSchedule
<1>6. IsSettled(s, s2, now)
  <2>1. s2.revoked \in BOOLEAN
    BY <1>2, <1>5 DEF VestingSchedule
  <2>2. /\ s2.released \in Nat /\ s2.released <= s.amountTotal
        /\ now < s.cliff => s2.released = 0
        /\ s2.released <= Vested(s, now)
    BY <1>1, <1>2, <1>3, <1>4, <1>5
  <2> QED BY <1>5, <2>1, <2>2 DEF IsSettled
<1>7. /\ Unreleased(s) - Unreleased(s2) = amount
      /\ Unreleased(s2) <= Unreleased(s)
  <2>1. s2.amountTotal = s.amountTotal
    BY <1>2, <1>6, SettledTerms
  <2> QED BY <1>1, <1>2, <1>4, <1>5, <2>1 DEF Unreleased
<1>8. /\ tokens' \in [Parties -> Uint256] /\ Total(tokens', Parties) = Supply
      /\ tokens'[Vesting] >= tokens[Vesting] - amount
  <2>1. tokens \in [Parties -> Nat] /\ Total(tokens, Parties) = Supply
    BY Holdings DEF VestingInv
  <2>2. /\ IsTransfer(Parties, tokens, tokens', Vesting, s.beneficiary, amount)
        /\ tokens'[Vesting] >= tokens[Vesting] - amount
    BY <1>1, <1>2, <1>4, <2>1, PayMoves
  <2> QED BY <2>1, <2>2, TokensKept
<1> HIDE DEF s2
<1> QED BY <1>1, <1>6, <1>7, <1>8, SettleKeeps

\* revoke settles a schedule by all that has vested, and for good.
LEMMA RevokeKeeps ==
  ASSUME VestingInv, NEW caller \in Accounts, NEW id \in DOMAIN schedules,
         Revoke(caller, id)
  PROVE  /\ VestingInv'
         /\ schedules'[id].released = Vested(schedules[id], now)
         /\ schedules[id].beneficiary # Vesting =>
              tokens'[schedules[id].beneficiary] - tokens[schedules[id].beneficiary]
                = schedules'[id].released - schedules[id].released
<1> DEFINE s    == schedules[id]
           paid == Releasable(s)
           left == s.amountTotal - (s.released + paid)
           s2   == [s EXCEPT !.released = @ + paid, !.revoked = TRUE]
<1>1. /\ ~s.revoked /\ CanComputeReleasable(s)
      /\ schedules' = [schedules EXCEPT ![id] = s2]
      /\ vestingSchedulesTotalAmount' = vestingSchedulesTotalAmount - paid - left
      /\ IF paid > 0 THEN Pay(s.beneficiary, paid) ELSE UNCHANGED tokens
      /\ UNCHANGED <<adminVars, vestingSchedulesIds, holdersVestingCount, now>>
  BY DEF Revoke
<1>2. /\ s \in VestingSchedule /\ s.released \in Nat /\ s.amountTotal \in Nat
      /\ s.beneficiary \in Parties
  BY OneSchedule DEF VestingSchedule
<1>3. /\ paid \in Nat /\ s.released + paid <= s.amountTotal
      /\ now < s.cliff => paid = 0 /\ s.released = 0
      /\ s.released + paid = Vested(s, now)
  BY <1>1, ReleasableBounded
<1>4. /\ s2.released = s.released + paid /\ s2.revoked = TRUE
      /\ s2 = [s EXCEPT !.released = s2.released, !.revoked = s2.revoked]
      /\ schedules'[id] = s2
  BY <1>1, <1>2 DEF VestingSchedule
<1>5. IsSettled(s, s2, now)
  <2> HIDE DEF paid, s2
  <2>1. /\ s2.released \in Nat /\ s2.released <= s.amountTotal
        /\ now < s.cliff => s2.released = 0
        /\ s2.released <= Vested(s, now)
    BY <1>2, <1>3, <1>4
  <2> QED BY <1>4, <2>1 DEF IsSettled
<1>6. /\ Unreleased(s) - Unreleased(s2) = paid + left
      /\ Unreleased(s2) <= Unreleased(s)
      /\ paid + left \in Nat /\ left \in Nat
  <2>1. Unreleased(s2) = 0 /\ Unreleased(s) = s.amountTotal - s.released
    BY <1>1, <1>4 DEF Unreleased
  <2> HIDE DEF paid, s2
  <2> QED BY <1>2, <1>3, <2>1
<1>7. tokens \in [Parties -> Nat] /\ Total(tokens, Parties) = Supply
      /\ vestingSchedulesTotalAmount \in Nat /\ tokens[Vesting] \in Nat
  BY Holdings DEF VestingInv
<1>8. /\ tokens' \in [Parties -> Uint256] /\ Total(tokens', Parties) = Supply
      /\ tokens'[Vesting] >= tokens[Vesting] - paid
      /\ s.beneficiary # Vesting => tokens'[s.beneficiary] = tokens[s.beneficiary] + paid
  <2> HIDE DEF paid
  <2>1. CASE paid > 0
    <3>1. /\ IsTransfer(Parties, tokens, tokens', Vesting, s.beneficiary, paid)
          /\ tokens'[Vesting] >= tokens[Vesting] - paid
          /\ s.beneficiary # Vesting => tokens'[s.beneficiary] = tokens[s.beneficiary] + paid
      BY <1>1, <1>2, <1>3, <1>7, <2>1, PayMoves
    <3> QED BY <1>7, <3>1, TokensKept
  <2>2. CASE ~(paid > 0)
    <3>1. paid = 0 /\ tokens' = tokens
      BY <1>1, <1>3, <2>2
    <3>2. tokens[s.beneficiary] \in Nat
      BY <1>2, <1>7
    <3>3. tokens' \in [Parties -> Uint256]
      BY <3>1 DEF VestingInv, TypeOK
    <3> QED BY <1>7, <3>1, <3>2, <3>3
  <2> QED BY <2>1, <2>2
<1>9. /\ vestingSchedulesTotalAmount' =
           vestingSchedulesTotalAmount - (Unreleased(s) - Unreleased(s2))
      /\ tokens'[Vesting] >= tokens[Vesting] - (Unreleased(s) - Unreleased(s2))
  <2>1. tokens'[Vesting] \in Nat
    BY <1>8, PartiesFinite, WordsAreNaturals
  <2> HIDE DEF paid, left, s2
  <2> QED BY <1>1, <1>3, <1>6, <1>7, <1>8, <2>1
<1>10. VestingInv'
  <2> HIDE DEF s2, paid, left
  <2> QED BY <1>1, <1>5, <1>6, <1>8, <1>9, SettleKeeps
<1>11. /\ schedules'[id].released = Vested(s, now)
       /\ s.beneficiary # Vesting =>
            tokens'[s.beneficiary] - tokens[s.beneficiary] = schedules'[id].released - s.released
  <2>1. tokens[s.beneficiary] \in Nat
    BY <1>2, <1>7
  <2> HIDE DEF s2, paid
  <2> QED BY <1>2, <1>3, <1>4, <1>8, <2>1
<1> QED BY <1>10, <1>11

\* Tokens move, and the contract keeps what it promised.
LEMMA TokensMoveKeeps ==
  ASSUME VestingInv, NEW from \in Parties, NEW to \in Parties, NEW amount \in Nat,
         IsTransfer(Parties, tokens, tokens', from, to, amount),
         tokens'[Vesting] >= vestingSchedulesTotalAmount,
         UNCHANGED <<adminVars, scheduleVars, now>>
  PROVE  VestingInv'
<1>1. tokens' \in [Parties -> Uint256] /\ Total(tokens', Parties) = Supply
  BY TokensKept DEF VestingInv
<1>2. tokens'[Vesting] \in Nat /\ vestingSchedulesTotalAmount \in Nat
  BY <1>1, Holdings, PartiesFinite, WordsAreNaturals
<1>3. Solvent'
  BY <1>2 DEF Solvent, scheduleVars
<1> QED BY <1>1, <1>3 DEF VestingInv, TypeOK, TotalIsPromised, IdsListed, CliffsAfterStarts,
                        ReleasedHadVested, adminVars, scheduleVars

\* withdraw takes only tokens that are promised to nobody.
LEMMA WithdrawKeeps ==
  ASSUME VestingInv, NEW caller \in Accounts, NEW amount \in Amounts,
         Withdraw(caller, amount)
  PROVE  VestingInv'
<1>1. amount \in Nat /\ owner \in Parties /\ Vesting \in Parties
  BY ArgumentsAssumption, WordsAreNaturals, PartiesFinite DEF Withdraw
<1>2. /\ vestingSchedulesTotalAmount \in Nat /\ tokens[Vesting] \in Nat
      /\ tokens \in [Parties -> Nat] /\ Total(tokens, Parties) = Supply
  BY Holdings DEF VestingInv
<1>3. amount <= tokens[Vesting] - vestingSchedulesTotalAmount /\ Pay(owner, amount)
  BY DEF Withdraw, CanPromise, WithdrawableAmount
<1>4. /\ IsTransfer(Parties, tokens, tokens', Vesting, owner, amount)
      /\ tokens'[Vesting] >= tokens[Vesting] - amount
  BY <1>1, <1>2, <1>3, PayMoves
<1>5. tokens'[Vesting] \in Nat
  BY <1>1, <1>2, <1>4, TokensKept, WordsAreNaturals
<1>6. tokens'[Vesting] >= vestingSchedulesTotalAmount
  BY <1>1, <1>2, <1>3, <1>4, <1>5
<1> QED BY <1>1, <1>4, <1>6, TokensMoveKeeps DEF Withdraw

\* Tokens sent in only add to what the contract holds.
LEMMA SendInKeeps ==
  ASSUME VestingInv, NEW caller \in Accounts, NEW amount \in Amounts, SendIn(caller, amount)
  PROVE  VestingInv'
<1>1. /\ amount \in Nat /\ caller \in Parties /\ Vesting \in Parties /\ caller # Vesting
  BY ArgumentsAssumption, PartiesAssumption, WordsAreNaturals, PartiesFinite
<1>2. /\ vestingSchedulesTotalAmount \in Nat /\ tokens[Vesting] \in Nat
      /\ vestingSchedulesTotalAmount <= tokens[Vesting]
      /\ tokens \in [Parties -> Nat]
  BY Holdings
<1>3. IsTransfer(Parties, tokens, tokens', caller, Vesting, amount)
  BY <1>1, <1>2 DEF SendIn, IsTransfer
<1>4. tokens'[Vesting] = tokens[Vesting] + amount
  BY <1>1, <1>2 DEF SendIn
<1>5. tokens'[Vesting] >= vestingSchedulesTotalAmount
  BY <1>1, <1>2, <1>4
<1> QED BY <1>1, <1>3, <1>5, TokensMoveKeeps DEF SendIn

\* Time passes: what has vested does not shrink.
LEMMA TickKeeps ==
  ASSUME VestingInv, Tick
  PROVE  VestingInv'
<1>1. now' = now + 1 /\ now' \in 0 .. MaxTime /\ now \in Nat
  BY Holdings, BoundsAssumption DEF Tick
<1>2. UNCHANGED <<owner, initialized, schedules, vestingSchedulesIds,
                  vestingSchedulesTotalAmount, holdersVestingCount, tokens>>
  BY DEF Tick, adminVars, scheduleVars
<1>3. ReleasedHadVested'
  <2> SUFFICES ASSUME NEW id \in DOMAIN schedules
               PROVE  IF now + 1 < schedules[id].cliff THEN schedules[id].released = 0
                      ELSE schedules[id].released <= Vested(schedules[id], now + 1)
    BY <1>1, <1>2 DEF ReleasedHadVested
  <2> DEFINE s == schedules[id]
  <2>1. /\ s \in VestingSchedule /\ s.start <= s.cliff /\ s.released \in Nat
        /\ s.cliff \in Nat /\ s.amountTotal \in Nat
    BY OneSchedule, WordsAreNaturals DEF VestingSchedule
  <2>2. IF now < s.cliff THEN s.released = 0 ELSE s.released <= Vested(s, now)
    BY DEF VestingInv, ReleasedHadVested
  <2>3. Vested(s, now) \in Nat /\ Vested(s, now + 1) \in Nat
    BY <1>1, <2>1, VestedBounded
  <2>4. Vested(s, now) <= Vested(s, now + 1)
    BY <1>1, <2>1, VestedGrows
  <2> HIDE DEF s
  <2>5. IF now + 1 < s.cliff THEN s.released = 0 ELSE s.released <= Vested(s, now + 1)
    BY <1>1, <2>1, <2>2, <2>3, <2>4
  <2> QED BY <2>5 DEF s
<1> QED BY <1>1, <1>2, <1>3 DEF VestingInv, TypeOK, TotalIsPromised, Solvent, IdsListed,
                              CliffsAfterStarts

-----------------------------------------------------------------------------
\* The new contract, which promises nothing, satisfies the invariant.
THEOREM VestingInitEstablishes == Init => VestingInv
<1> SUFFICES ASSUME Init PROVE VestingInv
  OBVIOUS
<1>1. /\ schedules = [id \in {} |-> {}] /\ DOMAIN schedules = {}
      /\ vestingSchedulesIds = <<>> /\ vestingSchedulesTotalAmount = 0
      /\ tokens = [p \in Parties |-> IF p = Vesting THEN Supply ELSE 0]
      /\ now = 0
  BY DEF Init
<1>2. tokens \in [Parties -> Uint256] /\ tokens[Vesting] = Supply /\ Supply \in Nat
  BY <1>1, ArgumentsAssumption, WordsAreNaturals, PartiesFinite
<1>3. TypeOK
  <2>1. owner \in Accounts \cup {ZeroAddress} /\ initialized \in BOOLEAN
    BY PartiesAssumption DEF Init
  <2>2. schedules \in [DOMAIN schedules -> VestingSchedule] /\ IsFiniteSet(DOMAIN schedules)
    BY <1>1, FS_EmptySet
  <2>3. /\ vestingSchedulesIds \in Seq(Ids) /\ vestingSchedulesTotalAmount \in Uint256
        /\ holdersVestingCount \in [Parties -> Nat] /\ now \in 0 .. MaxTime
    BY <1>1, WordsAreNaturals, BoundsAssumption DEF Init
  <2> QED BY <1>1, <1>2, <2>1, <2>2, <2>3 DEF TypeOK
<1>4. TotalIsPromised
  <2>1. Tokens(Promised(schedules), {}) = {}
    BY DEF Tokens
  <2>2. Total(Promised(schedules), {}) = 0
    BY <2>1, FS_EmptySet DEF Total
  <2> QED BY <1>1, <2>2 DEF TotalIsPromised, Promised
<1>5. IdsListed
  <2>1. Cardinality(DOMAIN schedules) = 0
    BY <1>1, FS_EmptySet
  <2> QED BY <1>1, <2>1 DEF IdsListed
<1>6. Total(tokens, Parties) = Supply
  <2>1. Total(tokens, Parties) = Total(tokens, Parties \ {Vesting}) + tokens[Vesting]
    BY <1>2, PartiesFinite, WordsAreNaturals, TotalRemove
  <2>2. Tokens(tokens, Parties \ {Vesting}) = {}
    BY <1>1 DEF Tokens
  <2>3. Total(tokens, Parties \ {Vesting}) = 0
    BY <2>2, FS_EmptySet DEF Total
  <2> QED BY <1>2, <2>1, <2>3
<1>7. Solvent /\ CliffsAfterStarts /\ ReleasedHadVested
  BY <1>1, <1>2 DEF Solvent, CliffsAfterStarts, ReleasedHadVested
<1> QED BY <1>3, <1>4, <1>5, <1>6, <1>7 DEF VestingInv

\* Every call, and the passing of time, keep the invariant.
THEOREM VestingNextKeeps ==
  VestingInv /\ [Next]_vars => VestingInv' /\ \A id \in DOMAIN schedules : SettlesFairly(id)
<1> SUFFICES ASSUME VestingInv, [Next]_vars
             PROVE  VestingInv' /\ \A id \in DOMAIN schedules : SettlesFairly(id)
  OBVIOUS
<1>1. ASSUME \A i \in DOMAIN schedules : schedules'[i] = schedules[i]
      PROVE  \A id \in DOMAIN schedules : SettlesFairly(id)
  BY <1>1 DEF SettlesFairly
<1>2. ASSUME NEW caller \in Accounts, NEW beneficiary \in Beneficiaries, NEW terms \in Terms,
             CreateVestingSchedule(caller, beneficiary, terms)
      PROVE  VestingInv' /\ \A id \in DOMAIN schedules : SettlesFairly(id)
  <2> DEFINE id == NextId(beneficiary)
  <2>1. schedules' = [i \in DOMAIN schedules \cup {id} |->
                         IF i = id THEN NewSchedule(beneficiary, terms) ELSE schedules[i]]
    BY <1>2 DEF CreateVestingSchedule
  <2>2. beneficiary \in Parties
    BY <1>2, ArgumentsAssumption DEF CreateVestingSchedule, ValidTerms
  <2>3. holdersVestingCount[beneficiary] \in Nat
    BY <2>2 DEF VestingInv, TypeOK
  <2>4. id \notin DOMAIN schedules
    <3>1. id[1] = beneficiary /\ id[2] = holdersVestingCount[beneficiary]
      BY DEF NextId
    <3>2. \A i \in DOMAIN schedules : i[2] < holdersVestingCount[i[1]]
      BY DEF VestingInv, IdsListed
    <3> HIDE DEF id
    <3> QED BY <2>3, <3>1, <3>2
  <2> HIDE DEF id
  <2> QED BY <1>1, <1>2, <2>1, <2>4, CreateKeeps
<1>3. ASSUME NEW caller \in Accounts, NEW id \in DOMAIN schedules,
             NEW amount \in Amounts \cup {Releasable(schedules[id])},
             Release(caller, id, amount)
      PROVE  VestingInv' /\ \A i \in DOMAIN schedules : SettlesFairly(i)
  <2>1. /\ ~schedules[id].revoked
        /\ schedules' = [schedules EXCEPT ![id].released = @ + amount]
    BY <1>3 DEF Release
  <2>2. schedules[id] \in VestingSchedule
    BY OneSchedule
  <2>3. schedules'[id].revoked = schedules[id].revoked
    BY <2>1, <2>2 DEF VestingSchedule
  <2>4. \A i \in DOMAIN schedules \ {id} : schedules'[i] = schedules[i]
    BY <2>1
  <2> QED BY <1>3, <2>1, <2>3, <2>4, ReleaseKeeps DEF SettlesFairly
<1>4. ASSUME NEW caller \in Accounts, NEW id \in DOMAIN schedules, Revoke(caller, id)
      PROVE  VestingInv' /\ \A i \in DOMAIN schedules : SettlesFairly(i)
  <2>1. ~schedules[id].revoked /\ schedules[id].revocable
    BY <1>4 DEF Revoke
  <2>2. \A i \in DOMAIN schedules \ {id} : schedules'[i] = schedules[i]
    BY <1>4 DEF Revoke
  <2> QED BY <1>4, <2>1, <2>2, RevokeKeeps DEF SettlesFairly
<1>5. ASSUME NEW caller \in Accounts, NEW amount \in Amounts,
             Withdraw(caller, amount) \/ SendIn(caller, amount)
      PROVE  VestingInv' /\ \A id \in DOMAIN schedules : SettlesFairly(id)
  BY <1>1, <1>5, WithdrawKeeps, SendInKeeps DEF Withdraw, SendIn, scheduleVars
<1>6. ASSUME NEW newOwner \in Accounts \cup {ZeroAddress}, owner' = newOwner,
             initialized' \in BOOLEAN, UNCHANGED <<scheduleVars, tokens, now>>
      PROVE  VestingInv' /\ \A id \in DOMAIN schedules : SettlesFairly(id)
  BY <1>1, <1>6 DEF VestingInv, TypeOK, TotalIsPromised, Solvent, IdsListed, CliffsAfterStarts,
                    ReleasedHadVested, scheduleVars
<1>7. ASSUME NEW caller \in Accounts, Call(caller)
      PROVE  VestingInv' /\ \A id \in DOMAIN schedules : SettlesFairly(id)
  <2>1. ASSUME NEW newOwner \in Accounts, TransferOwnership(caller, newOwner)
        PROVE  VestingInv' /\ \A id \in DOMAIN schedules : SettlesFairly(id)
    BY <1>6, <2>1 DEF TransferOwnership, VestingInv, TypeOK
  <2>2. CASE RenounceOwnership(caller)
    BY <1>6, <2>2 DEF RenounceOwnership, VestingInv, TypeOK
  <2> QED BY <1>2, <1>3, <1>4, <1>5, <1>7, <2>1, <2>2 DEF Call
<1>8. CASE Initialzie
  BY <1>6, <1>8 DEF Initialzie, VestingInv, TypeOK
<1>9. CASE Tick
  BY <1>1, <1>9, TickKeeps DEF Tick, scheduleVars
<1>10. CASE UNCHANGED vars
  BY <1>6, <1>10 DEF vars, adminVars, VestingInv, TypeOK
<1> QED BY <1>7, <1>8, <1>9, <1>10 DEF Next

\* The invariant holds in every state of every behaviour.
THEOREM VestingInvariance == Spec => []VestingInv
<1>1. VestingInv /\ [Next]_vars => VestingInv'
  BY VestingNextKeeps
<1> QED BY <1>1, VestingInitEstablishes, PTL DEF Spec

-----------------------------------------------------------------------------
\* The state stays well typed: no amount, count or balance leaves its range.
THEOREM VestingTypeCorrect == Spec => []TypeOK
<1>1. VestingInv => TypeOK
  BY DEF VestingInv
<1> QED BY <1>1, VestingInvariance, PTL

\* vestingSchedulesTotalAmount is what the schedules still promise.
THEOREM TotalAlwaysPromised == Spec => []TotalIsPromised
<1>1. VestingInv => TotalIsPromised
  BY DEF VestingInv
<1> QED BY <1>1, VestingInvariance, PTL

\* The contract always holds the tokens it promised.
THEOREM AlwaysSolvent == Spec => []Solvent
<1>1. VestingInv => Solvent
  BY DEF VestingInv
<1> QED BY <1>1, VestingInvariance, PTL

\* Nothing is released that had not vested, however releases round.
THEOREM OnlyVestedIsReleased == Spec => []ReleasedHadVested
<1>1. VestingInv => ReleasedHadVested
  BY DEF VestingInv
<1> QED BY <1>1, VestingInvariance, PTL

\* Ids are listed once and never reused.
THEOREM IdsAlwaysListed == Spec => []IdsListed
<1>1. VestingInv => IdsListed
  BY DEF VestingInv
<1> QED BY <1>1, VestingInvariance, PTL

\* A revocation pays what has vested, to the last slice, and is final.
THEOREM RevocationsAreFair == Spec => RevocationIsFair
<1>1. VestingInv /\ [Next]_vars => [\A id \in DOMAIN schedules : SettlesFairly(id)]_vars
  BY VestingNextKeeps
<1> QED BY <1>1, VestingInvariance, PTL DEF Spec, RevocationIsFair

-----------------------------------------------------------------------------
(***************************************************************************)
(* The terms of the roles.                                                 *)
(***************************************************************************)

\* A share does not depend on the unit that part and whole are counted in.
LEMMA ShareOfUnits ==
  ASSUME NEW part \in Nat, NEW whole \in Nat \ {0}, NEW unit \in Nat \ {0}
  PROVE  (part * unit) \div (whole * unit) = part \div whole
<1> DEFINE q == part \div whole
           r == part % whole
<1>1. q \in Nat /\ r \in Nat /\ r < whole /\ part = whole * q + r
  OBVIOUS
<1> HIDE DEF q, r
<1>2. whole * unit \in Nat \ {0} /\ part * unit \in Nat /\ r * unit \in Nat /\ q * whole \in Nat
  BY <1>1
<1>3. part * unit = (whole * unit) * q + r * unit
  BY <1>1
<1>4. r * unit < whole * unit
  BY <1>1
<1>5. \A n, d, x, y \in Nat : d > 0 /\ n = d * x + y /\ y < d => n \div d = x
  OBVIOUS
<1>6. (part * unit) \div (whole * unit) = q
  BY <1>1, <1>2, <1>3, <1>4, <1>5
<1> QED BY <1>6 DEF q

\* What a schedule of months months, a cliff of one and hourly slices pays by
\* the end of its month k, and by the second before.
LEMMA MonthsPay ==
  ASSUME NEW total \in Nat, NEW begin \in Nat, NEW months \in Nat \ {0}, NEW k \in Nat,
         NEW s, s.start = begin, s.cliff = begin + SECONDS_PER_MONTH,
         s.duration = SECONDS_PER_MONTH * months,
         s.slicePeriodSeconds = SECONDS_PER_HOUR, s.amountTotal = total,
         NEW end, end = begin + k * SECONDS_PER_MONTH
  PROVE  /\ Vested(s, end) = IF k >= months THEN total ELSE (total * k) \div months
         /\ k \in 1 .. months =>
               Vested(s, end - 1) =
                  IF k = 1 THEN 0
                  ELSE (total * HoursBefore(k)) \div (months * (HoursBefore(1) + 1))
<1>1. SECONDS_PER_HOUR = 3600 /\ SECONDS_PER_MONTH = 2592000
  BY DEF SECONDS_PER_HOUR, SECONDS_PER_MONTH
<1>2. /\ s.start = begin /\ s.cliff = begin + 2592000 /\ EndOf(s) = begin + 2592000 * months
      /\ s.slicePeriodSeconds = 3600 /\ s.amountTotal = total
      /\ s.duration = 2592000 * months
  BY <1>1 DEF EndOf
<1>3. ASSUME NEW t \in Nat, t >= s.cliff, t < EndOf(s), NEW hours \in Nat,
             t - begin >= hours * 3600, t - begin < (hours + 1) * 3600
      PROVE  Vested(s, t) = (total * hours) \div (months * 720)
  <2>1. VestedSeconds(s, t) = ((t - begin) \div 3600) * 3600
    BY <1>2 DEF VestedSeconds
  <2>2. (t - begin) \div 3600 = hours
    BY <1>3
  <2>3. Vested(s, t) = (total * VestedSeconds(s, t)) \div s.duration
    BY <1>2, <1>3 DEF Vested
  <2>4. Vested(s, t) = (total * (hours * 3600)) \div (2592000 * months)
    BY <1>2, <2>1, <2>2, <2>3
  <2>5. total * (hours * 3600) = (total * hours) * 3600
        /\ 2592000 * months = (months * 720) * 3600
        /\ total * hours \in Nat /\ months * 720 \in Nat \ {0}
    BY SMT
  <2>6. ((total * hours) * 3600) \div ((months * 720) * 3600) = (total * hours) \div (months * 720)
    BY <2>5, ShareOfUnits
  <2> QED BY <2>4, <2>5, <2>6
<1>4. end \in Nat /\ end = begin + k * 2592000 /\ end - begin = (k * 720) * 3600
  BY <1>1, SMT
<1>5. Vested(s, end) = IF k >= months THEN total ELSE (total * k) \div months
  <2>1. CASE k = 0
    <3>1. end < s.cliff
      BY <1>2, <1>4, <2>1, SMT
    <3>2. Vested(s, end) = 0
      BY <1>2, <1>4, <3>1, SMT DEF Vested
    <3>3. total * k = 0 /\ 0 \div months = 0
      BY <2>1, SMT
    <3> QED BY <2>1, <3>2, <3>3, SMT
  <2>2. CASE k >= months
    <3>1. end >= s.cliff /\ end >= EndOf(s)
      BY <1>2, <1>4, <2>2, SMT
    <3>2. Vested(s, end) = total
      BY <1>2, <1>4, <3>1, SMT DEF Vested
    <3> QED BY <2>2, <3>2
  <2>3. CASE k # 0 /\ ~(k >= months)
    <3>1. end >= s.cliff /\ end < EndOf(s)
      BY <1>2, <1>4, <2>3, SMT
    <3> DEFINE hours == k * 720
    <3>2. hours \in Nat /\ end - begin >= hours * 3600 /\ end - begin < (hours + 1) * 3600
      BY <1>4, SMT
    <3>3. total * hours = (total * k) * 720 /\ total * k \in Nat
      BY SMT
    <3> HIDE DEF hours
    <3>4. Vested(s, end) = (total * hours) \div (months * 720)
      BY <1>3, <1>4, <3>1, <3>2, SMT
    <3>5. ((total * k) * 720) \div (months * 720) = (total * k) \div months
      BY <3>3, ShareOfUnits, SMT
    <3>6. Vested(s, end) = (total * k) \div months
      BY <3>3, <3>4, <3>5, SMT
    <3> QED BY <2>3, <3>6
  <2> QED BY <2>1, <2>2, <2>3
<1>6. ASSUME k \in 1 .. months
      PROVE  Vested(s, end - 1) =
                IF k = 1 THEN 0
                ELSE (total * HoursBefore(k)) \div (months * (HoursBefore(1) + 1))
  <2>1. /\ end - 1 \in Nat /\ end - 1 < EndOf(s)
        /\ k = 1 => end - 1 < s.cliff
        /\ k # 1 => end - 1 >= s.cliff
    BY <1>2, <1>4, <1>6, SMT
  <2>2. CASE k = 1
    <3>1. Vested(s, end - 1) = 0
      BY <1>2, <2>1, <2>2, SMT DEF Vested
    <3> QED BY <2>2, <3>1
  <2>3. CASE k # 1
    <3> DEFINE t     == end - 1
               hours == HoursBefore(k)
    <3>1. /\ hours \in Nat /\ HoursBefore(1) + 1 = 720
          /\ t - begin >= hours * 3600 /\ t - begin < (hours + 1) * 3600
      BY <1>1, <1>4, <1>6, SMT DEF HoursBefore
    <3>2. t \in Nat /\ t >= s.cliff /\ t < EndOf(s)
      BY <2>1, <2>3
    <3> HIDE DEF t, hours
    <3>3. Vested(s, t) = (total * hours) \div (months * 720)
      BY <1>3, <3>1, <3>2, SMT
    <3>4. Vested(s, t) = (total * hours) \div (months * (HoursBefore(1) + 1))
      BY <3>1, <3>3, SMT
    <3> QED BY <2>3, <3>4 DEF t, hours
  <2> QED BY <2>2, <2>3
<1> QED BY <1>5, <1>6

\* The terms of the three roles, in months.
LEMMA RoleTerms ==
  ASSUME NEW role \in Roles
  PROVE  /\ Strategy[role].start \in Nat
         /\ MonthsOf(role) \in Nat \ {0}
         /\ Strategy[role].duration = SECONDS_PER_MONTH * MonthsOf(role)
<1>1. SECONDS_PER_HOUR = 3600 /\ SECONDS_PER_MONTH = 2592000
  BY DEF SECONDS_PER_HOUR, SECONDS_PER_MONTH
<1>2. \/ Strategy[role] = [start |-> September2022, duration |-> SECONDS_PER_MONTH * 18]
      \/ Strategy[role] = [start |-> February2022, duration |-> SECONDS_PER_MONTH * 6]
  BY DEF Roles, Strategy, InvestorVestingInputBase, EarlyContributorVestingInputBase,
         TeamVestingInputBase
<1>3. /\ Strategy[role].start \in Nat
      /\ Strategy[role].duration \in {2592000 * 18, 2592000 * 6}
  BY <1>1, <1>2 DEF September2022, February2022
<1>4. MonthsOf(role) = Strategy[role].duration \div 2592000
  BY <1>1 DEF MonthsOf
<1>5. \/ Strategy[role].duration = 2592000 * 18 /\ MonthsOf(role) = 18
      \/ Strategy[role].duration = 2592000 * 6 /\ MonthsOf(role) = 6
  BY <1>3, <1>4
<1> QED BY <1>1, <1>3, <1>5

\* Each role's schedule pays by months, whatever its total: nothing before the
\* first month is over, then its whole hours, and at the end of each month the
\* months' parts, rounded down once.
THEOREM EveryTotalVestsByMonths ==
  ASSUME NEW role \in Roles, NEW total \in Nat, NEW k \in Nat
  PROVE  PaysByMonth(role, total, k)
<1> DEFINE terms == NewVestingSchedule(CreateSchedulePerRole(role, total))
           s     == NewSchedule(FirstOwner, terms)
<1>1. SECONDS_PER_HOUR = 3600 /\ SECONDS_PER_MONTH = 2592000
  BY DEF SECONDS_PER_HOUR, SECONDS_PER_MONTH
<1>2. /\ terms.start = Strategy[role].start /\ terms.duration = Strategy[role].duration
      /\ terms.cliff = SECONDS_PER_MONTH * 1 /\ terms.slicePeriodSeconds = SECONDS_PER_HOUR
      /\ terms.amount = total
  BY DEF NewVestingSchedule, CreateSchedulePerRole, VestingInput, VestingInputCommon, CLIFF
<1> HIDE DEF terms
<1>3. /\ s.start = terms.start /\ s.duration = terms.duration
      /\ s.cliff = terms.start + terms.cliff
      /\ s.slicePeriodSeconds = terms.slicePeriodSeconds /\ s.amountTotal = terms.amount
  BY DEF NewSchedule
<1> HIDE DEF s
<1>4. /\ s.start = Strategy[role].start
      /\ s.cliff = Strategy[role].start + SECONDS_PER_MONTH
      /\ s.duration = SECONDS_PER_MONTH * MonthsOf(role)
      /\ s.slicePeriodSeconds = SECONDS_PER_HOUR /\ s.amountTotal = total
  BY <1>1, <1>2, <1>3, RoleTerms
<1>5. Strategy[role].start \in Nat /\ MonthsOf(role) \in Nat \ {0}
  BY RoleTerms
<1>6. /\ Vested(s, MonthEnd(role, k)) =
            IF k >= MonthsOf(role) THEN total ELSE (total * k) \div MonthsOf(role)
      /\ k \in 1 .. MonthsOf(role) =>
            Vested(s, MonthEnd(role, k) - 1) =
               IF k = 1 THEN 0
               ELSE (total * HoursBefore(k)) \div (MonthsOf(role) * (HoursBefore(1) + 1))
  <2> DEFINE begin  == Strategy[role].start
             months == MonthsOf(role)
             end    == MonthEnd(role, k)
  <2>1. begin \in Nat /\ months \in Nat \ {0}
    BY <1>5
  <2>2. /\ s.start = begin /\ s.cliff = begin + SECONDS_PER_MONTH
        /\ s.duration = SECONDS_PER_MONTH * months
        /\ s.slicePeriodSeconds = SECONDS_PER_HOUR /\ s.amountTotal = total
        /\ end = begin + k * SECONDS_PER_MONTH
    BY <1>4 DEF MonthEnd
  <2> HIDE DEF begin, months, end
  <2>3. /\ Vested(s, end) = IF k >= months THEN total ELSE (total * k) \div months
        /\ k \in 1 .. months =>
               Vested(s, end - 1) =
                  IF k = 1 THEN 0
                  ELSE (total * HoursBefore(k)) \div (months * (HoursBefore(1) + 1))
    BY <2>1, <2>2, MonthsPay, SMT
  <2> QED BY <2>3 DEF begin, months, end
<1> QED BY <1>6 DEF PaysByMonth, s, terms

\* The same for the totals the runs try, in every state.
THEOREM RolesAlwaysVestByMonths == Spec => []RolesVestByMonths
<1>1. RolesVestByMonths
  <2>1. \A role \in Roles : MonthsOf(role) \in Nat
    BY RoleTerms
  <2> QED BY <2>1, EveryTotalVestsByMonths DEF RolesVestByMonths
<1> QED BY <1>1, PTL

=============================================================================
