---------------------------- MODULE TokenVesting ----------------------------
(***************************************************************************)
(* The vesting contract: its owner promises tokens it holds to             *)
(* beneficiaries on a schedule, beneficiaries (or the owner for them)      *)
(* release what has vested, the owner revokes schedules and withdraws what *)
(* is promised to nobody.  Anybody may send it tokens.                     *)
(*                                                                         *)
(* A transaction is one step.  An id, keccak256 of (holder, index), is the *)
(* pair itself; the schedules that are initialized are DOMAIN schedules.   *)
(* The token is external: safeTransfer moves the exact amount or reverts.  *)
(***************************************************************************)
EXTENDS Naturals, Sequences, FiniteSets, TokenSums

CONSTANTS
    Accounts,       \* addresses that own, benefit from or fund the contract
    ZeroAddress,    \* address(0)
    Vesting,        \* address(this)
    FirstOwner,     \* the owner the constructor is given
    Supply,         \* the tokens minted to the contract
    Terms,          \* the terms schedules are created with
    Beneficiaries,  \* the addresses schedules are created for
    Amounts,        \* the amounts withdrawn, released and sent in
    Uint256Max,     \* type(uint256).max
    MaxSchedules,   \* bound: schedules created in a behaviour
    MaxTime         \* bound: the last block.timestamp of a behaviour

Parties == Accounts \cup {Vesting}
Uint256 == 0 .. Uint256Max

\* The arguments of createVestingSchedule, its beneficiary aside.
TermsType == [start : Uint256, cliff : Uint256, duration : Uint256,
              slicePeriodSeconds : Uint256, revocable : BOOLEAN, amount : Uint256]

ASSUME PartiesAssumption ==
    /\ IsFiniteSet(Accounts)
    /\ ZeroAddress \notin Parties
    /\ Vesting \notin Accounts
    /\ FirstOwner \in Accounts
ASSUME ArgumentsAssumption ==
    /\ Uint256Max \in Nat
    /\ Supply \in Uint256
    /\ Terms \subseteq TermsType
    /\ Beneficiaries \subseteq Parties \cup {ZeroAddress}
    /\ Amounts \subseteq Uint256
ASSUME BoundsAssumption == MaxSchedules \in Nat /\ MaxTime \in Nat

VARIABLES
    owner,                          \* of Ownable; zero once renounced
    initialized,                    \* initialzie has set _token
    schedules,                      \* vestingSchedules
    vestingSchedulesIds,
    vestingSchedulesTotalAmount,
    holdersVestingCount,
    tokens,                         \* balanceOf at the external token
    now                             \* block.timestamp

adminVars    == <<owner, initialized>>
scheduleVars == <<schedules, vestingSchedulesIds, vestingSchedulesTotalAmount,
                  holdersVestingCount>>
vars         == <<adminVars, scheduleVars, tokens, now>>

Ids == Parties \X Nat

VestingSchedule == [beneficiary : Parties, cliff : Uint256, start : Uint256,
                    duration : Uint256 \ {0}, slicePeriodSeconds : Uint256 \ {0},
                    revocable : BOOLEAN, amountTotal : Uint256 \ {0},
                    released : Uint256, revoked : BOOLEAN]

TypeOK ==
    /\ owner \in Accounts \cup {ZeroAddress}
    /\ initialized \in BOOLEAN
    /\ DOMAIN schedules \subseteq Ids
    /\ IsFiniteSet(DOMAIN schedules)
    /\ schedules \in [DOMAIN schedules -> VestingSchedule]
    /\ vestingSchedulesIds \in Seq(Ids)
    /\ vestingSchedulesTotalAmount \in Uint256
    /\ holdersVestingCount \in [Parties -> Nat]
    /\ tokens \in [Parties -> Uint256]
    /\ now \in 0 .. MaxTime

Init ==
    /\ owner = FirstOwner
    /\ initialized = FALSE
    /\ schedules = [id \in {} |-> {}]
    /\ vestingSchedulesIds = <<>>
    /\ vestingSchedulesTotalAmount = 0
    /\ holdersVestingCount = [p \in Parties |-> 0]
    /\ tokens = [p \in Parties |-> IF p = Vesting THEN Supply ELSE 0]
    /\ now = 0

-----------------------------------------------------------------------------
\* What has vested of s at time t, by whole slices from its start, and its
\* end.  _computeReleasableAmount computes it and subtracts what is released.
EndOf(s) == s.start + s.duration

VestedSeconds(s, t) ==
    ((t - s.start) \div s.slicePeriodSeconds) * s.slicePeriodSeconds

\* Vesting that pays whole slices only, at the end too.
VestedBySlicesOnly(s, t) ==
    CASE t < s.cliff                   -> 0
      [] t >= s.cliff /\ t >= EndOf(s) ->
            (s.amountTotal * ((s.duration \div s.slicePeriodSeconds) * s.slicePeriodSeconds))
                \div s.duration
      [] OTHER -> (s.amountTotal * VestedSeconds(s, t)) \div s.duration

Vested(s, t) ==
    CASE t < s.cliff                   -> 0
      [] t >= s.cliff /\ t >= EndOf(s) -> s.amountTotal
      [] OTHER -> (s.amountTotal * VestedSeconds(s, t)) \div s.duration

\* The checked arithmetic of _computeReleasableAmount does not revert.
CanComputeReleasable(s) ==
    now >= s.cliff /\ ~s.revoked =>
        /\ EndOf(s) <= Uint256Max
        /\ now < EndOf(s) => s.amountTotal * VestedSeconds(s, now) <= Uint256Max
        /\ s.released <= Vested(s, now)

\* _computeReleasableAmount
Releasable(s) == IF s.revoked \/ now < s.cliff THEN 0 ELSE Vested(s, now) - s.released

\* getWithdrawableAmount, when its subtraction does not revert.
WithdrawableAmount == tokens[Vesting] - vestingSchedulesTotalAmount

\* safeTransfer by this contract.
Pay(to, amount) ==
    /\ to # ZeroAddress
    /\ amount <= tokens[Vesting]
    /\ tokens' = [p \in Parties |->
          tokens[p] - (IF p = Vesting THEN amount ELSE 0) + (IF p = to THEN amount ELSE 0)]

-----------------------------------------------------------------------------
Initialzie ==
    /\ ~initialized
    /\ initialized' = TRUE
    /\ UNCHANGED <<owner, scheduleVars, tokens, now>>

\* A schedule whose cliff is not counted from its start.
NewScheduleAbsolute(beneficiary, terms) ==
    [beneficiary |-> beneficiary, cliff |-> terms.cliff,
     start |-> terms.start, duration |-> terms.duration,
     slicePeriodSeconds |-> terms.slicePeriodSeconds, revocable |-> terms.revocable,
     amountTotal |-> terms.amount, released |-> 0, revoked |-> FALSE]

NewSchedule(beneficiary, terms) ==
    [beneficiary |-> beneficiary, cliff |-> terms.start + terms.cliff,
     start |-> terms.start, duration |-> terms.duration,
     slicePeriodSeconds |-> terms.slicePeriodSeconds, revocable |-> terms.revocable,
     amountTotal |-> terms.amount, released |-> 0, revoked |-> FALSE]

\* Terms that need not last.
ValidTermsInstant(beneficiary, terms) ==
    /\ terms.amount > 0
    /\ terms.slicePeriodSeconds >= 1
    /\ beneficiary # ZeroAddress
    /\ terms.start + terms.cliff <= Uint256Max

\* What createVestingSchedule requires of its arguments.
ValidTerms(beneficiary, terms) ==
    /\ terms.duration > 0
    /\ terms.amount > 0
    /\ terms.slicePeriodSeconds >= 1
    /\ beneficiary # ZeroAddress
    /\ terms.start + terms.cliff <= Uint256Max

\* computeNextVestingScheduleIdForHolder
NextId(beneficiary) == <<beneficiary, holdersVestingCount[beneficiary]>>

\* A promise that is checked against the balance of the contract.
CanPromiseBalance(amount) == amount <= tokens[Vesting]

\* A schedule promises tokens that are not promised yet.
CanPromise(amount) ==
    /\ vestingSchedulesTotalAmount <= tokens[Vesting]
    /\ amount <= WithdrawableAmount

CreateVestingSchedule(caller, beneficiary, terms) ==
    /\ Len(vestingSchedulesIds) < MaxSchedules
    /\ caller = owner
    /\ initialized
    /\ CanPromise(terms.amount)
    /\ ValidTerms(beneficiary, terms)
    /\ vestingSchedulesTotalAmount + terms.amount <= Uint256Max
    /\ LET id == NextId(beneficiary)
       IN  /\ schedules' = [i \in DOMAIN schedules \cup {id} |->
                 IF i = id THEN NewSchedule(beneficiary, terms) ELSE schedules[i]]
           /\ vestingSchedulesIds' = Append(vestingSchedulesIds, id)
    /\ vestingSchedulesTotalAmount' = vestingSchedulesTotalAmount + terms.amount
    /\ holdersVestingCount' = [holdersVestingCount EXCEPT ![beneficiary] = @ + 1]
    /\ UNCHANGED <<adminVars, tokens, now>>

\* A release that takes the amount from what was promised after the check of
\* the total amount alone.
ReleaseUnvested(caller, id, amount) ==
    /\ id \in DOMAIN schedules
    /\ LET s == schedules[id]
       IN  /\ ~s.revoked
           /\ caller \in {s.beneficiary, owner}
           /\ CanComputeReleasable(s)
           /\ amount <= s.amountTotal
           /\ schedules' = [schedules EXCEPT ![id].released = @ + amount]
           /\ amount <= vestingSchedulesTotalAmount
           /\ vestingSchedulesTotalAmount' = vestingSchedulesTotalAmount - amount
           /\ Pay(s.beneficiary, amount)
    /\ UNCHANGED <<adminVars, vestingSchedulesIds, holdersVestingCount, now>>

Release(caller, id, amount) ==
    /\ id \in DOMAIN schedules
    /\ LET s == schedules[id]
       IN  /\ ~s.revoked
           /\ caller \in {s.beneficiary, owner}
           /\ CanComputeReleasable(s)
           /\ amount <= Releasable(s)
           /\ schedules' = [schedules EXCEPT ![id].released = @ + amount]
           /\ amount <= vestingSchedulesTotalAmount
           /\ vestingSchedulesTotalAmount' = vestingSchedulesTotalAmount - amount
           /\ Pay(s.beneficiary, amount)
    /\ UNCHANGED <<adminVars, vestingSchedulesIds, holdersVestingCount, now>>

\* A revocation that drops the whole amount of the schedule from the total.
RevokeWholeAmount(caller, id) ==
    /\ caller = owner
    /\ id \in DOMAIN schedules
    /\ LET s == schedules[id]
       IN  /\ ~s.revoked
           /\ s.revocable
           /\ CanComputeReleasable(s)
           /\ s.amountTotal <= vestingSchedulesTotalAmount
           /\ schedules' = [schedules EXCEPT ![id].released = @ + Releasable(s),
                                             ![id].revoked = TRUE]
           /\ vestingSchedulesTotalAmount' = vestingSchedulesTotalAmount - s.amountTotal
           /\ Pay(s.beneficiary, Releasable(s))
    /\ UNCHANGED <<adminVars, vestingSchedulesIds, holdersVestingCount, now>>

\* A revocation that pays nothing out.
RevokeUnpaid(caller, id) ==
    /\ caller = owner
    /\ id \in DOMAIN schedules
    /\ LET s == schedules[id]
       IN  /\ ~s.revoked
           /\ s.revocable
           /\ vestingSchedulesTotalAmount' =
                 vestingSchedulesTotalAmount - (s.amountTotal - s.released)
           /\ schedules' = [schedules EXCEPT ![id].revoked = TRUE]
    /\ UNCHANGED <<adminVars, vestingSchedulesIds, holdersVestingCount, tokens, now>>

\* What has vested is released to the beneficiary first (the call of release
\* lowers the total by it); what is left is no longer promised.
Revoke(caller, id) ==
    /\ caller = owner
    /\ id \in DOMAIN schedules
    /\ LET s    == schedules[id]
           paid == Releasable(s)
           left == s.amountTotal - (s.released + paid)
       IN  /\ ~s.revoked
           /\ s.revocable
           /\ CanComputeReleasable(s)
           /\ s.released + paid <= s.amountTotal
           /\ paid + left <= vestingSchedulesTotalAmount
           /\ schedules' = [schedules EXCEPT ![id].released = @ + paid,
                                             ![id].revoked = TRUE]
           /\ vestingSchedulesTotalAmount' = vestingSchedulesTotalAmount - paid - left
           /\ IF paid > 0 THEN Pay(s.beneficiary, paid) ELSE UNCHANGED tokens
    /\ UNCHANGED <<adminVars, vestingSchedulesIds, holdersVestingCount, now>>

Withdraw(caller, amount) ==
    /\ caller = owner
    /\ initialized
    /\ CanPromise(amount)
    /\ Pay(owner, amount)
    /\ UNCHANGED <<adminVars, scheduleVars, now>>

-----------------------------------------------------------------------------
\* Ownable, and a transfer of tokens to the contract by one of the accounts.
TransferOwnership(caller, newOwner) ==
    /\ caller = owner
    /\ owner' = newOwner
    /\ UNCHANGED <<initialized, scheduleVars, tokens, now>>

RenounceOwnership(caller) ==
    /\ caller = owner
    /\ owner' = ZeroAddress
    /\ UNCHANGED <<initialized, scheduleVars, tokens, now>>

SendIn(caller, amount) ==
    /\ amount <= tokens[caller]
    /\ tokens' = [tokens EXCEPT ![caller] = @ - amount, ![Vesting] = @ + amount]
    /\ UNCHANGED <<adminVars, scheduleVars, now>>

Tick ==
    /\ now < MaxTime
    /\ now' = now + 1
    /\ UNCHANGED <<adminVars, scheduleVars, tokens>>

Call(caller) ==
    \/ \E b \in Beneficiaries, terms \in Terms : CreateVestingSchedule(caller, b, terms)
    \/ \E id \in DOMAIN schedules :
          \/ Revoke(caller, id)
          \/ \E amount \in Amounts \cup {Releasable(schedules[id])} :
                Release(caller, id, amount)
    \/ \E amount \in Amounts : Withdraw(caller, amount) \/ SendIn(caller, amount)
    \/ \E newOwner \in Accounts : TransferOwnership(caller, newOwner)
    \/ RenounceOwnership(caller)

Next == Initialzie \/ Tick \/ \E caller \in Accounts : Call(caller)

Spec == Init /\ [][Next]_vars

-----------------------------------------------------------------------------
\* What schedule id still promises: nothing once it is revoked.
Unreleased(s) == IF s.revoked THEN 0 ELSE s.amountTotal - s.released

\* The total the contract keeps is what its schedules still promise, through
\* every order of creations, partial releases and revocations.
TotalIsPromised ==
    /\ \A id \in DOMAIN schedules : schedules[id].released <= schedules[id].amountTotal
    /\ vestingSchedulesTotalAmount =
          Total([id \in DOMAIN schedules |-> Unreleased(schedules[id])], DOMAIN schedules)

\* The contract always holds what it promises: no withdrawal, revocation or
\* new schedule takes a beneficiary's tokens, and getWithdrawableAmount never
\* reverts.
Solvent == vestingSchedulesTotalAmount <= tokens[Vesting]

\* What has been released had vested: the subtraction at the end of
\* _computeReleasableAmount never reverts, although slices and the division
\* by the duration round down at every release.
ReleasedHadVested ==
    \A id \in DOMAIN schedules :
        LET s == schedules[id]
        IN  IF now < s.cliff THEN s.released = 0 ELSE s.released <= Vested(s, now)

\* Each schedule is listed once, under an id no other schedule has.
IdsListed ==
    /\ {vestingSchedulesIds[i] : i \in DOMAIN vestingSchedulesIds} = DOMAIN schedules
    /\ Len(vestingSchedulesIds) = Cardinality(DOMAIN schedules)
    /\ \A id \in DOMAIN schedules :
          /\ id[1] = schedules[id].beneficiary
          /\ id[2] < holdersVestingCount[id[1]]

\* If this step revokes schedule id it pays what has vested by then, and if the
\* schedule was revoked already it changes nothing of it.
SettlesFairly(id) ==
    LET s == schedules[id]
    IN  /\ ~s.revoked /\ schedules'[id].revoked =>
              /\ s.revocable
              /\ schedules'[id].released = Vested(s, now)
              /\ s.beneficiary # Vesting =>
                   tokens'[s.beneficiary] - tokens[s.beneficiary]
                       = schedules'[id].released - s.released
        /\ s.revoked => schedules'[id] = s

\* Revoking a schedule pays its beneficiary all that has vested by then, to
\* the last slice, and the schedule never changes again.
RevocationIsFair == [][\A id \in DOMAIN schedules : SettlesFairly(id)]_vars

-----------------------------------------------------------------------------
\* A beneficiary that takes all that is releasable, whenever something is.
ClaimAll(id) ==
    /\ id \in DOMAIN schedules
    /\ Releasable(schedules[id]) > 0
    /\ Release(schedules[id].beneficiary, id, Releasable(schedules[id]))

\* Time passes, and beneficiaries claim: what they do is not the contract's to
\* decide, but a call they keep making is eventually mined.
FairSpec ==
    Spec /\ WF_vars(Tick) /\ \A b \in Accounts, i \in 0 .. MaxSchedules - 1 :
                                WF_vars(ClaimAll(<<b, i>>))

\* The end of the schedule comes within the bound, and can be computed.
Ends(s) == EndOf(s) <= Uint256Max /\ EndOf(s) <= MaxTime /\ s.cliff <= MaxTime

\* Every schedule that ends pays out in full unless it is revoked: no rounding,
\* cliff, slice or sequence of other calls leaves tokens behind.
ScheduleCompletes ==
    \A b \in Accounts, i \in 0 .. MaxSchedules - 1 :
        LET id == <<b, i>>
        IN  (id \in DOMAIN schedules /\ Ends(schedules[id])) ~>
            (id \in DOMAIN schedules /\ Unreleased(schedules[id]) = 0)

=============================================================================
