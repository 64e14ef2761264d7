------------------- MODULE GovernancePowerDelegationERC20 -------------------
(***************************************************************************)
(* Delegation of voting and proposition power (the base contract of        *)
(* PlmyTokenV2): who holds whose power, the history of every address's     *)
(* power by block, and the moves between histories.                        *)
(*                                                                         *)
(* The mappings _votingSnapshots and _propositionPowerSnapshots with their *)
(* counts are snapshots[VOTING_POWER] and snapshots[PROPOSITION_POWER];    *)
(* the mappings of delegates likewise.  _getDelegationDataByType is that   *)
(* indexing.                                                               *)
(***************************************************************************)
EXTENDS ERC20, Snapshots, TokenSums

CONSTANTS VOTING_POWER, PROPOSITION_POWER

ASSUME TypesAssumption == VOTING_POWER # PROPOSITION_POWER

DelegationTypes == {VOTING_POWER, PROPOSITION_POWER}

VARIABLES
    snapshots,      \* by type and address: the history of its power
    delegates,      \* by type and address: its delegatee, zero when never set
    block           \* block.number

\* What the next operators take of the state is passed to them: snaps and
\* chosen are the history and the delegates of one type.

\* _getDelegatee
GetDelegatee(chosen, delegator) ==
    IF chosen[delegator] = ZeroAddress THEN delegator ELSE chosen[delegator]

\* The previous power of an address with no history taken as zero.
PreviousPowerFromZero(snaps, u) ==
    IF snaps[u] # <<>> THEN LastOf(snaps[u]).value ELSE 0

\* The power an address had before a move: the last value of its history,
\* its balance when it has none.
PreviousPower(snaps, u) ==
    IF snaps[u] # <<>> THEN LastOf(snaps[u]).value ELSE balances[u]

\* The checked arithmetic of a move does not revert.
CanMove(snaps, from, to, amount) ==
    from # to =>
        /\ from # ZeroAddress => amount <= PreviousPower(snaps, from)
        /\ to # ZeroAddress => PreviousPower(snaps, to) + amount <= Uint256Max

\* A move that ends once it has served the sender's side.
MoveDelegatesOneSided(snaps, from, to, amount) ==
    [u \in Accounts |->
        IF u = from /\ from # to
        THEN WriteSnapshot(snaps[u], block, Uint128(PreviousPower(snaps, u) - amount))
        ELSE snaps[u]]

\* A move that forgets the check for equal addresses.
MoveDelegatesToSelf(snaps, from, to, amount) ==
    [u \in Accounts |->
        CASE u = to -> WriteSnapshot(snaps[u], block, Uint128(PreviousPower(snaps, u) + amount))
          [] u = from /\ u # to ->
                WriteSnapshot(snaps[u], block, Uint128(PreviousPower(snaps, u) - amount))
          [] OTHER -> snaps[u]]

\* _moveDelegatesByType: the zero address has no history and is passed over.
MoveDelegatesByType(snaps, from, to, amount) ==
    IF from = to THEN snaps
    ELSE [u \in Accounts |->
            CASE u = from ->
                   WriteSnapshot(snaps[u], block, Uint128(PreviousPower(snaps, u) - amount))
              [] u = to ->
                   WriteSnapshot(snaps[u], block, Uint128(PreviousPower(snaps, u) + amount))
              [] OTHER -> snaps[u]]

\* getPowerAtBlock and, at the current block, getPowerCurrent.
GetPowerAtBlock(t, u, b) == SearchByBlockNumber(snapshots[t][u], balances[u], b)

-----------------------------------------------------------------------------
\* _delegateByType that moves the power of the delegator's whole delegation.
DelegateAllPower(delegator, delegatee, types) ==
    /\ delegatee # ZeroAddress
    /\ \A t \in types :
          CanMove(snapshots[t], GetDelegatee(delegates[t], delegator), delegatee,
                  PreviousPower(snapshots[t], delegator))
    /\ delegates' = [t \in DelegationTypes |->
          IF t \in types THEN [delegates[t] EXCEPT ![delegator] = delegatee]
          ELSE delegates[t]]
    /\ snapshots' = [t \in DelegationTypes |->
          IF t \in types
          THEN MoveDelegatesByType(snapshots[t], GetDelegatee(delegates[t], delegator),
                                   delegatee, PreviousPower(snapshots[t], delegator))
          ELSE snapshots[t]]

\* _delegateByType for each of the types: the delegator's balance moves from
\* its old delegatee to the new one.
DelegateTypes(delegator, delegatee, types) ==
    /\ delegatee # ZeroAddress
    /\ \A t \in types :
          CanMove(snapshots[t], GetDelegatee(delegates[t], delegator), delegatee,
                  balances[delegator])
    /\ delegates' = [t \in DelegationTypes |->
          IF t \in types THEN [delegates[t] EXCEPT ![delegator] = delegatee]
          ELSE delegates[t]]
    /\ snapshots' = [t \in DelegationTypes |->
          IF t \in types
          THEN MoveDelegatesByType(snapshots[t], GetDelegatee(delegates[t], delegator),
                                   delegatee, balances[delegator])
          ELSE snapshots[t]]

\* Power moves with the tokens: of each type, from the delegatee of from to
\* the delegatee of to.
MovePowers(from, to, amount) ==
    /\ \A t \in DelegationTypes :
          CanMove(snapshots[t], GetDelegatee(delegates[t], from),
                  GetDelegatee(delegates[t], to), amount)
    /\ snapshots' = [t \in DelegationTypes |->
          MoveDelegatesByType(snapshots[t], GetDelegatee(delegates[t], from),
                              GetDelegatee(delegates[t], to), amount)]

-----------------------------------------------------------------------------
\* Whose tokens count for u, and how many they are.
Delegators(t, u) == {a \in Accounts : GetDelegatee(delegates[t], a) = u}
PowerOf(t, u)    == Total(balances, Delegators(t, u))

=============================================================================
