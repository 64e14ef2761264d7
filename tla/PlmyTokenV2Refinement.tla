----------------------- MODULE PlmyTokenV2Refinement -----------------------
(***************************************************************************)
(* The token implements GovernancePower for each type of power: its        *)
(* history is what getPowerAtBlock answers for every block.                *)
(***************************************************************************)
EXTENDS PlmyTokenV2

RecordOf(t) ==
    [i \in 1 .. block + 1 |-> [u \in Accounts |-> GetPowerAtBlock(t, u, i - 1)]]

Voting == INSTANCE GovernancePower WITH
    delegatee <- [a \in Accounts |-> GetDelegatee(delegates[VOTING_POWER], a)],
    record    <- RecordOf(VOTING_POWER)

\* Voting power is what the abstract specification promises: every call of the
\* token, seen through its lookups, is a transfer, a delegation or nothing.
VotingPowerPromise == Voting!Spec

=============================================================================
