--------------------------- MODULE MCTokenVesting ---------------------------
(***************************************************************************)
(* Instances of the vesting contract for TLC.                              *)
(***************************************************************************)
EXTENDS VestingHelpers

T(start, cliff, duration, slice, revocable, amount) ==
    [start |-> start, cliff |-> cliff, duration |-> duration,
     slicePeriodSeconds |-> slice, revocable |-> revocable, amount |-> amount]

\* Started before now with slices that do not divide the duration; a cliff
\* after the end; an end that overflows; terms the checks refuse.
VariedTerms == {T(0, 1, 3, 2, TRUE, 2), T(1, 2, 1, 1, FALSE, 1),
                T(1, 0, Uint256Max, 1, TRUE, 1), T(0, 0, 0, 1, TRUE, 1)}

=============================================================================
