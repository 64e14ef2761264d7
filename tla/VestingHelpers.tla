--------------------------- MODULE VestingHelpers ---------------------------
(***************************************************************************)
(* The terms the helpers of the scripts and tests create schedules with,   *)
(* one set for each role, in seconds of block.timestamp.  A month has 30   *)
(* days.                                                                   *)
(***************************************************************************)
EXTENDS TokenVesting

SECONDS_PER_HOUR  == 60 * 60
SECONDS_PER_MONTH == SECONDS_PER_HOUR * 24 * 30
CLIFF             == SECONDS_PER_MONTH * 1

\* timestamp of the first of September and the first of February 2022, UTC.
September2022 == 1661990400
February2022  == 1643673600

InvestorVestingInputBase         == [start |-> September2022, duration |-> SECONDS_PER_MONTH * 18]
EarlyContributorVestingInputBase == [start |-> September2022, duration |-> SECONDS_PER_MONTH * 18]
TeamVestingInputBase             == [start |-> February2022, duration |-> SECONDS_PER_MONTH * 6]

\* strategy, which throws for another role.
Strategy == [investor |-> InvestorVestingInputBase, team |-> TeamVestingInputBase,
             earlyContributor |-> EarlyContributorVestingInputBase]
Roles == DOMAIN Strategy

VestingInputCommon == [cliff |-> CLIFF, revocable |-> TRUE, slicePerSeconds |-> SECONDS_PER_HOUR]

\* The input for a schedule of the total on these terms.
VestingInput(base, total) ==
    [amount |-> total, duration |-> base.duration, start |-> base.start,
     cliff |-> VestingInputCommon.cliff, revocable |-> VestingInputCommon.revocable,
     slicePerSeconds |-> VestingInputCommon.slicePerSeconds]

CreateSchedulePerRole(role, total) == VestingInput(Strategy[role], total)

\* The terms createVestingSchedule is given for an input.
NewVestingSchedule(input) ==
    [start |-> input.start, cliff |-> input.cliff, duration |-> input.duration,
     slicePeriodSeconds |-> input.slicePerSeconds, revocable |-> input.revocable,
     amount |-> input.amount]

-----------------------------------------------------------------------------
MonthsOf(role)     == Strategy[role].duration \div SECONDS_PER_MONTH
MonthEnd(role, k)  == Strategy[role].start + k * SECONDS_PER_MONTH
HoursBefore(k)     == k * (SECONDS_PER_MONTH \div SECONDS_PER_HOUR) - 1

\* The parts of total that a schedule for the role pays by the end of its
\* month k, and by the second before.
PaysByMonth(role, total, k) ==
    LET terms    == NewVestingSchedule(CreateSchedulePerRole(role, total))
        schedule == NewSchedule(FirstOwner, terms)
        parts    == total * k
    IN  /\ Vested(schedule, MonthEnd(role, k)) =
              IF k >= MonthsOf(role) THEN total ELSE parts \div MonthsOf(role)
        /\ k \in 1 .. MonthsOf(role) =>
              Vested(schedule, MonthEnd(role, k) - 1) =
                 IF k = 1 THEN 0
                 ELSE (total * HoursBefore(k)) \div (MonthsOf(role) * (HoursBefore(1) + 1))

\* A first schedule for any role pays nothing before its first month is over,
\* then for the whole hours that have passed: by the end of each month as many
\* parts of the duration as months have passed, rounded down once and not by
\* the slice, and everything in the end (vesting.spec.ts:325-420 tries single
\* dates of it).
RolesVestByMonths ==
    vestingSchedulesIds = <<>> =>
        \A role \in Roles, total \in {1, 17, 18, 40} :
            \A k \in 0 .. MonthsOf(role) + 2 : PaysByMonth(role, total, k)

=============================================================================
