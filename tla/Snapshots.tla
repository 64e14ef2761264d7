----------------------------- MODULE Snapshots -----------------------------
(***************************************************************************)
(* The history of one address's power: the entries of                      *)
(*   mapping(uint256 => Snapshot) and its count                            *)
(* as a sequence of snapshots (entry i of the mapping is element i + 1),   *)
(* the write and the lookup of GovernancePowerDelegationERC20, and the     *)
(* value the lookup is meant to find.                                      *)
(***************************************************************************)
EXTENDS Naturals, Sequences

CONSTANTS
    Uint128Range    \* 2^128: a Snapshot's fields are below it

ASSUME Uint128RangeAssumption == Uint128Range \in Nat \ {0}

\* uint128(n): a narrowing cast keeps the low bits.
Uint128(n) == n % Uint128Range

Snapshot == [blockNumber : 0 .. Uint128Range - 1,
             value       : 0 .. Uint128Range - 1]

LastOf(snaps) == snaps[Len(snaps)]

\* A second write in one block adds an entry of its own.
WriteSnapshotTwice(snaps, block, newValue) ==
    Append(snaps, [blockNumber |-> Uint128(block), value |-> newValue])

\* A write never opens a new entry.
WriteSnapshotInPlace(snaps, block, newValue) ==
    IF snaps # <<>>
    THEN [snaps EXCEPT ![Len(snaps)].value = newValue]
    ELSE <<[blockNumber |-> Uint128(block), value |-> newValue]>>

\* The last entry when it is of this block, a new entry otherwise.
WriteSnapshot(snaps, block, newValue) ==
    IF snaps # <<>> /\ LastOf(snaps).blockNumber = Uint128(block)
    THEN [snaps EXCEPT ![Len(snaps)].value = newValue]
    ELSE Append(snaps, [blockNumber |-> Uint128(block), value |-> newValue])

-----------------------------------------------------------------------------
\* An iteration of the while loop of the lookup, between lower and upper:
\* search is what the iterations after it find.
SearchFrom(snaps, b, search, lower, upper) ==
    IF upper <= lower THEN snaps[lower].value
    ELSE LET center == upper - (upper - lower) \div 2
         IN  IF snaps[center].blockNumber = b THEN snaps[center].value
             ELSE IF snaps[center].blockNumber < b THEN search[<<center, upper>>]
             ELSE search[<<lower, center - 1>>]

\* The loop, from lower = first and upper = last entry.
BinarySearch(snaps, b) ==
    LET n == Len(snaps)
        search[range \in (1 .. n) \X (1 .. n)] ==
            SearchFrom(snaps, b, search, range[1], range[2])
    IN  search[<<1, n>>]

\* The implicit zero returned for the block of the first entry too.
SearchSkippingFirst(snaps, balance, b) ==
    IF snaps = <<>> THEN balance
    ELSE IF LastOf(snaps).blockNumber <= b THEN LastOf(snaps).value
    ELSE IF snaps[1].blockNumber >= b THEN 0
    ELSE BinarySearch(snaps, b)

\* The lookup after its require (blockNumber <= block.number): balance is
\* balanceOf(user) at the time of the call.
SearchByBlockNumber(snaps, balance, b) ==
    IF snaps = <<>> THEN balance
    ELSE IF LastOf(snaps).blockNumber <= b THEN LastOf(snaps).value
    ELSE IF snaps[1].blockNumber > b THEN 0
    ELSE BinarySearch(snaps, b)

-----------------------------------------------------------------------------
\* What the lookup is meant to return: the value of the latest entry that is
\* not after block b, zero when every entry is after it.
ValueAt(snaps, b) ==
    LET upTo == {i \in DOMAIN snaps : snaps[i].blockNumber <= b}
    IN  IF upTo = {} THEN 0
        ELSE snaps[CHOOSE i \in upTo : \A j \in upTo : j <= i].value

\* Entries are in strictly increasing order of block.
IsOrdered(snaps) ==
    \A i, j \in DOMAIN snaps : i < j => snaps[i].blockNumber < snaps[j].blockNumber

=============================================================================
