---------------------------- MODULE MCSnapshots ----------------------------
(***************************************************************************)
(* The history of one address, written and looked up as the token does:    *)
(* the values the lookup returns are compared with the ones the address    *)
(* had when each block ended.                                              *)
(***************************************************************************)
EXTENDS Snapshots

CONSTANTS
    MaxBlock,       \* bound: the last block
    Values          \* the values that are written

ASSUME /\ MaxBlock \in Nat /\ MaxBlock < Uint128Range
       /\ Values \subseteq 0 .. Uint128Range - 1

VARIABLES
    snaps,          \* the history
    block,
    ended           \* ended[b]: the value at the end of block b, 0 before the first write

vars == <<snaps, block, ended>>

Init == snaps = <<>> /\ block = 1 /\ ended = [b \in 1 .. MaxBlock |-> 0]

Write(v) ==
    /\ snaps' = WriteSnapshot(snaps, block, Uint128(v))
    /\ ended' = [b \in 1 .. MaxBlock |-> IF b >= block THEN v ELSE ended[b]]
    /\ UNCHANGED block

NextBlock == block < MaxBlock /\ block' = block + 1 /\ UNCHANGED <<snaps, ended>>

Next == NextBlock \/ \E v \in Values : Write(v)

Spec == Init /\ [][Next]_vars

\* Once an address has a history, a lookup of _searchByBlockNumber for any block
\* up to now finds the value the address had when that block ended, whatever
\* the blocks in which it was written (the checks of the last and of the first
\* entry, and the binary search between them).  Its balance is not consulted.
LookupFindsValueAtEnd ==
    snaps # <<>> => \A b \in 1 .. block : SearchByBlockNumber(snaps, 0, b) = ended[b]

\* The lookup agrees with the specification of the value the proofs use.
LookupIsValueAt ==
    snaps # <<>> => \A b \in 0 .. MaxBlock : SearchByBlockNumber(snaps, 0, b) = ValueAt(snaps, b)

=============================================================================
