-------------------------- MODULE GovernancePower --------------------------
(***************************************************************************)
(* What one type of delegation promises the governance contracts, in terms *)
(* of balances alone: a token counts for the delegatee of its holder, and  *)
(* the power of an address at a block is what counted for it when that     *)
(* block ended.  There are no snapshots here: the whole record is kept.    *)
(***************************************************************************)
EXTENDS Naturals, Sequences, FiniteSets, TokenSums

CONSTANTS Accounts, Supply, MaxBlock

VARIABLES
    balances,
    delegatee,      \* for each account the account its tokens count for
    block,
    record          \* record[b + 1]: everyone's power at block b, up to now

vars == <<balances, delegatee, block, record>>

Powers(bal, chosen) ==
    [u \in Accounts |-> Total(bal, {a \in Accounts : chosen[a] = u})]

Init ==
    /\ balances \in {f \in [Accounts -> 0 .. Supply] : Total(f, Accounts) = Supply}
    /\ delegatee = [a \in Accounts |-> a]
    /\ block = 1
    /\ record = <<balances, balances>>

\* The present block's entry follows every change.
Recount == record' = [record EXCEPT ![block + 1] = Powers(balances', delegatee')]

Transfer(from, to, amount) ==
    /\ balances' = [a \in Accounts |->
          balances[a] - (IF a = from THEN amount ELSE 0) + (IF a = to THEN amount ELSE 0)]
    /\ Recount
    /\ UNCHANGED <<delegatee, block>>

Delegate(a, to) ==
    /\ delegatee' = [delegatee EXCEPT ![a] = to]
    /\ Recount
    /\ UNCHANGED <<balances, block>>

EndBlock ==
    /\ block < MaxBlock
    /\ block' = block + 1
    /\ record' = Append(record, record[block + 1])
    /\ UNCHANGED <<balances, delegatee>>

Next ==
    \/ \E from, to \in Accounts : \E amount \in 0 .. balances[from] : Transfer(from, to, amount)
    \/ \E a, to \in Accounts : Delegate(a, to)
    \/ EndBlock

Spec == Init /\ [][Next]_vars

=============================================================================
