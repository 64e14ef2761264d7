----------------------------- MODULE TokenSums -----------------------------
(***************************************************************************)
(* The sum of a balance mapping over a finite set of accounts.  The        *)
(* contracts never compute such a sum: they rely on it (a total supply,    *)
(* the power a delegatee holds, what a vesting contract owes).  It is      *)
(* defined as a cardinality, one element for every unit of token, and not  *)
(* by recursion, so that the proof modules can reason about it.            *)
(***************************************************************************)
EXTENDS Naturals, FiniteSets

\* The units of token the accounts of S hold under f.
Tokens(f, S) == UNION {{a} \X (1 .. f[a]) : a \in S}

\* The sum of f[a] over the accounts a of S.
Total(f, S) == Cardinality(Tokens(f, S))

=============================================================================
