----------------------------- MODULE PlmyToken -----------------------------
(***************************************************************************)
(* The first implementation of the token: it mints, keeps a history of     *)
(* every address's balance, and takes permits.  It runs on the storage of  *)
(* the proxy, as the second implementation does after it: _snapshots and   *)
(* _countsSnapshots are the slots PlmyTokenV2 reads as the voting          *)
(* snapshots, and balances, allowances and nonces are the same in both.    *)
(* permit is the same code in both: Permit of PlmyTokenV2.                 *)
(***************************************************************************)
EXTENDS PlmyTokenV2

CONSTANTS DISTRIBUTION_AMOUNT, INCENTIVE_AMOUNT

ASSUME MintAssumption ==
    /\ DISTRIBUTION_AMOUNT \in Nat
    /\ INCENTIVE_AMOUNT \in Nat
    /\ DISTRIBUTION_AMOUNT + INCENTIVE_AMOUNT = Supply

-----------------------------------------------------------------------------
\* Histories that record the balance as it was, not as it becomes.
BalanceSnapshotsOld(snaps, bal, from, to, amount) ==
    IF from = to THEN snaps
    ELSE [u \in Accounts |->
            IF u \in {from, to} THEN WriteSnapshot(snaps[u], block, Uint128(bal[u]))
            ELSE snaps[u]]

\* Histories written for a transfer to oneself too.
BalanceSnapshotsToSelf(snaps, bal, from, to, amount) ==
    [u \in Accounts |->
        CASE u = to -> WriteSnapshot(snaps[u], block, Uint128(bal[u] + amount))
          [] u = from /\ u # to -> WriteSnapshot(snaps[u], block, Uint128(bal[u] - amount))
          [] OTHER -> snaps[u]]

\* Histories written for the recipient alone.
BalanceSnapshotsOneSided(snaps, bal, from, to, amount) ==
    [u \in Accounts |->
        IF u = to /\ from # to THEN WriteSnapshot(snaps[u], block, Uint128(bal[u] + amount))
        ELSE snaps[u]]

\* What _beforeTokenTransfer does to the histories snaps when the balances are
\* still bal.  The zero address, which mints, has no history.
BalanceSnapshots(snaps, bal, from, to, amount) ==
    IF from = to THEN snaps
    ELSE [u \in Accounts |->
            CASE u = from -> WriteSnapshot(snaps[u], block, Uint128(bal[u] - amount))
              [] u = to   -> WriteSnapshot(snaps[u], block, Uint128(bal[u] + amount))
              [] OTHER    -> snaps[u]]

\* The hook inside a transfer, whose own checks are those of the hook's
\* arithmetic; the trusted _palmyGovernance.onTransfer is left out.
BeforeTokenTransferV1(from, to, amount) ==
    /\ snapshots' = [snapshots EXCEPT ![VOTING_POWER] =
          BalanceSnapshots(@, balances, from, to, amount)]
    /\ UNCHANGED <<delegates, block, nonces>>

TransferV1(caller, recipient, amount) ==
    /\ Transfer(caller, recipient, amount)
    /\ BeforeTokenTransferV1(caller, recipient, amount)

TransferFromV1(caller, sender, recipient, amount) ==
    /\ TransferFrom(caller, sender, recipient, amount)
    /\ BeforeTokenTransferV1(sender, recipient, amount)

-----------------------------------------------------------------------------
\* What a mint reads and writes.
Ledger == [balances |-> balances, totalSupply |-> totalSupply,
           snaps |-> snapshots[VOTING_POWER]]

\* A mint that skips the hook.
MintedSilently(ledger, account, amount) ==
    [balances    |-> [ledger.balances EXCEPT ![account] = @ + amount],
     totalSupply |-> ledger.totalSupply + amount,
     snaps       |-> ledger.snaps]

\* _mint, of which the hook comes first.
Minted(ledger, account, amount) ==
    [balances    |-> [ledger.balances EXCEPT ![account] = @ + amount],
     totalSupply |-> ledger.totalSupply + amount,
     snaps       |-> BalanceSnapshots(ledger.snaps, ledger.balances,
                                      ZeroAddress, account, amount)]

\* The body of initialize: a mint for each address that is given, the second
\* on what the first left; the checked additions revert past uint256.
MintInitial(vestingAddress, vaultAddress) ==
    LET first == IF vestingAddress = ZeroAddress THEN Ledger
                 ELSE Minted(Ledger, vestingAddress, DISTRIBUTION_AMOUNT)
        both  == IF vaultAddress = ZeroAddress THEN first
                 ELSE Minted(first, vaultAddress, INCENTIVE_AMOUNT)
    IN  /\ both.totalSupply <= Uint256Max
        /\ balances' = both.balances
        /\ totalSupply' = both.totalSupply
        /\ snapshots' = [snapshots EXCEPT ![VOTING_POWER] = both.snaps]
        /\ UNCHANGED <<allowances, delegates, block, nonces>>

=============================================================================
