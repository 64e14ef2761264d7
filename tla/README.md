# The PLMY token and its vesting, in TLA+

This directory models the contracts under `src/contracts`: the PLMY token in its
two implementations, the proxy that carries it from one to the other, the
delegation of voting and proposition power with the messages holders sign, the
vesting contract, and the tasks that deploy, initialize and verify them all. TLC
checks the models on small instances; TLAPS proves the main properties for every
value of the constants.

## The system

| Part | State | Operations | Talks to |
|---|---|---|---|
| `open-zeppelin/ERC20.sol` | balances, allowances, supply | transfer, transferFrom, approve, increase/decreaseAllowance, `_mint` | calls `_beforeTokenTransfer` of the derived token before balances move |
| `token/PlmyToken.sol` (revision 1) | nonces, a history of each balance by block | initialize (the only mint), permit, the hook that writes histories | the governance hook, if one is set |
| `token/base/GovernancePowerDelegationERC20.sol` | by type of power: histories, delegates | delegate, delegateByType, moves of power, lookups by block | reads balances |
| `token/PlmyTokenV2.sol` (revision 2) | the same storage: the balance histories become voting histories; proposition histories and delegates are new | permit, delegateByTypeBySig, delegateBySig, the hook that moves power | the governance hook |
| `open-zeppelin/*Proxy.sol`, `utils/VersionedInitializable.sol` | implementation, admin, last initialized revision | two initializers, changeAdmin, upgradeTo, upgradeToAndCall, forwarding | delegates every other call |
| `token/vesting/TokenVesting.sol` | schedules, their ids, total promised, owner | initialzie, createVestingSchedule, release, revoke, withdraw, ownership | holds and transfers the token |
| `token/vault/PalmyRewardsVault.sol` | token, controller | initialize: one approval | the reward token |
| `tasks/`, `helpers/contracts-helpers.ts` | a registry file of addresses, for two networks; files of calldata | deployment, export, initialization, upgrade, in sequence | all contracts; on oasys, a factory that others call |
| `helpers/contracts-helpers.ts`, typed data | none | builds and signs permits and delegations | `permit`, `delegateByTypeBySig`, `delegateBySig` |
| `helpers/vesting-helpers.ts` | none | the terms of the schedules of three roles | `createVestingSchedule` |
| `helpers/etherscan-verification.ts`, `tasks/migrations/verification.ts`, `tasks/misc/verify-sc.ts` | tries left, parameter files | one contract after the other, with retries | the registry, a block explorer |

A transaction either happens as a whole or reverts, so it is one step of the
models, and a revert is a step that cannot be taken. What is hard is not inside
a transaction but between them: any number of calls by anyone falls in a block,
in any order; messages signed off chain are relayed late, twice, out of order;
a vote reads powers at a past block while tokens and delegations keep moving; an
upgrade puts new code on old state; and sums and histories are kept
incrementally, in several places, for the life of the contract. Nothing crashes
and no call is lost half way inside the contracts, so their hazards are stale
reads, long legal sequences, boundaries of arithmetic, and order. The tasks are
the other way round: a script can be stopped between any two of its
transactions, what it sent is mined all the same, and it is run again from a
registry file that the stop left half written; on oasys they write down addresses
that have no code yet; and the explorer that verifies contracts learns of them
late, limits what it takes and may lose an answer. All are listed at their lines
in `PROJECT.json`.

What makes each part correct:

- ledger: balances add up to the supply; tokens and allowances change only as
  their owners or spenders asked;
- histories: in order of block, one entry a block; the lookup answers what was
  in force when the block ended;
- delegation: an address's power is the sum of the balances delegated to it, now
  and, once a block is over, at it; no move of power can revert a transfer;
- signed messages: each at most once, in order of nonce, not after its deadline,
  doing what the signer asked, and the typed data that is signed is what the
  contract hashes; what is accepted though nobody signed it moves no power;
- hook: the powers are right again when all transfers have ended, whatever the
  governance contract calls from inside them, but for one thing it must not;
- life of the token: one mint; the upgrade changes no power and no past;
- tasks: the registry names what exists, or on oasys what can be created; an
  initialization that says it finished is complete and stays so; one that is not
  stopped finishes;
- verification: no try is given up early, no call keeps another from being made,
  the task ends, and only the files of fatal errors are left;
- vesting: the total promised is exact and held; what is released had vested; a
  revocation pays what had vested; everything is paid in the end.

## Modules

| Module | Models | Notes |
|---|---|---|
| `TokenSums` | sums of balances | a sum over accounts is the cardinality of the set of their tokens: it needs no recursion and can be proved about |
| `ERC20` | `ERC20.sol` | pure ledger; the hook is conjoined by the derived modules |
| `Snapshots` | `_writeSnapshot`, `_searchByBlockNumber` | one address's history as a sequence; `ValueAt` says what the lookup should find |
| `GovernancePowerDelegationERC20` | the base contract | the pairs of mappings are functions of the type of power, which is what `_getDelegationDataByType` does |
| `PlmyTokenV2` | the second implementation | the main specification `Spec`; one action per external call, and `NextBlock` |
| `PlmyToken` | the first implementation | the calls that differ from the second: initialize, and transfers with balance histories |
| `UpgradeableToken` | the proxies and initializers | composes both implementations on one storage: `LifeSpec` |
| `GovernancePower` | what governance relies on | abstract: balances, delegatees and the full record of powers by block, no snapshots |
| `PlmyTokenV2Refinement` | | the token implements `GovernancePower`, the record mapped to what the lookup answers |
| `TokenVesting` | `TokenVesting.sol` and ownership | the external token is a ledger `tokens` |
| `SignedCalls` | the typed data of `contracts-helpers.ts`, the digests and `ecrecover` in `PlmyTokenV2.sol` | extends `PlmyTokenV2`: any call with any signature, of a holder or of nobody, where `PlmyTokenV2` is given a message with its signer |
| `Authorisation` | who sends what | extends `SignedCalls` with two observers (who called, what messages ran) that no action reads, and states who may change what |
| `TransferHook` | `onTransfer` in `_beforeTokenTransfer` | extends `PlmyTokenV2`: a transfer is two steps, with the calls from the hook between them |
| `VestingHelpers` | `helpers/vesting-helpers.ts` | extends `TokenVesting` with the terms of the roles, in seconds |
| `Deployment` | `tasks/`, `helpers/contracts-helpers.ts`, `PalmyRewardsVault.sol` | a task is a sequence of steps (deploy, register, send, export, predict, print, finish); contracts keep the slots, owners and revisions the tasks depend on |
| `Verification` | `etherscan-verification.ts` and the two tasks that call it | one action per outcome of a try; the explorer is its own actor |
| `MC*` | | instances for TLC |
| `*Proofs` | | theorems and proofs, apart from the modules they are about |

Operators whose comment starts with what goes wrong ("A move that forgets ...")
are faulty variants of the operator below them. No specification uses them; each
shows that some property of a run notices that fault.

How state corresponds to code: entry `i` of a snapshots mapping is element
`i + 1` of a sequence and the count is its length; `delegates[t][a]` is zero when
nothing was set; `block` stands for `block.number` and, in the token, for
`block.timestamp` (both only grow, together). A signed message is a record of
the fields under the signature; in `PlmyTokenV2` recovering the signer is the
requirement that its nonce is the next one of its signer, and `SignedCalls` says
why: there a signature is a signer and a digest, and hashes are the records they
are made of. From the digest it is of, a signature recovers its signer; from any
other, and when nobody made it, it recovers an address that nobody has the key of
and nobody can foresee (a stray: `StrayOf`, any function), or zero when it is
malformed. The contract cannot tell a stray from a holder: `delegateByTypeBySig`
and `delegateBySig` want a signatory that is not zero and its next nonce, which
is 0 for an address never seen, so a delegation with nonce 0 is accepted with a
signature of anything (`SendForeign`). `permit` compares the owner, which is in
the digest. In the vesting contract an id is the
pair it is the hash of. Casts to `uint128` are taken modulo `Uint128Range`, and
every `SafeMath` operation that can revert is a guard. In `Deployment` an address
is the code deployed there and a number; a step is sent, then mined by `Mine` in
its signer's order of nonce, whether its script still waits (`script.waitsFor`)
or was stopped; sending throws if the call would revert at that moment, as
estimating its gas does, and mining tries it again. A call to a proxy that is
still empty succeeds without effect, and so does one to an address without code.
On oasys an address is the code and the salt, known before the contract exists;
`FactoryCreate` is somebody else's creation, at any time once the calldata is
exported; `script.hadCode` remembers whether all that is registered existed when
a task began. Numbers of tokens are not kept there: the whole distribution moves
at once, so its holder is the state.

In `Verification` a contract is named by the registry entry of its address, and
what `hardhat verify` answers is decided by the code there, by the path that was
found for the name, and by the explorer. Three consequences of the code are in
the model and no property denies them: a path matches by inclusion, so
`PlmyToken` may be looked for in `PlmyTokenV2.sol` and `TokenVesting` in
`MockTokenVesting.sol`, and such a call fails every try; three of the seven calls
name a proxy's address and the implementation's code, which is a fatal error at
once; and a missing entry of the registry or of the environment throws outside
the `try` and ends the whole task.

## Runs

| Run | Bounds | What it shows |
|---|---|---|
| `power` | 3 accounts, 2 tokens, 2 blocks; voting power delegated to anyone | chains of delegations, re-delegations and transfers keep histories, balances and delegations in agreement; votes at each block add up to the supply; no move reverts |
| `promise` | 3 accounts, 2 tokens, 2 blocks; signed delegations of two accounts, a permit of the third | the refinement of `GovernancePower` |
| `hook` | 3 accounts, 2 tokens, 1 block, 2 transfers inside each other; voting power delegated, proposition power not; one account also approves and calls `transferFrom` | what the governance contract may call back |
| `proposition` | 2 accounts, 3 tokens, 2 blocks | the documented reading of `getPowerAtBlock` fails for proposition power: see below |
| `calls` | 2 holders and a stray, 1 token, 2 blocks; 3 messages of one holder signed for 2 chains and 2 tokens, 2 made-up signatures; one holder pays and approves, the other spends | competing, replayed, late and misdirected messages; a signature is accepted for a holder with the call it was made for and no other; what else is accepted delegates for the stray, and moves no power; every debit, allowance and delegation is authorised |
| `life` | 2 accounts, 2 tokens, 3 blocks; an admin that may hold tokens | from the empty proxy through both implementations: one mint, powers and past kept |
| `snapshots` | histories over 7 blocks | the lookup against its definition and against the record of what was written, for every history |
| `vesting` | 3 schedules, time to 4, uint256 up to 12; the real terms of the roles for four amounts | exact total, solvency, rounding, revocation, with overflowing and refused terms; every schedule that ends pays out; the roles vest month by month |
| `deployment` | 4 runs of any of 11 tasks on testnet, or of 4 on oasys, 2 stops | what a registry names exists, or can be created; finished means initialized, for good; an unstopped initialization of a fresh deployment finishes |
| `deployment_admin` | deployment and one `initialize-PlmyToken --onlyProxy` | the admin that flag sets is not the one documented: see below |
| `salt` | a deployment on testnet, an export on oasys, one `print-address-and-salt` | the task that prints changes the registry: see below |
| `verification` | `times` 3 for 15, a limit of 4 submissions for 100, 1 file that cannot be written; 4 registries | retries, files and the end of the task |

Why the bounds are enough. Moves of power involve at most the two ends of a
transfer and their delegatees; with three accounts one can be the delegatee of
both, of one, or of itself. Two blocks distinguish the same block from a later
one, which is all `_writeSnapshot` looks at, and initial histories add an
earlier block; `life` has three, for a mint, an upgrade and what follows. The
binary search needs longer histories, hence a run of its own with up to seven
entries. Arithmetic bounds are small enough for casts and additions to matter
and large enough for the assumption the code makes (the supply fits `uint128`,
twice the supply fits `uint256`). Deadlock is not checked: every model stops at
its bound on blocks, time or runs. Four runs are a
deployment that is stopped, one that replaces part of its registry and is stopped
too, one that completes it, and an initialization: with three, no initialization
that cannot be stopped any more ever starts from a fresh deployment, and
`InitializationCompletes` would say nothing. To afford the fourth, some tasks are
left out: on testnet `deploy-PalmyRewardsVault`, which does what `deploy-PlmyToken` does
to two other entries, and on oasys, besides the tasks that
create contracts, which the deployer may not, three of the exports run alone, the four
parts of `token-initialization` run alone, and `transfer-vesting-owner`.
`oasys-deployment` runs every export, `token-initialization` every part, and on
testnet each part and the hand-over are also run alone; what is proved of the
tasks holds of them all. The networks
share nothing but the registry, so one behaviour stays on one of them but for
the run `salt`. A nested transfer meets an open one with two open at once; the
hook's run has one block because nothing it reads depends on the block but where
a write goes, and the runs on `PlmyTokenV2` have the others. With three tries
there is a first, a last and one between, and the limit of four is met
inside a call and between calls. In `calls` one stray stands for all: a
second signature of nothing recovers another address, whose next nonce is 0
again, and can do to one more history what the first did to one, which the proofs
say of any number of strays; the digests that give nonce 1 recover none, since a
new stray would not be accepted with it (`Recovered`). The holders' own calls are
bounded there (`WithinBounds`): tokens go to one of them (`Paid`; any address may
hold the supply from the start), and one owner raises the allowance of one spender
(`Approved`). The theorems hold for every such bound, all accounts
included. Symmetry permutes accounts only in runs without
liveness and where no constant names one of the permuted accounts.

Where accounts start: `PlmyTokenV2` starts from any distribution of the supply
with histories the first implementation could have left (an address that ever
held tokens has one; others may). `life` starts from nothing and reaches the
upgrade by the first implementation's own steps, several entries long, and
checks the same properties there.

Fairness is used in three runs. In `deployment` a script goes on to its next step
and the network mines what it was sent; the operator owes nothing, and
`InitializationCompletes` speaks of initializations that are run and not
stopped. In `verification` the task goes on, and the explorer need not index
anything: `VerificationEnds` does not depend on it. In `vesting` time passes, and a beneficiary keeps
calling `release` for what is releasable. The contract cannot make anyone call;
the property says the contract does not stand in the way of one who does. Only
schedules whose end can be computed and comes within the bound are claimed for.

### Disagreements with what the code says of itself

`GovernancePowerDelegationERC20.sol:85` says `getPowerAtBlock` "returns the
delegated power of a user at a certain block". For proposition power nothing was
recorded before the upgrade. An address without a history answers its present
balance for every block; once its first entry is written it answers zero for
every earlier block. One question about one past block is so answered
differently before and after that entry. Anybody can write it: by a transfer to
the address, by delegating to it, as in the run, or by a delegation with a
signature nobody made (`ForeignSignaturesGiveNoPower` states this exception and
that there is no other). The run `proposition` shows it, and
`PastPowersFrozen` states exactly what does hold: voting power is frozen for
all, proposition power from an address's first entry on.

`initialize-PlmyToken.ts:50` says of `--onlyProxy` that it will "only set
PLMY_ADMIN to Transparent Proxy contract". Line 55 passes the vesting contract's
address instead of `plmyAdmin`. The vesting contract cannot call the proxy, so
a token initialized that way can never be upgraded; `package.json` uses the flag
for two networks. The run `deployment_admin` shows it.

`print-address-and-salt.ts:4` describes its task by its name alone,
'print-address-and-salt'. Lines 11 and 12 copy the address of each contract of
oasys over that of testnet and write the file. The entries of testnet then name
addresses that have no code there; a later task on testnet sends to them, and
such calls succeed without effect. The run `salt` shows it. In the other runs on
oasys the task throws at an entry that testnet does not have.

### What is left to the governance contract

`PlmyTokenV2.sol:31` calls it trusted, with the "responsibility to control all
potential reentrancies". `TransferHook` says what that comes to. The powers have
moved when it is called and the balances have not, and a delegation moves power
by the balance. So nobody who sends or receives in a transfer that is open may
delegate from inside it, by a call or by a signed message (`Parties`); without
that assumption `PowersMatchOpenTransfers` fails. Transfers, approvals, permits
and delegations of others may be nested. That is of the second implementation:
the first writes the balances after the transfer, computed from the balances
before it, so a nested transfer of an account whose transfer is open would leave
an entry that is wrong, and its governance contract must not make any. The tasks set none.

## Proofs

`PlmyTokenV2Proofs` proves, from the assumptions in `ERC20`, `Snapshots`,
`GovernancePowerDelegationERC20` and `PlmyTokenV2` (finite accounts, a supply
that fits), that `Spec` keeps `IInv`:

    TypeOK, totalSupply <= Supply, SupplyConserved, PowersMatchDelegators,
    HistoriesOrdered

Of the supply it says only that it is no more than what the code can ever mint,
so that the lemmas about a step (stated of `Parts`, the same invariant taken apart
by type of power) serve the token's life before the mint too.

No part is inductive alone. That a move does not underflow, and that a cast to
`uint128` keeps the value, need a power to be a sum of balances
(`PowersMatchDelegators`) and the balances to add up to the supply
(`SupplyConserved`); `PowersMatchDelegators` in turn needs the casts to keep
values, and the case of an address without a history needs that nobody delegates
to it. The argument for a step is: power moves by the amount by which the
delegators' balances change (`TransferMovesPower`, `DelegationMovesPower`, from
the lemmas on sums in `TokenSumsProofs`), and a write puts that amount at the end
of a history that stays in order (`WriteEntries`, `WriteOrdered`). From it follow
`TypeCorrect`, `SupplyIsConserved`, `PowersAlwaysMatch`,
`HistoriesStayOrdered`, `CurrentPowerIsDelegated`, `MovesAreNeverBlocked`.
`PastIsFrozen` adds that no step changes the value any history has at a past
block.

What votes read is a lookup, and three theorems are about its answers.
`LookupFinds` says what the binary search of `_searchByBlockNumber` returns, for every history in order and every block: the
value of the last entry up to the block. The search is a recursive function over
ranges; a range for which it were wrong would have a smallest one among them, and
one iteration (`SearchIteration`) either ends or leaves a smaller range that is
wrong as well. No induction theorem with an
operator as parameter is needed: `<` on the naturals is well-founded, and the set
of sizes of wrong ranges has no least element, so it is empty. `PastPowersAreFrozen` then says that
no call changes the answer for an earlier block, where an address without a
history answers its balance: `HoldersHaveHistories` (an address that holds tokens
has a voting history) is the invariant it needs beside `IInv`.
`VotesAreWithinSupply` says that the answers for a block add up to the supply for
voting power and to no more for proposition power: true of the present block
because every account's tokens count for one delegatee (`PresentPowersAddUp`),
and of a past one because nothing changes it. `VotingPowerIsPromised` is the
refinement of `GovernancePower`, with the record mapped to what the lookup
answers: each call maps to the step of the same name or to a stutter
(`StepRefines`), and what the record says of the past stays (`RecordNext`).

`UpgradeableTokenProofs` proves the same of the token behind its proxy, from the
empty proxy on (`LifeSpec`): `LifeTypeOK`, `PowersMatchDelegators`,
`PowerIsDelegatedBalances`, `VotesFollowMint` and `PastPowersFrozen`. Its
invariant `LifeInv` joins `Parts`, `HoldersHaveHistories`, `VotesFollowMint` and
what the proxy's slots say of the token (`ProxyInv`): before the first
initialization there are no tokens, and until the second implementation runs
nobody has delegated and no history of proposition power exists. Every step is a
step of `PlmyTokenV2` (`SharedStep`), a transfer of the first implementation
(`MoveStep`) or the mint (`MintStep`; `LifeShapes`). While nothing is delegated
the hook of the first implementation, which writes balances after a transfer,
writes what a move of power would (`MoveKeeps`): that is why its histories can be
read as powers after the upgrade, and why the upgrade moves no vote. The mint
writes the first entries (`MintKeeps`) and finds no votes to change. Finally the
votes of a block are the supply, or none before the mint, because a past answer
changes in no step (`StepKeepsMintVotes`).

These five theorems have the hypothesis `ForwardOnly`: no path of `UpgradePaths`
goes from the second implementation to the first. The proxies do not enforce it:
`BaseAdminUpgradeabilityProxy.sol:71` lets the admin upgrade to anything. The
tasks upgrade forward only, and so does the run `life`. It is needed: with that
path among `UpgradePaths`, TLC finds a delegated power overwritten by a balance,
against `PowerIsDelegatedBalances`. `TokensAreMintedOnce` (`MintedOnce`) needs no
hypothesis, since the revision of `VersionedInitializable` survives any upgrade.

`TransferHookProofs` proves `PowersMatchOpenTransfers` with the calls from inside
transfers, for every depth, under the assumption on `Parties` that
`TransferHook` states. Here a power is the sum of its delegators' balances but
for what open transfers take and bring (`Sent`, `Due`). That bounds no power any
more, so that the casts to `uint128` need an invariant of their own: the powers
of all addresses, each by its history or its balance, add up to the supply
(`HookInv`). An address without a history must be one that no open transfer moves
power to or from (`Untouched`): its first entry will be computed from a balance
that an outer transfer has not written yet.

`TokenVestingProofs` proves `VestingInv`: the type invariant, `TotalIsPromised`,
`Solvent`, `IdsListed`, `ReleasedHadVested`, that a cliff is not before its
start, and that all tokens add up. `Solvent` needs `TotalIsPromised` and fresh
ids (a new schedule must not overwrite a promise); `ReleasedHadVested` needs that
what has vested only grows, through slices and divisions (`VestedGrows`).
`RevocationsAreFair` is an action property from the same invariant.
`EveryTotalVestsByMonths` is about the terms of the roles: whatever the total of
a schedule, what it pays by the end of each month is the months' share of it,
rounded down once. Hours divide months, so that a share in hours or in seconds is
the same share (`ShareOfUnits`). `RolesAlwaysVestByMonths` is `RolesVestByMonths`,
which TLC evaluates for four totals.

`AuthorisationProofs` proves `SignaturesMatchCalls` in every state: the values
the helpers put under each type are those the contract hashes, in its order
(`PermitEncoded`, `DelegateByTypeEncoded`, `DelegateEncoded`), so a digest
determines the call, but for the owner and the nonce of a permit, which the
contract compares. A holder is recovered from the digest it signed and from no
other (`SignerRecovered`), so a call that is accepted for a holder is the message
it signed (`ExecutedIsRelayed`); any other call that is accepted is a delegation by
a stray (`ForeignIsRelayed`), for which `PlmyTokenV2` has an action as well. So
`CallSpec` implements `Spec` (`CallsImplementToken`): all that is proved of the
token holds when it recovers the signers itself, whatever `StrayOf` is.
`ForeignSignaturesAreHarmless` builds on that: a delegation by an address that
holds nothing moves a power of zero (`EmptyDelegationKeepsPower`), and of past
answers a step of the token can only change those of an address without a
history. From the type invariant that comes with it, and from what
each kind of step writes (`CallEffects`, `RelayEffects`), follow that debits,
allowances and delegations are authorised. `MessagesAreHonoured` says that the
messages that took effect carry the numbers 0, 1, 2... of their signer, none
twice and none late: the nonce of an account is the number of its messages among
those executed (`ExecutedCounted`), counted as the cardinality of a set of
positions. The assumptions are those of the token, that the relayer is no
account, and on strays: they sign nothing, no permit names one for its owner
(it would have to be recovered from a digest it is itself part of), and what may
be asked of one may be asked of another.

`DeploymentProofs` proves an inductive invariant of the tasks (`Inv`), for every
choice of tasks on either network or both, any number of runs, stops and changes
of network. The argument has four parts.

1. What a task does is in order from its beginning: it registers only what it
   has just deployed, predicts only what it has exported, and leaves at most one
   transaction unawaited (`Orderly`, proved of each of the sixteen tasks in
   `ProgramsAreOrderly`; `ScriptOrdered` and `ScriptKnown` carry it along, and a stop
   only forgets).
2. A script that waits, waits for the last transaction of its signer, and that
   is the one of its step (`ScriptWaits`): so that when it goes on, its own
   transaction was mined, although others of a stopped script may be before it.
3. Two creations never go to one address, and the next address is new
   (`CreationsApart`, `CreationsCounted`), so that nothing that is deployed is
   named again; and no proxy is both the token's and the vault's, upgrades on
   their way included (`TargetsApart`), so that nothing ever upgrades a vault.
4. `token-initialization` finds at each position what the calls before it set up
   (`Progress`). The delicate one is the third: the upgrade was sent and not
   waited for, and must not fail when it is mined later. It cannot, because the
   proxy's admin and revision are those that were found and nothing before it in
   the queue changes them (`UpgradePending`).

From `Inv` follow `TypeCorrect` and `FinishedStaysInitialized`: nothing that runs
later, and nothing a stopped script left in a queue, undoes an initialization
that reported it finished. `PredictionsAreExported` needs one fact more, that
the entries of oasys are the predictions of what was exported.
`RegistrationsAreDeployed` has the hypothesis `NetworksKeptApart`: one network
only, or no `print-address-and-salt`. All runs but `salt` meet it, and `salt`
shows that it is needed. The assumptions on constants say that the deployer does
not create contracts on oasys, where only allowed accounts can, that the two
signers are two, and that people's addresses are no contracts.

`VerificationProofs` proves that the verification keeps `TypeOK`,
`FilesAccounted`, that the calls to come are pending and distinct
(`TodoPending`: otherwise a call's result could be written twice, and its file
left unaccounted), and that the tries made and the tries left add up
(`TriesAddUp`). `NoCallGivenUpEarly` is an action property from `TriesAddUp`.

Only model-checked: liveness (`VerificationEnds`, `InitializationCompletes`,
`ScheduleCompletes`), which is out of the prover's reach, and the two properties
of the run `snapshots`, `LookupIsValueAt` and `LookupFindsValueAtEnd`, which
belong to that instance. The substance of the first is proved: `LookupFinds` says
it of every history in order, and `HistoriesStayOrdered` that the token has no
others. The second compares the lookup with what was recorded when the history
was written; for the token that comparison is `PastPowersAreFrozen` and
`VotingPowerIsPromised`.

## Not modelled

- What the governance contract does with the transfers it is told of: it is not
  in the repository. A hook of the first implementation.
- The upgrade back from the second implementation to the first, which an admin
  could make and which would mix plain balances into delegated powers; the
  tasks upgrade forward only (`UpgradePaths` in `MCUpgradeableToken`, the
  hypothesis `ForwardOnly` of the proofs).
- Data other than `initialize` in an upgrade, ether, names, decimals and events.
- Tasks that cannot work: `new-vesting` always throws, and its folder is not
  loaded; `transfer-from-vesting` has a wallet without a provider;
  `transfer-amount-from-vault` calls a function the vault does not have;
  `change-plmy-admin` has its call commented out; `dev-deployment` ends at a task
  that does not exist, and `deploy-v2` runs `deploy-PlmyToken`, the first
  implementation's task.
- Of the tasks that are modelled: their parameters `admin` and `verify`, and calls
  of the public initializers by others. That an initialization stopped inside
  `initialize-TokenVesting` cannot be resumed, because its first transaction
  succeeds once, is so in the model and no property denies it; nor that one begun
  on oasys before the contracts are created may say it finished without having
  done anything (`hadCode` in `FinishedMeansInitialized`).
- Hashing and elliptic curves: digests are injective, and a holder is recovered
  from nothing but its own signature. A second signature for the same digest
  (ECDSA has two) is the same signature: what keeps it from being used again is the
  nonce.
- `hardhat.config.ts` and the wallets of the tests: settings and data.
- Mocks and interfaces. `SafeMath`, `SafeERC20` and `Context` appear as guards and callers.

## Plan

1. Done: ledger, histories, delegation, `PlmyTokenV2`, its refinement, its hook,
   the signed calls, vesting and its terms, the first implementation and the
   upgrade, the tasks on both networks, the verification; proofs for the token
   and its lookups, the refinement, the life of the token across the upgrade,
   the hook, signed calls and authorisation, vesting and its terms, the
   verification and the deployment.
2. Next module: the upgrade of a token whose vesting contract has schedules,
   composing `UpgradeableToken` and `TokenVesting` on one ledger.
3. Next proofs: that of the composition, from `LifeInv` and `VestingInv`.
