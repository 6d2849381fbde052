# StellarVault in TLA+

StellarVault is a multi-signature treasury on Soroban: a factory deploys one
contract per vault, the signers of a vault propose payments, contract calls and
changes of the vault's own rules, approve them in the open or with
zero-knowledge proofs, and anybody settles what has passed. People do this from
a dashboard in the browser, which reads a lagging server, signs with a wallet
extension, builds the proofs, and can keep part of the money as a hidden balance
on a confidential token.

This directory holds TLA+ modules of the parts where order, time and arithmetic
decide whether the money is safe, in the contract and in the browser; the TLC
runs that check them on small instances; and TLAPS proofs of the most important
properties for every instance. `PROJECT.json` lists components, runs, mutants,
findings, hazards and theorems, and maps each definition to the source lines it
stands for.

## 1. The system

| Part | Source | State | Operations |
|---|---|---|---|
| Vault: proposals | `vault-instance/src/lib.rs` | `Proposal`, `Batch`, `Call`, `CallAuth`, `Admin`, `Approval`, `Nullifier`, `Cancelled`, `LastApproval` by id; `NEXTTX`, `RETIRED`, `THCHG` | `propose`, `propose_batch`, `propose_call`, `propose_admin`, `approve`, `approve_and_execute`, `approve_zk`, `approve_zk_anon`, `execute`, `cancel` |
| Vault: rules | same | owner, signers, threshold, policy, two allowlists, `ZkConfig`, commitments, code hash | twelve `AdminAction`s, reached only by settling an admin proposal |
| Vault: spending cap | same | `Window` (opened, spent, previous, length); before v11 `Spent(bucket)` | `window_now`, `window_used`, `charge_window` |
| Storage lifetimes | same | TTL of the instance and of each persistent entry | `bump`, `bump_key`, archival and restoration by the host |
| Factory | `vault-factory/src/lib.rs` | admin, code hash, token, counter, vaults by signer | `init`, `create_vault`, `set_wasm`, `upgrade`, `forget_vault`, `remember_vault` |
| Verifier, circuits | `groth16-verifier`, `circuits` | none | `verify`; the constraints of a vote proof |
| Prover | `web/lib/prover.ts` | none | Merkle tree and paths over the published leaves, vote proofs |
| Transaction client | `web/lib/contract.ts` | invocations in flight | `invoke` (prepare, sign, send, poll), simulated reads and their defaults |
| Dashboard: loading | `web/app/page.tsx` | active address, loads under way, timers, one copy of each field | `loadData`, `selectVault`, `refreshSoon`, `doCreate`, the reloads after each handler |
| Dashboard: deciding | same | the loaded copies, local notes of own approvals | `doApprove`, `doApproveZk`, `doExecute`, `doCancel`, what awaits this wallet |
| Dashboard: forms | same, `web/lib/stellar.ts` | text of the boxes, copies of policy and spending | new transaction, guards, publication of a signer set, amounts |
| Confidential operations | `web/app/confidential.tsx`, `web/lib/confidential.ts` | registration, keys, a replayed balance, the recipient's verdict | setup, deposit, settle, send, withdraw, each through a proposal of the vault |
| Wallet menu | `web/app/page.tsx` | keys, balance and operation of the wallet's own hidden account | `enable`, `run` (unlock, settle, withdraw) |

Contract calls are transactions: the network runs them one after the other, each
all or nothing, and a call that returns an error leaves no trace. Within the
vault there is therefore no concurrency, and what is hard is the order of calls
that different people make over weeks, with the rules moving underneath. In the
browser everything is concurrent: loads, timers, wallets, other people's pages,
a server that lags, requests that fail. Most reads of `contract.ts` do not report
a failure: they answer with what a vault without that feature would say (an open
policy, no allowlist, nothing spent, no verification), and the page cannot tell.

Hard in the contract:

* approvals are a plain counter, fed by four entry points with two double-vote
  ledgers (by address, by nullifier), and cannot be recounted when the signer
  set or the published root changes;
* everything judged when a proposal is made is judged again, against other
  rules, when it is settled;
* the time-lock runs from a stamp that one approval writes, while the rule for
  passing can change without any approval;
* the cap is a sliding window kept in two numbers, across policy changes and a
  code upgrade;
* a call to another contract moves money the vault only measures afterwards.

Hard in the browser:

* a transaction whose submission or whose answer was lost may still be included;
* loads of several vaults overlap, fail in part and end in any order, before or
  after the server has taken in what this page has just written;
* several people decide at once from copies of different ages, and the page
  chooses the entry point for them;
* a signer set is published in two proposals of which each retires the other,
  and proofs are built from a list that may have been replaced;
* a hidden balance is what a replay of events says, with a key that depends on
  the wallet that looks and events the server forgets, and proofs made for it
  wait for approval while the balance moves;
* answers about a recipient come late, and accounts are switched in the wallet.

What makes each part correct:

* **Proposals.** Nobody is counted twice; nothing is settled without a quorum of
  people who may still vote; executed, cancelled and retired are final.
* **Rules.** No rule changes without a quorum; the threshold stays reachable.
* **Lock.** A full period between passing and settling; no way to postpone it.
* **Guards.** What leaves is within the limits of the moment it leaves, is booked
  in full, and reaches only people who may be paid.
* **Cap.** The stored summary agrees with what was paid; no boundary refills it.
* **Client.** A call takes effect at most once, reports are true and stay true,
  and whoever signed is told something.
* **Loading.** A page at rest shows the vault it names, and what it wrote itself as
  far as the server had it when it was asked again.
* **Deciding.** Nobody who is needed is left out, fresh decisions are accepted,
  payable payments end. That anonymous voters stay anonymous is said by the code
  and not kept (section 3).
* **Signer sets.** Every member of a published list can vote on what is proposed as
  private, nobody else can, and no vote of an earlier group counts.
* **Forms.** They warn of what the vault refuses as far as their reads were
  answered, propose what was typed, and read the amounts they write.
* **Hidden money.** The replay agrees with the token, a replay that starts late
  never shows too much, nobody but the vault spoils a payment it has proved, no
  amount is made public by mistake, what has arrived can come out.

## 2. The modules

The contract: `CapWindow` (pure arithmetic) is used by `SpendingCap` (that
arithmetic against a history) and by `VaultInstance` (the whole contract).
`Multisig` is the abstract specification, `VaultRefinement` the mapping to it.
`VaultBudget` adds the history of `SpendingCap` to `VaultInstance`.

The browser: `TxClient` implements the abstract `Submission`. `CoSigners` and
`ProposeForm` extend `VaultInstance`: pages act on the very contract that is
checked by itself. `SignerSet` extends `MerkleTree`. `VaultView`, `GuardsForm`,
`Amounts`, `Confidential`, `RecipientCheck` and `WalletMenu` stand alone.

Eight modules hold the theorems: `VaultProofs` (types, votes and quorum of
`VaultInstance`) and, on top of it, `VaultSafetyProofs` (locks, rules, money, the
refinement, the form and the budget) and `CoSignersProofs`; `PageProofs` (`VaultView`,
`GuardsForm`, `RecipientCheck`); `LibraryProofs` (`TxClient` and `Amounts`, what
the pages use of `web/lib`); `ConfidentialProofs`, `SpendingCapProofs` and
`SignerSetProofs` for the module of that name. `VaultSafetyProofs` also takes an
instance of `SpendingCapProofs`, for the vault's own cap. The `MC...` modules give values for TLC (section 3).

### CapWindow

`WindowLen`, `StoredWindow`, `WindowNow`, `WindowUsed`, `CanCharge` and `Charged`
follow `window_len`, the two halves of `window_now`, `window_used`, and the test
and the write of `charge_window`. The state they work on is passed in. Ledger
numbers saturate at `MaxU32` and amounts at `MaxI128`, as `saturating_*` does;
`checked_add` is a guard. Division truncates; nothing divided here is negative.

### SpendingCap

One vault seen through its cap: ledgers close (`Tick`), payments are charged
(`Charge`), an executed proposal replaces the policy (`SetPolicy`). The contract
stores two numbers and forgets the rest; the history variable `paidBy` keeps
what had been paid by the end of each ledger, and the properties compare the
two. `legacy` is the accounting a vault upgraded from before v11 brings along.

### VaultInstance

One action per entry point; the variables are the storage keys:

| TLA+ | Storage |
|---|---|
| `instance` | the instance entry: owner, signers, threshold, nextTx, policy, allowlists, zk, commitments, retired, thresholdChanged, code hash |
| `proposal[tx]` | `Proposal(tx)` with its payload: a transfer or `Batch(tx)`; `Call(tx)` and `CallAuth(tx)`; or `Admin(tx)` |
| `approval` | pairs with an entry `Approval(tx, signer)` |
| `nullifier` | keys with an entry `Nullifier(n)` |
| `cancelled`, `lastApproval`, `window` | `Cancelled`, `LastApproval`, `Window` |
| `balance` | the vault's token, in its own contract |
| `voters`, `passedAt` | history: whose approvals were counted; since when a proposal has had enough of them |

How the code corresponds:

* A function that returns `Err` is a guard that fails. Checks the code makes
  after a write (in `run`, after `executed = true`, or after the callee of a call
  proposal has moved money) are guards too, because the transaction is undone.
* `approve_and_execute` is one action: record the approval and, if that made the
  proposal ready, settle it; if settling fails the action is not enabled.
* `apply_admin` runs `check_admin` again and then one of twelve disjuncts.
  `retire_open_proposals` is `Retire`, part of the action that calls it.
* Signers are a set, which the constructor justifies: it refuses a repeat, and
  `AddSigner` refuses a present signer. Allowlists are sets for the same reason.
* A batch is a function from recipients to amounts. An item list that names one
  recipient twice is represented by the sum; the code treats the two alike, but
  for the count that `MAX_BATCH` limits.
* A nullifier is the record of what it hashes: a leaf, a proposal, and how often
  the modulus was added to its representation (`lift`). A proof is honest, bogus
  or empty; the configured verifier is assumed to accept exactly honest proofs of
  what the circuit states (`Provable`, external). Without a `ZkConfig` nothing is
  verified, as in `check_proof`.
* The callee of a call proposal is external. It may move any amount in
  `CallFlows` from the vault to anybody, or bring it in from anybody.
* `CloseLedger` and `Deposit` are the environment.
* `NotePassed` records history and restricts nothing: it is the last conjunct of
  every action.

### VaultBudget

The vault with three histories that restrict nothing: `charged` and `left`, the
running totals per ledger of what was charged to the window and of what left under
a cap, and `highest`, the highest cap so far. The first two differ: `run` charges a
transfer or a batch for its whole amount even when a recipient is the vault
itself, and a call for the drop of the balance.
`LeavesWithinBudget` says of `left` what `FadeBound` says of the counter.

### Multisig and VaultRefinement

`Multisig` says what a treasury promises in four actions over `quorum`, `status`
and `ballots`: submit, vote, decide by a quorum of distinct ballots (optionally
voiding all that is open, or moving the quorum), withdraw. `VaultRefinement`
maps the threshold, the executed flag, the `Cancelled` entry, the watermark and
the voters to it. Every step of the vault is a step of the multisig or leaves it
alone: `ImplementsMultisig`.

### TxClient and Submission

`TxClient` follows `invoke` phase by phase (`pc`): build, prepare, sign, send,
poll, each with its retries (`tries`), its naps (`nap`) and the errors that leave
it. The network is external: a mempool, the sequence number of each account, time
bounds (`ttl`), and a server that sees ledgers late (`seen`). Transactions of one
account compete for a sequence number, as two tabs of one wallet do. `Submission`
is the promise to whoever awaits the call, in two actions: the ledger records an
effect, the caller is told. The mapping reads the report off `pc` and the effect
off the ledger.

### VaultView

The page's copies of one vault at a time. `Stages` are the awaits of `loadData`,
in order: a load under way (a bag, since the same load may run twice) is at one of
them, and each answer sets the fields that stage sets, from the vault the load
was started for. `Select`, `Reload`, `TimerFires` and the ends of the handlers
start loads; `refreshSoon` sets a timer as well. What a field holds is abstracted
to which vault and which version of it was read, and whether it is the default
that a failed read is answered with. The timer runs out whatever the server has
ingested by then. The history variables `calm`, `inTurn` and `fresh` say which
page the properties are about; `owed` keeps what a page has to show of a vault:
the version after its own last write, lowered to what the server has when the
timer runs out before the server is there.

### CoSigners

Several people with a page each on the vault of `VaultInstance`. `page[u]` is the
copy `loadData` last made, of any age and, where reads failed (`LoadPartly`), in
part made of their defaults; `marked` the approvals the browser remembers;
`call[u]` the call under way. `ClickApprove` computes
`executeBlocker` and chooses between `approve` and `approve_and_execute` as
`doApprove` does, `ClickApproveZk` between the named and the anonymous entry
point; `Lands` performs the contract's action, `LandsUnheard` performs it and
loses the answer, `Fails` is a refusal or a loss. `Awaiting` is what the page
counts as needing this wallet.

### SignerSet and MerkleTree

`MerkleTree` is `buildTree`, `merklePath` and the circuit's way up, as recursive
functions over layers, with an injective hash for Poseidon. `SignerSet` composes
them with `doPublishSignerSet` (shuffle, propose the leaves, propose the root,
either of which may be all that happens), the execution of both in the vault,
which retires what is open, and a vote: a page's copies of the list and of the
settings, each read by itself and each with its default for an answer that fails,
the path the browser finds in the list, the root that is pinned, the nullifier. A
page with settings sends the proof alone, one without sends it in the signer's
name; both entry points want a private proposal, which admin proposals and public
payments are not (`Accepts`). A leaf stands for its signer; what is pasted may
repeat leaves or hold one of nobody's key (`Stranger`).

### GuardsForm, ProposeForm, Amounts

`GuardsForm` has the vault's policy, each page's copy, the form over it and the
proposals saved; a read that lands fills the form anew, a failed one fills it
from the open policy. `ProposeForm` extends `VaultInstance` with one form whose
warnings (`OverLimit`, `OverCap`, `OffList`) are computed from copies of policy,
allowlist and use of the window, three reads at different times, each of which may
have failed and left the default of a vault without guards. `Amounts` has the
conversions of `stellar.ts` on digit sequences in any base, and the box in which
a limit is filled in, typed over and saved back.

### Confidential

The vault's hidden balance: the screen of each signer (registration, keys, the
balance shown), the proposals it files (first those for permissions that are
missing), their execution, and the token contract (external): two hidden balances
and events. A Pedersen commitment is modelled by its opening, a value and the set
of the blindings that were added up, and a proof by the opening it was made for; it
verifies if that is still the balance on chain and the key is the one on file.
`Apply` is one event of the replay in `StateEngine`, a payment of the vault to
itself included, where both sides of the event are the vault's; `Sync` replays what
the server still has. `Rest` and `Sent` are what the vendored witnesses make of a
payment. A refresh is never disabled and ends the `busy` of whatever else runs, so
a screen may have several operations under way (`job`). Whether a filed proposal is
approved is `VaultInstance`'s subject: here it may be executed at any time, once,
or never.

### RecipientCheck and WalletMenu

`RecipientCheck` is the effect behind the recipient field: each change disowns the
check under way and starts another, answers come in any order, a failure counts
as "no", and the verdict decides between a hidden payment and a public one.
`WalletMenu` is the menu in which a wallet keeps a hidden account of its own: the
check on opening, the message signed by whichever account is active, the
operation with the key it has (`k`) and the amount it was asked for (`asked`, any
amount, as the button does not compare it with the balance), and the balance read
again after it.

## 3. The runs

One run per question. Where a question has several settings, the run's MC module
tells them as *stories*: a story is an initial state together with the inputs that
occur in it, each behaviour follows one story (the variable `story` never
changes), and all properties of the run are checked in every story. A story only
takes inputs away; no step of the modules is changed.

| Run | Question | Stories and bounds |
|---|---|---|
| `cap_counter` | Is the two-number summary worth its cap? `BookMatchesHistory`, `FadeBound` | windows of 3 ledgers under two names, caps 3, 2 and off, 9 ledgers: three rolls and a gap of two lengths, each fraction of the carry |
| `vault_rules` | Who decides? `ThresholdReachable`, `VotesAreDistinct`, `BallotsBacked`, `SettledByQuorum`, `RulesCostAQuorum`, `LockRespected`, `LockNotPostponed`, `ImplementsMultisig` | *governance, lowered, repeated*: 2-of-2, 1-of-2 and a founding that names one person twice, which the constructor refuses; three proposals, enough for two changes that were each fine when proposed to meet with a transfer between. *timelock*: 2-of-3 under a lock of 2 ledgers, threshold moved to 1 and 3, two periods one after the other. *private*: two leaves, verification switched on and moved to another root, honest proofs and one submission for each check of `check_proof` that only that check refuses |
| `vault_money` | What is paid, and under which rules? `TypeOK`, `OutflowGuarded`, `PaymentsToAllowed`, `AllowlistsBounded`, `SettledIsFinal` | *spending*: transfers, a batch, a call, two policies that go in and out of force, an allowlist with room for one, windows of one ledger. *housekeeping*: the remaining configuration changes, deposits, cancellations |
| `tx_client` | What does a report of `invoke` mean? `ImplementsSubmission`, `SignedIsReported` | two calls of one account, two tries of each retry loop, two polls, transactions that live as long as the polls: a late inclusion just in time and one too late |
| `vault_view` | What does a page at rest show? `CalmPageShowsItsVault`, `RereadIsShown`, `LoadingEnds`; and what is proposed from it? `OnlyWhatWasTouched` | *moving*: two vaults, one of them founded on the way, two overlapping loads, failures, one write. *writing*: one vault, two loads, two writes of any kind, changes by others, a server that lags longer than the timer or less long. *guards*: the Guards form with one guard of each kind, two proposals, failing reads |
| `co_signers` | Does agreement lead to payment, and is a decision taken on a page what the vault does? `NothingMissed`, `PaymentSettles`, `FreshDecisionLands` | *settling*: 2-of-3, one payment, pages of any age, every answer may be lost; carol's page may miss the status of what it lists. *lock*: two people, a payment the balance covers only after a deposit, a lock of one ledger, reads that fail on one page. *proving*: one person with a leaf and a page on which reads fail, while verification is switched on or on a vault that verifies |
| `confidential` | Is the hidden balance what the screen and the proofs take it for? `ReplayIsExact`, `ColdStartNeverOverstates`, `FreshProofsVerify`, `SetupEnds` | *money*: one signer, coins of 1 that others pay in, payments to others and to the vault itself, five events, six proposals at most two of them open. *forgetful*: deposits of 2, four events, any prefix forgotten. *setup*: two signers race, one of whom starts two operations, one failure |
| `hidden_payments` | Does one hidden payment stay hidden, and come out? `PublicOnlyWithoutAccount`, `VerdictArrives`; `HiddenXlmComesOut`, `OperationEnds` | *field*: three addresses, three changes, two failures. *menu*: three arrivals, two failures, a second account to switch to, withdrawals of nothing up to more than there is |
| `signer_set` | Who can vote with a published list? `MembersCanVote`, `OpenVotesAreCurrent` | tree of four places. *publishing*: two people, four proposals, pages of any age whose reads may fail. *in force*: each list of one to five of four people's leaves and a stranger's, repeats included, with its root, and a payment that is private or public |
| `forms` | Does a form say what the vault does? `WarnsAsTheVault`, `ReadsBack`, `NothingGuessed` | *cap*, *list*: a vault of one signer who also works elsewhere, cap and window or limit and list, each read answered or not, two proposals, four ledgers (a roll and a fade). *limit*: base two, three decimals, all limits up to 40, six characters |
| `cap_resize` | *expected to fail:* `LedgerWithinCap` | as `cap_counter`, with windows of two lengths |
| `co_signers_named` | *expected to fail:* `ProversStayAnonymous` | as `co_signers` |

`vault_money` checks the type invariant of the contract. Each other module states
its own beside its variables (`TypeOK`, `WebTypeOK`, `GuardsTypeOK`, ...); it holds on the
same instances and is one line to add to a configuration. Every property of a passing run has a
mutant of the code, defined in the module before the operator it mutates and
named in its comment as a fault, for which TLC finds it violated.

Deadlock is checked in `cap_counter`, `tx_client` and `signer_set`, where something
can always happen. The vault has no scheduler and a person may always stop, and
the bounds stop everybody else: the other configurations switch it off.

`cap_resize` refutes the comment at `lib.rs:1596-1598`, "shortening
`cap_window_ledgers` cannot retroactively expire a window that is still running".
A roll takes its start from the stored length and its length from the new policy;
the short window lies in the past, is discarded at each reading, and the cap is
refilled: with a cap of 2, one ledger pays 3. `LedgerWithinCap` follows from
`FadeBound` (take k = 1) as long as the length stays the same, and `cap_counter`
checks that.

`co_signers_named` refutes the comments at `page.tsx:396-397`, "submit the nullifier
on-chain (identity hidden)", and `page.tsx:434-435`, "With verification on, the
proof authorizes itself and no wallet has to name itself". `getZkConfig` answers
any failed read with null (`contract.ts:352-363`), which is the value for a vault
that does not verify; the page then sends the proof through `approve_zk`, which
takes a signature and enters the approval under the voter's address. The proof is
accepted all the same, because the id the page derives without a configuration is
the one the publication has put into it. Verification that is merely switched on
behind a page's back does not do this: it retires everything open.

### Sentences the code does not keep

While modelling, sentences of comments and of the interface were written down as
formulas as well. TLC refutes the following. They stay in their modules, beside
the weaker property that does hold, and are no part of the runs; the last column
says what it takes to see it.

| Formula (module) | Sentence | What the code does, and how to see it |
|---|---|---|
| `RollingWindowWithinCap` (SpendingCap) | "Max total executed within one rolling window", `lib.rs:201` | the fade assumes that the previous window was spent evenly; `cap_counter`'s constants. `FadeBound` is what holds |
| `AdjacentLedgersWithinCap` (SpendingCap) | the seed keeps an upgrade from refilling the budget, `lib.rs:1592-1595` | the seed reads only the current bucket, empty right after a boundary; `Legacies` with a full bucket before |
| `ApprovalNeverSettlesUnderLock` (VaultInstance) | "a vault with a time-lock never settles here", `lib.rs:670` | a surplus approval of a proposal that passed a lock period ago settles it; the *timelock* story |
| `FundsToAllowed` (VaultInstance) | "funds may only go to allowlisted recipients", `lib.rs:207` | for calls the check is on the callee, whoever is paid; the *spending* story |
| `PublicationHalvesCoexist` (VaultInstance) | "Approve both and verification turns on", `page.tsx:778` | each of the two proposals retires the other; both as `AdminActions` |
| `BlipsAreRetried` (TxClient) | "retrying transient ... network blips", `contract.ts:459` | a network error of `sendTransaction` leaves the loop; `SendTries = 2` |
| `ScreenShowsActiveVault` (VaultView) | "live chain data for the active vault", `page.tsx:181` | the load of the vault left behind ends last; two vaults, two loads |
| `LagIsCovered` (VaultView) | "covers the RPC lag right after a write", `page.tsx:294` | the server may lag longer than 4.5 seconds; any write |
| `WriteIsCovered` (VaultView) | "re-read now AND after a few seconds", `page.tsx:294` | the server lags longer, an older load ends after the second reading, or the timers are dropped; two loads |
| `DefaultsMeanOldVault` (VaultView) | "Null is the honest answer for every vault deployed before", `contract.ts:349` | a lost request is answered the same; a fallible field, a new vault |
| `FreshVaultIsShown` (VaultView) | "getVault retries through the fresh-deploy RPC lag", `page.tsx:359` | the balance is read without a retry and fails the whole load; the *moving* story |
| `ApprovalIsNotLost` (CoSigners) | "The blocker is checked here rather than left to the contract", `page.tsx:474` | it does not know the cap or the recipient allowlist; a policy with a cap |
| `SettledMeansExecuted` (CoSigners) | "met its threshold and executed in the same transaction", `page.tsx:492` | the toast repeats the page's guess; the *lock* story, where a status that was not read hides the lock |
| `NobodyWaitsForAClick` (CoSigners) | "removes the state where a payment everyone agreed on sits waiting", `contract.ts:516` | two last approvers decide from the same count; 2-of-3 |
| `AwaitingNeedsMe` (CoSigners) | "'still needs me' is answerable", `page.tsx:1386` | cancelled proposals stay in the count; any cancellation |
| `EverythingIsListed` (CoSigners) | "does anything need me?", `page.tsx:1414` | only the first sixteen ids are read; `MaxShown < MaxTx` |
| `ProposersReadTheBalance` (Confidential) | "whoever can propose can also read the vault's confidential balance", `confidential.ts:21` | each signer derives another key; two signers |
| `ItsKeyReadsTheBalance` (Confidential) | "Read the vault's confidential balance by replaying events", `confidential.ts:134` | a cold start misses what has aged out; the *forgetful* story |
| `SaysNoneOnlyWhenNone` (RecipientCheck) | "This address has no confidential account", `confidential.tsx:300` | a failed read says the same; one failure |
| `AccountHasOwnKey` (WalletMenu) | "A plain wallet's own Grumpkin key", `confidential.ts:98` | the active account signs, whichever the page shows; a switch |
| `FailedDidNothing` (WalletMenu) | "`${label} failed`", `page.tsx:1240` | the transaction went through, reading the balance after it failed; one failure |
| `PublishedListOpensTheRoot` (SignerSet) | "The published (shuffled) Merkle leaves a prover needs", `contract.ts:366` | leaves of one shuffle, root of another; the *publishing* story |
| `EveryLeafIsAMember` (SignerSet) | "`${leaves.length} members, shuffled`", `page.tsx:778` | leaves beyond the tree are dropped, repeated ones and strangers' are counted; the *in force* story |
| `UntouchedIsUnchanged` (GuardsForm) | "the vault is the source of truth", `page.tsx:2612` | after a failed read the form proposes to lift every guard; `MayFail = TRUE` |
| `WarnsOfEverything` (ProposeForm) | "the same guards the contract will enforce", `page.tsx:2325` | a failed read answers as a vault without guards; the *cap* story, before anything is proposed |
| `BlockedIsRefused` (ProposeForm) | "the contract would reject it anyway", `page.tsx:2490` | the cap is judged on settling, not on proposing; the *cap* story |
| `UnlocksAfterProposing` (ProposeForm) | "Executable ... after proposing (time-lock)", `page.tsx:2337` | the lock starts when the proposal passes; a policy with a lock |

### Fairness

The vault has no scheduler: a proposal nobody executes stays where it is, for
ever, by design (`lib.rs:659`). Its runs state no fairness, and what the code
promises about progress there, that surplus approvals do not postpone a
settlement, is a safety property (`LockNotPostponed`). In the browser:

| Module | Assumed | Because |
|---|---|---|
| TxClient | WF of `Prepare`, `Send`, `Poll` of each call and of `Tick` | requests are answered or fail, time passes. Not of the wallet, of inclusion, or of the server's ingestion |
| VaultView | WF of `AnyLoad` and of each `Ingest` | a read is answered or fails; the server keeps up |
| CoSigners | per person WF of `Load`, of a click on a button that moves the proposal, of `Fails`; SF of `Lands` | the page polls, now and then with every read answered, and people who see a button want the payment; not every call is lost. Nobody has to propose, cancel or send money |
| Confidential | until the account is set up, WF of `CheckRegistered`, `Unlock`, `ProposeSetup`, `File` of each signer and of `Executes` | both signers want the account and approve what can be executed; reads may fail all the same. After that nothing is asked of anybody. In the other two stories one signer acts and nothing competes, so it is the *setup* story that puts `SetupEnds` to the test |
| RecipientCheck | WF of `Read` and `Answer` | a read is answered or fails in the end, and its callback runs |
| WalletMenu | WF of `Open` and of an operation's next step or failure; SF of `Checked`, each `Click`, `Send`, `ReRead`, and of asking for an amount that the menu shows (`AskForSome`) | the user wants the XLM and presses what the menu offers; not everything fails for ever |

## 4. The proofs

TLAPS checks these for every value of the constants that satisfies the modules'
named assumptions. "If" names a further hypothesis; each is met by a run and
explained below.

| Theorem | Statement | If |
|---|---|---|
| **VaultProofs** | | |
| `TypeCorrect` | `Spec => []TypeOK` | |
| `VotesCountedOnce` | `Spec => []VotesAreDistinct` | |
| `VotesStayBacked` | `Spec => []BallotsBacked` | |
| `QuorumNeeded` | `Spec => SettledByQuorum` | |
| **VaultSafetyProofs** | | |
| `LocksHold`, `LocksAreNotPostponed` | `Spec => LockRespected`, `LockNotPostponed` | |
| `SettledStaysSettled` | `Spec => SettledIsFinal` | |
| `NeverStranded`, `ListsStayBounded` | `Spec => []ThresholdReachable`, `[]AllowlistsBounded` | |
| `RulesNeedAQuorum` | `Spec => RulesCostAQuorum` | |
| `VaultIsAMultisig` | `Spec => ImplementsMultisig` | |
| `PaymentsStayAllowed` | `Spec => PaymentsToAllowed` | |
| `OutflowIsChecked` | what leaves was within the limit, accepted by `charge_window` and booked | |
| `OutflowIsGuarded` | `Spec => OutflowGuarded` | `OneLength` |
| `FormsWarnInTime` | `FormSpec => []WarnsAsTheVault` | |
| `VaultKeepsTheCounter` | `BudgetSpec => Counter!Spec`: the vault's cap implements `SpendingCap` | `SteadyCaps` |
| `ChargesFade`, `BudgetIsNeverRefilled` | `BudgetSpec => []Counter!FadeBound`, `[]LeavesWithinBudget` | `SteadyCaps` |
| `VaultKeepsItsBook` | `BudgetSpec => []Counter!BookMatchesHistory` | `SteadyCaps` |
| **CoSignersProofs** | | |
| `CoSignersTypeCorrect` | pages, notes and calls are well-formed | |
| `PagesRunTheVault` | `WebSpec => OpenSpec`: pages only make steps of the vault | |
| `PagesNeedAQuorum` | `WebSpec => SettledByQuorum` | |
| `NothingIsMissed` | `WebSpec => []NothingMissed` | |
| **PageProofs** | | |
| `ViewTypeCorrect` | `Spec => []TypeOK` (VaultView) | |
| `CalmPagesAreRight`, `RereadsAreShown` | `Spec => []CalmPageShowsItsVault`, `[]RereadIsShown` | |
| `FormsChangeWhatWasTouched` | `GuardsSpec => OnlyWhatWasTouched` | |
| `NoAmountLeaksByMistake` | `FieldSpec => PublicOnlyWithoutAccount` | |
| **LibraryProofs** | | |
| `ClientTypeCorrect` | `Spec => []TypeOK` (TxClient) | |
| `InvokeKeepsItsPromise` | `Spec => ImplementsSubmission` | |
| `AmountsReadBack`, `AmountsNeverGuessed` | `BoxSpec => []ReadsBack`, `[]NothingGuessed` | |
| **ConfidentialProofs** | | |
| `ConfidentialTypeCorrect` | `Spec => []Typed`: all variables of Confidential well-formed, nothing held or logged before there is an account | |
| `ReplayTellsTheBalance`, `LateReplayShowsNoMore` | `Spec => []ReplayIsExact`, `[]ColdStartNeverOverstates` | |
| `HiddenPaymentsVerify` | `Spec => []FreshProofsVerify` | |
| **SpendingCapProofs** | | |
| `BookIsTheHistory` | `Spec => []BookMatchesHistory` | `Steady(len)` |
| `FadingIsBounded` | `Spec => []FadeBound` | `Steady(len)` |
| **SignerSetProofs** | | |
| `EveryPathOpens` | the prover's path leads from its leaf to the root, at any height | |
| `OnlyLeavesOpen` | no path leads to the root from anything that is not a leaf | |
| `SignerSetTypeCorrect` | all variables well-formed, each root put in force by a proposal | |
| `MembersAreHeard`, `VotesAreOfThisGroup` | `Spec => []MembersCanVote`, `[]OpenVotesAreCurrent` | |

For the vault the assumptions (`WidthAssumption`, `VaultAssumption`) say that the
widths are positive, that addresses are finitely many, that the sets of inputs
contain inputs of the right type, and that the ledger stops before the largest
`u32`.

### The vault

*Types.* `TypeOK` is inductive. The part that needs an argument is the window:
the first section of `VaultProofs` shows that rolling, seeding and charging stay
within the stored widths (`ChargedType`), where the guard of `charge_window` is
what keeps the sum in range. The state is split into `StateOK`, preserved action
by action, and the history, which `NotePassed` rebuilds in each step. All of
`VaultProofs` is about `OpenSpec`, the vault in which any zero-knowledge proof
may be submitted and not only those of `Submissions`; `Spec` implies it, and so
does the composition with pages, which build their own.

*Votes.* `VotesAreDistinct` is not inductive: a counter says nothing about who is
behind it. `BallotsOK` adds `BallotsBacked`: each counted voter of a live
proposal is in the electorate of today and has an entry in the double-vote ledger
that stands for the vote, an approval by address, or the canonical nullifier of a
leaf once proofs are verified. A new vote has no such entry, so its voter is new
(`UnmarkedNotCounted`, `BallotsExtended`); `AcceptedProof` shows that
`check_proof` leaves no other way to write the nullifier. For admin actions
`AdminRetiresOrKeeps` is the fact that matters: each of the twelve either leaves
signers, root and watermark alone or retires everything open.

*Quorum.* A proposal becomes executed only in `Execute` or in
`ApproveAndExecute` (`OnlySettlingExecutes`); `SettlingHasQuorum` reads off
`BallotsOK`, with the last ballot added in the second case.

*Locks.* `StampsOK` relates three records kept by different steps: the ledger in
which a proposal passed (the history `passedAt`) is never later than what
`unlock_at` measures from, the stamp in `LastApproval` (or `created_at`) or the
last change of the threshold. A change of the threshold is what makes this more
than one fact: it may let proposals pass that nobody touched, or take passing
from them, and then `thresholdChanged` is what covers them. `UnlockedIsLater` and
`PassingLocks` derive the lock, the second for an approval that makes the proposal
pass and must not settle it. The proofs use that the ledger stops before the
largest `u32`; saturation is then harmless (`LaterStaysLater`). `SettledIsFinal`
and `LockNotPostponed` follow from `StepTouchesOne`: a step leaves all proposals
alone but one that is open, and of that one the date and, once passed, the stamp.

*Rules.* The configuration changes in a settled admin proposal and nowhere else
(`OnlyAdminChangesRules`); `AdminKeepsThreshold` and `AdminBoundsLists` go through
the twelve of them, with the checks that `apply_admin` repeats, and `InitRules`
needs that the constructor refuses a list that names a signer twice. That the
quorum for them are signers needs `AdminInTheOpen`: no admin proposal is private.

*Refinement.* `Handed` (the watermark never passes the ids handed out) makes a new
proposal open; `SettleMoves` says that a decision moves the quorum or voids what
is open, never both; then each action of the vault has one lemma that names the
step of `Multisig` it is, and deposits and closing ledgers are none.

*Money.* Of every payment `PaidStates` keeps that its amount and its items are
positive and that the amount is what the items add up to; with it, what leaves in a step is one amount
that `check_limit` and `charge_window` saw (`OutflowIsChecked`, no hypothesis).
That the *next reading* of the window shows all of it, within the cap, is
`OutflowGuarded`, and it needs `OneLength`: the policies that may come up for a
vote and have a cap name one window length. Without this hypothesis the code does
not keep the property, by the same step that refutes `LedgerWithinCap` in
`cap_resize`: a reading under another length may discard what was just booked.
`LengthsOK` carries the hypothesis to the window in storage.

*The form.* Policy, allowlist and use of the window are three reads, each of which
may have failed, so each warning is claimed only where its own reads hold
(`PolicyHolds`, `AllowedHolds`, `SpentHolds`): a page that shows a default shows
what the vault does not have, and then nothing is promised (`WarnsOfEverything` is
refuted). `FormInv` says what the page's number is a number of: if the use was ever
read, it is that of the window at `readAt`, under the policy of that moment, no
later than now; and no policy in force has a negative cap (`PolicyStaysChecked`:
`check_admin` refuses it, and nothing else writes a policy). `UsedFades` then says
what time does to a reading: a window that nobody charges is read as less and less
used, through fading, rolling and expiry, although rolling moves the amount from one
number to the other. That makes the warning of an old page an upper bound, and of a
page just read exact. The total of the form is the sum over a batch of any size;
`SumIsInteger` and `SumIsPositive` are the induction over the batch.

*The budget.* `OutflowGuarded` is about one settlement; how much may leave over
time is a matter of all of them. `Counter` is `SpendingCapProofs` with the vault's
window, ledger and cap in place of its own, so its theorems carry over once the
vault is shown to implement `SpendingCap`: `SettlingCharges` and `OnePays` say that
a settlement charges exactly one amount (by `SumIsPositive` never zero, which the
counter does not know), `SameCounter` that both read and write the window alike, and
`StepCounts` names, for each step of the vault, the step of the counter it is
(`Tick`, `Charge`, `SetPolicy`) or that it is none. What leaves is then bounded
because no stretch of ledgers has more in `left` than in `charged`
(`LeftStaysCovered`). `SteadyCaps` is the counter's `Steady` said of the policies
that may come up for a vote: `OneLength`, `2 * CapLength <= MaxU32`, and each cap
times the length within `MaxI128`; `vault_money` has such policies. A cap may be
raised, lowered, switched off and on again: the bound is by the highest so far,
and without a cap nothing is booked or promised.

### People and pages

*Deciding.* `PagesRunTheVault` is the composition: whichever entry point a page
chooses from whichever copy, made of answers or of defaults for failed ones, what
lands is a step of `OpenSpec` or of the history (`CallOK`: a call under way is
about a proposal that exists, and a vote by proof carries the nullifier of the
wallet and of that proposal). Every theorem of `VaultProofs` then holds with pages in front
(`PagesNeedAQuorum` is one). `NothingMissed` is about pages all of whose reads were
answered; it needs `NotesOK`, that a note of an approval (`marked`) is never made
for an approval the vault does not have, and that holds of decisions taken on partly
failed reads as well. There is no theorem that voters by proof stay unnamed: with a
failed read they do not, which is what `co_signers_named` shows.

*Loading.* `CalmPageShowsItsVault` is about pages at rest; its inductive form
`ShowsItsVault` is about pages in motion: everything under way (loads, timers,
handlers) is for the vault that is shown, and each field either shows that vault
or will be set by a load under way (`Pending`). For `RereadIsShown` either a
timer is still to run out (`ToBeRead`), or the server has what is owed (`owed`) and
every load and every field is of after it or about to be (`BeingRead`). A timer
waits for nobody: where the server is not there yet when it runs out, less is owed,
and that the write itself is then off the screen is `LagIsCovered`, refuted. The number of loads, timers and handlers is not bounded.

*The Guards form.* `FormsAreFilled` relates policy, page, form and proposals
field by field: where a form was not touched it repeats what the page showed when
it was filled.

*The recipient.* While no read has failed, every check under way is about the
address now in the field and no verdict says "no" about an address that had an
account when it was typed: that is where the cleanup of the effect enters, and
that accounts do not disappear (`AccountsStay`).

*The client.* That `TxClient` implements `Submission` rests on its `TypeOK` and on
six facts that are inductive only together: nothing is in the mempool before it
was submitted (`Unsubmitted`), what is there was signed for a sequence number
(`Queued`), what the caller was told is what the ledger has (`Truthful`), a
sequence number is used up by one transaction (`UsedUp`), a transaction is never
younger than the polls that were spent on it (`Ageing`), and one whose polls are
spent has expired (`Expired`). The last two are why "Still confirming" is final,
and they need the assumption `TxTimeout <= PollLimit`: 60 seconds of validity
against 75 polls of a second.

*Amounts.* `BoxTyped` (the limit is a natural number, the box holds digits, commas
and dots) is all the invariant there is; the work is in the operators. First
positional notation: `Digits` and `Places` spell what `Number` reads, and no other
digits without a zero in front do (`DigitsSpell`, `DigitsOfNumber`, `NumberOfCut`).
Then each conversion is the inverse of another up to what it drops on purpose:
filling up undoes the trimming of zeros (`PadRestores`, `TrimOfPadded`), the text
is split at its first dot and nowhere else (`SplitAtDot`, `TextIsSplit`), and of
all texts with given digits exactly one has its commas in place
(`GroupedIsLaidOut`, `GroupedIsTheOnly`). `AmountsReadBack` puts a written amount
through these in one direction; `AmountsNeverGuessed` an accepted text in the
other: cut off the zeros and commas before its first digit that counts
(`FrontZeros`), what remains is the amount as the page prints it, grouped or not
(`WholePart`). Both hold for every base from two, every number of decimals and
every width of a group, the code's 10, 7 and 3 among them.

### Hidden money

The token is external, and nothing is claimed of its books. `TokenInv` only says that
it has logged nothing and holds nothing for the vault before there is an account.
`Told` is what the rest stands on: each step either leaves account and log alone or
appends one event, and the rule by which the replay in `StateEngine` applies that
event is what the token did, for both sides at once when the vault pays itself.
`ReplayInv` (the replay of all events is what is held) and `SuffixInv` (the replay
of all events since any of them is no more) follow step by step, the second because
applying an event is monotone (`ApplyKeepsOrder`). The fold of the replay is unrolled
by a lemma of its own, for logs of any length; `ReplayAs` is the replay with the
owner of the key named, which `ReplayNamesTheOwner` shows to make no difference.
`ProofsInv` is about every payment, filed or still being prepared (a screen may be
preparing several): one built from the whole history was proved for the balance then
on chain, and only an event of the vault's own can have moved that balance since
(`NotOwn`). So `FreshProofsVerify` says of the repository's own code, the witnesses
and the replay, that they agree with the token; what it takes from outside is that
payments from others arrive in a balance of their own.

### The cap

`BookMatchesHistory` and `FadeBound` compare two stored numbers with a history of
any length; the history is kept as running totals, so that what was paid in a
stretch of ledgers is a difference and no induction over the stretch is needed.
`Steady(len)` names the conditions: a vault deployed with this code (`Legacies =
{<<>>}`), one window length under whatever caps (with two, `cap_resize` is a
counterexample), `2 * len <= MaxU32` and `cap * len <= MaxI128` (with larger caps
the product in `window_used` saturates and the carry is too small). `CapInv`
adds to the book that nothing was charged since the stored window ran out, and
that neither number exceeds the highest cap. Only stretches that end in the ledger
of a payment can break `FadeBound` (`ChargeKeepsTheBound`): what the guard of
`charge_window` accepted bounds the running window together with what is left of
the one before (`AcceptedIsCovered`), and `StretchIsBounded` adds what the earlier
part of the stretch may have paid, rounding included.

### Signer sets

`EveryPathOpens` and `OnlyLeavesOpen` are about `MerkleTree`: by induction over the
height, climbing a path arrives at each layer at the node the list has there, and
as the hash is injective nothing but that node climbs to the same parent. With
them `MembersCanVote` is about lists of any length and trees of any height.
`SetOK` keeps that every list in force or on a screen was published or is empty, and
that the root in force was proposed and executed. `VotesOK` says, while a root is in
force, that the votes on what is still open were made from a published list of that
root with the voter's leaf in it; without a root there is no group to speak of, and a
root put in force closes what was voted on by name before. `MembersCanVote` is about
private proposals, as `approve_zk` and `approve_zk_anon` take no others, and about
the signers whose leaf is in the list, whether or not a stranger's leaf or a repeated
one is in it too. `SignerAssumption` includes that no list hashes to the value that
stands for "no verification", and that the stranger is not a signer.

### What is only model-checked

* Liveness: `SignedIsReported`, `LoadingEnds`, `PaymentSettles`, `SetupEnds`,
  `VerdictArrives`, `HiddenXlmComesOut`, `OperationEnds`. TLAPS has no ENABLED and
  no rules for fairness that these would need.
* `FreshDecisionLands`, which says that a call can land, with ENABLED.

Every other property of a passing run is a theorem as well. The other way round,
`LeavesWithinBudget` is a theorem without a run of its own: `cap_counter` checks the
counter it rests on and `vault_money` the settlements.

Induction over data goes by the least counterexample: if a property of naturals
fails, the set of those where it fails has a least member (`LeastNat`, from the
library's well-foundedness of the naturals), and the recursive function unrolls
once there. `NatInduct` and `SeqInduct` state this with the property given as a
set. It is used for sums, trees, replays and digits. All definitions it is
applied to are recursive functions.

## 5. Bounds and what they leave open

* `cap_counter` uses widths that its sums do not reach. With a cap within a
  factor of one window length of `i128::MAX`, the product in `window_used`
  saturates before the division and the carry is too small; `FadeBound` says
  nothing about such caps, and neither does its theorem (`Steady`).
* The vault's runs use up to four proposals, three people, two leaves and five
  ledgers. Each hazard they look for needs at most two competing proposals and
  one to observe; every property of `vault_rules` and `vault_money` is also a
  theorem without these bounds.
* `MAX_ALLOWED` and `MAX_BATCH` are 1 or 2 in the runs, so that they are reached.
* Retry loops run two tries instead of up to 75 and a tree has four places instead
  of sixteen (`LEVELS` is 4 in `prover.ts`; lists have up to five leaves, one too many): what matters is that a loop goes round, is left on each of its exits
  and is exhausted, and that a place is first, last, left, right or padding. The
  theorems about the client and the tree remove both bounds for safety; for
  `SignedIsReported` the first one stays.
* In `vault_view` and `co_signers` two loads and one call per person are under
  way at a time, the least number that can overtake each other. `PageProofs` and
  `CoSignersProofs` have any number of loads, vaults and people (one call each).
* The replay of the hidden balance is checked with up to five events and proved
  for logs of any length. A screen runs at most two operations at a time (`Slot`) and
  one read fails (`MaxFaults`); the theorems have any number of both.
* Where an answer that failed makes a sentence false, the property names the answer
  it needs and the sentence is among the refuted ones: the server at the time of the
  second reading (`RereadIsShown`), the reads behind each warning
  (`WarnsAsTheVault`), a page all of whose reads were answered (`NothingMissed`,
  `FreshDecisionLands`), a screen that has the whole history (`FreshProofsVerify`).
* Amounts are checked in base two with three decimals and commas after two digits:
  the code's constants (ten, seven, three) are parameters of the module, and the
  theorems about amounts hold for all of them and for texts of any length.

## 6. Not modelled

* `VaultFactory`: each call writes one entry and reads none it did not write, and
  creation is one transaction with the constructor, which `VaultInstance` models.
  Its registry only feeds the dashboard's list of vaults.
* Storage lifetimes (`bump`, `bump_key`): no entry is ever archived in these
  modules. Lifetimes of months against ledgers of seconds are a matter of
  constants, not of interleavings.
* Signer lists with repeats, which vaults from before v11 accepted: the code that
  made them is not in the repository.
* `doUpgrade` and the comparison of code versions, the list of vaults, the deposit
  dialog, layout and rendering.
* The pairing check of the verifier, the trusted setup, Poseidon, Pedersen
  commitments and the proofs of the confidential token: assumed sound.
* Events, names, function names and arguments of calls, error codes.
* `require_auth`: the caller of an action is the address it names.
* Code installed by an `Upgrade` is taken to be this contract.
* The vendored SDK but for the replay of `StateEngine` and what the two witnesses
  make of a payment (what it leaves, what it sends); the spikes, the scripts
  under `circuits/`, deployment records.

## 7. What could come next

1. `FadeBound` for vaults upgraded from before v11 (`Legacies` with buckets of the
   running length), and what bound is left after one change of the length.
2. `SpendingCap` at widths its sums reach, as a run.
3. `VaultFactory` and storage lifetimes, should the registry or the TTLs ever
   decide anything about money.
