# Lido core in TLA+

TLA+ models of the Lido V3 core contracts (`src/contracts`), of the migrations that deploy and upgrade them
(`src/scripts`, `src/lib`) and of the helpers that drive their oracle (`src/lib/protocol`), model-checked with TLC on
small instances and proved with TLAPS where a proof pays. The reference is the code at this commit; every definition
that models code is mapped to its lines in `PROJECT.json`.

## 1. The system

A transaction is atomic, so a step of a model is a call with everything it calls. What interleaves are
transactions: of users, of oracle members, of vault owners, of guardians and of the governance. What makes the
system hard is therefore not memory races but *time between transactions*: an oracle report speaks about a
reference slot and is delivered later; consensus about it can be lost and found again; users act in between;
rounding in integer shares and ether accumulates over any sequence of calls.

Off chain, a script is one process that awaits one transaction after the other. It may die between any two of its
steps, and what is left of it is a JSON file, the artifact, and the contracts it has made. A helper that drives the
oracle makes its calls in one order while slots pass and other accounts act.

| Part | State | Operations | Talks to |
|---|---|---|---|
| **Lido / StETH** (`0.4.24/Lido.sol`, `StETH.sol`, `StakeLimitUtils.sol`) | shares, total and external shares, buffered ether, CL validators and balance, stake limit, pauses | submit, transfer, deposit, external mint / burn / rebalance, the report's setters, limits and pauses | everything; the ledger all others read |
| **Accounting** (`0.8.9/Accounting.sol`) | none | `handleOracleReport`: snapshot, simulate, check, apply | Lido, Burner, VaultHub, WithdrawalQueue, sanity checker, StakingRouter |
| **Burner** | cover and non-cover shares to burn | burn requests, excess recovery, `commitSharesToBurn` | Lido |
| **OracleReportSanityChecker, PositiveTokenRebaseLimiter** | limits, history of CL decreases | `smoothenTokenRebase`, report checks | Accounting |
| **WithdrawalQueue (unstETH)** | queue with cumulative sums, checkpoints, locked ether, owners, approvals, pause, bunker timestamps | request, finalize, claim, transfer, approve, pause, `onOracleReport`, batch calculation | Lido, AccountingOracle |
| **HashConsensus** | members and their votes, frame configuration, quorum, variants and support, processor | submit a vote, add / remove members, quorum, frames, replace the processor | a report processor (BaseOracle) |
| **BaseOracle, AccountingOracle, ValidatorsExitBusOracle** | the report to process, last processing slot, extra data progress | receive / discard a consensus, process data, extra data in chunks | HashConsensus, Accounting, StakingRouter |
| **VaultHub** | connection and record of each vault, bad debt to internalize | connect / disconnect, report, mint, burn, rebalance, withdraw, socialize / internalize bad debt, fees | Lido, LazyOracle, OperatorGrid, StakingVault |
| **LazyOracle** | report root, quarantines | `updateVaultData` | VaultHub |
| **OperatorGrid** | groups, tiers, liabilities per tier and group, confirmations | register, change tier, minted / burnt shares | VaultHub |
| **StakingVault** | balance, deposits pause, staged balance | fund, withdraw, deposits | VaultHub, PredepositGuarantee |
| **PredepositGuarantee** | bonds, validator stages | predeposit, prove, activate, top up, compensate | StakingVault |
| **StakingRouter, NodeOperatorsRegistry, DepositSecurityModule** | modules, exited counts, keys, guardians | deposits, exited reports, allocation, pause | Lido, AccountingOracle |
| **ValidatorsExitBus, TriggerableWithdrawalsGateway** | request hashes, exit limits | submit, deliver, trigger | WithdrawalVault, StakingRouter |
| **Migration runner** (`lib/deploy.ts`, `lib/state-file.ts`, `lib/scratch.ts`, `scripts/utils`) | the artifact with its gas counter, the state object a script holds, addresses it got | deploy, call, count gas, save, persist, read; fail, die, run again; execute a proposal within its hours | the contracts |
| **Scratch deployment, upgrades** (`scripts/scratch`, `scripts/archive`, `scripts/upgrade`, `scripts/tooling`) | none of their own | eighteen scratch steps; V3 with its vote, Hoodi patches, V3.0.2, harness | the runner |
| **Oracle helpers** (`lib/oracle.ts`, `lib/protocol/helpers/accounting.ts`) | a call in progress | ensure committee and initial epoch, wait for a frame, report, pack and submit extra data | HashConsensus, AccountingOracle |
| **Dashboard, NodeOperatorFee, Confirmations** | settled growth, fee rate, confirmations | vault operations by role, fee disbursal | VaultHub |

What must hold, part by part:

* *WithdrawalQueue*: the ether locked covers every claim; a finalized request is worth one amount for ever; its
  checkpoint is unique and the search finds it; owners, approvals and the queue agree; batches chosen by the
  oracle are the best affordable and are accepted by `prefinalize`.
* *HashConsensus with its processor*: support is the number of current votes; a report stands at the processor
  exactly while it has its quorum; nothing a member or manager does is refused by the processor; reference slots
  and processing only advance; the fast lane is complete and rotates over all members.
* *Lido, Accounting, Burner, limiter*: shares are conserved; what the report simulates is what its calls leave; a
  report that passes its checks applies; its effect on the rate is limited; nothing else lowers the rate; external
  shares are owned by vault liabilities or bad debt; the stake limit cannot be exceeded by any order of pauses,
  burns and limit changes; a stopped protocol does not stake.
* *Vault side*: the value the hub lends against is there, a rise waits out its quarantine, tier and group liabilities
  are sums, an owner cannot make a healthy vault unhealthy, bad debt goes only to a vault that can carry it, and
  every external share of Lido stays owed by a vault or set aside as bad debt.
* *Exited validators*: whatever chunks the extra data comes in, and whatever arrives twice, each operator is counted
  once and the counts of operators, module and router agree when it is complete; rewards wait for that.
* *Migrations*: the artifact names what was deployed and nothing else; a deployment ends with nothing left to the
  deployer and no contract without an authority; an upgrade, also one run again after a death, gives the vote what it
  needs; every migration ends.
* *Oracle helpers*: a call waits for the frame it means, fails only for a reason the protocol has, and the extra data
  it packs can be submitted to the end.
* *Deposits* (planned): keys and allocation stay in bounds; stale attestations cannot deposit.

## 2. Modules

```
WithdrawalQueue  <--- FinalizationBatches <--- WithdrawalQueueProofs ---> SumTheorems
                      (queue + the oracle's batch calculation)
BaseOracle <--------- HashConsensus                  (one processor or two, and the committee)
                           ^--- HashConsensusProofs <--- HashConsensusQuorumProofs
Lido, PositiveTokenRebaseLimiter, RefSlotCache <--- Accounting <--- StakeLimitWindow <--- AccountingProofs ---> SumTheorems
RefSlotCache, LazyOracle, OperatorGrid <--- VaultHub <--- QuarantineHistory <--- VaultHubProofs ---> SumTheorems
                                               |---- implements ExternalSharesLedger
BaseOracle, ExtraData <--- AccountingOracle <--- AccountingOracleProofs ---> SumTheorems
HashConsensus, AccountingOracle <--- OracleDriver    (committee, processor and the helpers)
DeploymentOps <--- Deployment <--- DeploymentProofs
DeploymentOps <--- ScratchSteps, UpgradeSteps;  all of them <--- ProtocolDeployment
```

`MC*` modules give the constants of the instances; each `.cfg` is one run.

**`WithdrawalQueue`**. Variables are the storage of `WithdrawalQueueBase`, `WithdrawalQueue` and
`WithdrawalQueueERC721`, plus the balances the contract holds and, as environment, Lido's share rate (`pool`) and
block time. `queue` is the mapping from ids to cumulative sums, index 0 the dummy. `Finalize` is
`prefinalize` and `finalize` in one call, as Accounting and Lido make them, with the batches as the set of their
ends. `ClaimWithHint` takes every hint; `ClaimWithdrawal` finds its own with `FindCheckpointHint`, the binary
search as a recursive function. Requests and claims of several ids in one call are the same calls in sequence.
The permit variants only change an allowance.

**`FinalizationBatches`** extends the queue with `CalculateFinalizationBatches` as a fold over the requests of one
call, and `AfterCalls`, the oracle daemon's loop over chunks.

**`BaseOracle`** and **`HashConsensus`**. The processor is an array of `BaseOracle` states so that it can be replaced;
`SubmitConsensusReport` and `DiscardConsensusReport` are operators that the committee's actions conjoin, since the call
is part of the same transaction, and their guards revert it. `Tick` advances the slot. `DEADLINE_SLOT_OFFSET` is 0
in the code, so the deadline of a frame is the reference slot of the next.

**`PositiveTokenRebaseLimiter`** holds the limiter and `smoothenTokenRebase` as operators on records.
**`Lido`** has the ledger and an operator per call; **`Accounting`** composes it with Burner, the aggregate of
VaultHub, the queue's intake and the two reward vaults. `Simulate` mirrors `_simulateOracleReport`; the primed
part of `ApplyOracleReport` mirrors the calls of `_applyOracleReportContext`, each with what it computes itself,
so that `RebaseAsSimulated` compares two computations. Checked arithmetic is a guard: where an unsigned value would
fall below zero the call reverts. **`StakeLimitWindow`** adds a history of the ether staked since the limit was set.

**`RefSlotCache`** has the two caches as operators on records, **`LazyOracle`** the quarantine and the sanity checks of a
vault's report, **`OperatorGrid`** the tiers and groups with the parts of a step that concern them. **`VaultHub`** composes
them with the connections and records of `VaultHub.sol` and with the ether of each vault, on the contract and on its
validators. A report goes through four steps, as in the system: the leaves are taken at a reference slot (`NextMoment`),
published by the report of AccountingOracle (`SubmitReport`, which settles bad debt as Accounting does), brought to the
chain for one vault at any later time (`UpdateVaultData`), and forgotten when a newer report replaces it. The oracle is
honest: a leaf holds what was there. Each frame has two moments, since a call in the block of a reference slot still sees
the previous slot. An owner is either the hub or not; roles, confirmations and the pause of the hub are left out.
`losses` and `lossesReported` are auxiliary: they say by how much a total value may be stale.
**`QuarantineHistory`** adds the rises that past reports showed. **`ExternalSharesLedger`** is the abstract specification
of what the hub promises Lido and Accounting about external shares; `VaultHub` implements it with the sum of liabilities
for `liability` (`KeepsLedger`).

**`ExtraData`** has both sides of extra data: items, chunks and the hash links of `lib/oracle.ts`, and the checks of
`_processExtraDataItem`. A hash is the value hashed, so a chunk contains the next one. **`AccountingOracle`** adds to
`BaseOracle` the state of the extra data, the exited counts of StakingRouter by module, those of NodeOperatorsRegistry by
operator with their summary, and the state of the reward distribution. A submission is one action: checks, counts,
the advance to the next chunk, and on the last one the end of reporting. What main data does to Lido, the queue and the
vaults is in `Accounting`, `WithdrawalQueue` and `LazyOracle`; which modules it mints rewards for is an input. In
`OracleSpec` consensus and time are arbitrary, which is what the theorems are about. `rewardedAt` is a history variable.

**`OracleDriver`** composes `HashConsensus` and `AccountingOracle` on one processor with a call of a helper. `call` is the
call in progress: where it is (`pc`) and what it holds, read at one await and used after others. A transaction is an
action conjoined with the contract's; when the contract's is not enabled it reverts and the call throws (`Transact`).
Between the steps, slots pass, validators exit, rewards are distributed and chunks sent before are mined again.
`Contents` are the arguments of callers, good and bad: no exits, all of them, an operator twice, a wrong count of items.

**`DeploymentOps`** is the vocabulary of scripts: an operation per helper of `lib/deploy.ts` and `lib/state-file.ts`, as a
record, and a script as a sequence of them. **`Deployment`** executes one: each action is one kind of operation, against
the artifact (`file`), the state object (`snap`), addresses the script holds (`locals`) and the contracts (`chain`, with
owner, implementation, roles, marks and constructor arguments of each). A transaction is mined in one step and its gas
added to the file in another. `Crash` may come at any time; `Restart` runs the migration again, over the same file or,
for a scratch deployment, over an empty one. An address is the run that made the contract and the slot it is for, so that
contracts of a dead run and of the next differ. **`ScratchSteps`** and **`UpgradeSteps`** are the steps files, one definition
per script, in the order of their transactions, with the slots they read and write, the role or owner each call needs
and what it changes; **`ProtocolDeployment`** puts them together and states what must come of them. Abstracted: constructor
data other than addresses, gas amounts, log output, verification, the contents of the vote. A write of the file is
atomic, although `writeFileSync` truncates first.

## 3. Runs

| Run | Instance | Shows |
|---|---|---|
| `WQ_claims` | two holders, two requests of 2 or 5 wei (one may be from wstETH), rates 1 and 0.6 of the pool, reports at 0.6 and 0.8, pauses, three moments | `OwnerIndexConsistent`, `TypeOK`, `LockedCoversClaims`, `CustodyMatchesQueue`, and as an action property `FinalizedValueKept` |
| `Batches` | three requests, budgets 3, 6 and 9, at most two batches, all chunk sizes | `LongestAffordablePrefix`, `HintSearchCorrect`, `PrefinalizeFits` |
| `HC_votes` | three members, two hashes of two consensus versions, quorums 1 to 3 and the unreachable one, two frames | `WellFormed`, `FastLaneComplete`, `ConsensusIsQuorum` |
| `HC_frames` | two members, two processors, frames of 1 and 2 epochs, late initial epoch | `SupportIsVotes`, `ProcessorAccepts`, `RefSlotAdvances` |
| `Acc_reports` | one user, vaults of one wei, 3-wei deposits, validators of 4, CL change -2, 0 or 2, two report rates, one frame | `SharesConserved`, `BurnerBacked`, `ExternalSharesOwned`, `ReportApplies`, `RebaseAsSimulated`, `RebaseLimited`, `RateNotDiluted` |
| `SL_window` | a limit that does not grow and one that does, four blocks, pauses of staking and of the protocol, one report | `StakedWithinLimit` |
| `Oracle_driver` | three members with a quorum of 2, frames of one slot of which two can be reported in, two modules with three operators of one or two validators, chunks of one item, two variants of a report in a frame | `ExtraOK`, `RewardsAwaitCounts`, `CountsFollowChain`, the action property `ThrowsExplained`, and under fairness `Delivered` |
| `Deploy` | the scratch deployment under three sets of inputs and every upgrade, one death of the process at any point | `ArtifactSound`, `ScratchComplete`, `UpgradeEnactable`, `FactoryChainReachesLive`, the action property `AuthorityKept`, and under fairness `EventuallyEnds` |
| `Deploy_dsm` | the scratch deployment with the address of the DepositSecurityModule in the parameters file | violation of `EventuallyEnds` (finding 1) |
| `VH_value` | one vault of at most 4 units, funded and drawn by 2, one loss, quarantine of two slots, four reference slots, no shares | `TotalValueBacked`, `RisesWait` |
| `VH_pair` | two vaults in two tiers, the first with three shares out and five of its six units lost, two reports | `WellFormed`, `SocializedBadDebtCarried`, refinement `KeepsLedger` |
| `VH_terms` | one vault with 4 units, three tiers on two sets of terms, two group limits, fees, a slashing reserve, one report | `GridCountsLiability`, `HealthKept` |

Why the bounds suffice. The queue's arithmetic relates a request to its predecessor, its batch and one or two
checkpoints: with the three requests of `Batches` there are batches of one and of several, with and without discount, two
checkpoints and a request between them; ownership and custody are matters of two requests and two holders. In `WQ_claims`
the third moment is explored on an empty queue only (`MCThirdMoment`): a report of the oracle to the queue sets
timestamps that only `FinalizationBatches` uses. 2 and 5 wei at rates 1 and 0.6 give remainders in every division. `Precision` exceeds
the square of the shares, as 1e27 exceeds any product of shares and remainder in use. HashConsensus needs three
members for a vote to move a quorum of two without becoming unanimous, two hashes to change between, and two frames
for state left over from an earlier frame. In `Acc_reports`, small prime-ish amounts make the conversions inexact at
each call, a precision of 10 makes the limiter round, and one report over every state reached by requests, mints,
rebalances and internalizations before or after the reference slot exercises each branch of the simulation;
`MaxShares` is the bound that ends the run. In `SL_window` a report may come between any two blocks: it does not touch
the limit, but it moves the rate at which the vaults' shares count against it. The 5 shares above the
initial ones are the whole of the growing limit with two blocks of growth.

VaultHub's state is split over three runs by question. What a report of a vault can get wrong is a matter of time, so
`VH_value` has few amounts and four reference slots: enough for both caches to be overwritten, for a report to be brought
one slot late, and for a quarantine to start, expire and start again. Bad debt is a matter of two vaults: `VH_pair` starts
where one has lost most of its ether, and runs to the report after the next, so that bad debt is set aside in one frame,
added to in the next and settled. Terms are a matter of one vault: `VH_terms` changes tiers, limits and obligations around
one report; of the tiers only one has its terms altered. A basis of 4 for basis points gives reserves of a half and of
three quarters with remainders in the divisions; the share rate is 1, at which the roundings of shares are exact (those are
the subject of `Acc_reports`), and the 100 shares added to a shortfall are 0.

In `Oracle_driver` a frame is one slot, and the offset that is waited into the next frame one slot instead of 10: both are
shorter than a frame allows, and what matters is that the reference slot of a frame is the last slot before it. Two
reportable frames are what it takes for exits to be reported late, for counts of router and module to differ over a report,
and for a call to run into the next frame at each of its steps. Modules of two operators and of one, and chunks of one
item, give chains of one to four chunks, so that first, middle and last differ. With a quorum of 2 of 3 members the fast lane
rotates, and one of them is idle in each frame. `Deploy` has no bound on its scripts: they are whole. One death at
any of their steps, and for an upgrade a second run over what the first left, is the case their author had to think of; a
second death adds another unused set of contracts. The time constraint of a proposal is one hour of 24 for the mock
that waits for it, in each position.

Deadlock checks are off: the bounds stop the models, and a finished migration stops by itself.

Fairness. The contracts do nothing by themselves, so their specifications have none and no liveness is claimed of
them. A migration is a process that runs until it ends or dies (`WF(Step)`), and whoever deploys runs a dead one again
(`WF(Restart)`); nothing makes the operator answer yes. A helper's call is a sequence of awaited promises of one process,
each of which is resolved or rejected once its transaction is mined (`WF(CallGoesOn)`); nothing makes anyone call a helper.
Under this `Delivered` still has to allow for the deadline: slots may pass between two transactions.

Each property has a mutant: an operator marked `faulty` before the definition it replaces, which breaks the
property in its run.

## 4. Proofs

The theorems hold for all values of the constants that the `ASSUME`s of the modules admit: any finite set of accounts,
vaults, members or contracts, any amounts, rates, terms and scripts, and no bound on time, shares or requests beyond the
guards of the model. Each proof is by an inductive invariant, with one lemma per action.

`WithdrawalQueueProofs`, from positive amounts and rates and a withdrawal of at least one share: type correctness,
`CheckpointsPartition`, `OwnerIndexConsistent`, `NoApprovalToOwner`, `CustodyMatchesQueue`, `FinalizedValueKept`,
`PrefinalizeFits`, `HintSearchCorrect`, `LongestAffordablePrefix`, and `LockedCoversClaims` under an assumption. `Inv` adds to the first of these that cumulative sums grow
(`CumulativeMonotone`), that exactly the ids up to the last are owned (`RequestsOwned`), and that checkpoints start at
increasing ids not beyond the last finalized one, the first at 1 (`CheckpointOrder`). Without the growth of the sums an
unsigned difference in `_calcBatch` could be negative; without the order of checkpoints a new one could split the range of
an old one. `ValueKept` shows that a request keeps its checkpoint because a new one starts after every finalized id
(`HistoryKept`, `HintUnique`). `ClaimsCovered` compares sums: a batch locks one quotient for the sum of its shares or amounts,
and its requests get a quotient each, rounded down, so they get no more, provided they are on the same side of the
rate as the batch. That is `OneSidedFinalization`, assumed of every step; section 5 has what happens without it.

Two of these are about algorithms. `HintSearchFinds`: the search is a recursive function on ranges, which exists because a
half of a range is narrower (`NarrowerWellFounded`, `SearchExists`); a narrowest range in which it missed the hint would
have a half in which it missed it too (`SearchFinds`). `LongestPrefixTaken` is about `BatchesSpec`. A call's fold is unrolled into
turns (`LoopUnrolls`); a turn takes a request exactly when the prefix up to it is affordable, and else stops for good
(`StepTaken`), so the loop over all requests stops at the end of the longest affordable prefix (`LoopReaches`), and a call that
resumes it halfway holds what it held there (`CallTakes`, `CallsMeet`). It needs `PaidAssumption`: the shares of the least
withdrawal are worth a wei at every rate a report may carry (100 wei against rates near one). A request paid nothing would be
taken by a call with nothing left of its budget, while the next of several calls reverts.

`HashConsensusProofs`: `WellFormed`, `ProcessorAccepts`, `RefSlotAdvances`, and that a report in processing stays and
reports are processed in order. `Counted` is what the loops over variants and members rely on (indices that agree,
supports that fit their counter); `RoundArrived` says that the frame of a processor's report has begun, without which the
processor could refuse a report of the open frame as too old. `HashConsensusQuorumProofs`: `SupportIsVotes`, `ConsensusIsQuorum`
and `FastLaneComplete`. Its `VoteInv` adds that a quorum is a majority (`QuorumMajority`): two hashes cannot both have one, which
is why a loop that stops at the first is right. `ConsensusTracksQuorum` is what remains with several processors;
`ReportHasQuorum` assumes one (`SoleProcessor`), for the reason in section 5.

`AccountingProofs`: `SharesConserved`, `BurnerBacked`, `ExternalSharesOwned`, `ReportApplies`, `StakedWithinLimit`, and as
action properties `RateNotDiluted`, `RebaseAsSimulated` and `RebaseLimited`. `Inv` is their conjunction with the types and two dates (`StakeLimitDated`, `BadDebtDated`): no cache
and no limit comes from the future. A step of each needs the others: a burn needs that Burner has the shares, a report
that the bad debt it takes is not more than there is. The rate is compared by cross-multiplication, with a lemma for each
way of rounding. `SimulationHolds` goes through the report call by call. `RebaseLimited` is proved when there is a limit
(`RebaseLimit # UnlimitedRebase`; without one there is nothing to show): `RiseOfRateLimited` follows the limiter through
withdrawals, burns and the fee, each of which may use what the ones before left.

`CheckedReportsApply` needs `QueueBacked`, that Queue holds the shares of its requests, to know that Burner can take those a
report finalizes. That invariant is kept by reports that pay for what they finalize (`PaidFinalization`, assumed of every
step; section 5 has what happens otherwise). `StakingWithinLimit` is about `WindowSpec`. Its invariant, `WindowInv`, is sharper
than the property: what was staked and what is left of the limit make up at most the maximum and the growth up to the
block in which the limit was last written (`LimitFrom`), so that growth later is not counted twice. Each step that writes
the limit is a decrease, a refill by a burn, or a change of setting (`StepsTake`, `WindowThroughStep`, `WindowThroughSetting`).

`VaultHubProofs`: `WellFormed`, `GridCountsLiability`, `TotalValueBacked`, `SocializedBadDebtCarried`, `HealthKept`, `RisesWait`, and the
refinement `KeepsLedger`. `Inv` has the list and its indices, the records, the counts of the grid, the shares owed, and
`ValueOK`: not only is the total value backed now, but a leaf taken and not yet brought to the chain will be, with what went in
and out after its slot (`LeafBacked`). That is the claim the two caches of `inOutDelta` are for, and `TotalValueBacked` is not
inductive without it. `HealthKept` uses the inequality `forcedRebalanceThresholdBP < reserveRatioBP` that
`OperatorGrid.sol:799` enforces: what may be withdrawn or minted keeps the reserve, the reserve is more than the threshold
needs, and a rebalance may cost a wei of liability by rounding, which the property allows. `KeepsLedger` maps the liability of
the ledger to the sum over vaults; each call changes the sum by what it changes in one or two of them. `RisesHaveWaited` is about
`HistorySpec`. What it adds to `Inv` is `HistoryInv`: what is quarantined of a vault was, as a rise, in the report of the slot at
which the quarantine began (`RiseKnown`), and that report is not newer than the last one. The lemma `ProcessedWaits` has what
`_processTotalValue` may let through in each of its branches, and the `...Dated` lemmas that nothing but a report of the vault
moves its timestamp or its quarantine. Here `MaxTime` is at least 3, the time of the initial state.

`DeploymentProofs` is about any migration: from `DeploymentAssumption` (the artifact of the first run names contracts
that exist; scripts write only addresses they read, got from a call, or were given) it proves `ArtifactSound`: the artifact names only
contracts mined before, and its gas counter never exceeds the transactions mined. `MinedInv` has to speak of the artifact,
the state object and the hands of the script, since a step moves addresses between any two of them; `GasInv` says of the state
object too, which a script may write back whole, what it says of the file, and sets a transaction that is mined but not yet
counted against the counter. `NoEntryIsLost` is about the order of reading and writing that object.

`AccountingOracleProofs` proves `ExtraDataCounted` and `RewardsWait` for any committee, since consensus reports come and go
freely in `OracleSpec`, and for any modules, operators, chunks and limits. `IInv` adds to `ExtraOK` and `RewardsAwaitCounts` the
types of the processor and that neither the report it holds is older than the last one processed nor rewards are younger than the
extra data (`ReportsAdvance`): otherwise a new consensus could let chunks of an old report complete under it, and release rewards
minted with another. `ChunkCounts` and `ChunkAdvances` are the lemmas about one chunk. `CountsAddUp` proves `SummariesAddUp`, the
part of `CountsFollowChain` that holds for any chunks: the registry's summary of a module, updated by differences, is the sum over
its operators, and neither it nor the router's count exceeds the deposits, so `deposited - max(...)` (`StakingRouter.sol:1022`)
cannot underflow. The loops over ids are sums over operators by `AddsUpIsSum`.

`SumTheorems` has sums over finite sets. The library's induction takes an operator as a parameter, which the provers cannot
instantiate; here a law of sums is proved by its least counterexample instead: among sets that fail it take one of the fewest
elements (`SmallestSet`, from `LeastNumber`, from the order of numbers), and remove an element.

Only model-checked:

* the rest of `CountsFollowChain`, and `ThrowsExplained`: they need an invariant over consensus, the processor and every step of a helper together.
* `ScratchComplete`, `UpgradeEnactable`, `FactoryChainReachesLive`, `AuthorityKept`: particular scripts are data,
  which TLC executes; a proof would do the same, case by case.
* `Delivered`, `EventuallyEnds`: liveness under fairness, out of the prover's reach.

## 5. Findings

1. `scripts/scratch/deploy-params-testnet.toml:101` offers `usePredefinedAddressInstead` for the DepositSecurityModule, and
   `scripts/utils/scratch.ts:90` copies it into the artifact. `0083-deploy-core.ts:175` then deploys no module and writes no
   address; only the environment variable does, in step 0000. Step 0090 passes `undefined` to the locator, so a deployment
   with this parameter fails there on every run (`Deploy_dsm`).

Observed while modelling, without a run of their own:

* `calculateFinalizationBatches` is to be called "until `state.finished` is true" (`WithdrawalQueueBase.sol:214`), and
  `lib/protocol/helpers/accounting.ts:520` does. When a call ends at its request limit with the budget spent exactly, it
  returns `finished = false` and the next call reverts (`:221`). `AfterCalls` stops there.
* "How many unique members from the current set reported this hash in the current frame" (`HashConsensus.sol:166`) is not
  what `support` holds after a member is removed while its report is processed (`:779`) and the processor is then
  replaced by one that has not processed the frame; a member removed and added again then counts twice.
* A consensus lost while processor A is current leaves A's copy only; a processor B that got the same report earlier keeps
  it (`HashConsensus.sol:1062`), so `ConsensusIsQuorum` is checked with one processor.
* A batch may mix requests made above its rate with requests at or below it, since requests made between the same two reports
  are not told apart (`WithdrawalQueueBase.sol:258`, `:264`). `_calcBatch` rounds a request's rate down before it is compared, so the
  claims of such a batch may exceed what was locked by a wei: with a precision of 1000, 10 wei for 2 shares and 251 wei for 501
  shares, finalized at a rate of 0.5, lock 251 and are owed 252. With 1e27 the coincidence is far-fetched, and the ether of
  later finalizations would pay it. No instance of the runs meets the case; `ClaimsCovered` assumes it away by name.
* `prefinalize` may exceed the calculated budget by the rounding of a batch against its requests.
* `_applyOracleReportContext` hands the shares of finalized requests to Burner (`Accounting.sol:339`), but finalizes
  them only if some ether is locked (`Lido.sol:885`). Batches whose ether rounds to 0 would stay in the queue without
  their shares. Amounts of at least 100 wei and a rate with 27 digits make that far-fetched; `PaidFinalization` assumes it away
  by name.
* `decreaseInternalizedBadDebt` (`VaultHub.sol:682`) is documented to reset the counter to zero; it subtracts, which is
  what keeps bad debt added after the reference slot (the mutant `ClearedBadDebt` is the documented behaviour and breaks
  `ExternalSharesOwned`).
* `StakingRouter.sol:430` says "all modules" are told of the end of reporting; only those whose operators add
  up to the router's count are (`:621`). `RewardsAwaitCounts` is about that condition.
* The comments on extra data item types (`AccountingOracle.sol:224` and `:257`) give them as 0 and 1; the constants are 1
  and 2 (`:290`).
* `ensureOracleCommitteeMembers` counts the fast lane, not the members (`accounting.ts:805`). When the quorum is below the
  wanted count, a second call finds too few, tries to add an address that is a member already and throws, and the agent
  keeps `MANAGE_MEMBERS_AND_QUORUM_ROLE`. `ThrowsExplained` lists it among the reasons.
* A report tried again in its frame reverts with `DuplicateReport` on the first vote, since the votes of the failed attempt
  stand; and `reportWithoutExtraData` with no items always reverts, since it asks for a list of 0 items.
* The Hoodi patches rc2 to rc4 print the old implementation's address as the new one
  (`0100-upgrade-hoodi-to-v3-rc2.ts:58`); rc5 does not.
* The beacon of staking vaults stays the deployer's: no step transfers it (`0085-deploy-vaults.ts:55`), while the
  upgrade's `V3Template` asserts that the agent owns it. `DeployersOwn` exempts it.

## 6. Not modelled, and the plan

Access control, proxies and versioning of the protocol decide who may call; outside the deployment modules every caller is
taken as authorised. Signature, Merkle and BLS code is computation over bytes. Second-opinion oracle, CL balance decrease
window and annual limits are in the choice of `ClChanges`. Of the TypeScript, the helpers for vaults, predeposits, staking
and guardians (`lib/protocol/helpers/vaults.ts`, `lib/pdg.ts`, `lib/dsm.ts`, `lib/protocol/provision.ts` and others) are
sequences of calls of tests to contracts that take them in any order; the tasks and the configuration schemas
compare files and have no state.

Hazards no property covers yet, with the module that would: ether reserved at the reference slot against deposits after
it (deposits of StakingRouter), predeposits and bonds (`PredepositGuarantee`), stale attestations (`DepositSecurityModule`),
delivery of exit requests under a limit (`ValidatorsExitBus`), expiring confirmations (`Confirmations`).

Order of the work, by importance of the behaviour:

1. *done*: `WithdrawalQueue`, `FinalizationBatches`, `BaseOracle`, `HashConsensus`, `Lido`,
   `PositiveTokenRebaseLimiter`, `Accounting`, `StakeLimitWindow`, first proofs.
2. *done*: `VaultHub` with `OperatorGrid`, `LazyOracle`, `RefSlotCache`, `ExternalSharesLedger`.
3. *done*: the migrations, their runner and its proofs.
4. *done*: `AccountingOracle` with extra data, the counts of StakingRouter and the registry, its proofs, and the helpers.
5. `PredepositGuarantee` with the staged balance of `StakingVault`: bonds and stages.
6. `ValidatorsExitBus` and the exit limit; the gateway shares the limit. DepositSecurityModule with the allocation.
7. Abstract specifications: a *ledger of claims* that `WithdrawalQueue` implements, and *one decision per frame* that
   `HashConsensus` with its processor implements.
8. Theorems. *Done*: the safety invariants of `WithdrawalQueue` with its search and batch calculation, `HashConsensus`, `Accounting` and `VaultHub`, the
   refinement of `ExternalSharesLedger`, the artifact of migrations, extra data, the stake limit, the limit of a rebase and
   the quarantine. Left: the rest of `CountsFollowChain` with the invariant it needs, then the refinements above.
