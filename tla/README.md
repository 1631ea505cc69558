# suwappu-revm: a TLA+ model of the staking precompile, the reserve-balance tracker, the memory pool, the dev node and the DAG registry contracts

This directory holds TLA+ modules for the stateful parts of suwappu-revm, TLC
configurations that check small instances of them, and proofs checked by TLAPS
for every value of the constants. Every definition is translated from the
source; `PROJECT.json` maps each one to its lines. Paths below are relative to
the repository; `staking/`, `reserve_balance/`, `journal.rs`, `handler.rs`,
`chain.rs`, `memory/` and `api/` are in `crates/suwappu-revm/src/`; `node.rs` and
`rpc.rs` are in `crates/suwappu-node/src/`.

## 1. The system

| Component | State | Operations | What is hard |
|---|---|---|---|
| Staking handlers (`staking/write.rs`) | validators, delegations, withdrawal requests, the balance of 0x1000 | 8 calls of users, getDelegator (which writes), 3 system calls | every order of calls around the epoch boundary; rounding; anyone settles anyone |
| Reward accounting (`pull_delegator_up_to_date` and below) | accumulators, reference-counted snapshots per epoch, two pending stakes per delegation | settle, compound, snapshot counting | snapshots filed before their value is final; shared counts |
| Validator sets | execution array and bitset, consensus and snapshot sets with their views | insert, top N, compaction, copy | array, bitset, flags and views have to agree |
| Linked lists | two families of intrusive lists | insert, remove, traverse | corruption by an unusual order of calls |
| Getters (`staking/mod.rs`) | none | paginated reads and plain ones | pages of a list that changes in between |
| Block lifecycle (`api/block.rs`) | none | three wrappers and `apply_epoch_boundary` | order of the system calls; a reverted first call |
| Reserve tracker (`reserve_balance/tracker.rs`) | cached thresholds, failed set | init, debit, credit, code, revert, clear | incremental and cached, under nested reverts |
| Journal (`journal.rs`) | revm's journal and the tracker | forwards, and tells the tracker | which addresses a revert concerns |
| Chain context (`chain.rs`) | senders and authorities of three blocks | sender_can_dip | index boundaries |
| Handler (`handler.rs`) | none | validation, gas, pre-execution, refund, beneficiary | the order of payment and tracking; nothing paid twice |
| Memory (`memory/`) | one buffer shared by all frames, words and gas of each | resizing with limit and linear cost; every opcode that expands memory | whole words against a limit in bytes; counted before paid; ranges computed before a second resize |
| Precompiles, gas tables, assembly | none | pure functions and tables | - |
| Dev node (`node.rs`) | database, block number, receipts behind a mutex | mine one transaction per block, calls on a copy | database taken out of the lock while the EVM runs; races, repeats, panics |
| JSON-RPC server (`rpc.rs`) | none | dispatch to the node | requests that take the mutex twice |
| Validator registry contract (`contracts/src`) | signers, proposals, stake per epoch | propose, approve, revoke, execute | competing proposals, timelock, time |
| Header oracle contract (`contracts/src`) | finalized state root per block | submitHeader | counting stake once, epochs, faulty keys |

Interaction: users and the block executor call the staking precompile through
the EVM, one call at a time; a failed call is undone by the journal. The
precompile's transfers go through the journal, which tells the reserve tracker.
The oracle contract reads the registry contract. The header oracle and the
registry run on the EVM but share no state with the staking precompile. The
tracker reads the chain context at the start of a transaction; who fills it is
outside the repository. The dev node's worker threads meet only at its mutex.

Correctness, by component:

- *staking*: the precompile owns exactly what it owes; no delegation and no due
  withdrawal is ever impossible to pay; exactly the stake of the frozen view
  earns, and all claims together are covered; nobody's claim shrinks by what
  others do;
- *accounting*: counts equal references; a snapshot in force never changes;
  pending stake is never overwritten;
- *sets and lists*: array, bitset, flags, views and pointers agree;
- *pagination*: what an answer "done" means, and that reading ends;
- *reserve*: the incremental verdict is the verdict of judging afresh; a sender
  dips at most once in three blocks;
- *memory*: all frames together stay below the limit, bytes touched are bytes
  reserved, and memory is paid for once;
- *node*: a serial ledger, whatever clients do at the same time; no answer older
  than its question; ether neither made nor lost; the mutex always given back;
- *registry*: only what had its quorum for the whole delay is executed, each
  epoch once and for good;
- *oracle*: a stored root has two thirds of an executed epoch's stake behind it.

## 2. Modules

| Module | Models | Form |
|---|---|---|
| `LinkedList` | insertion and removal of `linked_list_*` | operators on a function from keys to prev/next |
| `StakingAccounting` | `calculate_rewards`, reference counts, `apply_compound`, `pull_delegator_up_to_date` | operators on a settlement record |
| `ValidatorSets` | `add_to_valset`, top N, pop-and-swap | operators on sequences |
| `Staking` | the precompile: all handlers of `write.rs` | state machine over the three above; implements `Escrow` |
| `Escrow` | abstract: stake, requests and pots of rewards, and how money moves between them | state machine |
| `StakingSafety` | the properties of `Staking`, and `SkippingSpec` | |
| `ListPagination` | `getDelegators` / `getDelegations` and a client that reads | state machine over `LinkedList` |
| `ValidatorRegistry` | the registry contract | state machine |
| `HeaderOracle` | the oracle contract, on the registry | composes with `ValidatorRegistry` |
| `ChainContext` | `sender_can_dip` over three blocks | operators on histories |
| `ReserveBalance` | tracker, journal callbacks, pre-execution | state machine over `ChainContext` |
| `MemoryPool` | `memory/mod.rs` and `memory/opcodes.rs`, with the frames of a transaction | state machine |
| `Execution` | what a transaction does to nonces and balances | operators on accounts |
| `Ledger` | abstract: transactions applied one at a time | state machine over `Execution` |
| `DevNode` | `node.rs` and the dispatch of `rpc.rs`, step by step over the mutex | state machine over `Execution`; implements `Ledger` |
| `MC*` | instances for TLC | |
| `StakingProofs`, `StakingRewardProofs`, `PaginationProofs`, `RegistryProofs`, `ReserveProofs`, `MemoryProofs`, `NodeProofs` | proofs, one module per component (two for staking: what holds in any order of system calls, and on it what needs the lifecycle) | |
| `DataTheorems` | lemmas about sums over finite sets and about linked lists | |

Operators whose comment starts with "A slip" are wrong variants of the operator
that follows them. No specification uses them; each marks a mistake that the
named properties tell apart from the code.

### Staking

A handler is one action: `HandleDelegate`, `HandleUndelegate` and so on, with
the settlement, the flags, the execution set and the lists it changes on the
way. A handler that returns an error is undone by the journal, so it is a
disabled action. `Settlement` is the part of the storage that settling touches
(delegation, unclaimed pool, snapshots) with `ok`, which is false once
"internal error" or "solvency error" would be returned; `compound` and
`delegate` chain two settlements as the code does.

Left out or simplified:

- 256-bit overflow (checked in the code, a revert), gas, call data and events.
  Amounts are natural numbers; subtraction that would go below zero is a guard.
- The auth address of `addValidator` is one of the callers' addresses. Neither
  the zero address nor the sentinel is among them: the list insertion that ends
  every first delegation refuses both (`write.rs:619-621`), and the call reverts.
- DOUBLE_SIGN is never set anywhere in the code and is not in `Flags`.
- `delegate` and `undelegate` of zero succeed without effect: no action.
- The block reward is minted into the precompile's account by the block
  executor before the call, as `api/block.rs` requires of its caller.
- A BLS key stands for its first twenty bytes, which is what the code looks up.

`Spec` is the lifecycle of README.md:64-68 and `api/block.rs`: an epoch changes
at the end of a boundary and the number goes up by one. `AnyOrderSpec` takes
system calls in any order with any later epoch, which is what the handlers
themselves admit; everything that holds there is stated there. `SkippingSpec`
keeps the boundary and lets numbers be skipped.

`Escrow` is what the precompile promises about money, whatever the order of the
system calls: stake is what was deposited or restaked, is asked back under a free
id, and is paid in full to the account it is filed under, two or three epochs
later at the earliest and never before it is due; rewards are paid and restaked
out of what the same validator was given, and only the rewards of blocks are new
money. `ImplementsEscrow` is `Esc!EscrowSpec` under the mapping in which the
stake of a delegation is its active and pending stake (`Entrusted`), a request is
due `WITHDRAWAL_DELAY` epochs after the epoch it is filed under (`Asked`), and the
pot of a validator is its unclaimed rewards with those its delegations have been
credited with (`RewardPots`). Settling, compacting, changing a commission and
opening the boundary move nothing of it. How rewards are shared is not the
escrow's business; `RewardsCovered` and its companions say that.

### Pagination

One list of either kind (the two traversals and their copies for readers are the
same code). A page is one call and sees one state. The history variables say who
stayed in the list since the read began and whether the key the client waits
with ever left it.

### Registry and oracle

One action per external function; block time advances by any amount within its
bound. `quorumSince` is a history variable: since when a proposal's quorum
stands without interruption. A proposal is identified by its content, as by its
hash. In the oracle, a key outside `Faulty` signs at most one root for a block;
that, and what validators sign at all, is external. The digest has no epoch, so
a signature counts in every epoch its key has stake in, here as in the code.

### Reserve balance

Frames are revm's checkpoints: a frame keeps the accounts to restore and the
addresses of its journal entries. What the journal of revm does is external;
what `journal.rs` tells the tracker and what `tracker.rs` does is the model.
Simplified:

- Every hardfork of this chain has the recent code hash, so
  `use_recent_code_hash` is always true.
- A transfer that fails changes nothing and is no action; a transfer of zero
  still reaches the tracker, as in the code.
- The base fee is zero, so the beneficiary receives what the sender paid. Its
  credit at the end reaches a tracker that is cleared right after, so only the
  clearing is kept.
- `StartTx` takes one of the `Histories`: this block and the two before it, as
  the block executor reports them. `SenderCanDip` translates `sender_can_dip`
  with its two index comparisons; `DipsOnceInThreeBlocks` compares it with the
  rule in terms of who was involved in anything earlier.
- `BelowReserve` is the reserve rule (what an account may not go below, given
  its balance before and the fees of the transaction) stated without the
  tracker's threshold; `FailedExact` compares the incremental verdict with it.
- `CodeWithAccount` says whether the database returns an account together with
  its code. revm allows both; `InMemoryDB`, which the dev node uses, does.
- Nothing in the repository stops a transaction that ends in violation; the
  verdict is what `dippedIntoReserve` answers.

### Memory pool

A frame is its part of the buffer, the words it was charged for, its gas, and
two ranges: its arguments, in bytes of the whole buffer, and the place in its own
memory that awaits the result of a pending call. Each opcode of `opcodes.rs` is
an action in the order of the code: operands that do not fit a `usize`, gas,
resize, then the bytes it touches, which are kept in `access`. Contents are left
out. `Costs` stands for everything an opcode charges besides memory; how much gas
a call passes on is computed by revm and is any amount the caller has. The gas
of a failing frame is lost, and `words` may then exceed what the frame has: that
is the code's own order (`memory/mod.rs:64-69`), and `ExpansionPaid` is about
frames that go on. `LimitFeature` is the crate's feature `memory_limit`.

### Dev node and ledger

A request is handled by one worker in steps that are separated where the mutex
is taken or given back and, for `send_raw_transaction`, where the database is
taken out (`node.rs:429`), the transaction is executed (450) and the database
returned (453). A panic in between drops the guard, which poisons the mutex, and
the worker is gone; every later `lock().unwrap()` panics as well. `db` is
then empty for ever, which is why the model keeps both.

- A receipt, the stored transaction and the block hash are written under one
  guard and are one entry: the number of the block.
- `eth_getBalance` and `eth_getCode` are the same steps as
  `eth_getTransactionCount`, which stands for them. What a call computes stands
  as a nonce read from its copy; a call may also fail.
- `Valid`, debits and nonce are revm's and external; that nothing is refunded or
  reimbursed and the whole gas limit goes to the beneficiary is `handler.rs`.
- A transaction that decodes has the type the node supports; the others are
  `Malformed`. Chain ids are either the node's or another.

`Ledger` is what the node promises: transactions are applied one at a time, each
at most once and only if it is valid then, in blocks without a gap; or everything
is lost, once. `ImplementsLedger` is `L!LedgerSpec` under the mapping in which
the accounts are the database wherever it is at the moment (in the state or with
the worker that holds the mutex), and a transaction counts as applied from its
commit on, although the block is recorded later.

## 3. Runs

Bounds are constants, named in the modules. Amounts of one or two and a
`UNIT_BIAS` and `MON` of two make every division leave remainders; a dust and
activity threshold of one keeps every branch reachable. Deadlock is checked in
the staking, pagination and node runs, where something is always possible; the
registry, oracle, reserve and memory instances really stop at their bounds, and
their configurations say so.

| Run | Instance | Distinct states | Shows |
|---|---|---|---|
| MCRewards | two accounts, one validator, a commission, epochs to 3, block and external rewards | 32,691 | `NoStuckFunds`, `RewardsCovered`, `EarningStakeIsViewStake`, `ClaimsPaidInFull`, `ImplementsEscrow` |
| MCAnyOrder | one account, two withdrawal ids, two commissions, any order of system calls | 119,504 | `TypeOK`, `RefcountsExact`, `PendingWindow`, `ContractBalanced`, `StartedSnapshotsFrozen`, `EpochTermsFixed` |
| MCValset | three accounts and validators, two places, epochs to 3 | 48,334 | `FlagsExact`, `ExecutionSetConsistent`, `ViewsMatchSets`, `ListsMatchDelegations` |
| MCPagination | four keys, pages of two | 41,737 | `CompleteRead`, `NoRepetition`, `ReadsEnd` |
| MCRegistry | three signers, two needed, two sets, two epochs | 43,620 | `TimelockFollowsQuorum`, `OneProposalPerEpoch`, `StakeWithinTotal`, `ExecutedAfterTimelock`, `EpochsFrozen` |
| MCOracle | three keys, one faulty, two epochs | 4,500 | `OneRootPerEpoch`, `FinalizedByExecutedEpoch`, `QuorumOnRecord` |
| MCReserve | a user, a delegated wallet, a fresh address, the precompile; two frames; three blocks of history | 82,831 | `FailedExact`, `ThresholdsCurrent`, `RevertRestoresVerdict`, `DipsOnceInThreeBlocks` |
| MCMemory | six words for three frames, two units of gas, operands at 0, within, and beyond the largest `usize` | 43,989 | `PoolWithinLimit`, `AccessInBounds`, `ExpansionPaid`, `PoolPaidFor` |
| MCNode | two clients, three accounts, six transactions | 82,205 | `NodeTypeOK`, `OneBlockPerTransaction`, `EtherConserved`, `FreshAnswers`, `ImplementsLedger`, `MutexReleased` |
| MCEpochSkip | one account, skipped epochs | violated | finding 1 |
| MCMemoryNode | without the feature `memory_limit`: a limit of four words and three units of gas | violated | finding 2 |
| MCReserveLazy | as MCReserve, code loaded late | violated | finding 3 |

Why these bounds are enough to be of interest: a stake lives through at most
four epochs between delegation and payment (pending, active, leaving, waiting),
and the runs about rewards reach the last of them; two delegators of one
validator are the smallest instance in which a snapshot, its count and a pool
are shared; three validators for two places is the smallest with an eviction
and with a hole in the middle of the array; three keys in a list have a first,
a middle and a last, and pages of two over four keys make a read of several
pages; two of three signers can form two different quorums; two frames have an
inner revert in an outer call that goes on. The histories of MCReserve have the
sender and its authority in each of the blocks, before, at and after its place.
In MCMemory a range of 49 bytes is two words and one from byte 49 on ends in the
fourth. Six words hold a frame with arguments in memory, a callee that copies
them, and words of free memory below and above, so that arguments lie at the
beginning of the buffer and further up, results are copied back, and a frame can
grow in two paid steps; three frames would pass the limit together while each
fits, and they also meet it exactly. Gas binds as well: it pays for five words
in one frame, six in two and seven in three, and all of the first two are
reached. The price of an opcode itself is 0 in this run, because a call passes
on any amount of the caller's gas, so that every smaller amount is met. With a
largest `usize` of 199 sums saturate and operands do not fit. In MCNode two
transactions compete for a nonce, a third can follow either, a fourth is valid
only once its sender was paid, a fifth is malformed and a sixth for another
chain; each can be sent any number of times.

`SYMMETRY` is used for accounts and consensus keys (MCValset, MCRewards) and for
signers, which no definition chooses among, and never with a liveness property.

**Fairness.** `ListPagination` has `WF_vars(ReadPage)`: a client that has begun
goes on asking. `DevNode` has `WF(Work(c))` for each client: a worker that has a
request and can go on does, which is the scheduler's promise to a thread, and an
execution ends because gas does. It is weak: nothing says that a worker ever
gets the mutex while others take turns, since `std::sync::Mutex` does not promise
it, so what is shown is that whoever has the mutex gives it back
(`MutexReleased`) and not that every request is answered. Clients need not send
anything. Nothing is assumed of the callers of contracts
or precompiles, which may stop at any time, and no liveness is claimed of them.

### Findings

1. *Skipped epochs* (`write.rs:1709`). `syscallOnEpochChange` accepts any later
   epoch and refreshes the snapshots of that epoch and the next. A delegation
   filed for an epoch in between activates with the accumulator from the time of
   the delegation, against the comment at `write.rs:1727-1728`. If its owner was
   settled since, that value lies below the cursor, `checked_sub` fails and the
   delegation can no longer be settled at all. `NoStuckFunds` is stated for
   consecutive epochs for that reason.
2. *Memory limit of the dev node* (`memory/mod.rs:41`). The limit is compiled in
   with the feature `memory_limit`, one of the crate's default features. The node
   takes the crate without default features and does not name it
   (`crates/suwappu-node/Cargo.toml:27-33`), so a node built by itself, as its
   README says, has no limit other than gas, while `memory/mod.rs:4-5` says that
   the module enforces one. A build of the whole workspace unifies features and
   has it. `PoolWithinLimit` holds with the feature.
3. *Reserve of a delegated account whose code is not loaded* (`tracker.rs:109`,
   `189`): an access that is reverted makes the tracker judge the account again,
   without its code, as a contract with threshold zero, and the cached zero hides
   spending later in the transaction. It takes a database that returns accounts
   without code; with code present `FailedExact` holds.

Also noticed, without a run: the epoch of a withdrawal request is the activation
epoch (`write.rs:1180`), while `types.rs:166` calls it the epoch when the request
was created.

## 4. Proofs

Constants are arbitrary within the named assumptions of the modules. tlapm
checks every leaf.

| Theorem | Statement | Argument |
|---|---|---|
| `TypeCorrect` | `AnyOrderSpec => []TypeOK` | inductive invariant `Inv == TypeOK /\ PendingWindow` |
| `PendingStakeInWindow` | `AnyOrderSpec => []PendingWindow` | the same |
| `SnapshotsStayFrozen` | `AnyOrderSpec => StartedSnapshotsFrozen` | from `Inv`: what is counted is filed for a later epoch, and a refresh is of later epochs |
| `LifecycleSafe` | `Spec => AnyOrderSpec` | every step of the lifecycle is a step of any order |
| `FlagsAlwaysExact` | `AnyOrderSpec => []FlagsExact` | `FlagInv == Inv /\ FlagsExact` |
| `BooksBalance` | `AnyOrderSpec => []ContractBalanced` | `BalanceInv`: the four sums move together |
| `StakingImplementsEscrow` | `AnyOrderSpec => ImplementsEscrow` | `BalanceInv`, one lemma per handler: a step of the escrow or a stutter |
| `SnapshotsCounted` | `AnyOrderSpec => []RefcountsExact` | `RefInv`: tracks counted at each snapshot |
| `ExecutionSetStaysConsistent` | `AnyOrderSpec => []ExecutionSetConsistent` | `Listed`, through the compaction loop |
| `ViewsFollowSets` | `AnyOrderSpec => []ViewsMatchSets` | `SeatedInv`, with the ranking by stake |
| `ListsFollowDelegations` | `AnyOrderSpec => []ListsMatchDelegations` | `HeldInv`: every list is a chain through exactly the keys with stake |
| `ReadsAreComplete`, `NothingReadTwice` | `Spec => []CompleteRead`, `[]NoRepetition` (of `ListPagination`) | `PageInv`: what the client still waits for lies from its start key on |
| `RewardsDividedByEarners` | `Spec => []EarningStakeIsViewStake` | `EarningInv`: what the next boundary will decide is known before |
| `ClaimsCovered` | `Spec => []RewardsCovered` | `RewardInv`: what is owed, counted before it is rounded, is at most the pool |
| `FundsNeverStuck` | `Spec => []NoStuckFunds` | `PayableInv == RewardInv /\ Ordered` |
| `ClaimsNeverShrink` | `Spec => ClaimsPaidInFull` | from `RewardInv`: `Worth`, the claim written out, only grows while an account is left alone |
| `TotalCoversStakes` | `RegistrySpec => []StakeWithinTotal` | the same sums, per epoch |
| `TimelockSound` | `RegistrySpec => []TimelockFollowsQuorum` | `RegistryInv`, one conjunct per proposal |
| `NothingSkipsTheTimelock` | `RegistrySpec => ExecutedAfterTimelock` | from `RegistryInv` |
| `ExecutedEpochsFrozen` | `RegistrySpec => EpochsFrozen` | `StakesInv` |
| `EpochsInSequence` | `RegistrySpec => []OneProposalPerEpoch` | `SequenceInv`: executed proposals belong to reached epochs, one to each |
| `OnlyExecutedEpochsFinalize` | `OracleSpec => []FinalizedByExecutedEpoch` | `OracleInv` |
| `QuorumStaysOnRecord` | `OracleSpec => []QuorumOnRecord` | `OracleInv` |
| `NoConflictingRoots` | `OracleSpec => []OneRootPerEpoch` | two quorums meet in an honest key |
| `TermsStayFixed` | `AnyOrderSpec => EpochTermsFixed` | `ViewsInv`: whoever is in neither set has an empty view; `RewardsDivided`: only two calls give rewards |
| `TrackerExact`, `CacheCurrent` | with `CodeWithAccount`: `ReserveSpec => []FailedExact`, `[]ThresholdsCurrent` | `ReserveInv` |
| `VerdictRestored` | with `CodeWithAccount`: `ReserveSpec => RevertRestoresVerdict` | from `ReserveInv` |
| `OnlyTheQuietDip` | `ReserveSpec => DipsOnceInThreeBlocks` | no invariant: `sender_can_dip` on the context is `Quiet` on the blocks |
| `MemoryTypeCorrect`, `MemoryPaidOnce` | `MemorySpec => []MemoryTypeOK`, `[]ExpansionPaid` | `MemInv` |
| `LimitHolds`, `AccessesReserved` | with `LimitFeature`: `[]PoolWithinLimit`, `[]AccessInBounds` | `MemInv` |
| `GasBoundsPool` | `MemorySpec => []PoolPaidFor` | `Held` and `PaidUpToFrame` |
| `NodeTypeCorrect` | `NodeSpec => []NodeTypeOK` | `NodeInv` |
| `NodeImplementsLedger` | `NodeSpec => ImplementsLedger` | `NodeInv`, one lemma per action: a step of the ledger or a stutter |
| `NoEtherMade` | `NodeSpec => []EtherConserved` | `EtherInv`: the total of the genesis, or the empty database after a panic |
| `MutualExclusion` | `NodeSpec => [](MutexInv /\ DatabaseInPlace)` | `NodeInv` and `EtherInv`: an empty database has no ether |
| `BlocksCountTransactions` | `NodeSpec => []OneBlockPerTransaction` | `CountInv` |
| `AnswersAreFresh` | `NodeSpec => FreshAnswers` | `FreshInv`, on `CountInv`: what a worker carries is no older than its request |

Why the strengthening: `TypeOK` is not inductive, because nothing in it keeps
the epoch a stake is filed under within the snapshots there are (`Epochs`);
`PendingWindow` bounds both pending epochs by the current one, which is also why
`internal_delegate` may write an epoch without looking at the one it replaces.
`PendingWindow` in turn needs the types to do arithmetic. Settlement is the
heart of the proof: `PullSettles` shows that two compounds and a credit turn a
well-typed settlement into one whose due stakes are gone and whose snapshots
have only lost references; every handler's lemma cites it. `FlagsExact` adds
that settling moves stake between active and pending but not out, so the total
of the auth address, and with it the flags, are untouched by settlement
(`UnmovedStake`). In the registry, that a proposal is executable only through an
approval count that equals the number of approvals has to be carried along:
the count is a number of its own in the contract. That each epoch has one
proposal needs `StakesInv` in addition, and that an execution is of the epoch
that follows the latest.

Reserve: `FailedExact` and `ThresholdsCurrent` need each other, since the verdict
comes from a cached threshold, and neither survives a revert by itself.
`ReserveInv` therefore says of every frame (`StackOK`) that what changed since it
began is in its entries or in those of the frames within it, and that the failed
set it saved is the verdict on the accounts it saved; a revert then looks again
at every account that differs (`LookedAtAnew`). `TransferWorks` is why only a
failing payee has to be looked at: receiving never puts anybody below its
reserve. That whoever is destroyed was created in the same transaction, that
everybody has its code loaded, and that between transactions balances are the
original ones (`Settled`, so nobody but the sender is below when tracking starts)
complete it. Without `CodeWithAccount` the verdict can be wrong, which is finding 3.

Memory: `PoolWithinLimit` is about the top frame only and says nothing once it
returns, so `StackOK` states for every frame that its memory is whole words,
paid for and within the limit, and for neighbours that the callee begins where
the caller ends, with arguments below and the place for the result inside the
caller's part. The words come from a limit that is itself a number of words
(`WordsStayBelow`). Without the feature, a range may saturate at the largest
`usize` and the bytes behind it are not reserved, hence the assumption.

Node: `NodeInv == NodeTypeOK /\ MutexInv /\ JobInv /\ NonceInv`. That a step
maps to the ledger needs the mutex (nobody else touches the database while a
worker has it, and what it finds is the chain), the number it carries (`JobInv`:
still the next one when it is recorded), and the nonces (`NonceInv`: a
transaction with a block lies below its sender's nonce, so it is never valid
again, which is how a repeat is refused). A poisoned mutex is held by nobody, so
after a panic every step is a stutter of the ledger.

Sums: the library's fold is a function on the subsets of its set, so what it
computes follows by induction over subsets, which `DataTheorems` does once
(`SubsetInduction`: a set of subsets that holds whatever follows from the smaller
ones), with no operator as a parameter: a sum does not change with what it is not
over, moves by as much as the one term that moves, adds term by term, and is
bounded by what bounds its terms. `SumUnion` and `SumSubset` are what two quorums
sharing somebody comes to. It takes that the sets are finite: accounts, keys and withdrawal
ids (`StakingAssumption`, `ExecutionAssumption`, `OracleAssumption` and so on say
so), of which a chain has finitely many in use at any height, whatever the number.

The books: `BooksBalance` compares four sums (stakes, unclaimed pools, credited
rewards, requests). `Moves` says of one handler by how much each changes;
`Registered` says that whoever is not registered has no stake, so that registering
starts from nothing. `SnapshotsCounted` is the same for references: a track is a
delegation's due epoch or a request's, `KeepsOthers` says a handler touches one
account's tracks only, `Recounts` that the snapshots follow them.

The escrow: `Moves` leaves only two unknowns, what a handler adds to the stake of
one delegation and what it adds to the account. `MovesEscrow` reads the escrow's
step off them: the rest has gone into the pot. A withdrawal that is under way
keeps its epoch, so that its due date is fixed when it is asked for, and
`BalanceInv` shows that nobody takes more out of a pot than it holds.

The sets: `Listed` says that the array has no duplicates, only ids up to the last
one, and agrees with the bitset. Compaction walks the array from its end and swaps
the last element into a hole; `CompactionKeeps` follows the loop by induction
over the indices. That the boundary chooses the best by stake is a ranking
(`TopByStakeChooses`): everybody has a rank of its own, so a limit of n chooses
the n first. `Seated` then says that a view is nonzero exactly for the members,
which needs the thresholds, hence `FlagsExact`, hence the flags' meaning.

Earning: a snapshot fixes each view from the stake that is delegated then, and
what is delegated later takes effect later. `Decided` are the epochs for which
this can no longer change, `Earns` what a delegation will earn in one of them,
and `EarningKept` that no user's call changes either: each handler has a lemma,
`DelegateKeepsEarning` and `PullKeepsActive` being the two that matter. At a
snapshot the whole stake of a validator is what will earn (`WholeStakeEarnsNext`);
at the epoch's change what was decided becomes current.

Claims: `RewardsCovered` speaks of settled amounts, each rounded down in up to
three divisions, and no step keeps such a sum by itself. `Covered`, which is
inductive, counts what is owed before any division (`Owed` for a delegation,
`OwedTo` for a request, both times the unit) and compares the sum, `Debt`, with the
pool. The rest of `RewardInv` says what a step needs: the references (`RefInv`: a
snapshot that somebody awaits is not cleared), the views and earning stakes
(`SeatedInv`, `EarningInv`: a reward adds at most its share for each unit of
stake that earns, and the stake that earns is what it was divided by), that
requests are filed for validators that exist, that a validator not yet registered
has no accumulator (`Unborn`), and that the snapshots of the epochs ahead are as
recent as the last boundary (`Fresh`). Every step is of one of five kinds
(`StepKind`): it settles one account (`SettledCall`), pays a withdrawal (`PaidOut`),
distributes a reward (`Rewarded`), touches nothing that is owed (`Idle`) or is a
boundary. The lemma of settlement is `Pays`: what leaves the pool is, times the
unit, at most what is no longer owed. That rounding only ever favours the pool is
all that is used of the divisions.

Nothing stuck: that the debts of a validator together are covered does not yet say
that each is, since a cursor ahead of its snapshot would make a debt negative (and
`calculate_rewards` fail). `Ordered` says that no cursor is ahead of any snapshot it
will be settled at, which is where the lifecycle is needed: with epochs skipped it
is false, which is finding 1. With it no debt is negative, so each is covered by
itself, every division and every `credit` succeeds, and a due withdrawal finds
its principal in the account by `ContractBalanced`.

Nobody's claim shrinks: the claim is the outcome of a settlement nobody has made
yet. `Worth` writes it out as rewards, what the due pending stakes have earned, and
what the active stake has earned since the latest of their snapshots
(`ClaimsWorth`). While an account is left alone it grows with the accumulator
(`WorthGrows`); when an epoch begins, a stake that becomes due does so at the
present accumulator, so that the sum is the same (`WorthAcrossBoundary`); and a
call that settles the account finds `Worth` in its rewards, pays it or stakes it
again (`ClaimKind`).

Oracle: `WeighedInv` says that an epoch not executed yet has no stake at all and
that the total of any other covers the sum of its stakes; `OracleInv` that the
signatures that finalized a root stay on record, their stakes frozen, and that
only faulty keys sign two roots. Two finalized roots of one block in one epoch would need two quorums,
whose keys overlap in more than `Faulty` holds. Node: `EtherInv` follows a
transaction's two or three credits through `TotalBalance`, and says that after a
panic the accounts are the empty database. So the database in the state is empty
only while the worker with the mutex executes, or after a panic (`DatabaseInPlace`;
the genesis has to fund somebody, or an empty database would be nothing new).
`CountInv` maps blocks to the transactions in them.

Memory, again: `PoolPaidFor` sums the words of all frames, so `Held` (gas and what
was charged, over all frames) may never exceed the transaction's gas, and
`PaidUpToFrame` says that where a frame begins is paid for by the frames below.

Lists: the pointers alone say nothing to a proof, so `Chained` names the order: a
function f from 0, the sentinel, through the keys to the empty key, with next and
prev pointers between neighbours and none at the keys that are absent. Insertion
puts a key in front of the order (`InFront`), removal leaves one out (`LeftOut`),
the last, the only and a middle one alike; a traversal then reads f, by induction
over its steps (`TraversalOfChain`, with `UpwardInduction`, which quantifies over a
set and takes no operator). `Held` says of both families of lists that each is such
a chain through exactly the keys with stake. What a step has to show for it is that
the lists change when existence does: the stake `internal_delegate` adds is never
zero, `undelegate` takes from a delegation that has stake, and whatever else writes a
delegation keeps its total.

Pages: the order is also what a client's place means. `Waits` says that of those who
stayed, whoever has not been given yet lies at the start key or behind it, and that,
while the start key has not left, nobody given already does. An insertion is in
front of every place; a removal takes out of the order without changing it; a page
moves the place by as many keys as it gives. A key that left and came back is at the
front, so that a client that waits with it is given everybody again: `CompleteRead`
survives that and `NoRepetition` does not claim it.

Answers: a worker that has asked carries what it was asked at, then for a block the
number it read before it gave the mutex back, and for a call its copy of the
accounts. `Fresh` bounds each from both sides; that a later look never shows less
(`Later`) is that nonces in the database count what was mined, which is `CountInv`.
A worker that looks while another one has the database out does not exist, by
`MutexInv`, nor one that looks after a panic, by the poison.

Only proved: `MemoryTypeOK`, which no run lists; the same mistakes show in
`PoolPaidFor`.

Only model-checked: liveness (`ReadsEnd`, `MutexReleased`), which is beyond the
prover, and that the model gives the violations of the findings.

## 5. Not modelled

- *Repriced and post-quantum precompiles, instruction and gas tables*: pure
  functions with cryptography behind them, and constants by hardfork.
- *EVM assembly*: types and builders without state of their own.
- *Plain getters, the reserve-balance precompile's dispatch*: they read, check
  their call and encode; what `dippedIntoReserve` answers is the property
  `DippedIntoReserve`. The dispatch of the staking precompile is `UserCall` and
  `BlockCall`; payability, call schemes and gas per call are left out.
- *Storage layout*: each namespace of keys is a variable; packing into slots is
  left out, as is every encoding of calls, results and JSON.
- *Validation of a transaction's own fields* (`validate_env`), and what revm does
  by itself (journal, frames, gas of opcodes), which is external.
- *`apply_epoch_boundary` after a reverted snapshot*: `AnyOrderSpec` contains an
  epoch change without its snapshot, so what is checked there holds of it; what
  rewards come to afterwards, the code does not promise.
- *Fair access to the node's mutex*: not promised by the standard library.
- *CI and bill of materials*: not part of the program.

The modules were written in the order of what most depends on them: accounting
and the staking machine, its sets and lists, the getters, the registry with its
oracle, the reserve tracker with its chain context, then the memory pool and the
dev node with its ledger, and the escrow the staking machine implements. The next
step would be an escrow that also says how rewards are shared (earning stake,
claims), which `Staking` implements under the documented lifecycle.
