# Astria in TLA+

This directory holds TLA+ models of Astria's services: the Sequencer (its
mempool, its application and the ledger of its assets), the relayer that posts
Sequencer blocks to Celestia, Conductor, which executes them on a rollup at two
commitment levels, the composer, which brings the rollups' transactions to the
Sequencer, the bridge withdrawer, which brings their withdrawals, and the
auctioneer, which sells the top of the rollup's next block. What a block is made
of, and what proves it, is modelled too: Merkle trees, the forms in which a block
travels, and the checks of each form. The models
are checked with TLC on small instances; the main safety properties of Conductor,
its two readers, the relayer, the ledger, the withdrawer, the composer and the
auctioneer are proved with TLAPS for every instance.

    cd tla
    tlc -workers 2 -config Conductor.cfg MCConductor     # any run of PROJECT.json
    tlapm ConductorProofs.tla                            # the proofs of any ...Proofs.tla

`PROJECT.json` lists the runs, the source lines each definition models, the
mutants (one plausible bug per property, which the property must catch), the
findings, the hazards and the theorems. Each mutant is an operator that stands
just before the definition it replaces.

## Inventory

Transactions and blocks flow through the system like this:

    rollup node -> composer --+
                              v
    CLI, users ---->  sequencer (CometBFT app)  ->  relayer  ->  Celestia
                              ^        |                            |
                              |        | soft blocks                | firm blocks
          bridge withdrawer --+        +----->  conductor  <--------+
                  ^                                 |
                  |                                 v  execution API
                  +----------------------------  rollup node

All binaries run on a multi-threaded tokio runtime: tasks interleave at every
await, and channels and watched states are shared between threads.

| component | state | operations | what is hard, what makes it correct |
|---|---|---|---|
| conductor, executor (`executor/mod.rs`, `client.rs`) | tracked commitment state, `blocks_pending_finalization`, two channels, reader tasks | biased `select!` over firm blocks, soft blocks and exits of readers; execute a block, update the commitments; retries | two feeds that overtake each other, three RPCs per block and a crash between any two; every Sequencer block is executed once and in order, the firm block stays on the soft chain |
| conductor, tracked state (`state.rs`) | session parameters, commitments | mapping between rollup numbers and Sequencer heights, stop height | overflow and off-by-one at the ends of a session |
| conductor, restart loop (`conductor/`) | the executor's handle | restart with a new session, or shut down | sessions that end or are invalidated halfway; a restart at another commit level |
| conductor, sequencer reader (`sequencer/`, `block_cache.rs`) | heights requested and observed, fetches in flight, cache, one enqueued block | fetch ahead, reorder, forward, skip what the rollup has passed | out-of-order completion, full channel, stop height; in order, no gaps, bounded memory, never stuck |
| conductor, celestia reader (`celestia/`) | window of Celestia heights, reconstruction tasks, cache, enqueued block | schedule, fetch, verify and reconstruct, reorder, forward | repeated posts, window that only moves with forwarded blocks, search height kept across restarts |
| relayer (`relayer/`) | submission-state file, block stream, channel, batch, pending block, ongoing submission | batch, prepare, broadcast, confirm, revert | crash between the write of the file and the submission, timeouts that race with inclusion; no block skipped, few repeated, the file is true |
| sequencer, mempool (`mempool/`, `service/mempool/`) | pending and parked transactions by account and nonce, removal cache, tracked set | CheckTx with insertion and promotion, removal of failing transactions, maintenance with recosting and demotion | a snapshot that is stale at the insertion, several locks taken in turn, limits; pending is executable in order, the tracked set is true |
| sequencer, app (`app/`, `service/consensus.rs`) | state delta, execution state machine, recost flag, write batch | prepare, process, finalize, commit | several proposals per height, results of one used for another, replays after a crash; every validator reaches the same state |
| sequencer, actions (`action_handler/`, `accounts`, `fees`, `bridge`, `ibc`) | balances, bridge accounts, used withdrawal events, deposits, escrow | one handler per action, fees, IBC packets and refunds | conservation of funds, replayed withdrawals, refunds that undo what was done |
| composer (`executor/`, `collectors/`) | channel, current and finished bundles, nonce, submission in flight | collect, bundle, submit, drain | stale nonces, resubmission, backpressure, shutdown; the rollup's order survives |
| bridge withdrawer (`bridge_withdrawer/`) | startup info, next rollup height, queue of batches, transaction in flight | start up, watch, submit | nothing on disk: a restart must neither skip nor repeat a withdrawal |
| auctioneer (`astria-auctioneer`), with the Sequencer's event bus and optimistic streams | running auction, a worker per auction, four restarting streams, cached nonce | start, open, time, bid, cancel, submit the winner | four streams in no common order, a new block cancels an auction whose worker is submitting; whoever wins has bid on a committed block, a block is sold once |
| merkle (`astria-merkle`) | flat tree | push, root, proof, audit | bit arithmetic on indices, trees that are not perfect; roots and paths are those of RFC 6962 |
| Sequencer blocks (`astria-core/src/sequencerblock`, `proposal/commitment.rs`, `grpc/`) | none: a block and its forms | commit, expand, build, store, filter, split, verify, reconstruct | three layouts of the data, sorting in several places, two ways to a rollup; each form verifies and both ways agree |
| the rest of core, CLI, telemetry, configuration, mocks, charts | none of their own | conversions, tools | not candidates for a model |

## Modules

| module | models |
|---|---|
| `ConductorState` | `state.rs`: sessions, the mapping of numbers to heights with the width of the integers, commit levels |
| `Executor` | `executor/mod.rs` and `client.rs`: the event loop, the RPCs, the channels; the readers as ordered feeds; the rollup node (external) |
| `Conductor` | `conductor/`: restart or shutdown, the supervisor, crashes; all properties of Conductor |
| `CommitmentLedger` | abstract: what the execution API promises of the rollup's two block numbers |
| `OrderedFeed` | abstract: what the executor assumes of a reader |
| `SequencerReader` | `sequencer/mod.rs`, `block_stream.rs`, `block_cache.rs` |
| `CelestiaReader` | `celestia/`, with the same block cache |
| `Relayer` | `relayer/`: `read.rs`, `submission.rs`, `write/`, `celestia_client/` |
| `Mempool` | `mempool/mod.rs`, `transactions_container.rs`, `service/mempool/mod.rs` |
| `App` | `app/mod.rs`, `execution_state.rs`, `vote_extension.rs`, `upgrades_handler.rs`, `service/consensus.rs` |
| `Ledger` | `action_handler/`, `transaction/checks.rs`, `fees`, `accounts`, `bridge`, `ibc/ics20_transfer.rs` |
| `Withdrawer` | `bridge_withdrawer/`: `startup.rs`, `ethereum/watcher.rs`, `submitter/`, `mod.rs` |
| `Composer` | `astria-composer`: `executor/`, `collectors/geth.rs`, `composer.rs` |
| `Auctioneer` | `astria-auctioneer`: the event loop, the workers, the streams; the Sequencer's `event_bus.rs` and `grpc/optimistic.rs`; the rollup (external) |
| `Merkle` | operators: `astria-merkle`, the flat tree, its index arithmetic, proofs and audits |
| `SequencerBlock` | operators: `sequencerblock/v1/` of `astria-core`, the proposer's commitments, the gRPC service's storage of blocks |
| `BlockDelivery` | a block from its proposal through the relayer's payloads and Celestia to Conductor: `write/conversion.rs`, `celestia/convert.rs`, `verify.rs`, `reconstruct.rs`, `ExecutableBlock` |
| `ConductorProofs`, `SequencerReaderProofs`, `CelestiaReaderProofs`, `RelayerProofs`, `WithdrawerProofs`, `ComposerProofs`, `AuctioneerProofs` | the theorems about the module of that name, with their inductive invariants and lemmas |
| `SequencerProofs` | the same for `Ledger`, `Mempool` and `App`, one part for each |
| `MC...` | instances for TLC: sessions, the contents of Celestia, sample transactions, balances |

How they compose: `Conductor` extends `Executor`, which extends `ConductorState`.
`Executor` treats each reader as a feed that sends heights in order and may skip
what the executor has passed; `SequencerReader` and `CelestiaReader` model the
readers in full and refine `OrderedFeed`, which states these same steps.
`CelestiaReader` assumes of the contents of Celestia that a height is followed by
the next one or by a repetition from further back (`InclusionAssumption`);
`Relayer` checks that what it posts is like that (`PostedInOrder`). That the next
block is never further away than the look-ahead is an assumption about the
deployment that no component enforces.

The Sequencer's three modules meet at their borders. `App` takes from the mempool
an arbitrary queue of transactions and keeps of it only the fee it was costed
with; `Mempool` takes from the app blocks that change nonces, balances and fees;
`Ledger` takes for granted that `App` executes the same transactions everywhere.
`Withdrawer` and `Composer` see of the Sequencer a mempool by nonces and a chain,
as `Mempool` and CometBFT in front of it present them; it may drop what it has
accepted. `Withdrawer` establishes
what `Ledger` assumes of an honest withdrawer, that an event is reported as it
happened, and `Ledger` shows that one that reports it twice is not paid twice.

`BlockDelivery` extends `SequencerBlock`, which extends `Merkle`. It is about what
is in the blocks, while `Relayer`, `CelestiaReader` and `Conductor`, which know a
block by its height, are about when they arrive: `FirmIsSoft` is why they may
treat the soft and the firm block of a height as the same.

### Correspondence with the code

*Executor.* `pc` is the branch of the `select!` that is polled next, or the RPC
being awaited. An action is the code between two awaits; the readers run on
other threads, in between. The update of the commitments is two actions,
`UpdateCommitmentState` (the rollup applies it) and `ApplyCommitmentState` (the
answer arrives), so that a crash, a failure or a lost answer can come between
them. A rollup block is its number and the sequence of Sequencer heights
executed to build it: its hash. Transactions and deposits are left out.
`level` is the configured commit level, `rollup.live` whether the rollup still
honours the session it handed out.

*Sequencer reader.* An action is one iteration of `run_loop`. `poll_next` starts
as many fetches as there is room for and may yield a block in the same call.
The executor is reduced to the channel it drains and the height it publishes,
which both the soft and the firm blocks move on.

*Celestia reader.* An action is one branch of the `select!`;
`schedule_new_blobs` runs to its end before the next branch. Fetching, decoding,
verifying and reconstructing one Celestia height is a single action at its end,
since the task shares only the expected height with the others (a stale value
lets through only what the cache refuses). A restart keeps the two values the
rollup stores: the expected height and the lowest Celestia search height.

*Relayer.* `disk` is the submission-state file, which is replaced atomically by
a rename. A transaction is its nonce, its heights and its fee: a repeated attempt
has the same hash only if these agree. Celestia (external) accepts the account's
next nonce, holds one transaction at a time, includes it, includes it with an error
code (`IncludeFailed`, which uses up the nonce and posts nothing), or loses it.
Payload sizes are abstracted to `MaxBlocks` and `Oversized`, the blocks that are too
large even alone: `OversizedBlock`, or `TakeSubmission` when such a block was
pending, ends the submitter once the submission in flight is done, and every new start meets
the same block. The other errors that end the submitter stop the relayer as a
crash does.

*Mempool.* The containers are locked together by every operation that changes
them, which is one action; the removal cache and the tracked set are locked
afterwards, in a step of their own. A CheckTx request is a process of three
steps: look-ups, snapshot of nonce, balance and cost, insertion. What of a
container is over its time to live is a choice of the maintenance. The loops
that promote, demote and visit the accounts are recursive functions.

*App.* One validator; CometBFT (external) proposes, lets it process proposals of
its own and of others, also tampered ones, in several rounds, decides one,
and replays it after a crash. `interBlockState` is the delta in memory, `executionState`
the machine of `execution_state.rs`, `writeBatch` what FinalizeBlock leaves for
Commit. An action is a whole ABCI request. A transaction is what tells blocks
apart: a deposit, a fee change, a validator update, a currency pair. The loops over the
transactions of a queue or a block are recursive functions of the number of
transactions done (`Included`, `Checked`, `RunAll`). The mempool hands over a queue
without gaps in the nonces and ordered by group (`BuilderQueues`). Votes are the
validators they list, those that voted, the currency pairs' ids they price and
the mapping of ids to pairs the proposer adds; `VotesAccepted` compares the list
with the last commit and the mapping with the state's. The round and the flags of the last commit
are left out. An error of FinalizeBlock or Commit is a panic: it ends the consensus
task (phase "panicked"), and nobody watches that task or restarts the process.

*Ledger.* An action is a whole transaction, with all its actions and their fees,
the end of a block, or an IBC packet received, refunded or delivered. An action
that fails drops the writes of its transaction. What the accounts hold, what
is in packets and which withdrawals are open are sums over finite sets and
functions; transfers and withdrawals take any of `Amounts`. An ICS20 withdrawal names
its asset by trace or by `ibc/` hash, its refund goes to any of `Returns`, and whether
its memo parses as that of a rollup, which decides if the refund is a deposit, is free
too, but for withdrawals of a bridge account, whose memo must parse. The sudo and
withdrawer addresses of a bridge account are any of `Keys`, or left out.
`rollup.supply` and `outside` (what the counterparty's users hold, and what they hold
under a name that cannot come back, `stranded`) are external. Two sums are kept for
the properties alone: `shortfall.lent`, what the escrow paid for withdrawals that had
put nothing into it, and `shortfall.unbacked`, the deposits of returns that the escrow
could not pay. The ledger assumes that a withdrawer reports withdrawals that happened, with
their amounts, and that the key of a bridge account signs a bridge transfer, which
spends the signer's funds, only for events of its own rollup. `paid` is what a bridge
account paid in fees itself, which the code takes from the funds it holds for the rollup.

*Withdrawer.* A batch is the rollup height it comes from, a transaction its
height and nonce. An action is the code between two awaits of a task. A call to
the Sequencer may outlive the process. The last block stands for all later,
empty ones.

*Composer.* The rollup's transactions are numbers in the order of their nonces.
The collector's forward and the executor's branches are one action each, with
the priorities of the biased `select!` in the guards. `factory.lost` collects
what the code logs as dropped: refused by the bundle factory, not sent in time,
rejected by the Sequencer, or removed from its mempool after it was accepted
(`RemoveTx`: the failing transaction with all of higher nonces, or what has expired). The
executor is not told of a removal. `Shutdown` drains the channel and the factory in one
step, since nothing else runs in between; `Received` is what the drained channel
does to the factory, as a recursive function. The bundles are then submitted one by
one. A new process fetches the rollup's pool again.

*Auctioneer.* `auctions` holds the front (`Auction`) and the worker of every auction
so far, `running` the index of `running_auction`. A handler of the event loop is an
action, and so is each branch of a worker's biased `select!`. A poll of the event
loop polls every stream: an ended stream is "unpolled" until the next one. The
Sequencer's bus keeps its last event; a subscriber sees it or a later one. A rollup
block is the block it was built from and when.

*Merkle trees.* A hash is the term that was hashed, so that terms are equal exactly
if no collision is possible. Indices and bit operations are those of the code. `Pushed`
is the drop of a `LeafBuilder`, which places the leaf and hashes all its ancestors. The
width of `usize` is reduced to 12 bits (`UsizeMax`), far above the indices of any tree:
the walk to a parent that does not exist ends there, and the audit panics (`Panicked`).

*Blocks.* A transaction is the sequence of its rollup data submissions and bridge locks
(`RollupIds`, small data). A block hash is the chain and the height. The data per rollup is
grouped twice, as the code does: by the proposer for its commitment (`ProposedDatas`)
and by whoever builds the block (`BuiltDatas`); each walks the `HashMap` of the deposits
in an order of its own (`Orders`) before it sorts. `FinalizeBlock`
builds and stores a block in any layout: untyped, typed with or without upgrade hashes
and votes. Storing and reading, filtering, splitting, and the checks at each
receiver are operators, which the properties apply to every block and request.
A payload is one list of metadata and one list of data per rollup. Namespaces of
different rollups are assumed to differ. Celestia may hold a block of another Sequencer
chain under the same namespaces, which `verify_metadata` returns beside the others.

## Runs

| run | expected | distinct states | shows |
|---|---|---|---|
| `Conductor` | pass | 32,088 | the rollup is built from each Sequencer block once and in order, session ends are respected, its commitments move as `CommitmentLedger` says but for the step `RewindSoft` of firm-only mode, with every fault; everything is committed once faults cease |
| `ConductorFirmOnly` | violation | | a Conductor restarted in firm-only mode makes an update that lowers the soft number |
| `SequencerReader` | pass | 105,699 | refines `OrderedFeed` within bounded memory; every block is forwarded |
| `CelestiaReader` | pass | 44,880 | the search height reaches the next block across restarts, refines `OrderedFeed`; every posted block becomes firm, unless its blob was dropped or a foreign one of its height took its place |
| `Relayer` | pass | 621,956 | blocks are posted in order and none is skipped, the file is true and never goes back; everything before a block that is too large is posted and recorded, unless a transaction was lost or failed |
| `Mempool` | pass | 2,446,469 | pending is executable in order, the tracked set matches the pool, maintenance leaves only what is covered |
| `App` | pass | 267,852 | cached execution equals replayed execution, own proposals are accepted, the mempool's costs are current, decided blocks are committed unless the consensus task panics over a block it has executed before |
| `Ledger` | pass | 138,479 | assets are conserved, the escrow is backed but for what it paid for withdrawals by `ibc/` hash, bridge accounts are solvent but for deposits that followed from that |
| `Withdrawer` | pass | 778,998 | withdrawals in order, each once, and all in the end |
| `Composer` | pass | 624,976 | the order of the rollup's transactions survives, and each is executed, dropped for a cause, or stranded behind one that the Sequencer's mempool has removed |
| `Auctioneer` | pass | 1,068,717 | the winner has bid on a committed block; a block is sold once; an auction whose timer was started ends |
| `BlockDelivery` | pass | 9,954 | Merkle roots and audit paths are those of RFC 6962, and what an audit accepts for a path of the right length, a shorter and a longer one; proposals can be built, all forms of a block verify, data is bound to its rollup, the firm block is the soft one |

### Bounds

For the safety properties that have a theorem (see Proofs) the bounds only limit what
TLC explores; the proofs cover all other values.

- `Conductor`: two sessions, the first with an end and a gap in Sequencer heights
  before the second, look-aheads 2 and 1, heights up to 8, channels of capacity
  2, all three commit levels. This reaches the end of a session, the change to
  the next one, the bound on the soft lead from both sides, full channels, and
  restarts at another level. `MaxU64` and `MaxHeight` are small enough for the
  width checks to matter.
- `SequencerReader`: six heights with a stop at five, three fetches in flight
  and three ahead, channel of capacity 1: fetches overlap, complete in any order,
  and the channel is full while the next block is ready.
- `CelestiaReader`: five Celestia heights, blocks 1..5, two of them posted twice,
  one blob of a height that the Sequencer did not commit to, look-ahead 2, two tasks: the
  window is smaller than what is there to search, and the foreign blob can be
  executed in place of the block.
- `Relayer`: four blocks in batches of at most two, the last one too large, channel of
  capacity 1, two fees, four faults. `MaxFaults` bounds crashes, shutdowns, lost
  answers, timeouts of what could be confirmed, evictions and failed transactions;
  timeouts of what is lost anyway are not counted. With four faults a repeat can
  itself be repeated.
- `Mempool`: one account, nonces 0 and 1 and two transactions that compete for
  the latter, two concurrent CheckTx requests, one block that changes balance and
  fee, one parked transaction, a removal cache of two: stale insertions,
  promotion, demotion, eviction and a full queue all happen.
- `App`: heights 1..3 with the upgrade at 1 (votes from 3 on), two rounds, three
  validators, one of which may be byzantine and one be removed, five
  transactions: two exceed the limit on rollup data together, two remove the
  oracle's currency pair and add it again, one changes the fee; one crash. A block
  that carries votes has room for two transactions. Blocks before the upgrade have
  another encoding and no votes and are not told apart.
- `Ledger`: two accounts, of which one becomes a bridge account and the other holds its
  keys or not (`Founders`, `Keys`), two assets, one channel, transactions of up to two
  actions (`MaxActions`), two packets (`MaxPackets`), one withdrawal
  event (`MaxEvents`), one fee paid by the bridge account (`MaxPaid`), one deposit
  without funds per account (`MaxUnbacked`), `Amounts` of 1, refunds to either account. Two
  actions are what a replay within a transaction needs; two packets, one by trace and
  one by hash, are what it takes to pay for the latter from the escrow of the former.
- `Withdrawer`: blocks 1, 2 and 4 of five have withdrawals, queue of two, each
  kind of fault once: two restarts, each with a transaction in the mempool or on
  its way. The bridge account signs for itself.
- `Composer`: four transactions, one larger than a bundle; bundles of two bytes,
  one finished bundle, a channel of one, and two of the ten kinds of faults
  (`MaxFaults`), each once. All stages are full at the same time. Each kind once is a
  real limit, also of the proof: after a second removal, with a crash in between,
  bundles may be executed out of order.
- `Auctioneer`: two blocks of one height, two proposals, one bid per rollup block
  with a fee of 1, and one fault: a stream ends, a stream cannot be opened, or the
  process is stopped. Two proposals are what a cancellation needs, and a worker that
  submits while the next auction runs.
- `BlockDelivery`: two blocks with two transactions in all, three rollups, all layouts,
  two payloads of the relayer and, or not, a foreign block of height 1: blocks without
  data for a rollup, blocks posted twice and rollups that the relayer filters out. Two
  deposits in a transaction have two orders. Requests name up to two rollups. The
  transactions give trees of up to 7 and of 14 leaves, perfect or not; audits are made
  with the path of each leaf at each index.
- No run uses symmetry: heights, nonces and transactions are ordered.
- `CHECK_DEADLOCK FALSE` where the bounds on blocks, packets or transactions
  bring the model to rest: `Mempool`, `App`, `Ledger`, `Withdrawer`, `Composer`,
  `Auctioneer`, `BlockDelivery`.

### Fairness

- Weak fairness of the steps of each task: the runtime polls every task that is
  ready. The `select!` loops are biased, and the guards of the models follow this
  order, so no stronger fairness is needed to reach a later branch.
- RPCs, fetches and Celestia queries that are retried without limit in the code
  eventually succeed; the models never force a fault, and the liveness properties
  of Conductor assume only that faults eventually cease (`Calm`).
- A terminated process is started again by its supervisor (the deployments are
  Kubernetes pods). Celestia includes what it keeps in its mempool.
- `EventuallyAllCommitted` also assumes strong fairness of a session request that
  hands out the last session, and that the race at the stop height (below) is not
  lost for ever.
- `App`: CometBFT delivers a decided block and asks for its commit. Nothing is assumed of
  proposals and rounds, and nothing restarts the process after a panic: the panic
  ends the consensus task alone, which `run_until_stopped` does not watch, and
  the chart has no liveness probe. `DecidedIsCommitted` therefore names the panics that can
  occur; a crash of the whole process is followed by a restart and a replay.
- `Withdrawer`, `Composer`: the tasks go on, timers run out, the Sequencer checks and
  executes what it has, the supervisor restarts the process. No fault is ever
  forced. A call that fails 1024 times ends the process. `EventuallyExecuted` excepts
  what was dropped, and what waits in the Sequencer's mempool behind a removed nonce.
- `Auctioneer`: the workers' tasks are scheduled and their timers and timeouts
  expire. Neither the Sequencer nor the rollup has to answer or to send anything.
- `EventuallyFirm` allows for two more outcomes: Conductor waits at a height whose blob it
  has dropped since its last start (its commit could not be fetched, or its rollup
  data is missing), since it is not looked for again; and a foreign blob of a
  height is executed in place of the block.
- `EventuallyPosted` allows for two more outcomes: the relayer stops at the first block
  that is too large; and `try_submit`, which confirms a transaction without a timeout,
  waits forever if Celestia has lost it or included it with an error code.

## Findings

One statement of the repository is a run that TLC refutes, `ConductorFirmOnly`:
`specs/execution-api.md:156`, "No `UpdateCommitmentStateRequest` can ever decrease in
either `soft` or `firm` block number." In firm-only mode every firm block is executed on the
last firm one and committed at both levels (`should_execute_firm_block`,
`Update::ToSame`), also behind a soft commitment that a run at another level left
two or more blocks ahead. A rollup that follows the document (`:162`,
FAILED_PRECONDITION) refuses the update; the executor then ends with an error, at
every restart. The model's rollup applies it, and `RefinesLedger` names the step
(`RewindSoft`). Line 158 of the same document has the soft number increase with each
update; an update of only the firm block leaves it as it is.

Found while modelling, without a run of their own. Where a property makes an exception
for one of them, the exception is part of its definition:

- Sequencer, `ics20_withdrawal.rs`, "if we're the source, move tokens to the escrow
  account": an asset of the Sequencer that a withdrawal names by its `ibc/` hash counts
  as foreign (`is_source` of a `Denom::IbcPrefixed`) and is burned; the refund of the
  same packet resolves the hash and takes the tokens from the escrow, out of what
  others have sent by trace. `EscrowBacked` has this sum in it (`shortfall.lent`). A
  return that then finds the escrow short is answered with an error, but
  `receive_tokens` has recorded the deposit of a bridge account before, and the
  rollup issues tokens for which there are no funds: `BridgeSolvent` has these in it
  (`shortfall.unbacked`), and says that they occur only after the escrow was drawn on so.
  What is delivered under a hash cannot come back.
- Sequencer: the consensus service calls a failure of FinalizeBlock "a bug", and
  a test expects that executing a block during the proposal phase gives the same
  as executing it later. But `finalize_block` applies the prices to the state in
  memory: after the transactions if the block was executed before, ahead of them
  if not. A block that removes a currency pair and carries votes for it makes the
  validators that have processed it panic. The panic ends the task of the consensus
  service, which `run_until_stopped` (`sequencer.rs:127-141`) does not watch: the process
  stays up and answers no consensus request until it is restarted by hand, and then
  commits the block, which it has not executed before. The same panic follows when CometBFT restarts
  alone between FinalizeBlock and Commit, for the state of the executed block has been
  taken. `DecidedIsCommitted` excepts these two (`PanickedOnExecuted`). A block that
  removes such a pair and adds it again does not fail: a validator that has
  processed it prices the new pair, one that replays it prices the old one, which the
  block then replaces, and their states differ. `CachedEqualsReplayed` makes an
  exception for these blocks (`PricesReadded`), which the run reaches, and the proof
  shows that there are no others.
- Withdrawer: the branch that awaits the startup task is enabled "after checking if
  it's `Some`", but the check is `is_none()`: a failed startup is not noticed, and
  the other tasks wait for it.
- Auctioneer: a slow answer is met with "the cached nonce of the last successful
  submission". A worker that is cancelled while it submits still succeeds, but
  `handle_cancelled_auction` drops its nonce; the next auction falls back on an
  older nonce, which is taken, or on none.
- Auctioneer: a `RestartingStream` that ends calls its opener and returns `Pending`
  without polling the future, so nothing wakes the task. When the streams of one
  peer end together and no other stream yields, they are never opened again, though
  the code relies "on the reconnect logic of the underlying tonic channel".
- `executor/mod.rs:664` (Conductor): in soft-and-firm mode the soft reader may return
  at the stop height while its last block is in the channel and the soft branch is
  disabled by the bound on the lead; `handle_task_exit` then returns an error and the
  process ends instead of starting the next session.
- `celestia/verify.rs:94`, "Drops blobs that could not be verified": on a mismatch
  `BlobVerifier::verify_metadata` logs that it drops the blob and returns it. A block of
  another chain with a height at which the Sequencer has a commit is handed on
  (`FirmIsSoft`), and is executed in place of the Sequencer's block if it is
  found first (the exception of `EventuallyFirm`).
- `celestia/mod.rs`, `verify.rs`: a blob whose commit cannot be fetched is dropped, and its
  Celestia height is not fetched again until a restart.
- Merkle, `audit.rs:326-332`, an audit path of the wrong length "will simply result in an
  incorrect Merkle Tree Hash": with a path that is too long for its leaf index, `complete_parent` climbs past the root to `usize::MAX`, and `last_zero_bit`
  panics (three leaves, index 2, two segments). With one that is too short the result may
  be the right hash: of three leaves, the path of leaf 2 at index 1 shows leaf
  2. `AuditsAreExact` states all three cases.
- Relayer: a transaction that Celestia includes with an error code is polled for ever, as
  one that it has lost; and a block that is too large for a payload ends
  the relayer at every start.
- `mempool/mod.rs:282`, "this branch is not expected to be hit": an insertion with a
  snapshot from before the last block can promote a parked transaction whose nonce
  pending already holds. The promotion fails, the transaction is lost, and the id
  removed from the tracked set is that of the inserted one. `TrackedMatchesPool` makes
  an exception for such transactions (`dropped`); it happens with two parked
  transactions per account.
- `app/mod.rs`: votes that do not fit into a proposal are replaced by zero bytes,
  which cannot be decoded, so the proposer's own block would be rejected. Hence the
  assumption of `OwnProposalAcceptedHolds` that a block has room for all votes.
- `BridgeTransfer` takes the funds from the signer and checks no withdrawer, while
  `astria-core` calls its field "the address of the bridge account to transfer from."
- A bridge account may pay fees from the funds it holds for its rollup, and the
  check of the total cost charges unlocked amounts to the signer.
- `init_bridge_account.rs` says a bridge account "can no longer receive funds via
  TransferAction"; `transfer.rs` does not enforce it. Such funds are nobody's deposit,
  which `BridgeSolvent` allows.
- Withdrawer: with a withdrawer address other than the bridge account, the last
  transaction and the nonces that startup asks for are those of the bridge account,
  which signs nothing. It starts at the first block again, the transaction fails
  for its used event, and `wait_for_tx_inclusion` waits for ever (`BridgeSigns =
  FALSE`). It also does if a transaction expires in the Sequencer's mempool.
- Composer: an accepted transaction that the Sequencer's mempool removes, because it fails
  in a proposal or has expired, leaves a hole in the nonces. The executor counts it as
  done and does not fetch the nonce again: its later bundles are accepted and parked,
  and none is executed until a restart (`StrandedBehindRemoval`).
  "drain all the remaining bundles [...] to avoid any bundle loss": what is still in
  the channel at a shutdown is dropped if the finished queue is full.
- Auctioneer: a response to a submission counts as success whatever its code. If the
  bid stream cannot be opened it is over, and all later auctions are without bids; for
  the other streams the auctioneer exits. A commitment that is handled before the
  proposal of its block leaves the auction of that block without a timer.

## Proofs

Each `...Proofs` module proves that an inductive invariant `IInv` holds in every
reachable state (`Invariance`), that it contains the types (`TypeCorrect`), and from
it what the table says. `SequencerProofs` does so three times, with `IInv`,
`MempoolInv` and `AppInv` (`LedgerInvariance`, `MempoolInvariance`, `AppInvariance`, and
the same with `TypeCorrect`).

| module | theorem | property |
|---|---|---|
| `ConductorProofs` | `ChainIsCanonical` | `CanonicalChain` |
| | `FirmIsAncestor` | `FirmBelongsToSoftChain` |
| | `StateTracksRollup` | `TracksRollup` |
| | `PendingBlocksAreSoft` | `PendingMatchesSoftChain` |
| | `LeadIsBounded` | `SoftLeadBounded` |
| | `BlocksAreInOrder` | `NoBlockOutOfOrder` |
| | `SessionEndHolds` | `SessionEndRespected` |
| | `NeverReverts` | `CommitmentsNeverRevert` |
| | `ImplementsLedger` | `RefinesLedger`, by step simulation; no step but `RewindSoft` is outside the ledger |
| `SequencerReaderProofs` | `ReaderMemoryBoundedHolds` | `ReaderMemoryBounded` |
| | `ImplementsOrderedFeed` | `RefinesOrderedFeed`, by step simulation |
| `CelestiaReaderProofs` | `SearchHeightReachesNextBlockHolds` | `SearchHeightReachesNextBlock` |
| | `ImplementsOrderedFeed` | `RefinesOrderedFeed`, by step simulation |
| `RelayerProofs` | `PostedInOrderHolds` | `PostedInOrder` |
| | `FileIsTrueHolds` | `FileIsTrue` |
| | `FileNeverGoesBackHolds` | `FileNeverGoesBack` |
| `SequencerProofs` | `AssetsConservedHolds` | `AssetsConserved` |
| | `EscrowBackedHolds` | `EscrowBacked` |
| | `BridgeSolventHolds` | `BridgeSolvent` |
| | `PendingExecutableHolds` | `PendingExecutable` |
| | `TrackedMatchesPoolHolds` | `TrackedMatchesPool` |
| | `MaintenanceCoversHolds` | `MaintenanceCovers`, of every step |
| | `MempoolCostsCurrentHolds` | `MempoolCostsCurrent` |
| | `OwnProposalAcceptedHolds` | `OwnProposalAccepted`, if `Cardinality(Validators) < MaxTxBytes` |
| | `CachedEqualsReplayedHolds` | `CachedEqualsReplayed` |
| `WithdrawerProofs` | `NoWithdrawalSkippedHolds` | `NoWithdrawalSkipped` |
| `ComposerProofs` | `ExecutedInOrderHolds` | `ExecutedInOrder` |
| `AuctioneerProofs` | `WinnerExtendsCommittedBlockHolds` | `WinnerExtendsCommittedBlock` |
| | `SoldOnceHolds` | `SoldOnce` |

`FirmBelongsToSoftChain`, `PendingMatchesSoftChain`, `SoftLeadBounded` and
`CommitmentsNeverRevert` are properties of the proofs alone; the runs check all the
others. The theorems are about `Spec` (`MempoolSpec`, `AppSpec`), without fairness, and
hold with every fault the model has, however many there are; only `Composer` has each kind of fault once.

### Assumptions

They are named, stand in the module that declares the constants, and TLC evaluates
them on every run.

- `Conductor`: sessions cover disjoint, increasing ranges of rollup numbers and
  only the last one may be open-ended; start heights are at least 1; channels
  have room for at least one block (`SessionsAssumption`, `WidthAssumption`,
  `ExecutorAssumption`, `LevelsAssumption`). The rollup node answers as the execution
  API says, or with an error, but for the update that lowers the soft number, which the
  model's rollup applies.
- `SequencerReader` (`ReaderAssumption`), `Relayer` (`RelayerAssumption`), `Composer`
  (`CapacityAssumption`), `Auctioneer` (`AuctioneerAssumption`): capacities, batches
  and look-aheads are at least 1; the relayer's oversized blocks are any of its heights.
- `CelestiaReader` (`InclusionAssumption`): the first block is found within the
  look-ahead, and so is each next one from the one before it, as said above.
- `Withdrawer` (`HeightAssumption`): the last height, which stands for all later
  ones, has no withdrawals.
- `Ledger` (`LedgerAssumption`): finitely many accounts with balances that are
  natural numbers; at first the counterparty holds nothing of the Sequencer's own
  asset. Nothing is assumed of how withdrawals name their asset, of return addresses,
  memos, or the keys of bridge accounts.
- `Mempool` (`MempoolAssumption`): finitely many submitted transactions with natural
  nonces and costs, natural balances and fees, a removal cache with room for one.
- `App` (`AppAssumption`): finitely many transactions and validators; the signers
  and the sudo address have accounts, fees are natural numbers, the genesis state is
  a state of the chain, and has vote extensions enabled only if the upgrade is
  behind it. `OwnProposalAcceptedHolds` also assumes that a block has room for the
  commitments and the vote of every validator, for the reason given under Findings.

### Arguments

No property is inductive by itself; each depends on what is under way between the
parts. The invariants describe that.

*Conductor.* Whether the block executed next is canonical depends on what is in the
channels, and that on what the readers will send. `FirmFeedInv` says that the firm
channel and the firm reader continue exactly where the firm commitment ends
(counting the block in progress, `FirmBase`); `SoftFeedInv` that every soft height
either is not beyond the next expected one or directly follows the one before
it, so that what the executor does not drop leaves no gap; `CurInv` describes the
block in progress between its RPCs; `PendingInv` the blocks awaiting finalization;
`RollupInv` says that the rollup is at the tracked state or at the one asked for.
Canonical blocks of the same number are equal (`CanonicalUnique`), which turns
facts about numbers into facts about chains: that the firm block is an ancestor
of the soft one follows from both being canonical.

*Sequencer reader.* Requests in flight and cached blocks lie within the look-ahead of
the height that the rollup was last seen to expect (`FetchInv`, `CacheInv`), which
bounds their number. For the refinement the block that waits for room must be the one
before the cache's next height, or all that lies between them be behind
the executor (`EnqueuedInv`).

*Celestia reader.* The block in hand, the channel, the waiting block and the
cache's next height follow each other without a gap (`FeedInv`), and every block was
reconstructed from the Celestia height it names (`CacheInv`). So the search height,
which is taken from a block when the rollup commits to it, never passes the
place where the next block is.

*Relayer.* What Celestia holds is a sequence of batches with increasing nonces (failed
transactions use nonces too), none of which begins behind a gap (`CelestiaInv`);
at most one transaction waits in its mempool, with the account's next nonce (`MempoolInv`). The file records a batch that
is there, and while it is "prepared" the batch it names follows the recorded
one and at most one transaction has been included since (`DiskInv`): this is what
makes a retry of a submission with unknown outcome harmless. `OngoingInv` ties
the submission in flight to the file, `ReaderInv` and `MemoryInv` say that the batch,
the pending block, the channel and the block stream are one run of heights.

*Ledger.* Conservation needs the identifiers of packets and withdrawals to be fresh
(`FreshIds`, `EventsInv`), so that what is taken from a sum was in it. Solvency is a
bound per bridge account, `Backing >= Owed`, over deposits, supply and open
withdrawals; it needs that an account has no claims before it becomes a bridge account,
and the equation of the escrow, from which follows that a return is short of funds only
if the escrow has paid for what it did not get (`ShortfallInv`). `StateInv` is
preserved by each action of a transaction, and so by the transaction (`BundleKeeps`) or, if an action fails, by
dropping its writes.

*Mempool.* An insertion uses a nonce and a balance that may be older than the last
block. `ChecksInv` says that the nonce it read is never ahead of the chain's, and that
is enough: a transaction is taken into pending only right behind another or at the
nonce that was read, so from the account's nonce to any pending one there is no
gap (`NoGap`, `OnePerNonce`), although stale ones may remain until the next maintenance.
What the maintenance and `remove_tx_invalid` have taken out stays tracked until the
removal is recorded (`DropsInv`), so that no request inserts it in between; a request that
has passed `is_tracked` holds a transaction that is neither tracked nor held by
another request. Promotion, demotion and the visit of all accounts are followed one
transaction and one account at a time: `MovedInto` says what a container and the failed
moves share after a loop, and that demotion leaves a set covered by the balance
follows from costs being sums over an initial segment of the nonces.

*App.* Only `Unset` and the mismatches say nothing of the state in memory; otherwise
it is the execution of the block the machine names, on the committed state
(`CacheIsOfBlock`), and every block proposed or decided may follow that state
(`BlocksFollow`); a decided one prices only pairs that this state knows (`PairsKnown`).
Three lemmas compare the three ways a block is executed.
What `prepare_proposal` includes is accepted one by one by `process_proposal`, from the
same state and with a group that is not lower (`Accepted`, `IncludedAccepted`); what
`process_proposal` accepts, `finalize_block` executes without an error and to the
same state (`CheckedAgrees`). That prices may be applied before or after the
transactions is a simulation between two states that differ by the prices (`Twin`):
every transaction keeps them apart by just the prices, unless it adds a pair that is
priced, which is possible only if an earlier one removed it. `RecostFlagged` says that
the flag is set whenever the state in memory or in the write batch has other fees
than the committed one, whichever proposal set it.

*Withdrawer.* `Ready(h)`, that all withdrawals below `h` are executed, holds of every
transaction made, in the submitter's hands, on the wire or pending, and stays true
once it is (`TxInv`, `SubmitterInv`); what lies below a batch in the queue, or below
the next block of the watcher, is executed, being submitted or in front of it
(`QueueInv`, `WatcherInv`). After a restart only the height recovered from the
Sequencer is known, and `StartupInv` says that it is ready. None of it depends on which
account signs.

*Composer.* The whole composer is one pipeline: the Sequencer's mempool by nonces, the
bundle being submitted, the bundles of a shutdown, the factory, the channel and the
existing transactions; each stage is in order behind what is ahead of it
(`StagesInOrder`, `SequencerInv`). A transaction on the wire may outlive its
process. Until the Sequencer's mempool removes a transaction no nonce leaves a gap
(`NoGap`). Afterwards the composer's `Cursor`, the nonce it uses next, may be ahead of the
pending nonce: then nothing has a higher nonce (`CursorInv`), and what is parked in
between counts as executed before its bundles only as long as nobody may take
the cursor's nonce, which would make it fetch a nonce and fall back behind them
(`Contested`, `Reach`).

*Auctioneer.* What a stream carries has happened (`StreamInv`, `BidsInv`); an auction's
bids are on what the rollup made of its block, and its timer is started only for a
committed block (`AuctionsInv`). `SoldOnce` rests on a commitment existing once, as an
event not yet seen, in the stream's queue, or as the timer of one auction
(`CommitmentInv`), and on a block being committed once (`ChainInv`).

There is one lemma per action, with a step for each part of the invariant that the
action can disturb. Each invariant was checked with TLC on the constants of its run.
Where a proof needs induction over data (the sums of `Ledger` and `Mempool`, the
transactions action by action, the loops of `Mempool` and `App`, `Received` of
`Composer`, least nonces) it takes a least counterexample
from the well-foundedness of the natural numbers (`WFMin`), since the library's
induction theorems cannot be instantiated.

### Only model-checked

- All liveness properties: fairness and ENABLED are out of the prover's reach.
- `BlockDelivery`: `Merkle` and the modules above it have RECURSIVE operators and
  bit operations, which the prover does not take.

## Not modelled

- Encodings of messages: protobuf, compression, signatures. Where their outcome
  matters it is an input.
- The quorum check of commits (`block_verifier.rs`), the rate limit of the
  verification client, health states, APIs and metrics.
- In the Sequencer: the IBC core (a library), extending and verifying a vote, the
  round and the flags of an extended commit, the market map, sudo and relayer
  address changes, which write one key each; the
  gRPC queries that read one stored value.
- The gRPC collector of the composer, which is stateless; what an allocation contains
  and how the auctioneer signs it; the generated code, and the clients built on it.
  `PROJECT.json` gives the reason for each component.

The map covers some 13,000 of the repository's 148,000 lines of code. About 57,000 of the
others are generated (protobuf types and their serialization, contract bindings); most
of the rest are unit tests, conversions between protobuf and native types, error types,
builders, configuration and metrics, which keep no state a model could be about.

## Plan

1. *Done.* Conductor with its proofs, the readers, the relayer; the Sequencer's
   mempool, application and ledger; the withdrawer, the composer and the auctioneer;
   Merkle trees and the contents of blocks on their way to a rollup.
2. *Done.* The safety properties of the readers, with the refinement of
   `OrderedFeed`, of the relayer, the Sequencer's ledger, mempool and application, the
   withdrawer, the composer and the auctioneer, proved for all values of their
   constants.
3. Next: what the inductive invariants give beyond the properties of the runs
   (how often a batch, a withdrawal or a bundle can be submitted, which errors of the
   readers cannot occur); a form of `Merkle` without RECURSIVE operators, so that
   `BlockDelivery` can be proved about.
