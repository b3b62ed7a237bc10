# Verification of zerium

TLA+ models of the parts of zerium (a node of the go-ethereum family, Go) whose
correctness depends on long sequences of operations, on interleavings, or on
where a process dies. TLC checks every module on a small instance; TLAPS proves
the central invariants for every instance. `PROJECT.json` maps each definition
to the lines it translates.

    tlc -workers 2 -config Chains.cfg MCChains         # a run
    tlapm FetcherProofs.tla                            # the proofs of a module

## The system

| Part | State | Operations that change it | Hard to test |
|---|---|---|---|
| clique engine (`consensus/clique`) | snapshot: signers, recent signers, votes, tally | verifyHeader, verifySeal, Seal, Snapshot.apply | a cached tally over many blocks; a window that shrinks; unsigned arithmetic near genesis |
| transaction pool (`core/tx_pool.go`, `tx_list.go`, `tx_journal.go`) | pending and queued lists, known hashes, virtual nonces, heartbeats, locals, journal | AddLocal, AddRemotes, SetGasPrice, reset, eviction, rotation, start | four copies of the same information; limits that depend on each other; reorgs; restart |
| header chain (`core/headerchain.go`, `light/lightchain.go`) | headers, difficulties, canonical numbers, head | InsertHeaderChain, SetHead, Rollback | what a rewind leaves of side branches |
| block chain (`core/blockchain.go`) | blocks, states, difficulties, lookups, numbers, three heads, future blocks | InsertChain, InsertHeaderChain, InsertReceiptChain, FastSyncCommitHead, SetHead, Rollback, start | a crash between two writes; fast sync against rewinds; locks |
| block fetcher (`zrm/fetcher`) | announcements, requests, import queue, timers | Notify, Enqueue, FilterHeaders, FilterBodies, done, two timers, expiry | goroutines against the loop; lost wake-ups; counters |
| downloader (`zrm/downloader`) | task queue, pending requests, results | reserve, deliver, expire, revoke, cancel | late answers; throttling; cancellation |
| protocol manager (`zrm/handler.go`, `sync.go`) | peers, known sets, sync state | message handlers, syncer, txsync | peers that leave in the middle |
| miner (`miner`) | current work, agents, pause flags | update, commitNewWork, wait, start, stop | stale work; start and stop against a sync |
| event feeds (`event`) | subscriptions, send cases | Send, Subscribe, Unsubscribe | a receiver that leaves during a send |
| chain indexer (`core/chain_indexer.go`) | sections, known heads, children | newHead, updateLoop | a reorg below a section being processed |
| p2p server (`p2p`) | peers, dials, handshakes | run loop, dialstate | limits against concurrent handshakes |

How they interact: a block arrives through the protocol manager, which hands it
to the fetcher (single blocks) or the downloader (ranges); both import into the
block chain, as the miner does; the consensus engine judges every header; the
block chain's head events drive the transaction pool, the miner and the
indexers. The other parts (virtual machine, state and tries, proof of work,
accounts, RPC, light protocol, whisper, swarm, tools) are listed in
`PROJECT.json` with the reason why they are not modelled.

## Modules

| Module | What it models |
|---|---|
| `ChainTree` | the tree of blocks that the chain modules share: parent, number, difficulty, and the branch (`line`) of a block |
| `CliqueVoting` | the rules of clique as operators on a snapshot: `verifyHeader`, `verifySeal`, `Seal`, and the stages of the loop body of `apply` |
| `CliqueSnapshot` | one chain of clique blocks: a header that is accepted becomes the head, and `apply` computes its snapshot (`stuck` when it refuses) |
| `CliqueBallot` | what voting promises: ballots, a majority, a change of sides. `CliqueSnapshot` implements it (`BallotRules`) |
| `TxPool` | the pool as one record that the code's methods transform; every entry point holds `pool.mu`, so each is one action |
| `HeaderChain` | headers, difficulties, canonical numbers and head of `core.HeaderChain` as the light chain drives it |
| `BlockChain` | the database and the memory of `core.BlockChain`; an operation is the series of databases its writes go through, and a crash keeps any of them |
| `Fetcher` | the fetcher's loop step by step, its import goroutines, and a chain that others extend as well |
| `MCChains` | a light node (`HeaderChain`) and full nodes (`BlockChain`) on one tree |
| `MC...` | constants for TLC: small trees, transactions and accounts |
| `CliqueProofs`, `HeaderChainProofs`, `FetcherProofs` | theorems and proofs |

State and actions carry the source's names. A block, header or hash is one
model value; a transaction is its sender, nonce, price and cost; signatures,
gas, receipts, wording and metrics are left out. Where the code depends on the
order of a Go map, on a coin toss between branches of equal difficulty, or on a
tie in a heap, the model has all outcomes.

**Clique.** `Extend(h)` takes every header that `verifyHeader` and `verifySeal`
accept. Addresses are numbers, with 0 the zero address, since the order of
signers decides who is in turn. `uint64` arithmetic is modulo `Word`; `Epoch`
is small so that resets happen. `Keys` are the addresses somebody can sign for,
all but 0: votes can make the zero address a signer, and when it is one of two,
the other has to wait for a block that never comes. `SignerAvailable` is claimed
while more than half of the signers hold keys.

**Transaction pool.** `AddLocal`, `AddRemotes`, `SetGasPrice`, `Evict`,
`RotateJournal`, `NewHead` (reset, with the reinjection of an abandoned branch,
promotion and demotion in the code's order) and `Restart`. The lists of an
account are the transactions of that account in one set. `config`, chosen at the
start, is the pool that is looked at: its limits, its transactions and the heads
it may see. `forked` is a history variable: some properties hold only as long as
the chain never changed branch, and say so. Of a transaction's validity the
nonce, the balance and the price are modelled; size, signature and gas are taken
to be in order.

**Header chain.** `InsertCanonical`, `InsertSide`, `InsertPanics` and
`InsertHeadless` are the ways in which WriteHeader ends. Rollback ends at a
stored header (`Rollback`) or makes the nil that GetHeader returns the head
(`RollbackLosesHead`). `rewound` and `rolledBack` record the history that the
properties depend on.

**Block chain.** InsertReceiptChain and FastSyncCommitHead read the database
before they take the lock; they are split into steps, with `mem.job` as their
program counter and the last block they brought. `env`, chosen at the start, says
what may happen to the node:

- `late`: blocks ahead of the clock. `futureBlocks` is a queue of
  `maxFutureBlocks` that gives up its oldest; `mem.evicted` records which.
- `fast`: a fast sync before full imports. Its bodies come in order from the
  origin that `findAncestor` picks. The code asks for a known header only. The
  environment `bare` has origins without a body; without it the origin has one.
- `rewind`, `rollback`: SetHead at any time, Rollback of any stretch of headers.
- `crash`: the process dies after any single write, and starts again.
- `light`: the node is the light one; no action of `BlockChain` happens.

`mem.raced` records that a rewind fell between the check and the commit of a
pivot. Each property names the environments it is claimed for, and its comment
says what goes wrong in the others.

**Fetcher.** `pc` is where the loop is. `Expire` reads the height; `Drop`,
`insert` and `Wait` work through the queue; then one event is handled. Import
goroutines (`VerifyHeader`, `InsertChain` and their failures) run in between.
A peer delivers anything at any time, or nothing. `fetched` holds the blocks of
`fetching` whose header came: in the code both have the same announcement. A
timer that is armed for an empty map is not kept, as its tick does nothing. The
queue is ordered by the number as a float32 (`Float32`); the runs stay below 2^24,
where the order is exact.

## Runs

| Run | Configuration | Shows |
|---|---|---|
| `clique` | 3 signers, 3 addresses and the zero address's votes, epoch 6, 8 blocks | the tally counts the votes; one vote per signer and account; the recent list keeps to its window and never blocks everybody; sealing and applying agree; acceptance and applying agree from height `Limit` on; a checkpoint changes no signers; the voting refines `CliqueBallot` |
| `clique_near_genesis` | 4 signers | **violated**: verifySeal accepts a block near genesis that apply refuses |
| `txpool` | 3 pools: 3 accounts and 10 transactions in a pool of 3 + 2 with restarts; 5 transactions in a pool of 2 + 1 whose head moves; 6 competing transactions with room, all chains of up to 2 blocks, balances rise and fall | one listed transaction per nonce; bounds; guaranteed slots; local transactions are kept, also over a restart; pending lists are executable, from the front at least after a reorg; nothing executable is queued; heartbeats follow the pending lists; a reorg loses nothing |
| `txpool_orphans` | the pool of 3 + 2 | **violated**: every known transaction is listed |
| `txpool_gap` | the pool with room | **violated**: the virtual nonce follows the last pending transaction |
| `chains` | 10 blocks, 4 branches of different lengths and weights, 2 transactions; a light node with rewinds and rollbacks; full nodes with late blocks, or rewinds, or crashes, or a fast sync with rewinds, rollbacks, crashes or bare origins | headers: numbers spell the head's chain; the heaviest branch wins; no nil dereference; SetHead clears what is above. Blocks: fork choice, lookup entries, future blocks, numbering; the three heads are usable and the chains below them complete; no self-deadlock and no missing block is dereferenced |
| `header_panic` | the light node | **violated**: WriteHeader returns for every header whose parent is known |
| `chain_header` | the full node | **violated**: the head header is never behind the head block |
| `chain_stored` | the full node | **violated**: after every single write the head block on disk is stored |
| `chain_commit` | a fast sync with rewinds | **violated**: the block that FastSyncCommitHead makes the head exists |
| `fetcher` | 2 blocks on a side branch, 2 peers | queue and counts exact, timers armed, one phase per block, the announce count never leaks upwards, every import wakes the queue (liveness) |
| `fetcher_limit` | the same | **violated**: a peer has no more blocks announced than the limit |

*Bounds.* Trees are chosen so that every relation between two branches occurs:
longer and lighter, shorter and heavier, tied, forking above and below one
another. A fast sync, and a node that crashes, see one fork of this tree, and a
fast sync with rewinds only its first two heights: the races are between the
steps of one sync, and a reorg is enough to tear. Two
future blocks are enough to evict the parent of a queued block. Clique's height
passes the epoch and twice the window. The pools' limits are just below what the
transactions add up to, or out of reach. `MaxDrift` lets a peer of the fetcher go
on announcing until its count is two behind, enough to reach an announcement
while a body is requested; without a bound the count falls forever
(`fetcher_limit`). Deadlock is not checked: bounded chains end, halted nodes
stop, and a stopped fetcher does nothing.

*Fairness.* Only `ImportWakesQueue` needs it. Goroutines run (weak fairness of the
loop's own steps and of the imports). A finished import waits on the channel
`done`; `select` chooses at random among the channels that are ready, so it is
not passed over forever, although other events keep coming (strong fairness of
`Done`). Nothing is assumed about peers, timers or the rest of the node.

*Violations.* Eight runs show that the code does not do what a comment, or a
test, of the code says; `findings` in `PROJECT.json` quotes each. What holds
instead is stated by a passing property: `AcceptedApplies` (clique),
`OneTxPerNonce`, `PendingStarts` (pool), `NeverPanics` (headers),
`BlocksAreChain`, `HeadsComplete`, `HeadsUsable` (blocks), `CountNeverLeaks`
(fetcher). Some hazards are known to go wrong without a run of their own: SetHead
after Rollback leaves numbers above the new head; the queue's overflow drops the
most recently active account first; a fast sync that began at a bare header, or
that was rewound, can make Rollback and WriteHeader dereference a missing block.
Their notes in `PROJECT.json` say which property excludes them.

## Proofs

All are proved for every value of the constants that satisfies the named
assumptions: `AddressAssumption`, `GenesisAssumption`, `EpochAssumption`,
`WordAssumption`, `MaxNumberAssumption` (clique); `BlockAssumption` and
`LineAssumption` (a finite or infinite tree of blocks that all descend from the
genesis, heights bounded by `MaxNumber`); `FetcherAssumption` (limits are
naturals, `None` is no peer).

**Clique** (`TypeCorrect`, `TallyCorrect`, `VotesCorrect`, `RecentsCorrect`,
`AcceptedCorrect`). `IInv` says that the snapshot is finite and well typed, the
tally counts the votes, votes are unique by block and by pair of signer and
account, and the recent list fits the window. None of these is inductive alone:
that `uncast` finds a vote needs the tally, and that `Enact` closes exactly the
right votes needs uniqueness. The proof goes through the stages of `apply`;
`VotesMakeSense` is broken for one account in the middle and restored.

**Header chain** (`TypeCorrect`, `CanonCorrect`, `SetHeadClearsCorrect`,
`NeverPanicsCorrect`, `HeaviestCorrect`). `ChainInv`: numbered headers are
stored and linked, the head is numbered, and above it nothing is (after a
rollback: nothing unlinked). It is claimed for histories with rewinds or with
rollbacks, not with both, where the head is never nil (`HeadIsBlock`). `ImportInv` adds that parents of stored headers
are stored, without which the walk of WriteHeader could meet a hole, and that
the head is heaviest. That two branches that meet agree below is shown by a
least counterexample, since induction theorems cannot be instantiated here.

**Fetcher** (`QueueCorrect`, `QueueCountCorrect`, `OnePhaseCorrect`,
`TimersCorrect`). Two independent invariants. `QueueInv`: `queued` is the
disjoint union of the queue and the imports, and each count is the number of
blocks held for that peer, a finite set. `PhaseInv`: phases exclude each other
and a non-empty map has its timer armed; `forgetHash` only ever takes away, and
the two timer events move blocks only between phases.

Only model-checked: the pool and the block chain (their operators work on whole
records and sets of outcomes; splitting them into provable parts is planned),
`SignerAvailable`, `SealMatchesApply`, `CheckpointKeepsSigners` and
`BallotRules` of clique, `CountNeverLeaks` (a sum over all blocks) and the
liveness of the fetcher, which TLAPS cannot prove.

## Plan

1. `Queue`: the downloader's task queue (ScheduleSkeleton, Schedule, Reserve,
   Deliver, Expire, Revoke, Cancel, throttling, WaitResults): every scheduled
   header is in exactly one of task queue, request, done; results leave in
   order; an abstract specification "each block once, in order" to refine.
2. `Worker` and `Miner`: stale work, pause and resume around a sync.
3. `Feed`: Send against Subscribe and Unsubscribe; every subscriber of the
   whole send gets the value once; no deadlock with a receiver that leaves.
4. `ChainIndexer`: sections against reorgs and crashes.
5. `Handler`: known sets, broadcast, syncer; composition of `Fetcher` with
   `BlockChain`.
6. Proofs: `QueueWaits` and `OneTxPerNonce` of the pool for its single steps;
   `BlocksAreChain` for imports; `BallotRules` as a refinement
   theorem; the invariants of the new modules.
