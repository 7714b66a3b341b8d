# TLA+ models of the opinit-bots withdrawal Merkle engine

This directory holds TLA+ models of the opinit-bots executor code that is in `src/`.
The models are checked with TLC. The centre is the incremental Merkle tree engine
(`src/merkle/merkle.go`, lines 1-339) and the executor that drives it block by block.
The engine builds one withdrawal tree at a time, persists it so the bot can restart
in the middle of a tree, seals it, and serves inclusion proofs.

## 1. Inventory

### Components and their state

| Component | Source | State | Operations |
|---|---|---|---|
| Merkle engine | `src/merkle/merkle.go:1-339` | in memory: `workingTree` (Index, StartLeafIndex, LeafCount, LastSiblings, Done); in the store: `node/<tree,height,index>`, `working_tree/<version>`, `finalized_tree/<startLeaf>` | NewMerkle (commutativity self-test), InitializeWorkingTree, InsertLeaf (+saveNode), fillLeaves, FinalizeWorkingTree, Save/LoadWorkingTree, DeleteFutureFinalizedTrees, DeleteFutureWorkingTrees, Height, GetProofs (+getNode) |
| KV store | outside `src/` | keys to bytes | Get, Set, Delete, PrefixedIterate, SeekPrevInclusiveKey, RawBatchSet |
| Child executor (tree caller) | `src/unnamed/part_000:172-272`; the handlers are outside `src/` | sync info (last processed height), the end-of-block batch | Initialize (restart cleanup via DeleteFutureWithdrawals), prepareTree, withdrawal handler, handleTree, endBlockHandler |
| Node persistence | `src/merkle/merkle.go:340-531` (node/db.go, with unresolved merge-conflict markers) | `LastProcessedBlockHeight`, `pending_tx/<seq>`, `processed_msgs/<timestamp>` | Save/loadSyncInfo, save/deletePendingTx, loadPendingTxs, PendingTxsToRawKV, ProcessedMsgsToRawKV, load/deleteProcessedMsgs |
| Node broadcaster preparation | `src/unnamed/part_001` | keyring, `pendingTxs`, `pendingProcessedMsgs`, `txChannel` | NewNode, prepareBroadcaster, Start, Register*Handler |
| Batch submitter | `src/unnamed/part_000:1-171` | batchInfos (under a mutex), last submission time, batch file | Initialize (dequeue stale batch infos), LoadSubmissionInfo, SubmissionInfoToRawKV |
| Host provider | `src/provider/host/host.go` | `msgQueue` per sender, `processedMsgs` | Append/EmptyMsgQueue, Append/EmptyProcessedMsgs, BroadcastMsgs |

### How they interact

The child executor is the only writer of the engine. All calls are synchronous and
happen in one goroutine (spec section 5).

For each L2 block the executor does the following:
1. It reloads the working tree saved at the previous height. A sealed (Done) snapshot
   becomes the next, empty tree.
2. It inserts one leaf per withdrawal.
3. At the end of the block it may finalize the tree. The engine pads the tree, returns
   the finalized-tree record as a KV batch, and sets Done.
4. It saves the working tree under the block height. This is a direct store write.
5. It commits the finalized-tree record and the sync info in one atomic batch.

Node writes (`saveNode`) and working-tree saves are direct store writes. They reach disk
before the batch, so a crash can separate them from it. On start, `BaseChild.Initialize`
(outside `src/`) returns the next L2 sequence of the processed height, and
`Child.Initialize` (part_000:242-259) then calls `DeleteFutureWithdrawals` when that
sequence is not 0. That call deletes the finalized trees from the sequence onward and
the working trees saved after the height.

The node layer persists pending txs and processed msgs. On restart
`prepareBroadcaster` waits out the tx timeout, turns pending txs back into processed
msgs and rewrites everything in one batch before broadcasting.

### What is hard

- Crashes between direct writes and the batch commit, followed by replay of the same
  blocks into a tree whose nodes are already on disk.
- The tree boundary. It is crossed only by `LoadWorkingTree` seeing Done, and
  `InsertLeaf` never refuses a sealed tree.
- Numeric edges: the height of 0, 1 and power-of-two counts, the padding bound in
  GetProofs, and taking the padding back out of LeafCount.
- The restart cleanup. Its delete cutoffs are a leaf sequence and a version, and they
  must agree with what replay rebuilds.
- In the node layer: re-timestamped processed msgs, a timeout racing a late inclusion,
  and clock-tick key collisions.

### What makes each component correct

- **Engine**:
  - Every served proof folds into the stored root.
  - Proofs exist for exactly the unpadded leaves of stored trees.
  - The incremental root equals the reference Merkle root of the padded leaves.
  - The stored trees tile the leaf sequence.
  - A committed record is never replaced.
  - Every withdrawal eventually becomes provable.
- **Node recovery**:
  - No saved msg is lost across crashes and restarts.
  - The store holds at most one record of a msg.
  - No msg is executed twice.
- **Node recovery**, liveness: every saved msg is eventually sent, even when a crash
  emptied the channel.
- **Engine construction**: an engine exists only with a commutative generator (this is
  violated, see `node_generator`).
- **Engine under a corrupt store**: the engine never holds a tree with index 0 (this is
  violated, see `withdrawal_tree_corrupt`), and stopping on the error keeps every proof valid.
- **Host buffers**: each sender's queue reads back exactly the msgs appended since the
  last reset.
- **Batch submitter**: the dequeue keeps a non-empty suffix that starts at
  the first batch info still relevant to the node height.

## 2. Modules

### `Merkle.tla`: the engine and its key spaces

| TLA+ | Code |
|---|---|
| `workingTree` | `Merkle.workingTree` (`Nil` is the nil pointer) |
| `nodes` | `node/` keys, written by `saveNode` |
| `workingTreeDB` | `working_tree/<version>` |
| `finalizedDB` | `finalized_tree/<startLeafIndex>` |
| `Pair(a,b) == {a,b}` | `NodeGeneratorFn`. It is an ideal hash: commutative and collision free, which is the contract at merkle.go:15-18. |
| `InsertLoop`, `InsertLeafOp`, `InsertLeaf` | the loop of `InsertLeaf` with `saveNode`, run as one step |
| `Repeat`, `FillLeaves` | `fillLeaves` |
| `FinalizeResult`, `FinalizeWorkingTree` | `FinalizeWorkingTree`. It returns the kvs, which the caller commits. |
| `LoadWorkingTree`, `SaveWorkingTree`, `InitializeWorkingTree` | same names |
| `DeleteFutureFinalizedTrees`, `DeleteFutureWorkingTrees` | same names, as functions of the store |
| `SeekPrevFinalized`, `GetProofs` | `GetProofs` with `SeekPrevInclusiveKey` and `getNode` |

The JSON encoding of TreeInfo is lossless, so a save followed by a load keeps the
record. The exception is a stored value that no longer decodes, which is the model value
`Corrupt`. `json.Unmarshal` validates the whole input before it decodes, so the
target keeps its zero value (`ZeroTree`: Index 0, StartLeafIndex 0). `LoadWorkingTree`
installs it before it checks the error (merkle.go:160-163), and `LoadWorkingTreeFails`
is the error it returns. Leaf data is the withdrawal's L2 sequence number, which stands in for its hash.

### `NodeGenerator.tla`: NewMerkle's self-test

`nodeGeneratorFn` is any function in `[Digest \X Digest -> Digest]` (`Generators`,
the `NodeGeneratorFn` type). `NewMerkle` draws the two random inputs as an `\E` over
`Digest`, so every outcome of `rand.Read` is explored, equal inputs included, and applies
`validateNodeGeneratorFn`. `Constructed` is the engine in use, or the bot stopped on
the error. The hash of the `Merkle` model is commutative by construction (`{a, b}`).
So this module is where the contract is checked. It is not composed with the tree.

### `WithdrawalTree.tla`: the executor driving the engine, with crashes

| Action | Code |
|---|---|
| `PrepareTree` | prepareTree: load the snapshot of height-1, or InitializeWorkingTree(1,1) at block 1 |
| `HandleWithdrawal` | withdrawal handler: `InsertLeaf(sequence)` |
| `FinalizeTree`, `SkipFinalize` | handleTree. Finalizing is a free choice except at the latest block, where the executor is fully synced and always finalizes. |
| `SaveTree` | `SaveWorkingTree(height)` |
| `CommitBlock` | the end-of-block `RawBatchSet` of the finalized record and the sync info |
| `Crash` | process death. Memory is lost and direct writes stay. |
| `Restart` | `Child.Initialize` at the stored processed height: the `l2Sequence != 0` guard and `DeleteFutureWithdrawals` |
| `Finished` | the chain in the model is finite. After its last block the executor waits. |
| `Abort` | prepareTree returned LoadWorkingTree's error (phase `failed`): the bot stops, and memory is lost |
| `CorruptSnapshot` | a fault of the store: a `working_tree` value becomes undecodable (torn, damaged, or written in another TreeInfo format), at most `MaxCorruptions` times |

The chain (withdrawals per block) is fixed in `Init`, because L2 blocks are final. The
finalization decision is not fixed: it depends on the latest height and on wall-clock
time, so a replay may finalize at a different block.

**Frontier.** `WorkingTreeIsReference` states the invariant that the engine keeps while a
tree is open. `LastSiblings` has one level per bit of `LeafCount`. `LastSiblings[h]` is the
root of the last complete subtree of height h. Every stored node over a complete run of
2^h leaves is the root of the reference tree of those leaves. This holds across crashes
and replays, which rewrite nodes.

**Refinement.** `SealedTrees` maps `finalizedDB` to a sequence of records
`[start, count, root]`, sorted by start. `Log == INSTANCE WithdrawalLog WITH MaxLeaf <-
MaxBlock * MaxPerBlock, sealed <- SealedTrees` gives the abstract log, and
`RefinesWithdrawalLog == Log!Spec` is checked as a property.

### `WithdrawalLog.tla`: what the engine promises

This is the abstract specification. `sealed` is an append-only sequence of trees. Each
tree starts at the next leaf, holds at least one leaf, and has as its root the padded
reference tree of its leaves (`Root`, RECURSIVE). `Seal` is its only step. Stuttering
covers every step of the executor that does not finalize a tree.

### `MCWithdrawalTree.tla`

This is the instance that the `MCWithdrawalTree*.cfg` files check. The cfgs give the
bounds and the model values.

### `NodeRecovery.tla`: pending txs and processed msgs across restarts

This models node/db.go (the feat/executor side of its conflicts, which node.go calls)
and the restart path `NewNode -> prepareBroadcaster -> Start`. Each ProcessedMsgs
carries one msg, and msgs are model values.

| TLA+ | Code |
|---|---|
| `processedDB` | `processed_msgs/<timestamp>`, holding the whole ProcessedMsgs |
| `pendingTxDB` | `pending_tx/<sequence>`, holding the PendingTxInfo |
| `queue` | msgs handed to `BroadcastMsgs` (txChannel) |
| `now` | `time.Now().UnixNano()` |
| `ApplyKVs` | `RawBatchSet`, applied in order. A Nil value deletes the key. |
| `PendingTxsToRawKV`, `ProcessedMsgsToRawKV`, `loadPendingTxs`, `loadProcessedMsgs` | same names |
| `Produce` | a handler stores a ProcessedMsgs in its block batch and calls `BroadcastMsgs` |
| `Broadcast` | the broadcaster sends the head msgs: `savePendingTx`, `deleteProcessedMsgs` |
| `ObserveInclusion` | block processing sees the tx: `deletePendingTx` |
| `Include`, `Expire` | the chain includes or drops a pending tx |
| `Crash` | process death. The queue is lost and the store stays. |
| `prepareBroadcaster` | the whole recovery, in one step. It waits until the first pending tx is resolved on chain. It deletes all pending txs and re-queues the saved ones with fresh stamps. It re-stamps every stored processed msg and writes everything in one batch. Then `Start` queues the msgs. |
| `Start` | Node.Start: with the broadcast looper running, `BroadcastMsgs` of every pending processed msg, in order, before the block looper starts |
| `Idle` | all msgs are sent, and the bot waits for blocks |

The broadcaster loop and block processing are outside `src/`, so `Broadcast` and
`ObserveInclusion` are built only from the db operations they call. `Produce` always
advances the clock, because blocks are far apart. `ClockSteps` sets how far the clock
moves between the back-to-back readings in the two loops of `prepareBroadcaster`.

### `HostQueues.tla`: the host's msg buffers with Go slice semantics

| TLA+ | Code |
|---|---|
| `arrays` | the backing arrays the slices point into, as functions `0..cap-1 -> Msgs` |
| `msgQueue` | `BaseHost.msgQueue`: sender to slice header `[arr, len, cap]`, a partial function like the Go map |
| `processedMsgs` | `BaseHost.processedMsgs`. Each ProcessedMsgs keeps the header of the slice it wraps. No property reads it: it is kept so that the aliasing described under "Not modelled" is visible in traces. |
| `NilSlice`, `GetMsgQueue` | the nil slice a map miss returns, and `GetMsgQueue()[sender]` |
| `AppendSlice` | `append`: it writes in place while len < cap, and otherwise copies into a new array of twice the capacity (1 from empty), as growslice does for small slices of interfaces |
| `Init` | `NewBaseHostV1`'s `make` of the two buffers |
| `AppendMsgQueue`, `EmptyMsgQueue`, `AppendProcessedMsgs`, `EmptyProcessedMsgs` | same names. `EmptyMsgQueue` truncates every slice to `[:0]` and keeps its array. |

`queued` is a history variable holding the msgs appended per sender since the last reset.
The handlers that call these methods are outside `src/`, so any sequence of calls is
allowed.

### `BatchSubmitter.tla`: BatchSubmitter.Initialize

| TLA+ | Code |
|---|---|
| `Init` | NewBatchSubmitter: nothing loaded. The host's batch infos (a sorted list of `Output.L2BlockNumber`), the stored sync info (Nil on a fresh store) and the stored submission_time word are any values they can have. NewNode's `loadSyncInfo` sets `lastProcessedBlockHeight`. |
| `loadSyncInfo`, `GetHeight` | Node.loadSyncInfo (ErrNotFound leaves 0) and Node.GetHeight (`last + 1`), the height the dequeue compares against |
| `Initialize` | Initialize: the `no batch info` error, the dequeue loop, and `LoadSubmissionInfo` |
| `InitializeLoop` | `for _, batchInfo := range bs.batchInfos { ... bs.DequeueBatchInfo() }`. The range walks the slice taken once (`orig`), while the field (`field`) shrinks. |
| `LoadSubmissionInfo`, `SubmissionInfoToRawKV` | the int64 time stored as a big-endian word (two's complement on `IntWidth` bits) |
| `Started` | the submitter runs, or the bot stops on the error |

The file, DA and handler set-up that follow in Initialize do not touch this state.

## 3. Runs

| Run | cfg | Checks | Result |
|---|---|---|---|
| `withdrawal_tree` | `MCWithdrawalTree.cfg` | TypeOK, ProofsVerify, ProvableExactly, RootIsReference, FinalizedContiguous, WorkingTreeIsReference, RefinesWithdrawalLog, RecordsImmutable (action), AllWithdrawalsProvable (liveness) | pass, about 4.3k states |
| `batch_submitter_init` | `MCBatchSubmitter.cfg` | TypeOK, DequeueKeepsRelevantSuffix | pass, about 453k states |
| `withdrawal_tree_large` | `MCWithdrawalTree_large.cfg` | ProofsVerify, FinalizedContiguous, WorkingTreeIsReference, RefinesWithdrawalLog | pass, about 338k states, 40 s |
| `node_recovery` | `MCNodeRecovery.cfg` | TypeOK, NoMsgLost, SavedMsgsEventuallySent (liveness) | pass, about 23k states |
| `node_generator` | `MCNodeGenerator.cfg` | ConstructedOnlyWhenCommutative | violation |
| `node_recovery_stale_copies` | `MCNodeRecovery_stale_copies.cfg` | NoDuplicateStoredMsgs | violation |
| `node_recovery_included_requeued` | `MCNodeRecovery_included_requeued.cfg` | ExecutedAtMostOnce | violation |
| `node_recovery_coarse_clock` | `MCNodeRecovery_coarse_clock.cfg` | NoMsgLost | violation |
| `withdrawal_tree_corrupt` | `MCWithdrawalTree_corrupt.cfg` | WorkingTreeIndexValid | violation |
| `withdrawal_tree_corrupt_failstop` | `MCWithdrawalTree_corrupt_failstop.cfg` | ProofsVerify, FinalizedContiguous, RefinesWithdrawalLog | pass, about 14k states |
| `host_queues` | `MCHostQueues.cfg` | QueueReadsBack | pass, about 20k states |

**Bounds.** The runs use 3 blocks, 0-2 withdrawals per block and 1 crash. This gives
trees of 0 to 6 leaves, and so heights 0 to 3. It covers the single-leaf tree, power-of-two
counts with no padding, and odd counts with padding. The crash can fall between
any two engine calls, including between SaveWorkingTree and the commit, and between
finalize and save. All 27 chains are enumerated.

**Large instance.** `withdrawal_tree_large` uses 5 blocks and 2 crashes. Trees reach
10 leaves, so heights 4 and padding of up to 6 slots happen. A second crash can fall
while the first one is being replayed. Liveness stays with the 3-block run, because TLC's
liveness check of this graph takes far longer than the safety checks.

**Fairness.** The run uses weak fairness on `Next`. The block loop of the executor
keeps running, and crashes are bounded by `MaxCrashes`, so fairness cannot be spent
on crashing forever.

**Corrupt snapshots** (finding, `withdrawal_tree_corrupt`). A snapshot is corrupted,
and the process crashes. The restart's `LoadWorkingTree` leaves the engine holding the
zero TreeInfo, which has tree index 0 and start leaf index 0. Spec section 3 invariant 1
requires both to be at least 1, and `InitializeWorkingTree` refuses 0. The code is saved
only by its caller, which stops on the error. `withdrawal_tree_corrupt_failstop` checks
that the stop is enough: with one corruption and one crash, every proof, the finalized
records and the abstract log stay correct. The mutant that drops the error
(`LoadWorkingTreeErrorIgnored`) breaks all three. The 3-block runs use
`MaxCorruptions = 0`, and this run uses 1. Progress is not claimed, because the same
snapshot is reloaded on every restart.

**Host buffers bounds.** The run uses 2 senders, 2 msgs, 4 appends and 2 held
ProcessedMsgs. One sender can reach capacity 4 through two reallocations. A reset
followed by a shorter refill leaves old msgs beyond len. `QueueReadsBack` fails if the
`[:0]` were applied to a copy of the slice and not written back to the map.

**Batch submitter bounds.** These are every sorted list of 0 to 4 batch infos with
outputs 0..4, every stored sync info (none, or 0..5, so node heights 1..6), and every stored word of an 8-bit int. That covers
the empty list, the single one kept whatever its height, lists dropped down to the last,
lists where none is dropped, and negative stored times. `DequeueKeepsRelevantSuffix`
compares the loop with `KeptReference`, the suffix from the first batch info whose
output reaches the block before the node height.

**Node recovery bounds.** The runs use 2 msgs, each saved or not, and 2 crashes. The
bounds give restarts with pending txs and processed msgs both present. They also
give a second restart that reloads what the first one wrote. Every inclusion, expiry
and crash order is explored.

**Node recovery fairness.** The liveness run assumes three things:
- weak fairness of `Broadcast`, because txBroadcastLooper keeps reading the channel;
- weak fairness of `Include \/ Expire`, because the chain decides every tx by its
  TX_TIMEOUT;
- weak fairness of `prepareBroadcaster`, because a crashed bot is started again.

That last one is an assumption about the operator, not about the code. `Produce`
gets no fairness. `SavedMsgsEventuallySent` is what breaks if Start no longer
re-broadcasts what prepareBroadcaster loaded. `NoMsgLost` cannot see that, because the
msg is still stored.

**Engine construction violation** (finding). The generator maps `(d1,d2)` and `(d2,d1)`
to different digests, and both random inputs are `d1`. The test passes and the engine is
built. The run has 2 digests, so the trace needs the two random inputs to be equal. With
more digests, a generator that breaks commutativity on one pair also passes for every
other pair drawn. Spec section 8.1 promises that every non-commutative generator
is rejected.

**Node recovery violations** (findings):
- *Stale copies.* A msg is stored at timestamp 2. Then there is a crash and a restart.
  The restart writes the msg at timestamp 3 and keeps the record at 2, because the
  deletion is commented out at part_001:215-222. The broadcaster later deletes only
  key 3, so the next restart broadcasts the msg again.
- *Included tx re-queued.* A tx is included, and the process crashes before block
  processing deletes its pending_tx record. After the wait, the restart re-queues its
  msgs without checking the chain (TODO at line 173), and they execute twice.
- *Coarse clock.* The restart stamps a recovered pending tx and a reloaded processed
  msg with the same nanosecond. The batch writes the second over the first. The first
  msg's pending_tx record is deleted in the same batch, so that msg is then only in
  memory, and a crash before it is broadcast loses it.

## 4. Plan

Already in place:
1. `Merkle` and `WithdrawalTree`: the engine under its real caller, with crash and restart.
2. `NodeRecovery`: node/db.go and prepareBroadcaster, with crashes, chain inclusion
   and expiry, and a clock that may stall.
3. `WithdrawalLog`, the abstract log of sealed trees, with `WithdrawalTree` refining it.
4. The frontier invariant `WorkingTreeIsReference`.
5. `BatchSubmitter`: the Initialize dequeue loop checked against a reference.
6. `NodeGenerator`, NodeRecovery liveness (`SavedMsgsEventuallySent`), the sync info
   behind the batch submitter's height, and a 5-block withdrawal run.
7. Undecodable snapshots as a store fault, with the fail-stop caller (`Abort`), and
   `HostQueues`, the host buffers with Go slice semantics.

Next, in order:
8. "Every saved msg is eventually executed." This needs the broadcaster's handling of a
   timed-out tx, which is outside `src/`.
9. Composing `NodeGenerator` with `Merkle`, with the hash as a parameter, to show
   proofs that fail orientation-free verification. This would take an engine model
   whose digests are not sets.

## 5. Not modelled

- The effect of a non-commutative generator on proofs. `NodeGenerator` checks the self-test on its own.
- Codec errors other than the working-tree snapshot. Finalized-tree records and nodes are read only by GetProofs, which returns the error.
- ExtraData. It is opaque bytes copied into the record.
- Key byte layout and global prefixes.
- RPC, keyring, codec registration, logging and the batch file.
- Aliasing of the host's buffers by their readers. `HostQueues` records the slice header
  that a ProcessedMsgs keeps. A reader that holds it across `EmptyMsgQueue` would see
  the next block's msgs. Every reader is a handler outside `src/`, so no run claims
  whether a real one does this. The host's Initialize, Start and getters are wiring.
- The batch submitter's raw block handler, the batch file and DA submission. These are
  outside `src/`. Initialize assumes the host returns the batch infos oldest first.
  The code does not show which batch info the rest of the submitter treats as current.
- Restarts below the stored sync info, `startOutputIndex` and
  `disableDeleteFutureWithdrawals`. Child.Initialize passes all three to
  `BaseChild.Initialize`, which is outside `src/` and decides the l2Sequence, so the
  cleanup's effect in those cases cannot be read from the code. `Restart` always resumes
  at the stored processed height, which is the normal start.
- Node.Start's value receiver (part_001:109). The loopers run on a copy of the Node,
  so height updates are not visible through the pointer that the host and the batch
  submitter hold. The loopers and those readers are outside `src/`.
