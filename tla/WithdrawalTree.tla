--------------------------- MODULE WithdrawalTree ---------------------------
(***************************************************************************)
(* The child executor as the single writer of the Merkle engine: it       *)
(* processes L2 blocks one after another, inserting one leaf per          *)
(* withdrawal (the leaf's data stands for the withdrawal hash of that L2  *)
(* sequence), may finalize the working tree at the end of a block, saves  *)
(* the working tree under the block height and commits the finalized-    *)
(* tree record together with the sync info in one batch.  The process can *)
(* crash between any two engine calls; on restart Child.Initialize rolls  *)
(* the store back to the stored processed height, where block processing *)
(* resumes.                                                               *)
(***************************************************************************)
EXTENDS Merkle, FiniteSets

CONSTANTS
    MaxBlock,        \* L2 blocks 1..MaxBlock exist
    MaxPerBlock,     \* withdrawals per block are 0..MaxPerBlock
    MaxCrashes,      \* bound on crashes
    MaxCorruptions   \* bound on snapshots that become undecodable

VARIABLES
    chain,       \* block -> number of withdrawals in it (fixed by the L2)
    syncInfo,    \* durable LastProcessedBlockHeight
    height,      \* block being processed
    phase,       \* where the block handler is
    inserted,    \* withdrawals of this block already inserted
    batchKVs,    \* finalized-tree kvs waiting for the end-of-block commit
    crashes,
    corrupted    \* snapshots made undecodable so far

callerVars == <<chain, syncInfo, height, phase, inserted, batchKVs, crashes, corrupted>>
vars == <<merkleVars, callerVars>>

Blocks == 1..MaxBlock

\* The L2 sequence of the first withdrawal after block b (1 when b = 0).
RECURSIVE NextL2Sequence(_)
NextL2Sequence(b) == IF b = 0 THEN 1 ELSE NextL2Sequence(b - 1) + chain[b]

TotalLeaves == NextL2Sequence(MaxBlock) - 1
LeafIndices == 1..MaxBlock * MaxPerBlock

Phases == {"begin", "withdraw", "save", "commit", "failed", "down", "done"}

Init ==
    /\ chain \in [Blocks -> 0..MaxPerBlock]
    /\ workingTree = Nil
    /\ nodes = <<>> /\ workingTreeDB = <<>> /\ finalizedDB = <<>>
    /\ syncInfo = 0
    /\ height = 1
    /\ phase = "begin"
    /\ inserted = 0
    /\ batchKVs = {}
    /\ crashes = 0
    /\ corrupted = 0

(***************************************************************************)
(* Begin block: prepare the working tree from the snapshot saved at the   *)
(* previous height; at the first block there is none and the tree is      *)
(* initialized as tree 1 starting at leaf 1.                              *)
(***************************************************************************)
PrepareTree ==
    /\ phase = "begin"
    /\ \/ LoadWorkingTree(height - 1)
       \/ /\ height - 1 \notin DOMAIN workingTreeDB
          /\ height = 1
          /\ InitializeWorkingTree(1, 1)
    /\ phase' = IF LoadWorkingTreeFails(height - 1) THEN "failed" ELSE "withdraw"
    /\ inserted' = 0
    /\ UNCHANGED <<chain, syncInfo, height, batchKVs, crashes, corrupted>>

\* initiateWithdrawalHandler: the next withdrawal of the block becomes a leaf.
HandleWithdrawal ==
    /\ phase = "withdraw"
    /\ inserted < chain[height]
    /\ InsertLeaf(NextL2Sequence(height - 1) + inserted)
    /\ inserted' = inserted + 1
    /\ UNCHANGED <<chain, syncInfo, height, phase, batchKVs, crashes, corrupted>>

\* End block: finalize when the output is due; at the latest block the
\* executor is fully synced and always finalizes.
FinalizeTree ==
    /\ phase = "withdraw"
    /\ inserted = chain[height]
    /\ FinalizeWorkingTree
    /\ batchKVs' = FinalizeResult(workingTree, nodes).kvs
    /\ phase' = "save"
    /\ UNCHANGED <<chain, syncInfo, height, inserted, crashes, corrupted>>

SkipFinalize ==
    /\ phase = "withdraw"
    /\ inserted = chain[height]
    /\ height < MaxBlock
    /\ phase' = "save"
    /\ UNCHANGED <<merkleVars, chain, syncInfo, height, inserted, batchKVs, crashes, corrupted>>

SaveTree ==
    /\ phase = "save"
    /\ SaveWorkingTree(height)
    /\ phase' = "commit"
    /\ UNCHANGED <<chain, syncInfo, height, inserted, batchKVs, crashes, corrupted>>

\* RawBatchSet of the sync info and the finalized-tree kvs.
CommitBlock ==
    /\ phase = "commit"
    /\ finalizedDB' = [s \in {kv[1] : kv \in batchKVs} |->
                          (CHOOSE kv \in batchKVs : kv[1] = s)[2]] @@ finalizedDB
    /\ syncInfo' = height
    /\ height' = height + 1
    /\ phase' = IF height = MaxBlock THEN "done" ELSE "begin"
    /\ batchKVs' = {}
    /\ UNCHANGED <<workingTree, nodes, workingTreeDB, chain, inserted, crashes, corrupted>>

\* The process dies: memory is lost, the store keeps every direct write.
Crash ==
    /\ phase \notin {"down", "done"}
    /\ crashes < MaxCrashes
    /\ phase' = "down"
    /\ workingTree' = Nil
    /\ batchKVs' = {}
    /\ crashes' = crashes + 1
    /\ UNCHANGED <<nodes, workingTreeDB, finalizedDB, chain, syncInfo, height, inserted, corrupted>>

\* The block handler returned LoadWorkingTree's error: the bot stops.
Abort ==
    /\ phase = "failed"
    /\ phase' = "down"
    /\ workingTree' = Nil
    /\ batchKVs' = {}
    /\ UNCHANGED <<nodes, workingTreeDB, finalizedDB, chain, syncInfo, height, inserted,
                   crashes, corrupted>>

\* A stored snapshot becomes undecodable: a torn or damaged value, or one
\* written in another TreeInfo format.
CorruptSnapshot ==
    /\ corrupted < MaxCorruptions
    /\ \E v \in DOMAIN workingTreeDB :
         /\ workingTreeDB[v] # Corrupt
         /\ workingTreeDB' = [workingTreeDB EXCEPT ![v] = Corrupt]
    /\ corrupted' = corrupted + 1
    /\ UNCHANGED <<workingTree, nodes, finalizedDB, chain, syncInfo, height, phase,
                   inserted, batchKVs, crashes>>

(***************************************************************************)
(* Restart at the stored processed height: BaseChild.Initialize gives the  *)
(* next L2 sequence of that height (0 on a fresh store), and when it is    *)
(* not 0 Child.Initialize's DeleteFutureWithdrawals deletes the finalized  *)
(* trees from it on and the working trees saved after that height.         *)
(***************************************************************************)
Restart ==
    /\ phase = "down"
    /\ LET processedHeight == syncInfo
           l2Sequence == IF processedHeight = 0 THEN 0
                         ELSE NextL2Sequence(processedHeight)
       IN  /\ IF l2Sequence # 0
              THEN /\ finalizedDB' = DeleteFutureFinalizedTrees(finalizedDB, l2Sequence)
                   /\ workingTreeDB' = DeleteFutureWorkingTrees(workingTreeDB, processedHeight + 1)
              ELSE UNCHANGED <<finalizedDB, workingTreeDB>>
           /\ height' = processedHeight + 1
    /\ phase' = "begin"
    /\ UNCHANGED <<workingTree, nodes, chain, syncInfo, inserted, batchKVs, crashes, corrupted>>

\* Every block of the chain is processed; the executor waits for more.
Finished ==
    /\ phase = "done"
    /\ UNCHANGED vars

Next ==
    \/ PrepareTree
    \/ HandleWithdrawal
    \/ FinalizeTree
    \/ SkipFinalize
    \/ SaveTree
    \/ CommitBlock
    \/ Crash
    \/ Abort
    \/ CorruptSnapshot
    \/ Restart
    \/ Finished

\* The block loop keeps running; crashes are bounded by MaxCrashes.
Spec == Init /\ [][Next]_vars /\ WF_vars(Next)

-----------------------------------------------------------------------------
(* Properties.                                                            *)

\* The reference Merkle root of the tree over leaves start..start+count-1,
\* padded with copies of the last leaf up to 2^height leaves.
RECURSIVE RefSubRoot(_, _, _, _)
RefSubRoot(start, count, lo, h) ==
    IF h = 0 THEN (IF lo < start + count THEN lo ELSE start + count - 1)
    ELSE Pair(RefSubRoot(start, count, lo, h - 1),
              RefSubRoot(start, count, lo + 2^(h - 1), h - 1))

\* The reference height: the least h with 2^h >= count, one leaf counting
\* as height 1 (a single leaf is paired with itself).
RefHeight(count) == CHOOSE h \in 1..count : 2^h >= count /\ (h = 1 \/ 2^(h - 1) < count)

\* Folding a proof into the leaf, as the L1 verifier does.
Verify(leaf, proofs) == FoldLeft(Pair, leaf, proofs)

\* Shape of a TreeInfo value, in memory or in the store.
TreeInfoOK(t) ==
    /\ t.Index \in 0..MaxBlock + 1
    /\ t.StartLeafIndex \in 0..Cardinality(LeafIndices) + 1
    /\ t.LeafCount \in 0..Cardinality(LeafIndices)
    /\ DOMAIN t.LastSiblings \subseteq 0..Cardinality(LeafIndices)
    /\ t.Done \in BOOLEAN

TypeOK ==
    /\ workingTree = Nil \/ TreeInfoOK(workingTree)
    /\ \A v \in DOMAIN workingTreeDB :
         v \in Blocks /\ (workingTreeDB[v] = Corrupt \/ TreeInfoOK(workingTreeDB[v]))
    /\ \A s \in DOMAIN finalizedDB : s \in LeafIndices /\ finalizedDB[s].StartLeafIndex = s
    /\ \A k \in DOMAIN nodes : k[1] \in 1..MaxBlock + 1 /\ k[2] \in Nat /\ k[3] \in Nat
    /\ chain \in [Blocks -> 0..MaxPerBlock]
    /\ syncInfo \in 0..MaxBlock
    /\ height \in 1..MaxBlock + 1
    /\ phase \in Phases
    /\ inserted \in 0..MaxPerBlock
    /\ batchKVs = {} \/ \E kv \in batchKVs : batchKVs = {kv} /\ kv[1] = kv[2].StartLeafIndex
    /\ crashes \in 0..MaxCrashes
    /\ corrupted \in 0..MaxCorruptions

(***************************************************************************)
(* ProofsVerify: every proof GetProofs serves folds, together with the    *)
(* withdrawal's own leaf, into the root stored for its tree -- across     *)
(* padding in fillLeaves, restarts that replay blocks into a tree whose   *)
(* nodes are already on disk, and Child.Initialize's deletions.           *)
(***************************************************************************)
ProofsVerify ==
    \A i \in LeafIndices :
        LET g == GetProofs(i)
        IN  g.err = "ok" => Verify(i, g.proofs) = g.root

(***************************************************************************)
(* ProvableExactly: GetProofs serves a proof for a leaf iff some stored   *)
(* finalized tree counts it among its unpadded leaves, and names that     *)
(* tree; a padding slot or a leaf past the last finalized tree is         *)
(* reported unfinalized.                                                  *)
(***************************************************************************)
ProvableExactly ==
    \A i \in LeafIndices :
        LET covering == {s \in DOMAIN finalizedDB :
                            s <= i /\ i < s + finalizedDB[s].LeafCount}
            g == GetProofs(i)
        IN  /\ (g.err = "ok") <=> covering # {}
            /\ \A s \in covering : g.treeIndex = finalizedDB[s].TreeIndex

(***************************************************************************)
(* RootIsReference: the root FinalizeWorkingTree computes incrementally,  *)
(* keeping one last sibling per level, equals the Merkle root of the      *)
(* tree's leaves padded with the last leaf, and TreeHeight is the         *)
(* reference height.                                                      *)
(***************************************************************************)
RootIsReference ==
    \A s \in DOMAIN finalizedDB :
        LET r == finalizedDB[s]
        IN  /\ r.TreeHeight = RefHeight(r.LeafCount)
            /\ r.Root = RefSubRoot(s, r.LeafCount, s, r.TreeHeight)

(***************************************************************************)
(* FinalizedContiguous: the stored finalized trees tile the leaf          *)
(* sequence: each starts where the previous one ended and has a larger    *)
(* tree index (LoadWorkingTree's successor rule, empty trees skipped).    *)
(***************************************************************************)
FinalizedContiguous ==
    \A s \in DOMAIN finalizedDB :
        LET r == finalizedDB[s]
            later == {t \in DOMAIN finalizedDB : t > s}
        IN  /\ r.LeafCount > 0
            /\ later # {} =>
                 LET n == finalizedDB[Min(later)]
                 IN  n.StartLeafIndex = s + r.LeafCount /\ n.TreeIndex > r.TreeIndex

(***************************************************************************)
(* WorkingTreeIsReference: for the open working tree, at every level the  *)
(* last sibling and every stored node over a complete run of its leaves   *)
(* are the reference subtree roots, and LastSiblings has one entry per    *)
(* level a complete subtree exists on -- also after a crash, when replay  *)
(* re-inserts leaves over nodes (padding included) written by the lost    *)
(* run.                                                                   *)
(***************************************************************************)
WorkingTreeIsReference ==
    workingTree # Nil /\ ~workingTree.Done =>
        LET t     == workingTree
            S     == t.StartLeafIndex
            levels == 0..(BitLen(t.LeafCount) - 1)
        IN  /\ DOMAIN t.LastSiblings = levels
            /\ \A h \in levels :
                 /\ t.LastSiblings[h] =
                       RefSubRoot(S, t.LeafCount, S + (t.LeafCount \div 2^h - 1) * 2^h, h)
                 /\ \A j \in 0..(t.LeafCount \div 2^h - 1) :
                       Get(nodes, <<t.Index, h, j>>) = RefSubRoot(S, t.LeafCount, S + j * 2^h, h)

(***************************************************************************)
(* WorkingTreeIndexValid: a working tree the engine holds has tree index  *)
(* and start leaf index at least 1 (zero is the reserved sentinel, and    *)
(* InitializeWorkingTree refuses it) -- also after LoadWorkingTree met a  *)
(* snapshot it could not decode.                                          *)
(***************************************************************************)
WorkingTreeIndexValid ==
    workingTree # Nil => workingTree.Index >= 1 /\ workingTree.StartLeafIndex >= 1

(***************************************************************************)
(* RecordsImmutable: once committed, a finalized-tree record (whose root  *)
(* the executor submits to L1) is never replaced by a different record;   *)
(* it can only be deleted by a restart.                                   *)
(***************************************************************************)
RecordsImmutable ==
    [][\A s \in DOMAIN finalizedDB \cap DOMAIN finalizedDB' :
          finalizedDB'[s] = finalizedDB[s]]_vars

(***************************************************************************)
(* AllWithdrawalsProvable: every withdrawal of the chain eventually has a *)
(* proof, despite crashes and the replays that follow them.               *)
(***************************************************************************)
AllWithdrawalsProvable ==
    <>[](\A i \in 1..TotalLeaves : GetProofs(i).err = "ok")

(***************************************************************************)
(* Refinement: read in StartLeafIndex order, the finalized-tree records   *)
(* are the abstract log of sealed trees.  Block processing, crashes and   *)
(* restarts at the sync height only ever append a tree to it, the next    *)
(* contiguous range with its reference root, and never change or drop     *)
(* one.                                                                   *)
(***************************************************************************)
SealedTrees ==
    LET starts == SetToSortSeq(DOMAIN finalizedDB, <)
    IN  [i \in DOMAIN starts |->
            [start |-> starts[i], count |-> finalizedDB[starts[i]].LeafCount,
             root  |-> finalizedDB[starts[i]].Root]]

Log == INSTANCE WithdrawalLog WITH MaxLeaf <- MaxBlock * MaxPerBlock, sealed <- SealedTrees

RefinesWithdrawalLog == Log!Spec
=============================================================================
