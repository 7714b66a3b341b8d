------------------------------- MODULE Merkle -------------------------------
(***************************************************************************)
(* The incremental Merkle tree engine of src/merkle/merkle.go together    *)
(* with the three key spaces it owns in the key-value store:              *)
(*   node/<tree>/<height>/<index>   -> nodes                              *)
(*   working_tree/<version>         -> workingTreeDB                      *)
(*   finalized_tree/<startLeaf>     -> finalizedDB                        *)
(* The in-memory working tree (Merkle.workingTree) is workingTree.        *)
(*                                                                         *)
(* Node digests are abstracted by an ideal commutative hash: the parent   *)
(* of a and b is the set {a, b}.  It is collision free and commutative,   *)
(* which is exactly the contract of NodeGeneratorFn (merkle.go:15-18).    *)
(* JSON encoding of TreeInfo is lossless, so save/load keep the record.   *)
(***************************************************************************)
EXTENDS Naturals, SequencesExt, Bitwise

CONSTANTS
    Nil,            \* a Go nil pointer / map miss, and the store's ErrNotFound
    EmptyRootHash,  \* merkletypes.EmptyRootHash
    Corrupt         \* a stored working_tree value json.Unmarshal rejects

VARIABLES
    workingTree,    \* Merkle.workingTree: Nil or a TreeInfo record
    nodes,          \* node key <<tree, height, index>> -> digest
    workingTreeDB,  \* version -> saved TreeInfo
    finalizedDB     \* StartLeafIndex -> FinalizedTreeInfo

merkleVars == <<workingTree, nodes, workingTreeDB, finalizedDB>>

\* NodeGeneratorFn, assumed commutative (validated by validateNodeGeneratorFn).
Pair(a, b) == {a, b}

\* Partial-function store helpers: Get returns Nil for a missing key.
Get(f, k) == IF k \in DOMAIN f THEN f[k] ELSE Nil
Put(f, k, v) == (k :> v) @@ f

\* bits.Len64
RECURSIVE BitLen(_)
BitLen(x) == IF x = 0 THEN 0 ELSE 1 + BitLen(x \div 2)

\* Mutant of Height: bit length of the count itself, not of count - 1.
HeightOfCount(wt) == IF wt.LeafCount <= 1 THEN wt.LeafCount ELSE BitLen(wt.LeafCount)

\* Merkle.Height: a single leaf has height 1, otherwise bits.Len64(n - 1).
Height(wt) == IF wt.LeafCount <= 1 THEN wt.LeafCount ELSE BitLen(wt.LeafCount - 1)

NewTree(treeIndex, startLeafIndex) ==
    [Index |-> treeIndex, StartLeafIndex |-> startLeafIndex, LeafCount |-> 0,
     LastSiblings |-> <<>>, Done |-> FALSE]

(***************************************************************************)
(* InsertLeaf's loop: save the node, remember it as the last sibling of   *)
(* its level, and while its index is odd fold it with the previous last   *)
(* sibling and climb.  Returns the new store of nodes and LastSiblings.   *)
(***************************************************************************)
\* Mutant of InsertLoop: the level's last sibling is overwritten before it
\* is read for the fold.
RECURSIVE InsertLoopOverwriteFirst(_, _, _, _, _, _)
InsertLoopOverwriteFirst(nds, ls, tree, height, localNodeIndex, data) ==
    LET nds1    == Put(nds, <<tree, height, localNodeIndex>>, data)
        ls1     == Put(ls, height, data)
        sibling == Get(ls1, height)
    IN  IF localNodeIndex % 2 = 0
        THEN [nodes |-> nds1, ls |-> ls1]
        ELSE InsertLoopOverwriteFirst(nds1, ls1, tree, height + 1, localNodeIndex \div 2,
                                      Pair(sibling, data))

RECURSIVE InsertLoop(_, _, _, _, _, _)
InsertLoop(nds, ls, tree, height, localNodeIndex, data) ==
    LET nds1    == Put(nds, <<tree, height, localNodeIndex>>, data)
        sibling == Get(ls, height)
        ls1     == Put(ls, height, data)
    IN  IF localNodeIndex % 2 = 0
        THEN [nodes |-> nds1, ls |-> ls1]
        ELSE InsertLoop(nds1, ls1, tree, height + 1, localNodeIndex \div 2,
                        Pair(sibling, data))

\* Merkle.InsertLeaf on a working tree value (also used by fillLeaves).
InsertLeafOp(wt, nds, data) ==
    LET r == InsertLoop(nds, wt.LastSiblings, wt.Index, 0, wt.LeafCount, data)
    IN  [wt    |-> [wt EXCEPT !.LastSiblings = r.ls, !.LeafCount = @ + 1],
         nodes |-> r.nodes]

RECURSIVE Repeat(_, _, _)
Repeat(r, data, k) ==
    IF k = 0 THEN r ELSE Repeat(InsertLeafOp(r.wt, r.nodes, data), data, k - 1)

\* Mutant of FillLeaves: the padding stays counted in LeafCount.
FillLeavesKeepPadding(wt, nds) ==
    LET r == Repeat([wt |-> wt, nodes |-> nds], wt.LastSiblings[0],
                    2^Height(wt) - wt.LeafCount)
    IN  [wt |-> r.wt, nodes |-> r.nodes]

\* Merkle.fillLeaves: pad with the last leaf up to 2^Height, then take the
\* padding back out of LeafCount.
FillLeaves(wt, nds) ==
    LET numRestLeaves == 2^Height(wt) - wt.LeafCount
        r == Repeat([wt |-> wt, nodes |-> nds], wt.LastSiblings[0], numRestLeaves)
    IN  [wt    |-> [r.wt EXCEPT !.LeafCount = @ - numRestLeaves],
         nodes |-> r.nodes]

\* Mutant of FinalizedTreeKey: the record keyed by its tree index.
FinalizedTreeKeyByIndex(info) == info.TreeIndex

\* FinalizedTreeInfo.Key: finalized trees are keyed by their first leaf.
FinalizedTreeKey(info) == info.StartLeafIndex

(***************************************************************************)
(* Merkle.FinalizeWorkingTree as a function of the engine state: the new  *)
(* working tree and nodes, the KV batch handed back to the caller (a set  *)
(* of <<key, FinalizedTreeInfo>> pairs) and the root.                     *)
(***************************************************************************)
FinalizeResult(wt, nds) ==
    LET done == [wt EXCEPT !.Done = TRUE]
    IN  IF wt.LeafCount = 0
        THEN [wt |-> done, nodes |-> nds, kvs |-> {}, root |-> EmptyRootHash]
        ELSE LET f      == FillLeaves(done, nds)
                 height == Height(f.wt)
                 info   == [TreeIndex      |-> f.wt.Index,
                            TreeHeight     |-> height,
                            Root           |-> f.wt.LastSiblings[height],
                            StartLeafIndex |-> f.wt.StartLeafIndex,
                            LeafCount      |-> f.wt.LeafCount]
             IN  [wt |-> f.wt, nodes |-> f.nodes,
                  kvs |-> {<<FinalizedTreeKey(info), info>>}, root |-> info.Root]

-----------------------------------------------------------------------------
(* Operations of the engine.  Each is one call of the single writer.      *)

InitializeWorkingTree(treeIndex, startLeafIndex) ==
    /\ treeIndex >= 1 /\ startLeafIndex >= 1
    /\ workingTree' = NewTree(treeIndex, startLeafIndex)
    /\ UNCHANGED <<nodes, workingTreeDB, finalizedDB>>

InsertLeaf(data) ==
    /\ workingTree # Nil
    /\ LET r == InsertLeafOp(workingTree, nodes, data)
       IN  /\ workingTree' = r.wt
           /\ nodes' = r.nodes
    /\ UNCHANGED <<workingTreeDB, finalizedDB>>

FinalizeWorkingTree ==
    /\ workingTree # Nil
    /\ LET r == FinalizeResult(workingTree, nodes)
       IN  /\ workingTree' = r.wt
           /\ nodes' = r.nodes
    /\ UNCHANGED <<workingTreeDB, finalizedDB>>

\* The TreeInfo an undecodable value leaves: json.Unmarshal checks the
\* whole input before it decodes, so the target keeps its zero value.
ZeroTree ==
    [Index |-> 0, StartLeafIndex |-> 0, LeafCount |-> 0, LastSiblings |-> <<>>, Done |-> FALSE]

\* Mutant of LoadWorkingTreeFails: the unmarshal error is dropped.
LoadWorkingTreeErrorIgnored(version) == FALSE

\* LoadWorkingTree returns the unmarshal error.
LoadWorkingTreeFails(version) ==
    version \in DOMAIN workingTreeDB /\ workingTreeDB[version] = Corrupt

\* Mutants of LoadWorkingTree: the successor keeps the tree index; a
\* finalized snapshot is loaded as it is.
LoadWorkingTreeSameIndex(version) ==
    /\ version \in DOMAIN workingTreeDB
    /\ LET t == workingTreeDB[version]
       IN  workingTree' = CASE t = Corrupt -> ZeroTree
                            [] t.Done      -> NewTree(t.Index, t.StartLeafIndex + t.LeafCount)
                            [] OTHER       -> t
    /\ UNCHANGED <<nodes, workingTreeDB, finalizedDB>>

LoadWorkingTreeNoSuccessor(version) ==
    /\ version \in DOMAIN workingTreeDB
    /\ workingTree' = IF workingTreeDB[version] = Corrupt THEN ZeroTree
                       ELSE workingTreeDB[version]
    /\ UNCHANGED <<nodes, workingTreeDB, finalizedDB>>

\* LoadWorkingTree: the decoded tree is installed before the error is
\* checked; a finalized snapshot is replaced by its successor tree.
LoadWorkingTree(version) ==
    /\ version \in DOMAIN workingTreeDB
    /\ LET t == workingTreeDB[version]
       IN  workingTree' = CASE t = Corrupt -> ZeroTree
                            [] t.Done      -> NewTree(t.Index + 1, t.StartLeafIndex + t.LeafCount)
                            [] OTHER       -> t
    /\ UNCHANGED <<nodes, workingTreeDB, finalizedDB>>

SaveWorkingTree(version) ==
    /\ workingTree # Nil
    /\ workingTreeDB' = Put(workingTreeDB, version, workingTree)
    /\ UNCHANGED <<workingTree, nodes, finalizedDB>>

\* Mutant of DeleteFutureFinalizedTrees: the comparison inverted.
DeleteFinalizedTreesBefore(db, fromSequence) ==
    Restrict(db, {s \in DOMAIN db : s >= fromSequence})

\* DeleteFutureFinalizedTrees / DeleteFutureWorkingTrees: the store after
\* deleting every key whose trailing integer is >= the cutoff.
DeleteFutureFinalizedTrees(db, fromSequence) ==
    Restrict(db, {s \in DOMAIN db : ~(s >= fromSequence)})

DeleteFutureWorkingTrees(db, fromVersion) ==
    Restrict(db, {v \in DOMAIN db : ~(v >= fromVersion)})

-----------------------------------------------------------------------------
(* Merkle.GetProofs as a query on the store.                              *)

\* SeekPrevInclusiveKey on the finalized_tree prefix.
SeekPrevFinalized(leafIndex) ==
    LET ks == {k \in DOMAIN finalizedDB : k <= leafIndex}
    IN  IF ks = {} THEN Nil ELSE finalizedDB[Max(ks)]

Failure(err) == [err |-> err, proofs |-> <<>>, treeIndex |-> 0, root |-> Nil]

\* Mutant of GetProofs: the padding bound is off by one.
GetProofsPastCount(leafIndex) ==
    LET info == SeekPrevFinalized(leafIndex)
    IN  IF info = Nil THEN Failure("unfinalized")
        ELSE IF leafIndex < info.StartLeafIndex THEN Failure("not_in_tree")
        ELSE IF leafIndex - info.StartLeafIndex > info.LeafCount
             THEN Failure("unfinalized")
        ELSE LET local  == leafIndex - info.StartLeafIndex
                 proofs == [h \in 1..info.TreeHeight |->
                              Get(nodes, <<info.TreeIndex, h - 1,
                                           (local \div 2^(h - 1)) ^^ 1>>)]
             IN  IF \E h \in DOMAIN proofs : proofs[h] = Nil
                 THEN Failure("not_found")
                 ELSE [err |-> "ok", proofs |-> proofs,
                       treeIndex |-> info.TreeIndex, root |-> info.Root]

GetProofs(leafIndex) ==
    LET info == SeekPrevFinalized(leafIndex)
    IN  IF info = Nil THEN Failure("unfinalized")
        ELSE IF leafIndex < info.StartLeafIndex THEN Failure("not_in_tree")
        ELSE IF leafIndex - info.StartLeafIndex >= info.LeafCount
             THEN Failure("unfinalized")
        ELSE LET local  == leafIndex - info.StartLeafIndex
                 proofs == [h \in 1..info.TreeHeight |->
                              Get(nodes, <<info.TreeIndex, h - 1,
                                           (local \div 2^(h - 1)) ^^ 1>>)]
             IN  IF \E h \in DOMAIN proofs : proofs[h] = Nil
                 THEN Failure("not_found")
                 ELSE [err |-> "ok", proofs |-> proofs,
                       treeIndex |-> info.TreeIndex, root |-> info.Root]
=============================================================================
