--------------------------- MODULE BatchSubmitter ---------------------------
(***************************************************************************)
(* BatchSubmitter.Initialize (src/unnamed/part_000:96-127): the batch      *)
(* infos queried from the host are trimmed to those still relevant to the  *)
(* node height, and the last submission time is loaded from the store.     *)
(*                                                                         *)
(* A batch info is represented by its Output.L2BlockNumber; the host       *)
(* returns them in the order the bridge recorded them.  The int64 that     *)
(* holds the submission time is an integer of IntWidth bits, two's         *)
(* complement, encoded big-endian as an unsigned word in the store.        *)
(***************************************************************************)
EXTENDS Naturals, Integers, SequencesExt

CONSTANTS
    Nil,          \* dbtypes.ErrNotFound
    MaxInfos,     \* longest batch info list the host returns
    MaxL2Block,   \* largest Output.L2BlockNumber
    MaxHeight,    \* largest node height (last processed block + 1)
    IntWidth      \* bits of the int64 in the model

VARIABLES
    hostInfos,           \* the host's answer to QueryBatchInfos
    syncInfoDB,          \* the stored LastProcessedBlockHeight, or Nil
    lastProcessedBlockHeight,  \* bs.node's, loaded by NewNode
    submissionDB,        \* the stored submission_time value, or Nil
    batchInfos,          \* bs.batchInfos
    lastSubmissionTime,  \* bs.lastSubmissionTime, in Unix nanoseconds
    status               \* "new", "initialized" or the error Initialize returned

vars == <<hostInfos, syncInfoDB, lastProcessedBlockHeight, submissionDB, batchInfos, lastSubmissionTime, status>>

Word == 2^IntWidth

\* dbtypes.FromInt64 / ToInt64: two's complement on IntWidth bits.
FromInt64(x) == x % Word
ToInt64(u) == IF u >= Word \div 2 THEN u - Word ELSE u

\* SubmissionInfoToRawKV: the value stored under submission_time.
SubmissionInfoToRawKV(timestamp) == FromInt64(timestamp)

LoadSubmissionInfo(stored) == IF stored = Nil THEN 0 ELSE ToInt64(stored)

\* Node.loadSyncInfo: ErrNotFound leaves the height of a fresh node, 0.
loadSyncInfo(stored) == IF stored = Nil THEN 0 ELSE stored

\* Node.GetHeight: the block the node processes next.
GetHeight(last) == last + 1

\* DequeueBatchInfo drops the head of bs.batchInfos.
DequeueBatchInfo(infos) == Tail(infos)

\* Mutant of InitializeLoop: the loop reads the shrinking field by index
\* instead of the slice range evaluated once.
InitializeLoopFieldIndex(orig, i, field, height) ==
    LET RECURSIVE Loop(_, _)
        Loop(j, f) ==
            IF j > Len(f) \/ Len(f) = 1 \/ f[j] + 1 >= height THEN f
            ELSE Loop(j + 1, DequeueBatchInfo(f))
    IN  Loop(i, field)

(***************************************************************************)
(* for _, batchInfo := range bs.batchInfos { ... bs.DequeueBatchInfo() }   *)
(* The range expression is evaluated once: orig is the slice the loop      *)
(* walks, field is bs.batchInfos as DequeueBatchInfo leaves it.            *)
(***************************************************************************)
RECURSIVE InitializeLoop(_, _, _, _)
InitializeLoop(orig, i, field, height) ==
    IF i > Len(orig) \/ Len(field) = 1 \/ orig[i] + 1 >= height
    THEN field
    ELSE InitializeLoop(orig, i + 1, DequeueBatchInfo(field), height)

\* NewBatchSubmitter, whose NewNode loads the sync info.
Init ==
    /\ hostInfos \in UNION {[1..n -> 0..MaxL2Block] : n \in 0..MaxInfos}
    /\ \A i \in 1..(Len(hostInfos) - 1) : hostInfos[i] <= hostInfos[i + 1]
    /\ syncInfoDB \in {Nil} \cup 0..(MaxHeight - 1)
    /\ lastProcessedBlockHeight = loadSyncInfo(syncInfoDB)
    /\ submissionDB \in {Nil} \cup {SubmissionInfoToRawKV(t) : t \in -(Word \div 2)..(Word \div 2 - 1)}
    /\ batchInfos = <<>>
    /\ lastSubmissionTime = 0
    /\ status = "new"

\* BatchSubmitter.Initialize, up to registering the raw block handler.
Initialize ==
    /\ status = "new"
    /\ IF hostInfos = <<>>
       THEN /\ status' = "no batch info"
            /\ UNCHANGED <<batchInfos, lastSubmissionTime>>
       ELSE /\ batchInfos' = InitializeLoop(hostInfos, 1, hostInfos, GetHeight(lastProcessedBlockHeight))
            /\ lastSubmissionTime' = LoadSubmissionInfo(submissionDB)
            /\ status' = "initialized"
    /\ UNCHANGED <<hostInfos, syncInfoDB, lastProcessedBlockHeight, submissionDB>>

\* Initialize returned: the submitter runs, or the bot stops on the error.
Started ==
    /\ status # "new"
    /\ UNCHANGED vars

Next == Initialize \/ Started

Spec == Init /\ [][Next]_vars /\ WF_vars(Initialize)

-----------------------------------------------------------------------------
(* Properties                                                             *)

\* The batch infos stay a list of outputs, and the submission time loaded
\* by LoadSubmissionInfo is a signed int64 (the zero time is negative).
TypeOK ==
    /\ batchInfos \in UNION {[1..n -> 0..MaxL2Block] : n \in 0..MaxInfos}
    /\ lastSubmissionTime \in -(Word \div 2)..(Word \div 2 - 1)
    /\ status \in {"new", "initialized", "no batch info"}

\* The reference: the suffix of the host's list that starts at the first
\* batch info whose output reaches the block before the node height, or at
\* the last batch info when none does.
KeptReference(infos, height) ==
    LET first == Min({i \in DOMAIN infos : infos[i] + 1 >= height} \cup {Len(infos)})
    IN  SubSeq(infos, first, Len(infos))

\* Walking the slice snapshot while DequeueBatchInfo shrinks the field
\* leaves exactly the reference suffix: never empty, never skipping a batch
\* info still relevant to the node height, never keeping a stale one ahead
\* of it.
DequeueKeepsRelevantSuffix ==
    status = "initialized" => batchInfos = KeptReference(hostInfos, GetHeight(lastProcessedBlockHeight))
=============================================================================
