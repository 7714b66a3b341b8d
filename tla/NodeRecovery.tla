---------------------------- MODULE NodeRecovery ----------------------------
(***************************************************************************)
(* The node's persistence of msgs it must broadcast (node/db.go, in       *)
(* src/merkle/merkle.go:340-531, feat/executor side of its conflicts) and *)
(* the restart path that recovers them (NewNode -> prepareBroadcaster,    *)
(* then Start, src/unnamed/part_001).                                     *)
(*                                                                         *)
(*   processed_msgs/<timestamp> -> processedDB  (msgs not yet broadcast)  *)
(*   pending_tx/<sequence>      -> pendingTxDB  (broadcast, not seen yet) *)
(*                                                                         *)
(* A ProcessedMsgs carries one msg here; msgs are model values.  The      *)
(* broadcaster loop and block processing are outside src/: they appear as *)
(* the environment steps Broadcast and ObserveInclusion, built from the   *)
(* db operations of src.  The L2/L1 chain includes or drops broadcast txs.*)
(***************************************************************************)
EXTENDS Naturals, SequencesExt

CONSTANTS
    Msgs,        \* the msgs the bot will ever have to send
    Nil,         \* an empty RawKV value: the key is deleted
    MaxCrashes,
    ClockSteps   \* how far the clock moves between two back-to-back time.Now() calls

VARIABLES
    processedDB,   \* timestamp -> ProcessedMsgs [msg, save, timestamp]
    pendingTxDB,   \* sequence  -> PendingTxInfo [sequence, msg, save]
    queue,         \* msgs handed to the broadcaster, in order (txChannel)
    now,           \* the wall clock, in nanoseconds
    nextSequence,  \* the account sequence of the next tx
    chainTxs,      \* sequence -> [msg, status]: "pending", "included", "expired"
    executed,      \* msg -> number of included txs that carried it
    produced,      \* msg -> its Save flag, for the msgs created so far
    up,            \* the process is running
    crashes

vars == <<processedDB, pendingTxDB, queue, now, nextSequence, chainTxs,
          executed, produced, up, crashes>>

ProcessedMsgs(m, save, ts) == [msg |-> m, save |-> save, timestamp |-> ts]

\* Apply a RawBatchSet to one key space, in order: a later kv with the same
\* key overwrites an earlier one, a Nil value deletes.
ApplyKVs(db, kvs) ==
    FoldLeft(LAMBDA d, kv :
                IF kv.value = Nil
                THEN Restrict(d, DOMAIN d \ {kv.key})
                ELSE (kv.key :> kv.value) @@ d,
             db, kvs)

-----------------------------------------------------------------------------
(* node/db.go                                                             *)

\* PendingTxsToRawKV: deletion kvs when delete, and for unsaved txs.
PendingTxsToRawKV(txInfos, delete) ==
    [i \in DOMAIN txInfos |->
        [key   |-> txInfos[i].sequence,
         value |-> IF ~delete /\ txInfos[i].save THEN txInfos[i] ELSE Nil]]

\* Mutants of ProcessedMsgsToRawKV: the Save check dropped; the delete
\* flag read the wrong way round.
ProcessedMsgsToRawKVNoSkip(processedMsgs, delete) ==
    [i \in DOMAIN processedMsgs |->
        [key   |-> processedMsgs[i].timestamp,
         value |-> IF delete THEN Nil ELSE processedMsgs[i]]]

ProcessedMsgsToRawKVInverted(processedMsgs, delete) ==
    LET saved == SelectSeq(processedMsgs, LAMBDA p : p.save)
    IN  [i \in DOMAIN saved |->
            [key |-> saved[i].timestamp, value |-> IF delete THEN saved[i] ELSE Nil]]

\* ProcessedMsgsToRawKV (feat/executor side): unsaved msgs are skipped, the
\* key is the timestamp, the value the whole ProcessedMsgs.
ProcessedMsgsToRawKV(processedMsgs, delete) ==
    LET saved == SelectSeq(processedMsgs, LAMBDA p : p.save)
    IN  [i \in DOMAIN saved |->
            [key |-> saved[i].timestamp, value |-> IF delete THEN Nil ELSE saved[i]]]

\* loadPendingTxs / loadProcessedMsgs: prefix iteration in key order.
loadPendingTxs ==
    LET keys == SetToSortSeq(DOMAIN pendingTxDB, <)
    IN  [i \in DOMAIN keys |-> pendingTxDB[keys[i]]]

loadProcessedMsgs ==
    LET keys == SetToSortSeq(DOMAIN processedDB, <)
    IN  [i \in DOMAIN keys |-> processedDB[keys[i]]]

-----------------------------------------------------------------------------
(* Running bot and chain.                                                 *)

Init ==
    /\ processedDB = <<>> /\ pendingTxDB = <<>>
    /\ queue = <<>>
    /\ now = 1
    /\ nextSequence = 1
    /\ chainTxs = <<>>
    /\ executed = [m \in Msgs |-> 0]
    /\ produced = <<>>
    /\ up = TRUE
    /\ crashes = 0

\* A handler creates msgs to send: they are stored (when saved) with the
\* block's batch and passed to BroadcastMsgs.  Blocks are far apart in
\* time, so two of them never read the same clock value.
Produce ==
    /\ up
    /\ \E m \in Msgs \ DOMAIN produced, save \in BOOLEAN :
         LET p == ProcessedMsgs(m, save, now)
         IN  /\ processedDB' = ApplyKVs(processedDB, ProcessedMsgsToRawKV(<<p>>, FALSE))
             /\ queue' = Append(queue, p)
             /\ produced' = (m :> save) @@ produced
             /\ now' = now + 1
    /\ UNCHANGED <<pendingTxDB, nextSequence, chainTxs, executed, up, crashes>>

\* The broadcaster sends the next msgs as a tx: savePendingTx, then
\* deleteProcessedMsgs of the msgs' timestamp.
Broadcast ==
    /\ up
    /\ queue # <<>>
    /\ LET p == Head(queue)
       IN  /\ pendingTxDB' = (nextSequence :> [sequence |-> nextSequence, msg |-> p.msg,
                                                 save |-> p.save]) @@ pendingTxDB
           /\ processedDB' = IF p.save
                             THEN Restrict(processedDB, DOMAIN processedDB \ {p.timestamp})
                             ELSE processedDB
    /\ queue' = Tail(queue)
    /\ chainTxs' = (nextSequence :> [msg |-> Head(queue).msg, status |-> "pending"]) @@ chainTxs
    /\ nextSequence' = nextSequence + 1
    /\ UNCHANGED <<now, executed, produced, up, crashes>>

\* The chain includes a pending tx, or drops it when it times out.
Include ==
    /\ \E s \in DOMAIN chainTxs :
         /\ chainTxs[s].status = "pending"
         /\ chainTxs' = [chainTxs EXCEPT ![s].status = "included"]
         /\ executed' = [executed EXCEPT ![chainTxs[s].msg] = @ + 1]
    /\ UNCHANGED <<processedDB, pendingTxDB, queue, now, nextSequence, produced, up, crashes>>

Expire ==
    /\ \E s \in DOMAIN chainTxs :
         /\ chainTxs[s].status = "pending"
         /\ chainTxs' = [chainTxs EXCEPT ![s].status = "expired"]
    /\ UNCHANGED <<processedDB, pendingTxDB, queue, now, nextSequence, executed, produced, up, crashes>>

\* Block processing sees the tx included: deletePendingTx.
ObserveInclusion ==
    /\ up
    /\ \E s \in DOMAIN pendingTxDB :
         /\ chainTxs[s].status = "included"
         /\ pendingTxDB' = Restrict(pendingTxDB, DOMAIN pendingTxDB \ {s})
    /\ UNCHANGED <<processedDB, queue, now, nextSequence, chainTxs, executed, produced, up, crashes>>

Crash ==
    /\ up
    /\ crashes < MaxCrashes
    /\ up' = FALSE
    /\ queue' = <<>>
    /\ crashes' = crashes + 1
    /\ UNCHANGED <<processedDB, pendingTxDB, now, nextSequence, chainTxs, executed, produced>>

\* Mutant of Start: the pending msgs are not broadcast before the loopers.
StartSkipPending(pendingProcessedMsgs) == <<>>

\* Node.Start: with txBroadcastLooper running, BroadcastMsgs of every
\* pending processed msg, in order, before blockProcessLooper starts.
Start(pendingProcessedMsgs) == pendingProcessedMsgs

(***************************************************************************)
(* NewNode -> prepareBroadcaster, then Start.  After waiting out the      *)
(* timeout of the FIRST pending tx (the chain has included or dropped it; *)
(* later ones may still be in the mempool), every loaded pending tx is    *)
(* deleted and the saved ones become                                      *)
(* processed msgs stamped with time.Now(); every loaded processed msg is  *)
(* re-stamped with time.Now(); all of them are written in one batch and   *)
(* Start hands them to the broadcaster first.                             *)
(***************************************************************************)
prepareBroadcaster ==
    /\ ~up
    /\ pendingTxDB # <<>> => chainTxs[Min(DOMAIN pendingTxDB)].status # "pending"
    /\ LET txs      == loadPendingTxs
           saved    == SelectSeq(txs, LAMBDA t : t.save)
           loaded   == loadProcessedMsgs
           n        == Len(saved) + Len(loaded)
       IN  \E step \in [1..(n - 1) -> ClockSteps] :
             LET stamp(i) == now + FoldLeft(+, 0, SubSeq(step, 1, i - 1))
                 fromTxs  == [i \in DOMAIN saved |->
                                ProcessedMsgs(saved[i].msg, TRUE, stamp(i))]
                 reloaded == [i \in DOMAIN loaded |->
                                [loaded[i] EXCEPT !.timestamp = stamp(Len(saved) + i)]]
                 pending  == fromTxs \o reloaded
             IN  /\ pendingTxDB' = ApplyKVs(pendingTxDB, PendingTxsToRawKV(txs, TRUE))
                 /\ processedDB' = ApplyKVs(processedDB, ProcessedMsgsToRawKV(pending, FALSE))
                 /\ queue' = Start(pending)
                 /\ now' = IF n = 0 THEN now ELSE stamp(n) + 1
    /\ up' = TRUE
    /\ UNCHANGED <<nextSequence, chainTxs, executed, produced, crashes>>

\* All msgs of the model are created and sent: the bot idles, waiting for
\* new blocks.
Idle ==
    /\ up
    /\ DOMAIN produced = Msgs /\ queue = <<>>
    /\ UNCHANGED vars

Next ==
    \/ Produce
    \/ Broadcast
    \/ Include
    \/ Expire
    \/ ObserveInclusion
    \/ Crash
    \/ prepareBroadcaster
    \/ Idle

(***************************************************************************)
(* txBroadcastLooper keeps taking the next msgs from the channel; the     *)
(* chain decides every tx by its timeout (TX_TIMEOUT), so none stays      *)
(* pending; a crashed bot is started again.  Producing msgs is up to the  *)
(* L1/L2 events and is not assumed.                                       *)
(***************************************************************************)
Spec == Init /\ [][Next]_vars
        /\ WF_vars(Broadcast)
        /\ WF_vars(Include \/ Expire)
        /\ WF_vars(prepareBroadcaster)
-----------------------------------------------------------------------------
(* Properties                                                             *)

Timestamps == 1..(now - 1)
PersistedProcessedMsgs == [msg : Msgs, save : {TRUE}, timestamp : Timestamps]

\* Types; the store holds only Save msgs, under the keys the clock handed out.
TypeOK ==
    /\ DOMAIN processedDB \subseteq Timestamps
    /\ \A t \in DOMAIN processedDB : processedDB[t] \in PersistedProcessedMsgs
    /\ DOMAIN pendingTxDB \subseteq 1..(nextSequence - 1)
    /\ \A s \in DOMAIN pendingTxDB :
         pendingTxDB[s] \in [sequence : {s}, msg : Msgs, save : BOOLEAN]
    /\ \A i \in DOMAIN queue :
         queue[i] \in [msg : Msgs, save : BOOLEAN, timestamp : Timestamps]
    /\ \A s \in DOMAIN chainTxs :
         chainTxs[s] \in [msg : Msgs, status : {"pending", "included", "expired"}]
    /\ DOMAIN produced \subseteq Msgs
    /\ up \in BOOLEAN /\ crashes \in 0..MaxCrashes

\* The msgs some record of the store still carries.
StoredMsgs ==
    {processedDB[t].msg : t \in DOMAIN processedDB}
        \cup {pendingTxDB[s].msg : s \in {s \in DOMAIN pendingTxDB : pendingTxDB[s].save}}

\* No saved msg is lost: across Produce, Broadcast, crashes and the
\* re-stamping batch of prepareBroadcaster, a saved msg the chain has not
\* executed is still in processed_msgs or pending_tx, so a restart finds it.
NoMsgLost ==
    \A m \in DOMAIN produced : produced[m] => executed[m] > 0 \/ m \in StoredMsgs

\* Each msg has at most one record in the store: a restart that re-stamps a
\* processed msg replaces its record, it does not add a second one that a
\* later restart would load and broadcast again.
NoDuplicateStoredMsgs ==
    LET procKeys == DOMAIN processedDB
        saved    == {s \in DOMAIN pendingTxDB : pendingTxDB[s].save}
    IN  /\ \A t1, t2 \in procKeys : t1 # t2 => processedDB[t1].msg # processedDB[t2].msg
        /\ \A t \in procKeys, s \in saved : processedDB[t].msg # pendingTxDB[s].msg

\* No msg is executed by two included txs: a restart does not broadcast
\* again what the chain has already included.
ExecutedAtMostOnce == \A m \in Msgs : executed[m] <= 1

\* Every saved msg is eventually sent in a tx, even when the bot crashes
\* before broadcasting it: the restart loads it from processed_msgs and
\* Start hands it to the broadcaster again.
SavedMsgsEventuallySent ==
    \A m \in Msgs :
        (m \in DOMAIN produced /\ produced[m])
            ~> \E s \in DOMAIN chainTxs : chainTxs[s].msg = m

=============================================================================
