----------------------------- MODULE HostQueues -----------------------------
(***************************************************************************)
(* BaseHost's msg buffers (src/provider/host/host.go): msgQueue, a map of *)
(* sender -> []sdk.Msg, and processedMsgs, with Go slice semantics.  A    *)
(* slice is a header [arr, len, cap] over a backing array; append writes  *)
(* in place while len < cap and otherwise copies into a new array of      *)
(* twice the capacity (1 for an empty slice); s[:0] keeps the array.      *)
(* The handlers that call these methods are outside src/: they appear as  *)
(* the environment, using only the host's API.  sdk.Msg values are model  *)
(* values; a ProcessedMsgs carries the msgs of one sender.                *)
(***************************************************************************)
EXTENDS Naturals, Sequences, TLC

CONSTANTS
    Senders,      \* msg senders (the keys of msgQueue)
    Msgs,         \* sdk.Msg values
    MaxAppends,   \* bound on AppendMsgQueue calls
    MaxPending    \* bound on ProcessedMsgs held by the host or the broadcaster

VARIABLES
    arrays,         \* backing arrays: arrays[a] is a function 0..cap-1 -> Msgs
    msgQueue,       \* BaseHost.msgQueue: sender -> slice header (a partial function)
    processedMsgs,  \* BaseHost.processedMsgs: ProcessedMsgs values
    queued,         \* history: per sender, the msgs appended since its last reset
    appends         \* AppendMsgQueue calls so far

vars == <<arrays, msgQueue, processedMsgs, queued, appends>>

\* The zero slice a map miss returns: no array, len 0, cap 0.
NilSlice == [arr |-> 0, len |-> 0, cap |-> 0]

\* The elements a slice header designates, read now.
Read(h) == [i \in 1..h.len |-> arrays[h.arr][i - 1]]

(***************************************************************************)
(* append(h, x): the new header, and the arrays after the write.  A full  *)
(* slice moves to a new array of twice its capacity, 1 from empty, as the *)
(* runtime grows a small slice of interfaces.                             *)
(***************************************************************************)
AppendSlice(h, x) ==
    IF h.len < h.cap
    THEN [h   |-> [h EXCEPT !.len = @ + 1],
          mem |-> [arrays EXCEPT ![h.arr][h.len] = x]]
    ELSE LET c   == IF h.cap = 0 THEN 1 ELSE 2 * h.cap
             new == [i \in 0..(c - 1) |->
                       IF i < h.len THEN arrays[h.arr][i] ELSE x]
         IN  [h   |-> [arr |-> Len(arrays) + 1, len |-> h.len + 1, cap |-> c],
              mem |-> Append(arrays, new)]

\* BaseHost.msgQueue[sender], a map miss giving the nil slice.
GetMsgQueue(sender) == IF sender \in DOMAIN msgQueue THEN msgQueue[sender] ELSE NilSlice

Init ==
    /\ arrays = <<>>
    /\ msgQueue = <<>>          \* make(map[string][]sdk.Msg)
    /\ processedMsgs = <<>>     \* make([]btypes.ProcessedMsgs, 0)
    /\ queued = [s \in Senders |-> <<>>]
    /\ appends = 0

\* AppendMsgQueue: msgQueue[sender] = append(msgQueue[sender], msg).
AppendMsgQueue(msg, sender) ==
    /\ appends < MaxAppends
    /\ LET r == AppendSlice(GetMsgQueue(sender), msg)
       IN  /\ msgQueue' = (sender :> r.h) @@ msgQueue
           /\ arrays' = r.mem
    /\ queued' = [queued EXCEPT ![sender] = Append(@, msg)]
    /\ appends' = appends + 1
    /\ UNCHANGED processedMsgs

\* Mutant of EmptyMsgQueue: the reset applied to a copy of each slice.
EmptyMsgQueueOnCopy ==
    /\ queued' = [s \in Senders |-> <<>>]
    /\ UNCHANGED <<arrays, msgQueue, processedMsgs, appends>>

\* EmptyMsgQueue: msgQueue[sender] = msgQueue[sender][:0] for every sender.
EmptyMsgQueue ==
    /\ msgQueue' = [s \in DOMAIN msgQueue |-> [msgQueue[s] EXCEPT !.len = 0]]
    /\ queued' = [s \in Senders |-> <<>>]
    /\ UNCHANGED <<arrays, processedMsgs, appends>>

\* A handler wraps GetMsgQueue()[sender] in a ProcessedMsgs and calls
\* AppendProcessedMsgs: the value keeps the slice header, not a copy.
AppendProcessedMsgs(sender) ==
    /\ Len(processedMsgs) < MaxPending
    /\ GetMsgQueue(sender).len > 0
    /\ processedMsgs' = Append(processedMsgs, [msgs |-> GetMsgQueue(sender)])
    /\ UNCHANGED <<arrays, msgQueue, queued, appends>>

\* EmptyProcessedMsgs: processedMsgs = processedMsgs[:0].
EmptyProcessedMsgs ==
    /\ processedMsgs' = <<>>
    /\ UNCHANGED <<arrays, msgQueue, queued, appends>>

Next ==
    \/ \E m \in Msgs, s \in Senders : AppendMsgQueue(m, s)
    \/ EmptyMsgQueue
    \/ \E s \in Senders : AppendProcessedMsgs(s)
    \/ EmptyProcessedMsgs

Spec == Init /\ [][Next]_vars

-----------------------------------------------------------------------------
(* Properties                                                             *)

\* GetMsgQueue()[sender] reads back exactly the msgs AppendMsgQueue added
\* for that sender since the last EmptyMsgQueue, in order, although the
\* reset reuses an array still holding an earlier block's msgs and append
\* may move the slice to a new array.
QueueReadsBack ==
    \A s \in Senders : Read(GetMsgQueue(s)) = queued[s]

=============================================================================
