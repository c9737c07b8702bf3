--------------------------- MODULE LogWriteStream ---------------------------
(***************************************************************************)
(* A device's streaming write of its logs (handleStreamingWrite of         *)
(* src/features/device-logs/lib/store.ts): lines are buffered as they      *)
(* arrive, a timer flushes the buffer to the logs backend, and the request *)
(* is paused for back-pressure.  JavaScript runs each callback to its end, *)
(* so a step is what runs between two events: a chunk of lines, the timer, *)
(* the answer of the backend.                                              *)
(*                                                                         *)
(* Lines are numbered in the order they arrive.  A suppression warning     *)
(* stands for the lines it replaces (the code prints how many).            *)
(***************************************************************************)
EXTENDS Naturals, Sequences

CONSTANTS
    Instances,         \* API instances
    Home,              \* the one that serves the write request
    Outages,           \* those whose connection to Redis may be lost
    MaxLogs,           \* bound: lines the device sends
    MaxChunk,          \* lines parsed from one chunk of the request
    WriteBufferLimit,  \* LOGS_WRITE_BUFFER_LIMIT
    RetentionLimit     \* LogContext.retention_limit

ASSUME WriteAssumption ==
    /\ Home \in Instances
    /\ Outages \subseteq Instances
    /\ MaxLogs \in Nat
    /\ MaxChunk \in Nat \ {0}
    /\ WriteBufferLimit \in Nat \ {0}
    /\ RetentionLimit \in Nat \ {0}

VARIABLES
    received,          \* number of lines parsed so far
    buffer,
    paused,            \* req.isPaused()
    timer,             \* a setTimeout(tryPublish) is pending
    publishScheduled,
    inflight,          \* the batch publishBackend is publishing
    feed,              \* all that was ever pushed to the device's Redis list
    up                 \* connected, for each instance

writeVars == <<received, buffer, paused, timer, publishScheduled, inflight, feed, up>>

-----------------------------------------------------------------------------
Item == [from : 1 .. MaxLogs, upto : 1 .. MaxLogs, warning : BOOLEAN]

Line(i) == [from |-> i, upto |-> i, warning |-> FALSE]

WriteTypeOK ==
    /\ received \in 0 .. MaxLogs
    /\ buffer \in Seq(Item)
    /\ paused \in BOOLEAN
    /\ timer \in BOOLEAN
    /\ publishScheduled \in BOOLEAN
    /\ inflight \in Seq(Item)
    /\ feed \in Seq(Item)
    /\ up \in [Instances -> BOOLEAN]

WriteInit ==
    /\ received = 0
    /\ buffer = <<>>
    /\ paused = FALSE
    /\ timer = FALSE
    /\ publishScheduled = FALSE
    /\ inflight = <<>>
    /\ feed = <<>>
    /\ up = [i \in Instances |-> TRUE]

available == up[Home]

(* bufferLimit: "Math.min(LOGS_WRITE_BUFFER_LIMIT, ctx.retention_limit)"   *)
BufferLimit == IF WriteBufferLimit < RetentionLimit THEN WriteBufferLimit ELSE RetentionLimit

(* schedule(): nothing while a publish is scheduled or running.            *)
Schedule ==
    /\ timer' = (timer \/ ~publishScheduled)
    /\ publishScheduled' = TRUE

(* Mutants: the buffer is tested after the push; only an unavailable       *)
(* backend pauses the request.                                             *)
DataTestedAfterPush(k) ==
    /\ ~paused
    /\ received + k <= MaxLogs
    /\ received' = received + k
    /\ buffer' = buffer \o [j \in 1 .. k |-> Line(received + j)]
    /\ paused' = (Len(buffer) + k >= BufferLimit \/ ~available)
    /\ UNCHANGED <<timer, publishScheduled>>
    /\ UNCHANGED <<inflight, feed, up>>

DataWithoutLimit(k) ==
    /\ ~paused
    /\ received + k <= MaxLogs
    /\ received' = received + k
    /\ buffer' = buffer \o [j \in 1 .. k |-> Line(received + j)]
    /\ paused' = ~available
    /\ IF buffer = <<>> THEN Schedule ELSE UNCHANGED <<timer, publishScheduled>>
    /\ UNCHANGED <<inflight, feed, up>>

(* The 'data' events of the lines of a chunk: the pause stops the request, *)
(* not the lines the parser already holds.  Lines that do not convert are  *)
(* ignored.                                                                *)
Data(k) ==
    /\ ~paused
    /\ received + k <= MaxLogs
    /\ received' = received + k
    /\ buffer' = buffer \o [j \in 1 .. k |-> Line(received + j)]
    /\ paused' = (Len(buffer) + k >= BufferLimit \/ ~available)
    /\ IF buffer = <<>> THEN Schedule ELSE UNCHANGED <<timer, publishScheduled>>
    /\ UNCHANGED <<inflight, feed, up>>

(* Mutant: the splice takes one line too many.                             *)
TruncatedTooFar(b) ==
    LET deleteCount == Len(b) - BufferLimit
    IN  IF Len(b) > BufferLimit
        THEN <<[from |-> b[1].from, upto |-> b[deleteCount].upto, warning |-> TRUE]>>
                \o SubSeq(b, deleteCount + 2, Len(b))
        ELSE b

(* The oldest lines beyond the limit are replaced by one warning.          *)
Truncated(b) ==
    LET deleteCount == Len(b) - BufferLimit
    IN  IF Len(b) > BufferLimit
        THEN <<[from |-> b[1].from, upto |-> b[deleteCount].upto, warning |-> TRUE]>>
                \o SubSeq(b, deleteCount + 1, Len(b))
        ELSE b

(* Mutant: nothing is flushed while the request is paused.                 *)
TryPublishUnlessPaused ==
    /\ timer
    /\ buffer # <<>>
    /\ available
    /\ ~paused
    /\ timer' = FALSE
    /\ inflight' = Truncated(buffer)
    /\ buffer' = <<>>
    /\ UNCHANGED <<received, paused, publishScheduled, feed, up>>

(* tryPublish, up to the answer of the backend.  While the backend is      *)
(* unavailable it only schedules itself again.                             *)
TryPublish ==
    /\ timer
    /\ buffer # <<>>
    /\ available
    /\ timer' = FALSE
    /\ inflight' = Truncated(buffer)
    /\ buffer' = <<>>
    /\ paused' = FALSE
    /\ UNCHANGED <<received, publishScheduled, feed, up>>

(* The rest of tryPublish once the batch is in the list: "Reschedule       *)
(* publishing if more logs arrived whilst we were in progress".            *)
Publish ==
    /\ inflight # <<>>
    /\ feed' = feed \o inflight
    /\ inflight' = <<>>
    /\ publishScheduled' = (buffer # <<>>)
    /\ timer' = (buffer # <<>>)
    /\ UNCHANGED <<received, buffer, paused, up>>

(* A line that cannot be encoded or a Redis error: handleStoreErrors ends  *)
(* the response and publishScheduled stays set, so that nothing of this    *)
(* request is published any more.                                          *)
PublishFails ==
    /\ inflight # <<>>
    /\ inflight' = <<>>
    /\ UNCHANGED <<received, buffer, paused, timer, publishScheduled, feed, up>>

Disconnect(i) ==
    /\ i \in Outages /\ up[i]
    /\ up' = [up EXCEPT ![i] = FALSE]
    /\ UNCHANGED <<received, buffer, paused, timer, publishScheduled, inflight, feed>>

Reconnect(i) ==
    /\ ~up[i]
    /\ up' = [up EXCEPT ![i] = TRUE]
    /\ UNCHANGED <<received, buffer, paused, timer, publishScheduled, inflight, feed>>

WriteNext ==
    \/ \E k \in 1 .. MaxChunk : Data(k)
    \/ TryPublish
    \/ Publish
    \/ PublishFails
    \/ \E i \in Instances : Disconnect(i)
    \/ \E i \in Instances : Reconnect(i)

WriteSpec == WriteInit /\ [][WriteNext]_writeVars

(* Timers fire and the backend answers.                                    *)
FairWriteSpec == WriteSpec /\ WF_writeVars(TryPublish) /\ WF_writeVars(Publish \/ PublishFails)

-----------------------------------------------------------------------------
(* publishScheduled is set with no timer or batch left to reset it.        *)
Failed == publishScheduled /\ ~timer /\ inflight = <<>>

(* The lines of s are n + 1, n + 2 and so on, and end with LastOf(s, n).   *)
Continues(s, n) ==
    \A k \in 1 .. Len(s) : s[k].from = 1 + (IF k = 1 THEN n ELSE s[k - 1].upto)

LastOf(s, n) == IF s = <<>> THEN n ELSE s[Len(s)].upto

(* Every line the device sent is in the list, on its way there or buffered,*)
(* in order and once, or counted by a suppression warning in its place;    *)
(* what a failed publish loses is the end of it, never a gap.              *)
LinesAccountedFor ==
    LET kept == feed \o inflight \o (IF Failed THEN <<>> ELSE buffer)
    IN  Continues(kept, 0) /\ (Failed \/ LastOf(kept, 0) = received)

(* A buffered line, or a request paused for back-pressure, always has a    *)
(* flush ahead: a timer, or a running publish that will schedule one.      *)
BufferWillFlush ==
    (buffer # <<>> \/ paused) /\ ~Failed =>
        buffer # <<>> /\ (timer \/ inflight # <<>>)

(* However long the backend is down or slow, back-pressure keeps the       *)
(* buffer of a request below its limit plus one chunk.                     *)
BufferBounded == Len(buffer) < BufferLimit + MaxChunk

(* Every line the device sent ends up in the list or in a warning there,   *)
(* once the backend stays available, unless a publish failed.              *)
EveryLineIsPublished ==
    \A n \in 1 .. MaxLogs :
        <>[]available => (received >= n ~> (LastOf(feed, 0) >= n \/ Failed))
=============================================================================
