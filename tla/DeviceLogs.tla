----------------------------- MODULE DeviceLogs -----------------------------
(***************************************************************************)
(* The log stream of one device from its write request to the readers, by  *)
(* way of Redis: LogWriteStream composed with the Redis backend            *)
(* (src/features/device-logs/lib/backends/redis.ts) and the streaming      *)
(* reads (handleStreamingRead of src/features/device-logs/lib/read.ts).    *)
(*                                                                         *)
(* The publishLogs script pushes a batch to the list and publishes it on   *)
(* the device's channel only if the subscribers counter exists.  Each      *)
(* instance subscribes to the channel and increments the counter for its   *)
(* first reader, over two connections and without waiting for either, and  *)
(* undoes both for its last.  A reader asks for the history meanwhile.     *)
(*                                                                         *)
(* A message is the position of its item in feed.                          *)
(***************************************************************************)
EXTENDS LogWriteStream, FiniteSets, SequencesExt

CONSTANTS
    Readers,       \* streaming reads of the device's logs
    InstanceOf,    \* the instance that serves a reader
    Count,         \* the history a reader asks for; 0 is the default
    Compressing,   \* instances with REDIS_LOGS_COMPRESSION_ENABLED
    CreatedAt,     \* the millisecond a line arrived in
    Crashes        \* instances that may stop

ASSUME ReadAssumption ==
    /\ IsFiniteSet(Instances)
    /\ InstanceOf \in [Readers -> Instances]
    /\ Count \in [Readers -> Nat]
    /\ Compressing \subseteq Instances
    /\ CreatedAt \in [1 .. MaxLogs -> Nat \ {0}]
    /\ \A i, j \in 1 .. MaxLogs : i < j => CreatedAt[i] <= CreatedAt[j]
    /\ Crashes \subseteq Instances \ {Home}

VARIABLES
    counter,       \* the subscribers key; 0 when it does not exist
    commands,      \* incrSubscribers and decrSubscribers sent, not executed
    channelCmds,   \* (UN)SUBSCRIBE sent, not executed
    subscribed,    \* the instance's pubSub connection is subscribed
    inbox,         \* messages on their way to the instance
    reader,
    joined         \* history variable: where a reader's subscription began

readVars == <<counter, commands, channelCmds, subscribed, inbox, reader>>

vars == <<writeVars, readVars, joined>>

-----------------------------------------------------------------------------
Positions == 1 .. MaxLogs

(* StreamState; Flushing lasts for part of one step.  sent is what was     *)
(* written to the response; warned and dropped hold the messages that      *)
(* suppression warnings stand for, written and to be written.              *)
Reader ==
    [state : {"idle", "Buffering", "Writable", "Saturated", "Closed"},
     listening : BOOLEAN,
     asked : {"no", "asked", "answered"},
     history : Seq(Positions),
     buffer : Seq(Positions),
     sent : Seq(Positions),
     dropped : SUBSET Positions,
     warned : SUBSET Positions]

IdleReader ==
    [state |-> "idle", listening |-> FALSE, asked |-> "no", history |-> <<>>,
     buffer |-> <<>>, sent |-> <<>>, dropped |-> {}, warned |-> {}]

TypeOK ==
    /\ WriteTypeOK
    /\ counter \in Nat
    /\ commands \in [Instances -> Seq({"incr", "decr"})]
    /\ channelCmds \in [Instances -> Seq({"subscribe", "unsubscribe"})]
    /\ subscribed \in [Instances -> BOOLEAN]
    /\ inbox \in [Instances -> Seq(Positions)]
    /\ reader \in [Readers -> Reader]
    /\ joined \in [Readers -> {-1} \cup Nat]

Init ==
    /\ WriteInit
    /\ counter = 0
    /\ commands = [i \in Instances |-> <<>>]
    /\ channelCmds = [i \in Instances |-> <<>>]
    /\ subscribed = [i \in Instances |-> FALSE]
    /\ inbox = [i \in Instances |-> <<>>]
    /\ reader = [r \in Readers |-> IdleReader]
    /\ joined = [r \in Readers |-> -1]

Listeners(i) == {r \in Readers : InstanceOf[r] = i /\ reader[r].listening}

-----------------------------------------------------------------------------
(* subscribe: "if (!this.connected) return".                               *)
Subscribe(i) ==
    IF up[i] /\ Listeners(i) = {}
    THEN /\ channelCmds' = [channelCmds EXCEPT ![i] = Append(@, "subscribe")]
         /\ commands' = [commands EXCEPT ![i] = Append(@, "incr")]
    ELSE UNCHANGED <<channelCmds, commands>>

(* handleStreamingRead.  A reader that asks for no history, or whose       *)
(* backend refuses to look it up, is writable at once.                     *)
Open(r) ==
    LET i == InstanceOf[r]
        asks == Count[r] > 0 /\ up[i]
    IN  /\ reader[r].state = "idle"
        /\ reader' = [reader EXCEPT ![r] =
                        [@ EXCEPT !.state = IF asks THEN "Buffering" ELSE "Writable",
                                  !.listening = up[i],
                                  !.asked = IF asks THEN "asked" ELSE "no"]]
        /\ Subscribe(i)
        /\ UNCHANGED <<counter, subscribed, inbox, writeVars>>

(* LRANGE of the last Count[r] items of the list, which the publish script *)
(* trims to the retention limit.                                           *)
Lookback(r) == IF Count[r] < RetentionLimit THEN Count[r] ELSE RetentionLimit

ReadHistory(r) ==
    /\ reader[r].asked = "asked"
    /\ reader' = [reader EXCEPT ![r] =
                    [@ EXCEPT !.asked = "answered",
                              !.history = LET n == Len(feed)
                                              k == IF n < Lookback(r) THEN n ELSE Lookback(r)
                                          IN  [j \in 1 .. k |-> n - k + j]]]
    /\ UNCHANGED <<counter, commands, channelCmds, subscribed, inbox, writeVars>>

At(p) == CreatedAt[feed[p].from]

(* "Append the subscription logs to the history queue": from the first     *)
(* buffered one that is later than the last of the history.                *)
Merged(history, buffered) ==
    LET afterDate == IF history = <<>> THEN 0 ELSE At(Last(history))
        later == {k \in 1 .. Len(buffered) : At(buffered[k]) > afterDate}
    IN  IF later = {} THEN history
        ELSE history \o SubSeq(buffered, CHOOSE k \in later : \A j \in later : k <= j,
                               Len(buffered))

(* "Ensure we don't send more than the retention limit"                    *)
Retained(logs) ==
    IF Len(logs) > RetentionLimit
    THEN SubSeq(logs, Len(logs) - RetentionLimit + 1, Len(logs)) ELSE logs

(* The history is there, or could not be had: write it, without dropping   *)
(* any of the burst.  A reader that was closed meanwhile stops.            *)
Flushed(x, logs) ==
    IF x.state = "Closed" THEN [x EXCEPT !.asked = "no", !.history = <<>>]
    ELSE [x EXCEPT !.state = "Writable", !.asked = "no", !.history = <<>>,
                   !.buffer = <<>>, !.sent = Retained(logs)]

FlushHistory(r) ==
    /\ reader[r].asked = "answered"
    /\ reader' = [reader EXCEPT ![r] = Flushed(@, Merged(@.history, @.buffer))]
    /\ UNCHANGED <<counter, commands, channelCmds, subscribed, inbox, writeVars>>

HistoryFails(r) ==
    /\ reader[r].asked = "asked"
    /\ reader' = [reader EXCEPT ![r] = Flushed(@, Merged(<<>>, @.buffer))]
    /\ UNCHANGED <<counter, commands, channelCmds, subscribed, inbox, writeVars>>

(* onLog.  saturates is "!write(...)": the response wants no more for now. *)
OnLog(x, p, saturates) ==
    CASE x.state = "Buffering" -> [x EXCEPT !.buffer = Append(@, p)]
      [] x.state = "Saturated" -> [x EXCEPT !.dropped = @ \cup {p}]
      [] OTHER -> [x EXCEPT !.sent = Append(@, p),
                            !.state = IF saturates THEN "Saturated" ELSE "Writable"]

(* handleMessage.  Messages are decompressed off the main thread, and may  *)
(* overtake each other there.                                              *)
HandleMessage(i, k, saturated) ==
    /\ inbox[i] # <<>>
    /\ k \in 1 .. Len(inbox[i])
    /\ i \notin Compressing => k = 1
    /\ saturated \subseteq {r \in Listeners(i) : reader[r].state = "Writable"}
    /\ reader' = [r \in Readers |->
                    IF r \in Listeners(i) THEN OnLog(reader[r], inbox[i][k], r \in saturated)
                    ELSE reader[r]]
    /\ inbox' = [inbox EXCEPT ![i] = RemoveAt(@, k)]
    /\ UNCHANGED <<counter, commands, channelCmds, subscribed, writeVars>>

(* Mutant: the count is reset without a warning.                           *)
DrainedSilently(x, saturates) ==
    [x EXCEPT !.state = "Writable", !.dropped = {}]

(* 'drain': the warning for the dropped messages may saturate it again.    *)
Drained(x, saturates) ==
    [x EXCEPT !.state = IF x.dropped # {} /\ saturates THEN "Saturated" ELSE "Writable",
              !.warned = @ \cup x.dropped,
              !.dropped = {}]

Drain(r, saturates) ==
    /\ reader[r].state = "Saturated"
    /\ reader' = [reader EXCEPT ![r] = Drained(@, saturates)]
    /\ UNCHANGED <<counter, commands, channelCmds, subscribed, inbox, writeVars>>

(* Mutant: unsubscribe does not look for other listeners.                  *)
UnsubscribeAlways(i, rest, decremented) ==
    /\ channelCmds' = [channelCmds EXCEPT ![i] = Append(@, "unsubscribe")]
    /\ commands' = [commands EXCEPT ![i] = IF decremented THEN Append(@, "decr") ELSE @]

(* unsubscribe, with rest as the listeners that remain.  There is no       *)
(* offline queue: the decrement of a disconnected instance may be lost.    *)
Unsubscribe(i, rest, decremented) ==
    IF rest = {}
    THEN /\ channelCmds' = [channelCmds EXCEPT ![i] = Append(@, "unsubscribe")]
         /\ commands' = [commands EXCEPT ![i] = IF decremented THEN Append(@, "decr") ELSE @]
    ELSE UNCHANGED <<channelCmds, commands>>

Close(r, decremented) ==
    /\ reader[r].state \in {"Buffering", "Writable", "Saturated"}
    /\ decremented \/ ~up[InstanceOf[r]]
    /\ reader' = [reader EXCEPT ![r] =
                    [@ EXCEPT !.state = "Closed", !.listening = FALSE, !.buffer = <<>>,
                              !.sent = <<>>, !.dropped = {}, !.warned = {}]]
    /\ Unsubscribe(InstanceOf[r], Listeners(InstanceOf[r]) \ {r}, decremented)
    /\ UNCHANGED <<counter, subscribed, inbox, writeVars>>

-----------------------------------------------------------------------------
(* Redis.  incrSubscribers and decrSubscribers: the key is deleted when    *)
(* it would not be positive.                                               *)
ExecuteCommand(i) ==
    /\ commands[i] # <<>>
    /\ counter' = IF Head(commands[i]) = "incr" THEN counter + 1
                  ELSE IF counter > 1 THEN counter - 1 ELSE 0
    /\ commands' = [commands EXCEPT ![i] = Tail(@)]
    /\ UNCHANGED <<channelCmds, subscribed, inbox, reader, writeVars>>

ExecuteChannelCommand(i) ==
    /\ channelCmds[i] # <<>>
    /\ subscribed' = [subscribed EXCEPT ![i] = (Head(channelCmds[i]) = "subscribe")]
    /\ channelCmds' = [channelCmds EXCEPT ![i] = Tail(@)]
    /\ UNCHANGED <<counter, commands, inbox, reader, writeVars>>

(* publishLogs *)
PublishLogs ==
    /\ Publish
    /\ inbox' = [i \in Instances |->
                   IF counter > 0 /\ subscribed[i]
                   THEN inbox[i] \o [j \in 1 .. Len(inflight) |-> Len(feed) + j]
                   ELSE inbox[i]]
    /\ UNCHANGED <<counter, commands, channelCmds, subscribed, reader>>

(* The counter expires an hour after the last heartbeat of an instance     *)
(* with listeners.                                                         *)
ExpireCounter ==
    /\ counter > 0
    /\ \A i \in Instances : Listeners(i) = {} /\ commands[i] = <<>>
    /\ counter' = 0
    /\ UNCHANGED <<commands, channelCmds, subscribed, inbox, reader, writeVars>>

(* An instance stops: its readers are cut off and nothing is decremented.  *)
Crash(i) ==
    /\ i \in Crashes
    /\ Listeners(i) # {}
    /\ reader' = [r \in Readers |->
                    IF InstanceOf[r] = i /\ reader[r].state # "idle"
                    THEN [IdleReader EXCEPT !.state = "Closed"] ELSE reader[r]]
    /\ commands' = [commands EXCEPT ![i] = <<>>]
    /\ channelCmds' = [channelCmds EXCEPT ![i] = <<>>]
    /\ subscribed' = [subscribed EXCEPT ![i] = FALSE]
    /\ inbox' = [inbox EXCEPT ![i] = <<>>]
    /\ UNCHANGED <<counter, writeVars>>

-----------------------------------------------------------------------------
Write ==
    /\ \/ \E k \in 1 .. MaxChunk : Data(k)
       \/ TryPublish
       \/ PublishFails
       \/ \E i \in Instances : Disconnect(i)
       \/ \E i \in Instances : Reconnect(i)
    /\ UNCHANGED readVars

Read(r) ==
    \/ Open(r)
    \/ ReadHistory(r)
    \/ FlushHistory(r)
    \/ HistoryFails(r)
    \/ \E saturates \in BOOLEAN : Drain(r, saturates)
    \/ \E decremented \in BOOLEAN : Close(r, decremented)

Redis ==
    \/ PublishLogs
    \/ ExpireCounter
    \/ \E i \in Instances :
         \/ ExecuteCommand(i)
         \/ ExecuteChannelCommand(i)
         \/ Crash(i)
         \/ \E k \in Positions, s \in SUBSET Readers : HandleMessage(i, k, s)

(* The reader's subscription is in place: all commands of its instance     *)
(* were executed.                                                          *)
Established(r) ==
    /\ reader[r].listening
    /\ commands[InstanceOf[r]] = <<>>
    /\ channelCmds[InstanceOf[r]] = <<>>

Observe ==
    joined' = [r \in Readers |->
                 IF ~Established(r)' THEN -1
                 ELSE IF joined[r] = -1 THEN Len(feed') ELSE joined[r]]

Next ==
    /\ Write \/ (\E r \in Readers : Read(r)) \/ Redis
    /\ Observe

Spec == Init /\ [][Next]_vars

-----------------------------------------------------------------------------
(* "We know that if the key is false (doesn't exist) then there are no     *)
(* subscribers as it is cleared upon reaching 0": an instance that serves  *)
(* a reader, and whose increment was executed, finds the counter set.      *)
SubscribersCounted ==
    \A i \in Instances : Listeners(i) # {} /\ commands[i] = <<>> => counter > 0

(* Where the messages of reader r are, or were written.                    *)
Held(r) ==
    LET x == reader[r]
    IN  ToSet(x.sent) \cup ToSet(x.buffer) \cup ToSet(inbox[InstanceOf[r]])
           \cup x.dropped \cup x.warned

(* A reader misses nothing that is published once its subscription is in   *)
(* place: "Subscribe in parallel so we don't miss logs in between".  Every *)
(* message is written, on its way, or accounted for by a warning, although *)
(* other readers come and go and the history is merged in between; only    *)
(* the oldest of a history beyond the retention limit are left out (for    *)
(* which the messages must not have overtaken each other).                 *)
BeforeFirst(r, p) ==
    Count[r] > 0 /\ reader[r].sent # <<>> /\ p < Head(reader[r].sent)

NothingMissed ==
    \A r \in Readers :
        joined[r] # -1 /\ (Count[r] = 0 \/ InstanceOf[r] \notin Compressing) =>
            \A p \in joined[r] + 1 .. Len(feed) : p \in Held(r) \/ BeforeFirst(r, p)

(* Readers, counters and commands under way are well-formed, and           *)
(* SubscribersCounted.                                                     *)
StreamInv == TypeOK /\ SubscribersCounted
=============================================================================
