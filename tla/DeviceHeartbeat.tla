-------------------------- MODULE DeviceHeartbeat --------------------------
(***************************************************************************)
(* The API heartbeat of a device (src/features/device-heartbeat/index.ts,  *)
(* class DeviceOnlineStateManager).  Every state GET of a device runs      *)
(* captureEventFor: it reads the device's entry of the Redis write cache,  *)
(* writes api_heartbeat_state = online to the database unless the cache    *)
(* says it is there already, deletes the expiry message the entry names,   *)
(* sends a new delayed one and replaces the entry.  A consumer per API     *)
(* instance takes the messages that are due: the first one moves the       *)
(* device to timeout and schedules a second one, which moves it to         *)
(* offline and drops the cache entry.                                      *)
(*                                                                         *)
(* Each await of the code is a step of its own, so handlers of one device, *)
(* the consumers and the background scheduling they start interleave as    *)
(* they do across the API's instances.  Time is abstracted to events: a    *)
(* message falls due, a cache entry expires, an updatedAt grows stale.     *)
(***************************************************************************)
EXTENDS Naturals, FiniteSets

CONSTANTS
    Devices,
    Handlers,      \* slots for running calls of captureEventFor, and
    Background,    \* of scheduleChangeOfStateForDevice left running by a
                   \* consumer, over all instances
    Consumers,     \* one consume() loop per API instance
    MsgIds,        \* RSMQ message ids, reused once their message is deleted
    NoId,
    MortalDevices, \* those that may stop polling
    MaxQueued,     \* a new poll waits while more messages than this exist
    UpdateCacheTimeoutSet, \* API_HEARTBEAT_STATE_ONLINE_UPDATE_CACHE_TIMEOUT != null
    PromptCalls,   \* no call outlasts a message's delay or visibility timeout
    FaultKinds,    \* which operations may fail
    MaxFaults

Workers == Handlers \cup Background

AllFaultKinds == {"read", "delete", "handler", "consumer"}

ASSUME HeartbeatAssumption ==
    /\ MsgIds \subseteq Nat
    /\ NoId \notin MsgIds
    /\ Devices # {}
    /\ MortalDevices \subseteq Devices
    /\ UpdateCacheTimeoutSet \in BOOLEAN
    /\ PromptCalls \in BOOLEAN
    /\ FaultKinds \subseteq AllFaultKinds
    /\ MaxQueued \in Nat
    /\ MaxFaults \in Nat

VARIABLES
    db,        \* device.api_heartbeat_state, as committed
    cache,     \* the entry device-online-state:<id> in Redis
    queue,     \* the RSMQ queue "expired", by message id
    worker,    \* running calls
    consumer,  \* the consume() loops
    alive,     \* the device still polls for its state
    faults     \* number of failures so far

vars == <<db, cache, queue, worker, consumer, alive, faults>>

-----------------------------------------------------------------------------
DeviceOnlineStates == {"unknown", "timeout", "offline", "online"}

(* DeviceOnlineStateManagerMessage; NoState stands for undefined.          *)
ManagerState ==
    [id : MsgIds \cup {NoId},
     currentState : {"none", "online", "timeout"},
     updatedAt : {"none", "fresh", "stale"}]

NoState == [id |-> NoId, currentState |-> "none", updatedAt |-> "none"]

(* A message carries { deviceId, nextState }.  It is delayed until its     *)
(* delay has passed, then visible, and hidden for vt seconds once received.*)
Message ==
    [st : {"absent", "delayed", "visible", "hidden"},
     dev : Devices,
     nextState : {"timeout", "offline"}]

Queued(i) == queue[i].st # "absent"

QueuedIds == {i \in MsgIds : Queued(i)}

Call ==
    [pc : {"idle", "read", "update", "delete", "send", "set"},
     dev : Devices,
     prev : ManagerState,                   \* previousManagerState
     currentState : {"online", "timeout"},  \* online: captureEventFor
     newId : MsgIds \cup {NoId},
     updatedAt : {"none", "fresh", "stale"}]

Consumption ==
    [pc : {"idle", "update", "schedule", "delCache", "ack"},
     id : MsgIds \cup {NoId},
     dev : Devices,
     nextState : {"timeout", "offline"}]

TypeOK ==
    /\ db \in [Devices -> DeviceOnlineStates]
    /\ cache \in [Devices -> ManagerState]
    /\ queue \in [MsgIds -> Message]
    /\ worker \in [Workers -> Call]
    /\ consumer \in [Consumers -> Consumption]
    /\ alive \in [Devices -> BOOLEAN]
    /\ faults \in 0 .. MaxFaults

(* Mutants: the state itself is queued; the second expiry is a timeout.    *)
NextOfUnshifted(currentState) == currentState
NextOfTimeout(currentState) == "timeout"

(* The state scheduleChangeOfStateForDevice is asked to schedule next:     *)
(* captureEventFor passes Online, Timeout; consume passes Timeout, Offline.*)
NextOf(currentState) == IF currentState = "online" THEN "timeout" ELSE "offline"

(* sendMessageAsync returns an id no other message has.                    *)
FreshId(i) ==
    /\ ~Queued(i)
    /\ \A j \in MsgIds : ~Queued(j) => i <= j

AnyDevice == CHOOSE d \in Devices : TRUE

IdleCall ==
    [pc |-> "idle", dev |-> AnyDevice, prev |-> NoState,
     currentState |-> "online", newId |-> NoId, updatedAt |-> "none"]

IdleConsumption ==
    [pc |-> "idle", id |-> NoId, dev |-> AnyDevice, nextState |-> "timeout"]

AbsentMessage == [st |-> "absent", dev |-> AnyDevice, nextState |-> "timeout"]

Init ==
    /\ db = [d \in Devices |-> "unknown"]
    /\ cache = [d \in Devices |-> NoState]
    /\ queue = [i \in MsgIds |-> AbsentMessage]
    /\ worker = [w \in Workers |-> IdleCall]
    /\ consumer = [c \in Consumers |-> IdleConsumption]
    /\ alive = [d \in Devices |-> TRUE]
    /\ faults = 0

-----------------------------------------------------------------------------
(* captureEventFor, called by the get-state listener of start() for a      *)
(* request made with a device API key.                                     *)
Poll(d, w) ==
    /\ alive[d]
    /\ worker[w].pc = "idle"
    /\ Cardinality(QueuedIds) <= MaxQueued
    /\ worker' = [worker EXCEPT ![w] = [IdleCall EXCEPT !.pc = "read", !.dev = d]]
    /\ UNCHANGED <<db, cache, queue, consumer, alive, faults>>

(* Mutant: the update cache timeout is ignored.                            *)
MustUpdateIfNotOnline(prev) == prev.currentState # "online"

(* "If redis still has a valid message about the device being online we    *)
(* can avoid reaching to the DB".                                          *)
MustUpdate(prev) ==
    \/ prev.currentState # "online"
    \/ UpdateCacheTimeoutSet /\ prev.updatedAt \in {"none", "stale"}

(* getDeviceOnlineState returned prev to captureEventFor.                  *)
Continue(w, prev) ==
    worker' = [worker EXCEPT ![w] =
                 [@ EXCEPT !.prev = prev,
                           !.pc = IF MustUpdate(prev) THEN "update" ELSE "delete"]]

ReadState(w) ==
    /\ worker[w].pc = "read"
    /\ Continue(w, cache[worker[w].dev])
    /\ UNCHANGED <<db, cache, queue, consumer, alive, faults>>

(* updateDeviceModel: a PATCH filtered on the state being different.       *)
WriteState(d, newState) == db' = [db EXCEPT ![d] = newState]

(* Mutant: captureEventFor returns once it has updated the database.       *)
UpdateOnlineAndReturn(w) ==
    /\ worker[w].pc = "update"
    /\ WriteState(worker[w].dev, "online")
    /\ worker' = [worker EXCEPT ![w] = IdleCall]
    /\ UNCHANGED <<cache, queue, consumer, alive, faults>>

UpdateOnline(w) ==
    /\ worker[w].pc = "update"
    /\ WriteState(worker[w].dev, "online")
    /\ worker' = [worker EXCEPT ![w] =
                    [@ EXCEPT !.pc = "delete",
                              !.updatedAt = IF UpdateCacheTimeoutSet THEN "fresh" ELSE "none"]]
    /\ UNCHANGED <<cache, queue, consumer, alive, faults>>

(* deleteMessageAsync.  Deleting an id whose message is gone is no error   *)
(* and has no effect, so a dangling reference is the same as none: the id  *)
(* is forgotten wherever it is held, and can be given to a new message.    *)
Forget(i, id) == IF id = i THEN NoId ELSE id

StateWithout(i, s) == [s EXCEPT !.id = Forget(i, @)]

DeleteMessage(i) ==
    /\ queue' = [j \in MsgIds |-> IF j = i THEN AbsentMessage ELSE queue[j]]
    /\ cache' = [d \in Devices |-> StateWithout(i, cache[d])]

CallWithout(i, w) ==
    [worker[w] EXCEPT !.prev = StateWithout(i, @), !.newId = Forget(i, @)]

ConsumptionWithout(i, c) == [consumer[c] EXCEPT !.id = Forget(i, @)]

(* "if we didn't just update the heartbeat and are in still the same state, *)
(* then carry over the original change timestamp."                         *)
CarriedUpdatedAt(w) ==
    IF /\ UpdateCacheTimeoutSet
       /\ worker[w].updatedAt = "none"
       /\ worker[w].prev.currentState = worker[w].currentState
    THEN worker[w].prev.updatedAt
    ELSE worker[w].updatedAt

(* Past the deletion, previousManagerState matters only for updatedAt.     *)
Deleted(w) ==
    [worker[w] EXCEPT !.pc = "send", !.prev = NoState, !.updatedAt = CarriedUpdatedAt(w)]

(* scheduleChangeOfStateForDevice: remove the old queued state ...         *)
DeleteOld(w) ==
    /\ worker[w].pc = "delete"
    /\ LET i == worker[w].prev.id IN
         /\ DeleteMessage(i)
         /\ worker' = [x \in Workers |->
                         IF x = w THEN Deleted(w) ELSE CallWithout(i, x)]
         /\ consumer' = [c \in Consumers |-> ConsumptionWithout(i, c)]
    /\ UNCHANGED <<db, alive, faults>>

(* ... queue the next one with its delay ...                               *)
Send(w) ==
    /\ worker[w].pc = "send"
    /\ \E i \in MsgIds :
         /\ FreshId(i)
         /\ queue' = [queue EXCEPT
                        ![i] = [st |-> "delayed", dev |-> worker[w].dev,
                                nextState |-> NextOf(worker[w].currentState)]]
         /\ worker' = [worker EXCEPT ![w] = [@ EXCEPT !.pc = "set", !.newId = i]]
    /\ UNCHANGED <<db, cache, consumer, alive, faults>>

(* ... and replace the entry.                                              *)
SetCache(w) ==
    /\ worker[w].pc = "set"
    /\ cache' = [cache EXCEPT ![worker[w].dev] =
                   [id |-> worker[w].newId,
                    currentState |-> worker[w].currentState,
                    updatedAt |-> worker[w].updatedAt]]
    /\ worker' = [worker EXCEPT ![w] = IdleCall]
    /\ UNCHANGED <<db, queue, consumer, alive, faults>>

-----------------------------------------------------------------------------
(* receiveMessageAsync: take a visible message and hide it for vt seconds. *)
Receive(c, i) ==
    /\ consumer[c].pc = "idle"
    /\ queue[i].st = "visible"
    /\ queue' = [queue EXCEPT ![i].st = "hidden"]
    /\ consumer' = [consumer EXCEPT
                      ![c] = [pc |-> "update", id |-> i, dev |-> queue[i].dev,
                              nextState |-> queue[i].nextState]]
    /\ UNCHANGED <<db, cache, worker, alive, faults>>

UpdateExpired(c) ==
    /\ consumer[c].pc = "update"
    /\ WriteState(consumer[c].dev, consumer[c].nextState)
    /\ consumer' = [consumer EXCEPT
                      ![c].pc = IF consumer[c].nextState = "timeout"
                                THEN "schedule" ELSE "delCache"]
    /\ UNCHANGED <<cache, queue, worker, alive, faults>>

(* Past the switch, nextState is not used any more.                        *)
Handled(c) == [consumer[c] EXCEPT !.pc = "ack", !.nextState = "timeout"]

(* void this.scheduleChangeOfStateForDevice(..., Timeout, Offline, ...):   *)
(* once its argument is read it runs in the background, unawaited.         *)
StartSchedule(c, w, prev) ==
    /\ worker[w].pc = "idle"
    /\ worker' = [worker EXCEPT ![w] =
                    [IdleCall EXCEPT !.pc = "delete", !.dev = consumer[c].dev,
                                     !.prev = prev, !.currentState = "timeout"]]
    /\ consumer' = [consumer EXCEPT ![c] = Handled(c)]

ScheduleOffline(c, w) ==
    /\ consumer[c].pc = "schedule"
    /\ StartSchedule(c, w, cache[consumer[c].dev])
    /\ UNCHANGED <<db, cache, queue, alive, faults>>

(* redis.del of the entry of a device that went offline.                   *)
DeleteCache(c) ==
    /\ consumer[c].pc = "delCache"
    /\ cache' = [cache EXCEPT ![consumer[c].dev] = NoState]
    /\ consumer' = [consumer EXCEPT ![c] = Handled(c)]
    /\ UNCHANGED <<db, queue, worker, alive, faults>>

(* Mutant: the message the cache names is deleted, not the one received.   *)
AcknowledgeCached(c) ==
    /\ consumer[c].pc = "ack"
    /\ LET i == cache[consumer[c].dev].id IN
         /\ DeleteMessage(i)
         /\ worker' = [w \in Workers |-> CallWithout(i, w)]
         /\ consumer' = [x \in Consumers |->
                           IF x = c THEN IdleConsumption
                                    ELSE ConsumptionWithout(i, x)]
    /\ UNCHANGED <<db, alive, faults>>

Acknowledge(c) ==
    /\ consumer[c].pc = "ack"
    /\ LET i == consumer[c].id IN
         /\ DeleteMessage(i)
         /\ worker' = [w \in Workers |-> CallWithout(i, w)]
         /\ consumer' = [x \in Consumers |->
                           IF x = c THEN IdleConsumption
                                    ELSE ConsumptionWithout(i, x)]
    /\ UNCHANGED <<db, alive, faults>>

-----------------------------------------------------------------------------
(* Time.  A delayed message falls due; a received one that was not         *)
(* deleted within vt seconds becomes visible again, whether its consumer   *)
(* is gone or only slow.  The shortest delay is 15 s and vt is 30 s: under *)
(* PromptCalls the calls for a device, and the handling of a message, are  *)
(* over before that (a message that falls due during a call is the same    *)
(* to everyone as one that fell due just before it).                       *)
Due(i) ==
    /\ queue[i].st = "delayed"
    /\ PromptCalls => \A w \in Workers :
                          worker[w].pc = "idle" \/ worker[w].dev # queue[i].dev
    /\ queue' = [queue EXCEPT ![i].st = "visible"]
    /\ UNCHANGED <<db, cache, worker, consumer, alive, faults>>

Redeliver(i) ==
    /\ queue[i].st = "hidden"
    /\ PromptCalls => \A c \in Consumers : consumer[c].id # i
    /\ queue' = [queue EXCEPT ![i].st = "visible"]
    /\ UNCHANGED <<db, cache, worker, consumer, alive, faults>>

(* The entry's EX is its message's delay plus 5 seconds.                   *)
ExpireCache(d) ==
    /\ cache[d].currentState # "none"
    /\ cache[d].id \in MsgIds => queue[cache[d].id].st # "delayed"
    /\ cache' = [cache EXCEPT ![d] = NoState]
    /\ UNCHANGED <<db, queue, worker, consumer, alive, faults>>

(* API_HEARTBEAT_STATE_ONLINE_UPDATE_CACHE_TIMEOUT ms pass.                *)
Aged(updatedAt) == IF updatedAt = "fresh" THEN "stale" ELSE updatedAt

AgedState(s) == [s EXCEPT !.updatedAt = Aged(@)]

UpdatedAtGrowsStale(d) ==
    /\ \/ cache[d].updatedAt = "fresh"
       \/ \E w \in Workers :
            /\ worker[w].dev = d
            /\ "fresh" \in {worker[w].updatedAt, worker[w].prev.updatedAt}
    /\ cache' = [cache EXCEPT ![d] = AgedState(@)]
    /\ worker' = [w \in Workers |->
                    IF worker[w].dev = d
                    THEN [worker[w] EXCEPT !.prev = AgedState(@),
                                           !.updatedAt = Aged(@)]
                    ELSE worker[w]]
    /\ UNCHANGED <<db, queue, consumer, alive, faults>>

(* The device is switched off or loses its network.                        *)
Silence(d) ==
    /\ d \in MortalDevices
    /\ alive[d]
    /\ alive' = [alive EXCEPT ![d] = FALSE]
    /\ UNCHANGED <<db, cache, queue, worker, consumer, faults>>

-----------------------------------------------------------------------------
(* Failures.  Reading the cache and deleting the old message swallow their *)
(* errors; any other error, or a crash of the instance, ends the call.     *)
Fault(kind) ==
    /\ kind \in FaultKinds
    /\ faults < MaxFaults
    /\ faults' = faults + 1

ReadFails(w) ==
    /\ worker[w].pc = "read"
    /\ Fault("read")
    /\ Continue(w, NoState)
    /\ UNCHANGED <<db, cache, queue, consumer, alive>>

ScheduleReadFails(c, w) ==
    /\ consumer[c].pc = "schedule"
    /\ Fault("read")
    /\ StartSchedule(c, w, NoState)
    /\ UNCHANGED <<db, cache, queue, alive>>

DeleteFails(w) ==
    /\ worker[w].pc = "delete"
    /\ Fault("delete")
    /\ worker' = [worker EXCEPT ![w] = Deleted(w)]
    /\ UNCHANGED <<db, cache, queue, consumer, alive>>

HandlerFails(w) ==
    /\ worker[w].pc # "idle"
    /\ Fault("handler")
    /\ worker' = [worker EXCEPT ![w] = IdleCall]
    /\ UNCHANGED <<db, cache, queue, consumer, alive>>

ConsumerFails(c) ==
    /\ consumer[c].pc # "idle"
    /\ Fault("consumer")
    /\ consumer' = [consumer EXCEPT ![c] = IdleConsumption]
    /\ UNCHANGED <<db, cache, queue, worker, alive>>

-----------------------------------------------------------------------------
WorkerStep(w) ==
    \/ ReadState(w)
    \/ UpdateOnline(w)
    \/ DeleteOld(w)
    \/ Send(w)
    \/ SetCache(w)

ConsumerStep(c) ==
    \/ \E i \in MsgIds : Receive(c, i)
    \/ UpdateExpired(c)
    \/ \E w \in Background : ScheduleOffline(c, w)
    \/ DeleteCache(c)
    \/ Acknowledge(c)

Time ==
    \/ \E i \in MsgIds : Due(i)
    \/ \E i \in MsgIds : Redeliver(i)
    \/ \E d \in Devices : ExpireCache(d)
    \/ \E d \in Devices : UpdatedAtGrowsStale(d)

Failure ==
    \/ \E w \in Workers : ReadFails(w)
    \/ \E c \in Consumers, w \in Background : ScheduleReadFails(c, w)
    \/ \E w \in Workers : DeleteFails(w)
    \/ \E w \in Workers : HandlerFails(w)
    \/ \E c \in Consumers : ConsumerFails(c)

Next ==
    \/ \E d \in Devices, w \in Handlers : Poll(d, w)
    \/ \E w \in Workers : WorkerStep(w)
    \/ \E c \in Consumers : ConsumerStep(c)
    \/ \E d \in Devices : Silence(d)
    \/ Time
    \/ Failure

Spec == Init /\ [][Next]_vars

(* The loops of the API run on while they can take a step, time passes,    *)
(* and a device that is not silenced keeps polling.  Nothing obliges a     *)
(* cache entry to expire, a device to fall silent or an operation to fail. *)
Fairness ==
    /\ \A w \in Workers : WF_vars(WorkerStep(w))
    /\ \A c \in Consumers : WF_vars(ConsumerStep(c))
    /\ \A i \in MsgIds : WF_vars(Due(i)) /\ WF_vars(Redeliver(i))
    /\ \A d \in Devices :
         /\ WF_vars(UpdatedAtGrowsStale(d))
         /\ SF_vars(\E w \in Handlers : Poll(d, w))

FairSpec == Spec /\ Fairness

-----------------------------------------------------------------------------
(* Consumer c has acted on message i and is about to delete it.            *)
Spent(i) ==
    \E c \in Consumers : consumer[c].id = i /\ consumer[c].pc \in {"delCache", "ack"}

(* A message that will still be acted on for d.                            *)
Live(i, d) == Queued(i) /\ queue[i].dev = d /\ ~Spent(i)

(* A handler that decided to delete message i as the old queued state.     *)
Doomed(i) ==
    \E w \in Workers :
        /\ worker[w].pc = "delete"
        /\ worker[w].currentState = "online"
        /\ worker[w].prev.id = i

LiveOffline(i, d) == Live(i, d) /\ queue[i].nextState = "offline" /\ ~Doomed(i)

(* A call for d that will send a message before it does anything else.     *)
Sends(w, d) == worker[w].pc \in {"delete", "send"} /\ worker[w].dev = d

SendsOffline(w, d) == Sends(w, d) /\ worker[w].currentState = "timeout"

(* A consumer between writing timeout and scheduling offline.              *)
Schedules(c, d) ==
    /\ consumer[c].pc = "schedule"
    /\ consumer[c].dev = d
    /\ consumer[c].nextState = "timeout"

(* Something will still take d out of the state it is in: a message no     *)
(* consumer is about to delete, or a call that is about to send one.       *)
ExpiryPending(d) ==
    \/ \E i \in MsgIds : Live(i, d)
    \/ \E w \in Workers : Sends(w, d)
    \/ \E c \in Consumers : Schedules(c, d)

OfflinePending(d) ==
    \/ \E i \in MsgIds : LiveOffline(i, d)
    \/ \E w \in Workers : SendsOffline(w, d)
    \/ \E c \in Consumers : Schedules(c, d)

(* A device the database shows as online is never left without a pending   *)
(* expiry: whatever handlers, consumers and redeliveries interleave, and   *)
(* although captureEventFor deletes the expiry message before it sends the *)
(* next one and consume deletes its message without awaiting the           *)
(* scheduling, nothing removes the last one.                               *)
OnlineWillExpire == \A d \in Devices : db[d] = "online" => ExpiryPending(d)

(* A device in timeout is always on its way to offline: a handler that     *)
(* works from a stale cache entry never deletes the offline message that   *)
(* the consumer scheduled, unless it wrote online to the database first.   *)
TimeoutWillGoOffline == \A d \in Devices : db[d] = "timeout" => OfflinePending(d)

(* What the two invariants rest on.  A message id held anywhere is the id  *)
(* of a queued message of that device, and an entry that says online names *)
(* a timeout message: the handler that read it may delete what it names.   *)
Names(s, d) ==
    s.id # NoId =>
        /\ Queued(s.id)
        /\ queue[s.id].dev = d
        /\ s.currentState = "online" => queue[s.id].nextState = "timeout"

ReferencesOK ==
    /\ \A d \in Devices : Names(cache[d], d)
    /\ \A w \in Workers :
         /\ Names(worker[w].prev, worker[w].dev)
         /\ worker[w].newId # NoId =>
               /\ worker[w].pc = "set"
               /\ Queued(worker[w].newId)
               /\ queue[worker[w].newId].dev = worker[w].dev
               /\ queue[worker[w].newId].nextState = NextOf(worker[w].currentState)
    /\ \A c \in Consumers : consumer[c].id # NoId =>
         Queued(consumer[c].id) /\ queue[consumer[c].id].dev = consumer[c].dev

(* Every call that started to schedule runs to its end.                    *)
CallsComplete == FaultKinds \subseteq {"read", "delete"}

(* A device that stops polling is eventually shown as offline and stays    *)
(* so, however many messages the handlers left behind, unless an operation *)
(* failed: a handler cut short before it sends leaves no expiry behind.    *)
SilentDeviceGoesOffline ==
    \A d \in Devices : <>[](alive[d] \/ faults > 0 \/ db[d] \in {"offline", "unknown"})

(* A device that polls on is shown as online again after it was marked as  *)
(* offline, although a handler that read the cache before consume dropped  *)
(* the entry may put an online one back: the update cache timeout ends the *)
(* suppression of database writes.                                         *)
PollingDeviceComesBack ==
    \A d \in Devices : (db[d] = "offline" /\ alive[d]) ~> (db[d] = "online" \/ ~alive[d])
=============================================================================
