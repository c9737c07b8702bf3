----------------------- MODULE DeviceHeartbeatProofs -----------------------
(***************************************************************************)
(* Proofs about DeviceHeartbeat, for any number of devices, handlers,      *)
(* consumers and messages.                                                 *)
(***************************************************************************)
EXTENDS DeviceHeartbeat, TLAPS

USE HeartbeatAssumption

LEMMA AnyDeviceType == AnyDevice \in Devices
BY DEF AnyDevice

LEMMA RecordTypes ==
    /\ NoState \in ManagerState
    /\ IdleCall \in Call
    /\ IdleConsumption \in Consumption
    /\ AbsentMessage \in Message
BY AnyDeviceType DEF NoState, ManagerState, IdleCall, Call, IdleConsumption,
   Consumption, AbsentMessage, Message

(* What the operations make of a cache entry, a call or a consumption is   *)
(* again one.                                                              *)
LEMMA UpdatedStates ==
    ASSUME NEW s \in ManagerState
    PROVE  /\ \A i \in MsgIds \cup {NoId} : StateWithout(i, s) \in ManagerState
           /\ AgedState(s) \in ManagerState
BY DEF StateWithout, Forget, AgedState, Aged, ManagerState

LEMMA UpdatedCalls ==
    ASSUME TypeOK, NEW w \in Workers
    PROVE  /\ \A i \in MsgIds \cup {NoId} : CallWithout(i, w) \in Call
           /\ Deleted(w) \in Call
           /\ [worker[w] EXCEPT !.prev = AgedState(@), !.updatedAt = Aged(@)] \in Call
           /\ \A prev \in ManagerState, pc \in {"update", "delete"} :
                [worker[w] EXCEPT !.prev = prev, !.pc = pc] \in Call
<1>1. worker[w] \in Call /\ worker[w].prev \in ManagerState
  BY DEF TypeOK, Call
<1>2. \A i \in MsgIds \cup {NoId} : CallWithout(i, w) \in Call
  BY <1>1, UpdatedStates DEF CallWithout, Forget, Call
<1>3. CarriedUpdatedAt(w) \in {"none", "fresh", "stale"}
  BY <1>1 DEF CarriedUpdatedAt, Call, ManagerState
<1>4. Deleted(w) \in Call
  BY <1>1, <1>3, RecordTypes DEF Deleted, Call
<1>5. [worker[w] EXCEPT !.prev = AgedState(@), !.updatedAt = Aged(@)] \in Call
  BY <1>1, UpdatedStates DEF Aged, Call
<1>6. \A prev \in ManagerState, pc \in {"update", "delete"} :
         [worker[w] EXCEPT !.prev = prev, !.pc = pc] \in Call
  BY <1>1 DEF Call
<1> QED
  BY <1>2, <1>4, <1>5, <1>6

LEMMA UpdatedConsumptions ==
    ASSUME TypeOK, NEW c \in Consumers
    PROVE  /\ \A i \in MsgIds \cup {NoId} : ConsumptionWithout(i, c) \in Consumption
           /\ Handled(c) \in Consumption
BY DEF TypeOK, ConsumptionWithout, Handled, Forget, Consumption

LEMMA ContinueType ==
    ASSUME TypeOK, NEW w \in Workers, NEW prev \in ManagerState, Continue(w, prev)
    PROVE  worker' \in [Workers -> Call]
<1> DEFINE pc == IF MustUpdate(prev) THEN "update" ELSE "delete"
<1>1. pc \in {"update", "delete"}
  OBVIOUS
<1>2. [worker[w] EXCEPT !.prev = prev, !.pc = pc] \in Call
  BY <1>1, UpdatedCalls
<1>3. worker' = [worker EXCEPT ![w] = [worker[w] EXCEPT !.prev = prev, !.pc = pc]]
  BY DEF Continue, TypeOK
<1> HIDE DEF pc
<1> QED
  BY <1>2, <1>3 DEF TypeOK

LEMMA StartScheduleType ==
    ASSUME TypeOK, NEW c \in Consumers, NEW w \in Workers, NEW prev \in ManagerState,
           StartSchedule(c, w, prev)
    PROVE  /\ worker' \in [Workers -> Call]
           /\ consumer' \in [Consumers -> Consumption]
<1>1. consumer[c].dev \in Devices
  BY DEF TypeOK, Consumption
<1>2. [IdleCall EXCEPT !.pc = "delete", !.dev = consumer[c].dev,
                       !.prev = prev, !.currentState = "timeout"] \in Call
  BY <1>1 DEF IdleCall, Call
<1> QED
  BY <1>2, UpdatedConsumptions DEF StartSchedule, TypeOK

LEMMA FaultType ==
    ASSUME TypeOK, NEW kind, Fault(kind)
    PROVE  faults' \in 0 .. MaxFaults
BY DEF TypeOK, Fault

LEMMA InitTypeOK == Init => TypeOK
BY RecordTypes DEF Init, TypeOK, DeviceOnlineStates

(* Every operation of the manager leaves the state well typed.             *)
LEMMA NextTypeOK == TypeOK /\ [Next]_vars => TypeOK'
<1> SUFFICES ASSUME TypeOK, [Next]_vars PROVE TypeOK'
  OBVIOUS
<1> USE RecordTypes DEF TypeOK
<1>1. ASSUME NEW d \in Devices, NEW w \in Handlers, Poll(d, w) PROVE TypeOK'
  BY <1>1 DEF Poll, IdleCall, Call, Workers
<1>2. ASSUME NEW w \in Workers, ReadState(w) PROVE TypeOK'
  BY <1>2, ContinueType DEF ReadState, Call
<1>3. ASSUME NEW w \in Workers, UpdateOnline(w) PROVE TypeOK'
  <2> DEFINE at == IF UpdateCacheTimeoutSet THEN "fresh" ELSE "none"
  <2>1. at \in {"none", "fresh", "stale"}
    OBVIOUS
  <2>2. worker' = [worker EXCEPT ![w] = [worker[w] EXCEPT !.pc = "delete", !.updatedAt = at]]
    BY <1>3 DEF UpdateOnline
  <2> HIDE DEF at
  <2>3. [worker[w] EXCEPT !.pc = "delete", !.updatedAt = at] \in Call
    BY <2>1 DEF Call
  <2>4. worker' \in [Workers -> Call]
    BY <2>2, <2>3
  <2>5. db' \in [Devices -> DeviceOnlineStates]
    <3>1. worker[w].dev \in Devices
      BY DEF Call
    <3> QED BY <1>3, <3>1 DEF UpdateOnline, WriteState, DeviceOnlineStates
  <2> QED BY <1>3, <2>4, <2>5 DEF UpdateOnline
<1>4. ASSUME NEW w \in Workers, DeleteOld(w) PROVE TypeOK'
  <2>1. worker[w].prev.id \in MsgIds \cup {NoId}
    BY DEF Call, ManagerState
  <2> QED
    BY <1>4, <2>1, UpdatedStates, UpdatedCalls, UpdatedConsumptions DEF DeleteOld, DeleteMessage
<1>5. ASSUME NEW w \in Workers, Send(w) PROVE TypeOK'
  <2>1. PICK i \in MsgIds :
           /\ queue' = [queue EXCEPT ![i] = [st |-> "delayed", dev |-> worker[w].dev,
                                              nextState |-> NextOf(worker[w].currentState)]]
           /\ worker' = [worker EXCEPT ![w] = [@ EXCEPT !.pc = "set", !.newId = i]]
    BY <1>5 DEF Send
  <2>2. queue' \in [MsgIds -> Message]
    BY <2>1 DEF NextOf, Call, Message
  <2>3. worker' \in [Workers -> Call]
    <3>1. [worker[w] EXCEPT !.pc = "set", !.newId = i] \in Call
      BY DEF Call
    <3> QED BY <2>1, <3>1
  <2> QED
    BY <1>5, <2>2, <2>3 DEF Send
<1>6. ASSUME NEW w \in Workers, SetCache(w) PROVE TypeOK'
  BY <1>6 DEF SetCache, Call, ManagerState
<1>7. ASSUME NEW c \in Consumers, NEW i \in MsgIds, Receive(c, i) PROVE TypeOK'
  BY <1>7 DEF Receive, Message, Consumption
<1>8. ASSUME NEW c \in Consumers, UpdateExpired(c) PROVE TypeOK'
  BY <1>8 DEF UpdateExpired, WriteState, Consumption, DeviceOnlineStates
<1>9. ASSUME NEW c \in Consumers, NEW w \in Background, ScheduleOffline(c, w) PROVE TypeOK'
  BY <1>9, StartScheduleType DEF ScheduleOffline, Consumption, Workers
<1>10. ASSUME NEW c \in Consumers, DeleteCache(c) PROVE TypeOK'
  BY <1>10, UpdatedConsumptions DEF DeleteCache
<1>11. ASSUME NEW c \in Consumers, Acknowledge(c) PROVE TypeOK'
  <2>1. consumer[c].id \in MsgIds \cup {NoId}
    BY DEF Consumption
  <2> QED
    BY <1>11, <2>1, UpdatedStates, UpdatedCalls, UpdatedConsumptions DEF Acknowledge, DeleteMessage
<1>12. ASSUME NEW i \in MsgIds, Due(i) \/ Redeliver(i) PROVE TypeOK'
  BY <1>12 DEF Due, Redeliver, Message
<1>13. ASSUME NEW d \in Devices, ExpireCache(d) PROVE TypeOK'
  BY <1>13 DEF ExpireCache
<1>14. ASSUME NEW d \in Devices, UpdatedAtGrowsStale(d) PROVE TypeOK'
  BY <1>14, UpdatedStates, UpdatedCalls DEF UpdatedAtGrowsStale
<1>15. ASSUME NEW d \in Devices, Silence(d) PROVE TypeOK'
  BY <1>15 DEF Silence
<1>16. ASSUME NEW w \in Workers, ReadFails(w) PROVE TypeOK'
  BY <1>16, ContinueType, FaultType DEF ReadFails
<1>17. ASSUME NEW c \in Consumers, NEW w \in Background, ScheduleReadFails(c, w) PROVE TypeOK'
  BY <1>17, StartScheduleType, FaultType DEF ScheduleReadFails, Workers
<1>18. ASSUME NEW w \in Workers, DeleteFails(w) PROVE TypeOK'
  BY <1>18, UpdatedCalls, FaultType DEF DeleteFails
<1>19. ASSUME NEW w \in Workers, HandlerFails(w) PROVE TypeOK'
  BY <1>19, FaultType DEF HandlerFails
<1>20. ASSUME NEW c \in Consumers, ConsumerFails(c) PROVE TypeOK'
  BY <1>20, FaultType DEF ConsumerFails
<1>21. CASE UNCHANGED vars
  BY <1>21 DEF vars
<1> QED
  BY <1>1, <1>2, <1>3, <1>4, <1>5, <1>6, <1>7, <1>8, <1>9, <1>10, <1>11, <1>12,
     <1>13, <1>14, <1>15, <1>16, <1>17, <1>18, <1>19, <1>20, <1>21
     DEF Next, WorkerStep, ConsumerStep, Time, Failure

(* The database, the cache, the queue and the running calls always hold    *)
(* values the manager understands.                                         *)
THEOREM TypeCorrect == Spec => []TypeOK
BY InitTypeOK, NextTypeOK, PTL DEF Spec

-----------------------------------------------------------------------------
(* References.                                                             *)

LEMMA InitReferencesOK == Init => ReferencesOK
BY DEF Init, ReferencesOK, Names, NoState, IdleCall, IdleConsumption

(* Deleting a message and forgetting its id leaves no dangling reference.  *)
LEMMA DeleteReferences ==
    ASSUME TypeOK, ReferencesOK, NEW i \in MsgIds \cup {NoId}, DeleteMessage(i)
    PROVE  /\ \A d \in Devices : Names(cache[d], d)'
           /\ \A w \in Workers :
                worker'[w] = CallWithout(i, w) =>
                  /\ Names(worker[w].prev, worker[w].dev)'
                  /\ (worker[w].newId # NoId)' =>
                        /\ (worker[w].pc = "set")'
                        /\ Queued(worker[w].newId)'
                        /\ (queue[worker[w].newId].dev = worker[w].dev)'
                        /\ (queue[worker[w].newId].nextState = NextOf(worker[w].currentState))'
           /\ \A c \in Consumers :
                consumer'[c] = ConsumptionWithout(i, c) /\ (consumer[c].id # NoId)' =>
                      /\ Queued(consumer[c].id)'
                      /\ (queue[consumer[c].id].dev = consumer[c].dev)'
<1>1. queue' = [j \in MsgIds |-> IF j = i THEN AbsentMessage ELSE queue[j]]
  BY DEF DeleteMessage
<1>2. ASSUME NEW d \in Devices PROVE Names(cache[d], d)'
  <2>1. cache[d] \in ManagerState /\ Names(cache[d], d)
    BY DEF TypeOK, ReferencesOK
  <2>2. cache'[d] = StateWithout(i, cache[d])
    BY DEF DeleteMessage
  <2> QED
    BY <1>1, <2>1, <2>2 DEF Names, StateWithout, Forget, Queued, ManagerState
<1>3. ASSUME NEW w \in Workers, worker'[w] = CallWithout(i, w)
      PROVE  /\ Names(worker[w].prev, worker[w].dev)'
             /\ (worker[w].newId # NoId)' =>
                   /\ (worker[w].pc = "set")'
                   /\ Queued(worker[w].newId)'
                   /\ (queue[worker[w].newId].dev = worker[w].dev)'
                   /\ (queue[worker[w].newId].nextState = NextOf(worker[w].currentState))'
  <2>1. /\ worker[w] \in Call /\ worker[w].prev \in ManagerState
        /\ Names(worker[w].prev, worker[w].dev)
    BY DEF TypeOK, Call, ReferencesOK
  <2>2. /\ worker'[w].prev = StateWithout(i, worker[w].prev)
        /\ worker'[w].newId = Forget(i, worker[w].newId)
        /\ worker'[w].pc = worker[w].pc
        /\ worker'[w].dev = worker[w].dev
        /\ worker'[w].currentState = worker[w].currentState
    BY <1>3, <2>1 DEF CallWithout, Call
  <2>3. Names(worker[w].prev, worker[w].dev)'
    BY <1>1, <2>1, <2>2 DEF Names, StateWithout, Forget, Queued, ManagerState
  <2> QED
    BY <1>1, <2>1, <2>2, <2>3 DEF ReferencesOK, Forget, Queued, Call
<1>4. ASSUME NEW c \in Consumers, consumer'[c] = ConsumptionWithout(i, c)
      PROVE  (consumer[c].id # NoId)' =>
                 /\ Queued(consumer[c].id)'
                 /\ (queue[consumer[c].id].dev = consumer[c].dev)'
  BY <1>1, <1>4 DEF TypeOK, ReferencesOK, ConsumptionWithout, Forget, Queued, Consumption
<1> QED
  BY <1>2, <1>3, <1>4

LEMMA AgedCalls ==
    ASSUME TypeOK, NEW d \in Devices, UpdatedAtGrowsStale(d), NEW w \in Workers
    PROVE  /\ worker'[w].prev.id = worker[w].prev.id
           /\ worker'[w].prev.currentState = worker[w].prev.currentState
           /\ worker'[w].pc = worker[w].pc
           /\ worker'[w].dev = worker[w].dev
           /\ worker'[w].currentState = worker[w].currentState
           /\ worker'[w].newId = worker[w].newId
<1>1. worker[w] \in Call /\ worker[w].prev \in ManagerState
  BY DEF TypeOK, Call
<1>2. CASE worker[w].dev = d
  <2>1. worker'[w] = [worker[w] EXCEPT !.prev = AgedState(@), !.updatedAt = Aged(@)]
    BY <1>2 DEF UpdatedAtGrowsStale
  <2> QED
    BY <1>1, <2>1 DEF AgedState, ManagerState, Call
<1>3. CASE worker[w].dev # d
  BY <1>3 DEF UpdatedAtGrowsStale
<1> QED
  BY <1>2, <1>3

(* Every step leaves each held id on a queued message of its device, and   *)
(* on a timeout message where the holder believes the device online.       *)
LEMMA NextReferencesOK == TypeOK /\ ReferencesOK /\ [Next]_vars => ReferencesOK'
<1> SUFFICES ASSUME TypeOK, ReferencesOK, [Next]_vars PROVE ReferencesOK'
  OBVIOUS
<1> USE RecordTypes
<1> HIDE HeartbeatAssumption
<1>1. ASSUME NEW d \in Devices, NEW w \in Handlers, Poll(d, w) PROVE ReferencesOK'
  BY <1>1 DEF TypeOK, Poll, ReferencesOK, Names, Queued, IdleCall, NoState, Workers
<1>2. ASSUME NEW w \in Workers, NEW prev \in ManagerState, Continue(w, prev),
             worker[w].pc = "read", Names(prev, worker[w].dev), UNCHANGED <<cache, queue, consumer>>
      PROVE  ReferencesOK'
  BY <1>2, SMTT(30) DEF TypeOK, Continue, ReferencesOK, Names, Queued, Call
<1>3. ASSUME NEW w \in Workers, UpdateOnline(w) PROVE ReferencesOK'
  <2>1. /\ worker'[w].prev = worker[w].prev
        /\ worker'[w].dev = worker[w].dev
        /\ worker'[w].newId = worker[w].newId
    BY <1>3 DEF TypeOK, UpdateOnline, Call
  <2>2. worker[w].newId = NoId
    BY <1>3 DEF UpdateOnline, ReferencesOK
  <2>3. \A x \in Workers \ {w} : worker'[x] = worker[x]
    BY <1>3 DEF TypeOK, UpdateOnline
  <2>4. UNCHANGED <<cache, queue, consumer>>
    BY <1>3 DEF UpdateOnline
  <2> QED
    BY <2>1, <2>2, <2>3, <2>4 DEF ReferencesOK, Names, Queued
<1>4. ASSUME NEW w \in Workers, DeleteOld(w) PROVE ReferencesOK'
  <2> DEFINE i == worker[w].prev.id
  <2>1. i \in MsgIds \cup {NoId} /\ worker[w] \in Call
    BY DEF TypeOK, Call, ManagerState
  <2>2. /\ DeleteMessage(i)
        /\ \A x \in Workers \ {w} : worker'[x] = CallWithout(i, x)
        /\ worker'[w] = Deleted(w)
        /\ \A c \in Consumers : consumer'[c] = ConsumptionWithout(i, c)
    BY <1>4 DEF DeleteOld
  <2>3. worker[w].pc = "delete" /\ worker[w].newId = NoId
    BY <1>4 DEF DeleteOld, ReferencesOK
  <2>4. worker'[w].prev = NoState /\ worker'[w].newId = NoId
    BY <2>1, <2>2, <2>3 DEF Deleted, Call
  <2> HIDE DEF i
  <2> QED
    BY <2>1, <2>2, <2>4, DeleteReferences, SMTT(30) DEF ReferencesOK, Names, NoState
<1>5. ASSUME NEW w \in Workers, Send(w) PROVE ReferencesOK'
  <2>1. PICK i \in MsgIds :
          /\ FreshId(i)
          /\ queue' = [queue EXCEPT
                         ![i] = [st |-> "delayed", dev |-> worker[w].dev,
                                 nextState |-> NextOf(worker[w].currentState)]]
          /\ worker' = [worker EXCEPT ![w] = [@ EXCEPT !.pc = "set", !.newId = i]]
    BY <1>5 DEF Send
  <2>2. UNCHANGED <<cache, consumer>>
    BY <1>5 DEF Send
  <2>3. /\ \A j \in MsgIds : Queued(j) => Queued(j)' /\ queue'[j] = queue[j]
        /\ queue'[i].st = "delayed" /\ queue'[i].dev = worker[w].dev
        /\ queue'[i].nextState = NextOf(worker[w].currentState)
    BY <2>1 DEF TypeOK, FreshId, Queued
  <2>4. /\ worker'[w].prev = worker[w].prev /\ worker'[w].dev = worker[w].dev
        /\ worker'[w].currentState = worker[w].currentState
        /\ worker'[w].newId = i /\ worker'[w].pc = "set"
        /\ \A x \in Workers \ {w} : worker'[x] = worker[x]
    BY <2>1 DEF TypeOK, Call
  <2>5. /\ \A d \in Devices : cache[d].id \in MsgIds \cup {NoId}
        /\ \A x \in Workers : /\ worker[x].prev.id \in MsgIds \cup {NoId}
                              /\ worker[x].newId \in MsgIds \cup {NoId}
        /\ \A c \in Consumers : consumer[c].id \in MsgIds \cup {NoId}
    BY DEF TypeOK, Call, ManagerState, Consumption
  <2>6. \A d \in Devices : Names(cache[d], d)'
    BY <2>2, <2>3, <2>5 DEF ReferencesOK, Names, Queued
  <2>7. \A x \in Workers : Names(worker[x].prev, worker[x].dev)'
    BY <2>3, <2>4, <2>5 DEF ReferencesOK, Names, Queued
  <2>8. ASSUME NEW x \in Workers, (worker[x].newId # NoId)'
        PROVE  (/\ worker[x].pc = "set"
                /\ Queued(worker[x].newId)
                /\ queue[worker[x].newId].dev = worker[x].dev
                /\ queue[worker[x].newId].nextState = NextOf(worker[x].currentState))'
    <3>1. CASE x = w
      BY <2>3, <2>4, <3>1 DEF Queued, NextOf
    <3>2. CASE x # w
      BY <2>3, <2>4, <2>5, <2>8, <3>2 DEF ReferencesOK, NextOf, Queued
    <3> QED
      BY <3>1, <3>2
  <2>9. \A c \in Consumers : (consumer[c].id # NoId)' =>
          (Queued(consumer[c].id) /\ queue[consumer[c].id].dev = consumer[c].dev)'
    BY <2>2, <2>3, <2>5 DEF ReferencesOK, Queued
  <2> QED
    BY <2>6, <2>7, <2>8, <2>9 DEF ReferencesOK
<1>6. ASSUME NEW w \in Workers, SetCache(w) PROVE ReferencesOK'
  <2>1. /\ worker[w].pc = "set" /\ worker[w].dev \in Devices /\ UNCHANGED <<queue, consumer>>
        /\ cache'[worker[w].dev] =
             [id |-> worker[w].newId, currentState |-> worker[w].currentState,
              updatedAt |-> worker[w].updatedAt]
        /\ \A d \in Devices \ {worker[w].dev} : cache'[d] = cache[d]
        /\ worker'[w] = IdleCall
        /\ \A x \in Workers \ {w} : worker'[x] = worker[x]
    BY <1>6 DEF TypeOK, SetCache, Call
  <2>2. ASSUME NEW d \in Devices PROVE Names(cache[d], d)'
    <3>1. CASE d = worker[w].dev
      BY <2>1, <3>1 DEF ReferencesOK, Names, Queued, NextOf
    <3>2. CASE d # worker[w].dev
      BY <2>1, <3>2 DEF ReferencesOK, Names, Queued
    <3> QED
      BY <3>1, <3>2
  <2>3. ASSUME NEW x \in Workers
        PROVE  /\ Names(worker[x].prev, worker[x].dev)'
               /\ (worker[x].newId # NoId)' =>
                     (/\ worker[x].pc = "set"
                      /\ Queued(worker[x].newId)
                      /\ queue[worker[x].newId].dev = worker[x].dev
                      /\ queue[worker[x].newId].nextState = NextOf(worker[x].currentState))'
    <3>1. CASE x = w
      BY <2>1, <3>1 DEF Names, IdleCall, NoState
    <3>2. CASE x # w
      BY <2>1, <3>2 DEF ReferencesOK, Names, Queued, NextOf
    <3> QED
      BY <3>1, <3>2
  <2> QED
    BY <2>1, <2>2, <2>3 DEF ReferencesOK, Queued
<1>7. ASSUME NEW c \in Consumers, NEW i \in MsgIds, Receive(c, i) PROVE ReferencesOK'
  BY <1>7, SMTT(30) DEF TypeOK, Receive, ReferencesOK, Names, Queued, Message
<1>8. ASSUME NEW c \in Consumers, UpdateExpired(c) PROVE ReferencesOK'
  BY <1>8 DEF TypeOK, UpdateExpired, ReferencesOK, Names, Queued, Consumption
<1>9. ASSUME NEW c \in Consumers, NEW w \in Workers, NEW prev \in ManagerState,
             StartSchedule(c, w, prev), Names(prev, consumer[c].dev),
             UNCHANGED <<cache, queue>>
      PROVE  ReferencesOK'
  BY <1>9 DEF TypeOK, StartSchedule, Handled, ReferencesOK, Names, Queued, IdleCall, Call, Consumption
<1>10. ASSUME NEW c \in Consumers, DeleteCache(c) PROVE ReferencesOK'
  BY <1>10 DEF TypeOK, DeleteCache, Handled, ReferencesOK, Names, Queued, NoState, Consumption
<1>11. ASSUME NEW c \in Consumers, Acknowledge(c) PROVE ReferencesOK'
  <2> DEFINE i == consumer[c].id
  <2>1. i \in MsgIds \cup {NoId}
    BY DEF TypeOK, Consumption
  <2>2. /\ DeleteMessage(i)
        /\ \A w \in Workers : worker'[w] = CallWithout(i, w)
        /\ \A x \in Consumers \ {c} : consumer'[x] = ConsumptionWithout(i, x)
        /\ consumer'[c].id = NoId
    BY <1>11 DEF Acknowledge, IdleConsumption
  <2> HIDE DEF i
  <2> QED
    BY <2>1, <2>2, DeleteReferences DEF ReferencesOK
<1>12. ASSUME NEW i \in MsgIds, Due(i) \/ Redeliver(i) PROVE ReferencesOK'
  <2>1. \A j \in MsgIds :
           /\ queue'[j].st = "absent" <=> queue[j].st = "absent"
           /\ queue'[j].dev = queue[j].dev
           /\ queue'[j].nextState = queue[j].nextState
    BY <1>12 DEF TypeOK, Due, Redeliver, Message
  <2>2. UNCHANGED <<cache, worker, consumer>>
    BY <1>12 DEF Due, Redeliver
  <2>3. /\ \A d \in Devices : cache[d].id \in MsgIds \cup {NoId}
        /\ \A w \in Workers : {worker[w].prev.id, worker[w].newId} \subseteq MsgIds \cup {NoId}
        /\ \A c \in Consumers : consumer[c].id \in MsgIds \cup {NoId}
    BY DEF TypeOK, ManagerState, Call, Consumption
  <2>4. /\ \A d \in Devices : Names(cache[d], d)'
        /\ \A w \in Workers : Names(worker[w].prev, worker[w].dev)'
    <3>1. ASSUME NEW d \in Devices PROVE Names(cache[d], d)'
      <4>1. Names(cache[d], d)
        BY DEF ReferencesOK
      <4> QED
        BY <2>1, <2>2, <2>3, <4>1 DEF Names, Queued
    <3>2. ASSUME NEW w \in Workers PROVE Names(worker[w].prev, worker[w].dev)'
      <4>1. Names(worker[w].prev, worker[w].dev)
        BY DEF ReferencesOK
      <4> QED
        BY <2>1, <2>2, <2>3, <4>1 DEF Names, Queued
    <3> QED
      BY <3>1, <3>2
  <2>5. ASSUME NEW w \in Workers, (worker[w].newId # NoId)'
        PROVE  /\ (worker[w].pc = "set")'
               /\ Queued(worker[w].newId)'
               /\ (queue[worker[w].newId].dev = worker[w].dev)'
               /\ (queue[worker[w].newId].nextState = NextOf(worker[w].currentState))'
    BY <2>1, <2>2, <2>3, <2>5 DEF ReferencesOK, Queued
  <2>6. ASSUME NEW c \in Consumers, (consumer[c].id # NoId)'
        PROVE  Queued(consumer[c].id)' /\ (queue[consumer[c].id].dev = consumer[c].dev)'
    BY <2>1, <2>2, <2>3, <2>6 DEF ReferencesOK, Queued
  <2> QED
    BY <2>4, <2>5, <2>6 DEF ReferencesOK
<1>13. ASSUME NEW d \in Devices, ExpireCache(d) PROVE ReferencesOK'
  BY <1>13 DEF TypeOK, ExpireCache, ReferencesOK, Names, Queued, NoState
<1>14. ASSUME NEW d \in Devices, UpdatedAtGrowsStale(d) PROVE ReferencesOK'
  <2>1. \A e \in Devices :
           /\ cache'[e].id = cache[e].id
           /\ cache'[e].currentState = cache[e].currentState
    BY <1>14 DEF TypeOK, UpdatedAtGrowsStale, AgedState, ManagerState
  <2>2. UNCHANGED <<queue, consumer>>
    BY <1>14 DEF UpdatedAtGrowsStale
  <2> QED
    BY <1>14, <2>1, <2>2, AgedCalls DEF ReferencesOK, Names, Queued
<1>15. ASSUME NEW d \in Devices, Silence(d) PROVE ReferencesOK'
  BY <1>15 DEF Silence, ReferencesOK, Names, Queued
<1>18. ASSUME NEW w \in Workers, DeleteFails(w) PROVE ReferencesOK'
  BY <1>18 DEF TypeOK, DeleteFails, Deleted, ReferencesOK, Names, Queued, NoState, Call
<1>19. ASSUME NEW w \in Workers, HandlerFails(w) PROVE ReferencesOK'
  BY <1>19 DEF TypeOK, HandlerFails, ReferencesOK, Names, Queued, IdleCall, NoState
<1>20. ASSUME NEW c \in Consumers, ConsumerFails(c) PROVE ReferencesOK'
  BY <1>20 DEF TypeOK, ConsumerFails, ReferencesOK, Names, Queued, IdleConsumption
<1>21. CASE UNCHANGED vars
  BY <1>21 DEF vars, ReferencesOK, Names, Queued
<1>22. \A d \in Devices : Names(NoState, d)
  BY DEF Names, NoState
<1>23. ASSUME NEW w \in Workers, ReadState(w) \/ ReadFails(w) PROVE ReferencesOK'
  <2>1. /\ cache[worker[w].dev] \in ManagerState
        /\ Names(cache[worker[w].dev], worker[w].dev)
        /\ Names(NoState, worker[w].dev)
    BY <1>22 DEF TypeOK, Call, ReferencesOK
  <2> QED
    BY <1>2, <1>23, <2>1 DEF ReadState, ReadFails
<1>24. ASSUME NEW c \in Consumers, NEW w \in Background,
              ScheduleOffline(c, w) \/ ScheduleReadFails(c, w)
       PROVE  ReferencesOK'
  <2>1. /\ cache[consumer[c].dev] \in ManagerState
        /\ Names(cache[consumer[c].dev], consumer[c].dev)
        /\ Names(NoState, consumer[c].dev)
        /\ w \in Workers
    BY <1>22 DEF TypeOK, Consumption, ReferencesOK, Workers
  <2> QED
    BY <1>9, <1>24, <2>1 DEF ScheduleOffline, ScheduleReadFails
<1> QED
  BY <1>1, <1>3, <1>4, <1>5, <1>6, <1>7, <1>8, <1>10, <1>11, <1>12, <1>13, <1>14,
     <1>15, <1>18, <1>19, <1>20, <1>21, <1>23, <1>24
     DEF Next, WorkerStep, ConsumerStep, Time, Failure

-----------------------------------------------------------------------------
(* Pending expiries.                                                       *)

Pending(d) ==
    /\ db[d] = "online" => ExpiryPending(d)
    /\ db[d] = "timeout" => OfflinePending(d)

(* A step that leaves d's state and everything pending for it alone.       *)
LEMMA PendingKept ==
    ASSUME NEW d \in Devices, Pending(d),
           db'[d] = db[d],
           \A i \in MsgIds : Live(i, d) => Live(i, d)',
           \A i \in MsgIds : LiveOffline(i, d) => LiveOffline(i, d)',
           \A w \in Workers : Sends(w, d) => Sends(w, d)',
           \A w \in Workers : SendsOffline(w, d) => SendsOffline(w, d)',
           \A c \in Consumers : Schedules(c, d) => Schedules(c, d)'
    PROVE  Pending(d)'
BY DEF Pending, ExpiryPending, OfflinePending

LEMMA InitPending == Init => \A d \in Devices : Pending(d)
BY DEF Init, Pending

(* After a deletion the other messages are as live as they were.           *)
LEMMA DeletedMessages ==
    ASSUME TypeOK, ReferencesOK, NEW k \in MsgIds \cup {NoId}, DeleteMessage(k),
           \A c \in Consumers : \/ consumer'[c] = ConsumptionWithout(k, c)
                                \/ consumer'[c].pc = "idle",
           \A w \in Workers : \/ worker'[w] = CallWithout(k, w)
                              \/ worker'[w].pc = "send",
           NEW d \in Devices, NEW i \in MsgIds, i # k
    PROVE  /\ Live(i, d) => Live(i, d)'
           /\ LiveOffline(i, d) => LiveOffline(i, d)'
<1>1. queue'[i] = queue[i]
  BY DEF DeleteMessage
<1>2. Spent(i)' => Spent(i)
  BY DEF TypeOK, Spent, ConsumptionWithout, Forget, Consumption
<1>3. ASSUME NEW w \in Workers, worker'[w].pc = "delete",
             worker'[w].currentState = "online", worker'[w].prev.id = i
      PROVE  Doomed(i)
  <2>1. worker[w] \in Call /\ worker[w].prev \in ManagerState
    BY DEF TypeOK, Call
  <2>2. /\ worker'[w].pc = worker[w].pc
        /\ worker'[w].currentState = worker[w].currentState
        /\ worker'[w].prev = StateWithout(k, worker[w].prev)
    BY <1>3, <2>1 DEF CallWithout, Call
  <2>3. worker[w].prev.id = i
    BY <1>3, <2>1, <2>2 DEF StateWithout, Forget, ManagerState
  <2> QED
    BY <1>3, <2>2, <2>3 DEF Doomed
<1>4. Doomed(i)' => Doomed(i)
  BY <1>3 DEF Doomed
<1> QED
  BY <1>1, <1>2, <1>4 DEF Live, LiveOffline, Queued

(* After a deletion the calls and consumers hold what they held.           *)
LEMMA DeletedHolders ==
    ASSUME TypeOK, NEW k, NEW d \in Devices
    PROVE  /\ \A w \in Workers : worker'[w] = CallWithout(k, w) =>
                 /\ Sends(w, d) => Sends(w, d)'
                 /\ SendsOffline(w, d) => SendsOffline(w, d)'
           /\ \A c \in Consumers : consumer'[c] = ConsumptionWithout(k, c) =>
                 (Schedules(c, d) => Schedules(c, d)')
BY DEF TypeOK, CallWithout, ConsumptionWithout, Sends, SendsOffline, Schedules, Call, Consumption

(* No step takes the last pending expiry of a device away.                 *)
LEMMA NextPending ==
    ASSUME TypeOK, ReferencesOK, [Next]_vars, CallsComplete,
           NEW d \in Devices, Pending(d)
    PROVE  Pending(d)'
<1> USE DEF TypeOK, Sends, SendsOffline, Schedules
<1>1. ASSUME NEW e \in Devices, NEW w \in Handlers, Poll(e, w) PROVE Pending(d)'
  BY <1>1, PendingKept DEF Poll, IdleCall, Workers, Live, LiveOffline, Queued, Spent,
     Doomed
<1>3. ASSUME NEW w \in Workers, UpdateOnline(w) PROVE Pending(d)'
  <2>1. worker[w].dev \in Devices /\ worker'[w].pc = "delete"
        /\ worker'[w].dev = worker[w].dev
    BY <1>3 DEF UpdateOnline, Call
  <2>2. CASE d = worker[w].dev
    <3>1. db'[d] = "online" /\ Sends(w, d)'
      BY <1>3, <2>1, <2>2 DEF UpdateOnline, WriteState
    <3> QED
      BY <3>1 DEF Pending, ExpiryPending
  <2>3. CASE d # worker[w].dev
    <3>1. \A i \in MsgIds : queue[i].dev = d /\ Queued(i) => worker[w].prev.id # i
      BY <2>3 DEF ReferencesOK, Names
    <3>2. \A i \in MsgIds : LiveOffline(i, d) => LiveOffline(i, d)'
      BY <1>3, <3>1 DEF UpdateOnline, Call, LiveOffline, Live, Queued, Spent, Doomed
    <3> QED
      BY <1>3, <2>3, <3>2, PendingKept DEF UpdateOnline, WriteState, Call, Live, Queued, Spent
  <2> QED
    BY <2>2, <2>3
<1>4. ASSUME NEW w \in Workers, DeleteOld(w) PROVE Pending(d)'
  <2> DEFINE k == worker[w].prev.id
  <2>1. k \in MsgIds \cup {NoId} /\ worker[w] \in Call
    BY DEF Call, ManagerState
  <2>2. /\ DeleteMessage(k)
        /\ db' = db
        /\ \A x \in Workers \ {w} : worker'[x] = CallWithout(k, x)
        /\ worker'[w] = Deleted(w)
        /\ \A c \in Consumers : consumer'[c] = ConsumptionWithout(k, c)
    BY <1>4 DEF DeleteOld
  <2>3. /\ worker'[w].pc = "send"
        /\ worker'[w].dev = worker[w].dev
        /\ worker'[w].currentState = worker[w].currentState
    BY <2>1, <2>2 DEF Deleted, Call
  <2>4. \A i \in MsgIds \ {k} : /\ Live(i, d) => Live(i, d)'
                                /\ LiveOffline(i, d) => LiveOffline(i, d)'
    BY <2>1, <2>2, <2>3, DeletedMessages
  <2>5. /\ \A x \in Workers : Sends(x, d) => Sends(x, d)'
        /\ \A x \in Workers : SendsOffline(x, d) => SendsOffline(x, d)'
        /\ \A c \in Consumers : Schedules(c, d) => Schedules(c, d)'
    BY <2>2, <2>3, DeletedHolders
  <2>6. CASE d = worker[w].dev /\ worker[w].currentState = "timeout"
    BY <2>3, <2>6 DEF Pending, ExpiryPending, OfflinePending
  <2>7. CASE d = worker[w].dev /\ worker[w].currentState = "online"
    <3>1. \A i \in MsgIds : LiveOffline(i, d) => i # k
      BY <1>4, <2>7 DEF DeleteOld, LiveOffline, Doomed
    <3>2. Sends(w, d)'
      BY <2>3, <2>7
    <3> QED
      BY <2>2, <2>4, <2>5, <3>1, <3>2 DEF Pending, ExpiryPending, OfflinePending
  <2>8. CASE d # worker[w].dev
    <3>1. \A i \in MsgIds : Live(i, d) \/ LiveOffline(i, d) => i # k
      BY <2>8 DEF ReferencesOK, Names, Live, LiveOffline
    <3> QED
      BY <2>2, <2>4, <2>5, <3>1, PendingKept
  <2> QED
    BY <2>1, <2>6, <2>7, <2>8 DEF Call
<1>5. ASSUME NEW w \in Workers, Send(w) PROVE Pending(d)'
  <2>1. PICK i \in MsgIds :
           /\ ~Queued(i)
           /\ queue' = [queue EXCEPT ![i] = [st |-> "delayed", dev |-> worker[w].dev,
                                              nextState |-> NextOf(worker[w].currentState)]]
           /\ worker' = [worker EXCEPT ![w] = [@ EXCEPT !.pc = "set", !.newId = i]]
    BY <1>5 DEF Send, FreshId
  <2>2. UNCHANGED <<db, consumer>> /\ worker[w] \in Call /\ worker[w].pc = "send"
    BY <1>5 DEF Send
  <2>3. ~Spent(i) /\ \A x \in Workers : worker[x].prev.id # i
    BY <2>1 DEF ReferencesOK, Names, Spent
  <2>4. \A j \in MsgIds : /\ Live(j, d) => Live(j, d)'
                          /\ LiveOffline(j, d) => LiveOffline(j, d)'
    BY <2>1, <2>2 DEF Live, LiveOffline, Queued, Spent, Doomed, Call
  <2>5. \A x \in Workers \ {w} : /\ Sends(x, d) => Sends(x, d)'
                                 /\ SendsOffline(x, d) => SendsOffline(x, d)'
    BY <2>1
  <2>6. \A c \in Consumers : Schedules(c, d) => Schedules(c, d)'
    BY <2>2
  <2>7. Live(i, worker[w].dev)'
    BY <2>1, <2>2, <2>3 DEF Live, Queued, Spent, Call
  <2>8. worker[w].currentState = "timeout" => LiveOffline(i, worker[w].dev)'
    BY <2>1, <2>2, <2>3 DEF Live, LiveOffline, Queued, Spent, Doomed, NextOf, Call
  <2> QED
    BY <2>1, <2>2, <2>4, <2>5, <2>6, <2>7, <2>8 DEF Pending, ExpiryPending, OfflinePending, Call
<1>6. ASSUME NEW w \in Workers, SetCache(w) PROVE Pending(d)'
  BY <1>6, PendingKept DEF SetCache, IdleCall, Live, LiveOffline, Queued, Spent,
     Doomed
<1>7. ASSUME NEW c \in Consumers, NEW i \in MsgIds, Receive(c, i) PROVE Pending(d)'
  BY <1>7, PendingKept DEF Receive, Message, Live, LiveOffline, Queued, Spent,
     Doomed
<1>8. ASSUME NEW c \in Consumers, UpdateExpired(c) PROVE Pending(d)'
  <2>1. consumer[c] \in Consumption /\ UNCHANGED <<queue, worker>>
        /\ db' = [db EXCEPT ![consumer[c].dev] = consumer[c].nextState]
    BY <1>8 DEF UpdateExpired, WriteState
  <2>2. CASE d = consumer[c].dev /\ consumer[c].nextState = "timeout"
    <3>1. Schedules(c, d)' /\ db'[d] = "timeout"
      BY <1>8, <2>1, <2>2 DEF UpdateExpired, Consumption
    <3> QED
      BY <3>1 DEF Pending, OfflinePending
  <2>3. CASE d = consumer[c].dev /\ consumer[c].nextState = "offline"
    BY <2>1, <2>3 DEF Pending
  <2>4. CASE d # consumer[c].dev
    <3>1. \A i \in MsgIds : Live(i, d) => consumer[c].id # i
      BY <2>4 DEF ReferencesOK, Live
    <3>2. \A x \in Consumers \ {c} : consumer'[x] = consumer[x]
      BY <1>8 DEF UpdateExpired
    <3>3. consumer'[c].id = consumer[c].id /\ consumer[c].pc = "update"
      BY <1>8, <2>1 DEF UpdateExpired, Consumption
    <3>4. \A i \in MsgIds : /\ Live(i, d) => Live(i, d)'
                            /\ LiveOffline(i, d) => LiveOffline(i, d)'
      BY <2>1, <3>1, <3>2, <3>3 DEF Live, LiveOffline, Queued, Spent, Doomed
    <3> QED
      BY <2>1, <2>4, <3>2, <3>3, <3>4, PendingKept
  <2> QED
    BY <2>1, <2>2, <2>3, <2>4 DEF Consumption
<1>10. ASSUME NEW c \in Consumers, DeleteCache(c) PROVE Pending(d)'
  BY <1>10, PendingKept DEF DeleteCache, Handled, Consumption, Live, LiveOffline, Queued, Spent,
     Doomed
<1>11. ASSUME NEW c \in Consumers, Acknowledge(c) PROVE Pending(d)'
  <2> DEFINE k == consumer[c].id
  <2>1. k \in MsgIds \cup {NoId}
    BY DEF Consumption
  <2>2. /\ DeleteMessage(k)
        /\ db' = db
        /\ \A w \in Workers : worker'[w] = CallWithout(k, w)
        /\ \A x \in Consumers \ {c} : consumer'[x] = ConsumptionWithout(k, x)
        /\ consumer'[c].pc = "idle"
        /\ consumer[c].pc = "ack"
    BY <1>11 DEF Acknowledge, IdleConsumption
  <2>3. \A i \in MsgIds : Live(i, d) \/ LiveOffline(i, d) => i # k
    BY <2>2 DEF Live, LiveOffline, Spent
  <2>4. \A i \in MsgIds : /\ Live(i, d) => Live(i, d)'
                          /\ LiveOffline(i, d) => LiveOffline(i, d)'
    BY <2>1, <2>2, <2>3, DeletedMessages
  <2>5. /\ \A w \in Workers : Sends(w, d) => Sends(w, d)'
        /\ \A w \in Workers : SendsOffline(w, d) => SendsOffline(w, d)'
        /\ \A x \in Consumers : Schedules(x, d) => Schedules(x, d)'
    BY <2>2, DeletedHolders
  <2> QED
    BY <2>2, <2>4, <2>5, PendingKept
<1>12. ASSUME NEW i \in MsgIds, Due(i) \/ Redeliver(i) PROVE Pending(d)'
  <2>1. \A j \in MsgIds :
           /\ queue'[j].st = "absent" <=> queue[j].st = "absent"
           /\ queue'[j].dev = queue[j].dev
           /\ queue'[j].nextState = queue[j].nextState
    BY <1>12 DEF Due, Redeliver, Message
  <2>2. UNCHANGED <<db, worker, consumer>>
    BY <1>12 DEF Due, Redeliver
  <2> QED
    BY <2>1, <2>2, PendingKept DEF Live, LiveOffline, Queued, Spent, Doomed
<1>13. ASSUME NEW e \in Devices, ExpireCache(e) \/ Silence(e) PROVE Pending(d)'
  BY <1>13, PendingKept DEF ExpireCache, Silence, Live, LiveOffline, Queued, Spent,
     Doomed
<1>14. ASSUME NEW e \in Devices, UpdatedAtGrowsStale(e) PROVE Pending(d)'
  <2>1. \A w \in Workers :
           /\ worker'[w].prev.id = worker[w].prev.id
           /\ worker'[w].pc = worker[w].pc
           /\ worker'[w].dev = worker[w].dev
           /\ worker'[w].currentState = worker[w].currentState
    BY <1>14, AgedCalls
  <2>2. UNCHANGED <<db, queue, consumer>>
    BY <1>14 DEF UpdatedAtGrowsStale
  <2> QED
    BY <2>1, <2>2, PendingKept DEF Live, LiveOffline, Queued, Spent, Doomed
<1>18. ASSUME NEW w \in Workers, DeleteFails(w) PROVE Pending(d)'
  <2>1. /\ worker'[w].pc = "send"
        /\ worker'[w].dev = worker[w].dev
        /\ worker'[w].currentState = worker[w].currentState
        /\ \A x \in Workers \ {w} : worker'[x] = worker[x]
    BY <1>18 DEF DeleteFails, Deleted, Call
  <2> QED
    BY <1>18, <2>1, PendingKept DEF DeleteFails, Live, LiveOffline, Queued, Spent, Doomed
<1>21. CASE UNCHANGED vars
  BY <1>21, PendingKept DEF vars, Live, LiveOffline, Queued, Spent,
     Doomed
<1>23. ASSUME NEW w \in Workers, ReadState(w) \/ ReadFails(w) PROVE Pending(d)'
  <2>1. PICK prev \in ManagerState : Continue(w, prev) /\ Names(prev, worker[w].dev)
    BY <1>23, RecordTypes DEF ReadState, ReadFails, Call, ReferencesOK, Names, NoState
  <2>2. UNCHANGED <<db, queue, consumer>> /\ worker[w].pc = "read" /\ worker[w] \in Call
    BY <1>23 DEF ReadState, ReadFails
  <2>3. /\ worker'[w].prev = prev
        /\ worker'[w].pc = "delete" => prev.currentState = "online"
        /\ \A x \in Workers \ {w} : worker'[x] = worker[x]
    BY <2>1, <2>2 DEF Continue, MustUpdate, Call
  <2>4. \A i \in MsgIds : LiveOffline(i, d) => LiveOffline(i, d)'
    BY <2>1, <2>2, <2>3 DEF LiveOffline, Live, Queued, Spent, Doomed, Names
  <2> QED
    BY <2>2, <2>3, <2>4, PendingKept DEF Live, Queued, Spent
<1>24. ASSUME NEW c \in Consumers, NEW w \in Background,
              ScheduleOffline(c, w) \/ ScheduleReadFails(c, w)
       PROVE  Pending(d)'
  <2>1. PICK prev \in ManagerState : StartSchedule(c, w, prev)
    BY <1>24, RecordTypes DEF ScheduleOffline, ScheduleReadFails, Consumption
  <2>2. /\ UNCHANGED <<db, queue>>
        /\ consumer[c].pc = "schedule"
        /\ consumer[c] \in Consumption
        /\ w \in Workers
    BY <1>24 DEF ScheduleOffline, ScheduleReadFails, Workers
  <2>3. /\ worker[w].pc = "idle"
        /\ worker'[w].pc = "delete"
        /\ worker'[w].dev = consumer[c].dev
        /\ worker'[w].currentState = "timeout"
        /\ \A x \in Workers \ {w} : worker'[x] = worker[x]
    BY <2>1, <2>2 DEF StartSchedule, IdleCall
  <2>4. /\ consumer'[c].id = consumer[c].id
        /\ \A x \in Consumers \ {c} : consumer'[x] = consumer[x]
    BY <2>1, <2>2 DEF StartSchedule, Handled, Consumption
  <2>5. CASE d = consumer[c].dev
    BY <2>2, <2>3, <2>5 DEF Pending, ExpiryPending, OfflinePending
  <2>6. CASE d # consumer[c].dev
    <3>1. \A i \in MsgIds : Live(i, d) => consumer[c].id # i
      BY <2>6 DEF ReferencesOK, Live
    <3>2. \A i \in MsgIds : /\ Live(i, d) => Live(i, d)'
                            /\ LiveOffline(i, d) => LiveOffline(i, d)'
      BY <2>2, <2>3, <2>4, <3>1 DEF Live, LiveOffline, Queued, Spent, Doomed
    <3> QED
      BY <2>2, <2>3, <2>4, <2>6, <3>2, PendingKept
  <2> QED
    BY <2>5, <2>6
<1>25. /\ \A w \in Workers : ~HandlerFails(w)
       /\ \A c \in Consumers : ~ConsumerFails(c)
  BY DEF CallsComplete, HandlerFails, ConsumerFails, Fault
<1> QED
  BY <1>1, <1>3, <1>4, <1>5, <1>6, <1>7, <1>8, <1>10, <1>11, <1>12, <1>13, <1>14,
     <1>18, <1>21, <1>23, <1>24, <1>25
     DEF Next, WorkerStep, ConsumerStep, Time, Failure

-----------------------------------------------------------------------------
IInv ==
    /\ TypeOK
    /\ ReferencesOK
    /\ CallsComplete => \A d \in Devices : Pending(d)

THEOREM Inductive == Spec => []IInv
<1>1. Init => IInv
  BY InitTypeOK, InitReferencesOK, InitPending DEF IInv
<1>2. IInv /\ [Next]_vars => IInv'
  <2> SUFFICES ASSUME IInv, [Next]_vars PROVE IInv'
    OBVIOUS
  <2>1. TypeOK' /\ ReferencesOK'
    BY NextTypeOK, NextReferencesOK DEF IInv
  <2>2. ASSUME CallsComplete, NEW d \in Devices PROVE Pending(d)'
    BY <2>2, NextPending DEF IInv
  <2>3. CallsComplete' <=> CallsComplete
    BY DEF CallsComplete
  <2> QED
    BY <2>1, <2>2, <2>3 DEF IInv
<1> QED
  BY <1>1, <1>2, PTL DEF Spec

(* As long as the calls that were started are not cut short (reading the   *)
(* cache and deleting the old message may fail), a device shown as online  *)
(* always has an expiry pending.                                           *)
THEOREM OnlineExpires == Spec => [](CallsComplete => OnlineWillExpire)
<1>1. IInv => (CallsComplete => OnlineWillExpire)
  BY DEF IInv, Pending, OnlineWillExpire
<1> QED
  BY <1>1, Inductive, PTL

(* Under the same condition a device in timeout is on its way to offline.  *)
THEOREM TimeoutExpires == Spec => [](CallsComplete => TimeoutWillGoOffline)
<1>1. IInv => (CallsComplete => TimeoutWillGoOffline)
  BY DEF IInv, Pending, TimeoutWillGoOffline
<1> QED
  BY <1>1, Inductive, PTL
=============================================================================
