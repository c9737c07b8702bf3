---------------------------- MODULE AccessProofs ----------------------------
(***************************************************************************)
(* Proofs about Access for every number of instances, registrations and    *)
(* api keys, and every bound on deletions and faults.                      *)
(***************************************************************************)
EXTENDS Access, SequenceTheorems, TLAPS

-----------------------------------------------------------------------------
(* Well-formedness *)

(* A listener that has not run yet stands for a deletion that was made.    *)
PendingIsDeleted == \A i \in Instances : pending[i] <= deletes

TInv == TypeOK /\ PendingIsDeleted

LEMMA TInvInit == Init => TInv
BY AccessAssumption DEF Init, TInv, TypeOK, PendingIsDeleted, Steps, None

(* What instance i has sent stays a sequence of commands.                  *)
LEMMA Sends ==
    ASSUME TypeOK, NEW i \in Instances, NEW c \in Commands
    PROVE  [wire EXCEPT ![i] = Append(@, c)] \in [Instances -> Seq(Commands)]
BY DEF TypeOK

LEMMA Receives ==
    ASSUME TypeOK, NEW i \in Instances, wire[i] # <<>>
    PROVE  /\ Head(wire[i]) \in Commands
           /\ [wire EXCEPT ![i] = Tail(@)] \in [Instances -> Seq(Commands)]
<1>1. wire[i] \in Seq(Commands)
  BY DEF TypeOK
<1>2. Head(wire[i]) \in Commands /\ Tail(wire[i]) \in Seq(Commands)
  BY <1>1, HeadTailProperties
<1> QED BY <1>2 DEF TypeOK

(* The end of a lookup leaves nobody waiting for it.                       *)
LEMMA Delivers ==
    ASSUME TypeOK, NEW i \in Instances, NEW step \in Steps \ {"waiting"},
           Deliver(i, step), lookup' = [lookup EXCEPT ![i] = "idle"]
    PROVE  /\ reg' \in [Registrations -> Steps]
           /\ \A r \in Registrations : reg'[r] = "waiting" => lookup'[At[r]] # "idle"
BY AccessAssumption DEF TypeOK, Deliver, Steps

LEMMA JudgedType ==
    ASSUME NEW v PROVE Judged(v) \in Steps \ {"waiting"}
BY DEF Judged, Steps

(* Ask leaves a lookup in flight.                                          *)
LEMMA Asks ==
    ASSUME TypeOK, NEW i \in Instances, Ask(i)
    PROVE  /\ lookup' \in [Instances -> {"idle", "asking", "querying", "storing"} \cup Verdicts]
           /\ wire' \in [Instances -> Seq(Commands)]
           /\ lookup'[i] # "idle"
           /\ \A j \in Instances : lookup[j] # "idle" => lookup'[j] # "idle"
<1>1. CASE lookup[i] = "idle"
  <2>1. "get" \in Commands
    BY DEF Commands
  <2>2. wire' \in [Instances -> Seq(Commands)]
    BY <1>1, <2>1, Sends DEF Ask
  <2> QED BY <1>1, <2>2 DEF Ask, TypeOK
<1>2. CASE lookup[i] # "idle"
  BY <1>2 DEF Ask, TypeOK
<1> QED BY <1>1, <1>2

LEMMA BecomesType ==
    ASSUME TypeOK, NEW r \in Registrations, NEW step \in Steps \ {"waiting"}, Become(r, step)
    PROVE  /\ reg' \in [Registrations -> Steps]
           /\ \A s \in Registrations : reg'[s] = "waiting" => reg[s] = "waiting"
BY DEF TypeOK, Become, Steps

(* A step of a registration that concerns neither caches nor tables.       *)
LEMMA BecomesInv ==
    ASSUME TInv, NEW r \in Registrations, NEW step \in Steps \ {"waiting"}, Become(r, step),
           UNCHANGED <<tables, levels, keyCached, listeners, faults>>
    PROVE  TInv'
BY BecomesType DEF TInv, TypeOK, PendingIsDeleted, tables, levels, listeners

(* Everything that an instance has in memory and under way is well-formed. *)
LEMMA ForgetType ==
    ASSUME TypeOK, NEW i \in Instances, Forget(i)
    PROVE  /\ local' \in [Instances -> Verdicts \cup {None}]
           /\ wire' \in [Instances -> Seq(Commands)]
           /\ shared' = shared /\ lookup' = lookup
<1>1. "del" \in Commands
  BY DEF Commands
<1>2. wire' \in [Instances -> Seq(Commands)]
  BY <1>1, Sends DEF Forget
<1> QED BY <1>2 DEF Forget, TypeOK

LEMMA TInvStep == TInv /\ [Next]_vars => TInv'
<1> SUFFICES ASSUME TInv, [Next]_vars PROVE TInv'
  OBVIOUS
<1> USE AccessAssumption
<1>0. TypeOK /\ PendingIsDeleted
  BY DEF TInv
<1>1. CASE ExpireShared
  BY <1>0, <1>1 DEF ExpireShared, TInv, TypeOK, PendingIsDeleted, tables, listeners
<1>2. ASSUME NEW i \in Instances, Look(i) PROVE TInv'
  BY <1>0, <1>2, Asks DEF Look, TInv, TypeOK, PendingIsDeleted, tables, listeners
<1>3. ASSUME NEW i \in Instances, Arrive(i) PROVE TInv'
  <2>1. /\ Head(wire[i]) \in Commands
        /\ wire' \in [Instances -> Seq(Commands)]
    BY <1>0, <1>3, Receives DEF Arrive
  <2>2. UNCHANGED <<tables, keyCached, listeners, faults>>
    BY <1>3 DEF Arrive
  <2>3. CASE shared' = None /\ UNCHANGED <<reg, local, lookup>>
    BY <1>0, <2>1, <2>2, <2>3 DEF TInv, TypeOK, PendingIsDeleted, tables, listeners
  <2>4. CASE shared # None /\ Hit(i)
    <3>1. /\ reg' \in [Registrations -> Steps]
          /\ \A r \in Registrations : reg'[r] = "waiting" => lookup'[At[r]] # "idle"
      BY <1>0, <2>4, JudgedType, Delivers DEF Hit
    <3> QED
      BY <1>0, <2>1, <2>2, <2>4, <3>1
      DEF Hit, TInv, TypeOK, PendingIsDeleted, tables, listeners
  <2>5. CASE Miss(i)
    BY <1>0, <2>1, <2>2, <2>5 DEF Miss, TInv, TypeOK, PendingIsDeleted, tables, listeners
  <2>6. CASE Head(wire[i]) \in Verdicts /\ Stored(i, Head(wire[i]))
    <3>1. /\ reg' \in [Registrations -> Steps]
          /\ \A r \in Registrations : reg'[r] = "waiting" => lookup'[At[r]] # "idle"
      BY <1>0, <2>6, JudgedType, Delivers DEF Stored
    <3> QED
      BY <1>0, <2>1, <2>2, <2>6, <3>1
      DEF Stored, TInv, TypeOK, PendingIsDeleted, tables, listeners
  <2> QED BY <1>3, <2>3, <2>4, <2>5, <2>6 DEF Arrive
<1>4. ASSUME NEW i \in Instances, Drop(i) PROVE TInv'
  <2>1. wire' \in [Instances -> Seq(Commands)]
    BY <1>0, <1>4, Receives DEF Drop
  <2>2. faults' \in 0 .. MaxFaults
    BY <1>0, <1>4 DEF Drop, TypeOK
  <2>3. /\ reg' \in [Registrations -> Steps]
        /\ lookup' \in [Instances -> {"idle", "asking", "querying", "storing"} \cup Verdicts]
        /\ \A r \in Registrations : reg'[r] = "waiting" => lookup'[At[r]] # "idle"
    <3>1. "failed" \in Steps \ {"waiting"}
      BY DEF Steps
    <3>2. CASE Head(wire[i]) = "del"
      BY <1>0, <1>4, <3>2 DEF Drop, TypeOK
    <3>3. CASE Head(wire[i]) # "del"
      BY <1>0, <1>4, <3>1, <3>3, Delivers DEF Drop, TypeOK
    <3> QED BY <3>2, <3>3
  <2> QED
    BY <1>0, <1>4, <2>1, <2>2, <2>3
    DEF Drop, TInv, TypeOK, PendingIsDeleted, tables, listeners
<1>5. ASSUME NEW i \in Instances, Query(i) PROVE TInv'
  BY <1>0, <1>5 DEF Query, TInv, TypeOK, PendingIsDeleted, Verdicts, tables, listeners
<1>6. ASSUME NEW i \in Instances, Store(i) PROVE TInv'
  <2>1. wire' \in [Instances -> Seq(Commands)]
    BY <1>0, <1>6, Sends DEF Store, Commands
  <2> QED BY <1>0, <1>6, <2>1 DEF Store, TInv, TypeOK, PendingIsDeleted, tables, listeners
<1>7. ASSUME NEW i \in Instances, InvalidateDevice(i) PROVE TInv'
  <2>1. pending' \in [Instances -> 0 .. MaxDeletes] /\ \A j \in Instances : pending'[j] <= deletes
    BY <1>0, <1>7 DEF InvalidateDevice, TypeOK, PendingIsDeleted
  <2> QED
    BY <1>0, <1>7, <2>1, ForgetType DEF InvalidateDevice, TInv, TypeOK, PendingIsDeleted, tables
<1>8. ASSUME NEW i \in Instances, ExpireLocal(i) PROVE TInv'
  BY <1>0, <1>8 DEF ExpireLocal, TInv, TypeOK, PendingIsDeleted, tables, listeners
<1>9. ASSUME NEW i \in Instances, Crash(i) PROVE TInv'
  <2>1. wire' \in [Instances -> Seq(Commands)]
    BY <1>0, <1>9 DEF Crash, TypeOK
  <2>2. /\ reg' \in [Registrations -> Steps]
        /\ \A r \in Registrations : reg'[r] = "waiting" => lookup'[At[r]] # "idle"
    BY <1>0, <1>9 DEF Crash, TypeOK, Steps, Ended
  <2>3. pending' \in [Instances -> 0 .. MaxDeletes] /\ \A j \in Instances : pending'[j] <= deletes
    BY <1>0, <1>9 DEF Crash, TypeOK, PendingIsDeleted
  <2> QED
    BY <1>0, <1>9, <2>1, <2>2, <2>3 DEF Crash, TInv, TypeOK, PendingIsDeleted, tables
<1>10. ASSUME NEW i \in DeletesAt, DeleteDevice(i) PROVE TInv'
  BY <1>0, <1>10 DEF DeleteDevice, TInv, TypeOK, PendingIsDeleted, levels
<1>11. ASSUME NEW r \in Registrations, Register(r) PROVE TInv'
  <2>1. CASE local[At[r]] # None
    <3>1. UNCHANGED <<tables, levels, keyCached, listeners, faults>>
      BY <1>11, <2>1 DEF Register, levels
    <3> QED BY <1>11, <2>1, <3>1, JudgedType, BecomesInv DEF Register
  <2>2. CASE local[At[r]] = None
    <3>1. reg' = [reg EXCEPT ![r] = "waiting"] /\ Ask(At[r])
      BY <1>11, <2>2 DEF Register, Become
    <3>2. UNCHANGED <<tables, local, shared, keyCached, listeners, faults>>
      BY <1>11 DEF Register
    <3>3. reg' \in [Registrations -> Steps]
      BY <1>0, <3>1 DEF TypeOK, Steps
    <3>4. /\ lookup' \in [Instances -> {"idle", "asking", "querying", "storing"} \cup Verdicts]
          /\ wire' \in [Instances -> Seq(Commands)]
          /\ lookup'[At[r]] # "idle"
          /\ \A j \in Instances : lookup[j] # "idle" => lookup'[j] # "idle"
      BY <1>0, <3>1, Asks
    <3>5. \A s \in Registrations : reg'[s] = "waiting" => lookup'[At[s]] # "idle"
      BY <1>0, <3>1, <3>4 DEF TypeOK
    <3> QED
      BY <1>0, <3>2, <3>3, <3>4, <3>5 DEF TInv, TypeOK, PendingIsDeleted, tables, listeners
  <2> QED BY <2>1, <2>2
<1>12. ASSUME NEW r \in Registrations,
              CheckKey(r) \/ QueryKey(r) \/ InsertDevice(r) \/ CreateKey(r) \/ Abort(r)
       PROVE  TInv'
  <2>1. PICK step \in Steps \ {"waiting"} : Become(r, step)
    BY <1>12 DEF CheckKey, QueryKey, InsertDevice, CreateKey, Abort, Steps
  <2>2. UNCHANGED <<tables, levels, keyCached, listeners, faults>>
    BY <1>12 DEF CheckKey, QueryKey, InsertDevice, CreateKey, Abort
  <2> QED BY <2>1, <2>2, BecomesInv
<1>13. ASSUME NEW r \in Registrations, StoreKey(r) PROVE TInv'
  <2>1. "denied" \in Steps \ {"waiting"}
    BY DEF Steps
  <2> QED
    BY <1>0, <1>13, <2>1, BecomesType
    DEF StoreKey, TInv, TypeOK, PendingIsDeleted, tables, levels, listeners
<1>14. ASSUME NEW r \in Registrations, Commit(r) PROVE TInv'
  <2>1. "committed" \in Steps \ {"waiting"}
    BY DEF Steps
  <2> QED
    BY <1>0, <1>14, <2>1, BecomesType
    DEF Commit, TInv, TypeOK, PendingIsDeleted, levels, listeners
<1>15. ASSUME NEW r \in Registrations, Respond(r) PROVE TInv'
  <2>1. "created" \in Steps \ {"waiting"}
    BY DEF Steps
  <2>2. At[r] \in Instances
    OBVIOUS
  <2> QED
    BY <1>0, <1>15, <2>1, <2>2, BecomesType, ForgetType
    DEF Respond, TInv, TypeOK, PendingIsDeleted, tables, listeners
<1>16. ASSUME NEW k \in Keys, ExpireKey(k) PROVE TInv'
  BY <1>0, <1>16 DEF ExpireKey, TInv, TypeOK, PendingIsDeleted, tables, levels, listeners
<1>17. ASSUME NEW i \in DeletesAt, NEW k \in Keys, DeleteKey(i, k) PROVE TInv'
  BY <1>0, <1>17 DEF DeleteKey, TInv, TypeOK, PendingIsDeleted, levels
<1>18. ASSUME NEW i \in DeletesAt, NEW k \in Keys, InvalidateKey(i, k) PROVE TInv'
  BY <1>0, <1>18 DEF InvalidateKey, TInv, TypeOK, PendingIsDeleted, tables, levels
<1>19. CASE UNCHANGED vars
  BY <1>0, <1>19 DEF vars, TInv, TypeOK, PendingIsDeleted
<1> QED
  BY <1>1, <1>2, <1>3, <1>4, <1>5, <1>6, <1>7, <1>8, <1>9, <1>10, <1>11, <1>12, <1>13, <1>14,
     <1>15, <1>16, <1>17, <1>18, <1>19
  DEF Next, Progress, RegistrationStep

-----------------------------------------------------------------------------
(* A device and its key *)

Uncommitted == Steps \ {"committed", "created", "failed"}

(* A registration that has not committed has left no rows.                 *)
NoTrace ==
    \A r \in Registrations :
      reg[r] \in Uncommitted => device # r /\ \A k \in Keys : keyFor[k] # r

(* One transaction at a time holds the uuid, while there is no device; the *)
(* key it has inserted is not in the table.                                *)
HoldsUuid ==
    /\ \A r, s \in Holding : r = s
    /\ Holding # {} => device = NoOne
    /\ \A r \in Registrations : reg[r] = "keyed" => keyFor[KeyOf[r]] = NoOne

(* The device has its key, and a key had a device.                         *)
KeyAndDevice ==
    \A r \in Registrations :
      /\ device = r => keyFor[KeyOf[r]] = r
      /\ (\E k \in Keys : keyFor[k] = r) => device = r \/ deletes > 0

WInv == TInv /\ NoTrace /\ HoldsUuid /\ KeyAndDevice

LEMMA WInvInit == Init => WInv
<1> SUFFICES ASSUME Init PROVE WInv
  OBVIOUS
<1>1. NoTrace /\ HoldsUuid /\ KeyAndDevice
  BY AccessAssumption DEF Init, NoTrace, HoldsUuid, KeyAndDevice, Holding
<1> QED BY <1>1, TInvInit DEF WInv

(* Steps that leave the tables alone, start no transaction and commit none *)
(* keep the three.                                                         *)
LEMMA TablesAlone ==
    ASSUME WInv, UNCHANGED <<device, keyFor, deletes>>,
           reg' \in [Registrations -> Steps],
           \A r \in Registrations :
             \/ reg'[r] = reg[r]
             \/ reg'[r] = "failed"
             \/ reg'[r] \notin {"inserted", "keyed"} /\ reg[r] \in Uncommitted
             \/ reg'[r] \in {"committed", "created"}
    PROVE  NoTrace' /\ HoldsUuid' /\ KeyAndDevice'
<1>1. NoTrace'
  BY DEF WInv, NoTrace, Uncommitted
<1>2. Holding' \subseteq Holding
  BY DEF Holding
<1>3. HoldsUuid'
  BY <1>2 DEF WInv, HoldsUuid
<1>4. KeyAndDevice'
  BY DEF WInv, KeyAndDevice
<1> QED BY <1>1, <1>3, <1>4

LEMMA RegUnchanged ==
    ASSUME WInv, UNCHANGED <<device, keyFor, deletes, reg>>
    PROVE  NoTrace' /\ HoldsUuid' /\ KeyAndDevice'
BY DEF WInv, NoTrace, HoldsUuid, KeyAndDevice, Holding

LEMMA WInvStep == WInv /\ [Next]_vars => WInv'
<1> SUFFICES ASSUME WInv, [Next]_vars PROVE WInv'
  OBVIOUS
<1> USE AccessAssumption
<1>0. TInv' /\ TypeOK'
  BY TInvStep DEF WInv, TInv
<1>T. TypeOK /\ NoTrace /\ HoldsUuid /\ KeyAndDevice
  BY DEF WInv, TInv
<1> SUFFICES NoTrace' /\ HoldsUuid' /\ KeyAndDevice'
  BY <1>0 DEF WInv
<1>R. reg' \in [Registrations -> Steps] /\ reg \in [Registrations -> Steps]
  BY <1>0, <1>T DEF TypeOK
<1>1. CASE ExpireShared
  BY <1>1, RegUnchanged DEF ExpireShared, tables
<1>2. ASSUME NEW i \in Instances, Look(i) \/ Query(i) \/ Store(i) \/ InvalidateDevice(i) \/ ExpireLocal(i)
      PROVE  NoTrace' /\ HoldsUuid' /\ KeyAndDevice'
  BY <1>2, RegUnchanged DEF Look, Query, Store, InvalidateDevice, ExpireLocal, tables
<1>3. ASSUME NEW i \in Instances, Arrive(i)
      PROVE  NoTrace' /\ HoldsUuid' /\ KeyAndDevice'
  <2>1. UNCHANGED <<device, keyFor, deletes>>
    BY <1>3 DEF Arrive, tables
  <2>2. \A r \in Registrations :
          \/ reg'[r] = reg[r]
          \/ reg'[r] \notin {"inserted", "keyed"} /\ reg[r] \in Uncommitted
    BY <1>3, <1>R DEF Arrive, Hit, Miss, Stored, Deliver, Judged, Uncommitted, Steps
  <2> QED BY <2>1, <2>2, <1>R, TablesAlone
<1>4. ASSUME NEW i \in Instances, Drop(i)
      PROVE  NoTrace' /\ HoldsUuid' /\ KeyAndDevice'
  <2>1. UNCHANGED <<device, keyFor, deletes>>
    BY <1>4 DEF Drop, tables
  <2>2. \A r \in Registrations : reg'[r] = reg[r] \/ reg'[r] = "failed"
    BY <1>4, <1>R DEF Drop, Deliver
  <2> QED BY <2>1, <2>2, <1>R, TablesAlone
<1>5. ASSUME NEW i \in Instances, Crash(i)
      PROVE  NoTrace' /\ HoldsUuid' /\ KeyAndDevice'
  <2>1. UNCHANGED <<device, keyFor, deletes>>
    BY <1>5 DEF Crash, tables
  <2>2. \A r \in Registrations : reg'[r] = reg[r] \/ reg'[r] = "failed"
    BY <1>5, <1>R DEF Crash
  <2> QED BY <2>1, <2>2, <1>R, TablesAlone
<1>6. ASSUME NEW i \in DeletesAt, DeleteDevice(i)
      PROVE  NoTrace' /\ HoldsUuid' /\ KeyAndDevice'
  <2>1. device' = NoOne /\ keyFor' = keyFor /\ reg' = reg /\ deletes' = deletes + 1
    BY <1>6 DEF DeleteDevice
  <2>2. NoTrace' /\ HoldsUuid'
    BY <1>T, <2>1 DEF NoTrace, HoldsUuid, Holding
  <2>3. deletes' > 0
    BY <1>T, <2>1 DEF TypeOK
  <2>4. KeyAndDevice'
    BY <1>T, <2>1, <2>3 DEF KeyAndDevice
  <2> QED BY <2>2, <2>4
<1>7. ASSUME NEW r \in Registrations, Register(r)
      PROVE  NoTrace' /\ HoldsUuid' /\ KeyAndDevice'
  <2>1. UNCHANGED <<device, keyFor, deletes>>
    BY <1>7 DEF Register, tables
  <2>2. \A s \in Registrations :
          \/ reg'[s] = reg[s]
          \/ reg'[s] \notin {"inserted", "keyed"} /\ reg[s] \in Uncommitted
    BY <1>7, <1>R DEF Register, Become, Judged, Uncommitted, Steps
  <2> QED BY <2>1, <2>2, <1>R, TablesAlone
<1>8. ASSUME NEW r \in Registrations, CheckKey(r) \/ QueryKey(r) \/ StoreKey(r) \/ Abort(r)
      PROVE  NoTrace' /\ HoldsUuid' /\ KeyAndDevice'
  <2>1. UNCHANGED <<device, keyFor, deletes>>
    BY <1>8 DEF CheckKey, QueryKey, StoreKey, Abort, tables
  <2>2. \A s \in Registrations :
          \/ reg'[s] = reg[s]
          \/ reg'[s] = "failed"
          \/ reg'[s] \notin {"inserted", "keyed"} /\ reg[s] \in Uncommitted
    BY <1>8, <1>R DEF CheckKey, QueryKey, StoreKey, Abort, Become, Uncommitted, Steps
  <2> QED BY <2>1, <2>2, <1>R, TablesAlone
<1>9. ASSUME NEW r \in Registrations, InsertDevice(r)
      PROVE  NoTrace' /\ HoldsUuid' /\ KeyAndDevice'
  <2>1. UNCHANGED <<device, keyFor, deletes>>
    BY <1>9 DEF InsertDevice, tables
  <2>2. Holding = {} /\ reg[r] = "tx"
    BY <1>9 DEF InsertDevice
  <2>3. CASE device # NoOne
    <3>1. \A s \in Registrations :
          \/ reg'[s] = reg[s]
          \/ reg'[s] \notin {"inserted", "keyed"} /\ reg[s] \in Uncommitted
      BY <1>9, <1>R, <2>3 DEF InsertDevice, Become, Uncommitted, Steps
    <3> QED BY <2>1, <3>1, <1>R, TablesAlone
  <2>4. CASE device = NoOne
    <3>1. reg' = [reg EXCEPT ![r] = "inserted"]
      BY <1>9, <2>4 DEF InsertDevice, Become
    <3>2. NoTrace'
      BY <1>R, <1>T, <2>1, <2>2, <3>1 DEF NoTrace, Uncommitted, Steps
    <3>3. HoldsUuid'
      BY <1>R, <1>T, <2>1, <2>2, <2>4, <3>1 DEF HoldsUuid, Holding
    <3> QED BY <1>T, <2>1, <3>2, <3>3 DEF KeyAndDevice
  <2> QED BY <2>3, <2>4
<1>10. ASSUME NEW r \in Registrations, CreateKey(r)
       PROVE  NoTrace' /\ HoldsUuid' /\ KeyAndDevice'
  <2>1. UNCHANGED <<device, keyFor, deletes>>
    BY <1>10 DEF CreateKey, tables
  <2>2. reg[r] = "inserted"
    BY <1>10 DEF CreateKey
  <2>3. CASE keyFor[KeyOf[r]] # NoOne
    <3>1. \A s \in Registrations :
          \/ reg'[s] = reg[s]
          \/ reg'[s] \notin {"inserted", "keyed"} /\ reg[s] \in Uncommitted
      BY <1>10, <1>R, <2>3 DEF CreateKey, Become, Uncommitted, Steps
    <3> QED BY <2>1, <3>1, <1>R, TablesAlone
  <2>4. CASE keyFor[KeyOf[r]] = NoOne
    <3>1. reg' = [reg EXCEPT ![r] = "keyed"]
      BY <1>10, <2>4 DEF CreateKey, Become
    <3>2. NoTrace'
      BY <1>R, <1>T, <2>1, <2>2, <3>1 DEF NoTrace, Uncommitted, Steps
    <3>3. Holding' = Holding
      BY <1>R, <2>2, <3>1 DEF Holding
    <3>4. HoldsUuid'
      BY <1>R, <1>T, <2>1, <2>4, <3>1, <3>3 DEF HoldsUuid
    <3> QED BY <1>T, <2>1, <3>2, <3>4 DEF KeyAndDevice
  <2> QED BY <2>3, <2>4
<1>11. ASSUME NEW r \in Registrations, Commit(r)
       PROVE  NoTrace' /\ HoldsUuid' /\ KeyAndDevice'
  <2>1. /\ reg[r] = "keyed" /\ reg' = [reg EXCEPT ![r] = "committed"]
        /\ device' = r /\ keyFor' = [keyFor EXCEPT ![KeyOf[r]] = r] /\ deletes' = deletes
    BY <1>11 DEF Commit, Become
  <2>2. /\ r \in Holding /\ device = NoOne /\ keyFor[KeyOf[r]] = NoOne
        /\ \A s \in Holding : s = r
    BY <1>T, <2>1 DEF HoldsUuid, Holding
  <2>3. keyFor \in [Keys -> Registrations \cup {NoOne}] /\ KeyOf[r] \in Keys
    BY <1>T DEF TypeOK
  <2>4. NoTrace'
    <3> SUFFICES ASSUME NEW s \in Registrations, reg'[s] \in Uncommitted
                 PROVE  device' # s /\ \A k \in Keys : keyFor'[k] # s
      BY DEF NoTrace
    <3>1. s # r
      BY <1>R, <2>1 DEF Uncommitted
    <3>2. reg[s] \in Uncommitted
      BY <1>R, <2>1, <3>1
    <3>3. \A k \in Keys : keyFor[k] # s
      BY <1>T, <3>2 DEF NoTrace
    <3> QED BY <2>1, <2>3, <3>1, <3>3
  <2>5. Holding' = {}
    BY <1>R, <2>1, <2>2 DEF Holding
  <2>6. \A s \in Registrations : reg'[s] # "keyed"
    BY <2>5 DEF Holding
  <2>7. HoldsUuid'
    BY <2>5, <2>6 DEF HoldsUuid
  <2>8. KeyAndDevice'
    <3> SUFFICES ASSUME NEW s \in Registrations
                 PROVE  /\ device' = s => keyFor'[KeyOf[s]] = s
                        /\ (\E k \in Keys : keyFor'[k] = s) => device' = s \/ deletes' > 0
      BY DEF KeyAndDevice
    <3>1. device' = s => keyFor'[KeyOf[s]] = s
      BY <2>1, <2>3
    <3>2. ASSUME NEW k \in Keys, keyFor'[k] = s, s # r PROVE deletes' > 0
      <4>1. keyFor[k] = s
        BY <2>1, <2>3, <3>2
      <4> QED BY <1>T, <2>1, <2>2, <4>1 DEF KeyAndDevice
    <3> QED BY <2>1, <3>1, <3>2
  <2> QED BY <2>4, <2>7, <2>8
<1>12. ASSUME NEW r \in Registrations, Respond(r)
       PROVE  NoTrace' /\ HoldsUuid' /\ KeyAndDevice'
  <2>1. UNCHANGED <<device, keyFor, deletes>>
    BY <1>12 DEF Respond, tables
  <2>2. \A s \in Registrations : reg'[s] = reg[s] \/ reg'[s] \in {"committed", "created"}
    BY <1>12, <1>R DEF Respond, Become
  <2> QED BY <2>1, <2>2, <1>R, TablesAlone
<1>13. ASSUME NEW k \in Keys, ExpireKey(k)
       PROVE  NoTrace' /\ HoldsUuid' /\ KeyAndDevice'
  BY <1>13, RegUnchanged DEF ExpireKey, tables
<1>14. ASSUME NEW i \in DeletesAt, NEW k \in Keys, DeleteKey(i, k)
       PROVE  NoTrace' /\ HoldsUuid' /\ KeyAndDevice'
  <2>1. /\ keyFor[k] # device /\ keyFor' = [keyFor EXCEPT ![k] = NoOne]
        /\ device' = device /\ deletes' = deletes /\ reg' = reg
    BY <1>14 DEF DeleteKey
  <2>2. keyFor \in [Keys -> Registrations \cup {NoOne}]
    BY <1>T DEF TypeOK
  <2>3. NoTrace'
    BY <1>T, <2>1, <2>2 DEF NoTrace
  <2>4. HoldsUuid'
    BY <1>T, <2>1, <2>2 DEF HoldsUuid, Holding
  <2>5. KeyAndDevice'
    BY <1>T, <2>1, <2>2 DEF KeyAndDevice
  <2> QED BY <2>3, <2>4, <2>5
<1>15. ASSUME NEW i \in DeletesAt, NEW k \in Keys, InvalidateKey(i, k)
       PROVE  NoTrace' /\ HoldsUuid' /\ KeyAndDevice'
  BY <1>15, RegUnchanged DEF InvalidateKey, tables
<1>16. CASE UNCHANGED vars
  BY <1>16, RegUnchanged DEF vars
<1> QED
  BY <1>1, <1>2, <1>3, <1>4, <1>5, <1>6, <1>7, <1>8, <1>9, <1>10, <1>11, <1>12, <1>13, <1>14,
     <1>15, <1>16
  DEF Next, Progress, RegistrationStep

LEMMA WInvImplies == WInv => AccessInv
<1> SUFFICES ASSUME WInv PROVE AccessInv
  OBVIOUS
<1>1. TypeOK
  BY DEF WInv, TInv
<1>2. WholeOrNothing
  BY DEF WInv, NoTrace, KeyAndDevice, WholeOrNothing, Uncommitted, Steps
<1> QED BY <1>1, <1>2 DEF AccessInv

(* However many instances, registrations and keys there are, whatever is   *)
(* aborted, lost, deleted or crashes: tables, caches and lookups are       *)
(* well-formed, nobody waits for a lookup that has ended, and a            *)
(* registration leaves its device with its key or neither (register.ts).   *)
THEOREM RegistrationIsWhole == Spec => []AccessInv
<1>1. Init => WInv
  BY WInvInit
<1>2. WInv /\ [Next]_vars => WInv'
  BY WInvStep
<1>3. WInv => AccessInv
  BY WInvImplies
<1> QED BY <1>1, <1>2, <1>3, PTL DEF Spec
=============================================================================
