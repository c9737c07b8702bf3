------------------------------- MODULE Access -------------------------------
(***************************************************************************)
(* Registration of a device, and the caches that answer "does this device  *)
(* exist" before its requests are let through.  One uuid is followed.      *)
(*                                                                         *)
(* Every API instance keeps a memory cache in front of a Redis cache that  *)
(* all instances share (infra/cache).  A miss reads the database and then  *)
(* fills both levels; a hit in Redis fills the memory level only.  Misses  *)
(* are cached too, so a device that polls before it registers leaves an    *)
(* entry saying it does not exist.  The registration and the deletion of   *)
(* the device delete the entry of the instance that ran them and the one   *)
(* in Redis, but nothing reaches the memory of the other instances, and a  *)
(* lookup that read the database before the change may store its answer    *)
(* after the deletion of the entry.                                        *)
(*                                                                         *)
(* Commands of one instance reach Redis in the order it sent them; those   *)
(* of different instances interleave.  Redis may fail a command, and an    *)
(* instance may crash at any step.                                         *)
(***************************************************************************)
EXTENDS Naturals, Sequences

CONSTANTS
    Instances,      \* API processes
    Registrations,  \* POST /device/register requests, all for the one uuid
    At,             \* [Registrations -> Instances], who handles each
    DeletesAt,      \* the instances that are asked for deletions
    Keys,           \* api keys
    KeyOf,          \* [Registrations -> Keys], the api_key of the request
    NoOne,          \* no registration
    MaxDeletes,     \* bound on deletions of the device
    MaxFaults       \* bound on crashes and on commands Redis fails

ASSUME AccessAssumption ==
    /\ At \in [Registrations -> Instances]
    /\ DeletesAt \subseteq Instances
    /\ KeyOf \in [Registrations -> Keys]
    /\ NoOne \notin Registrations
    /\ MaxDeletes \in Nat
    /\ MaxFaults \in Nat

VARIABLES
    device,      \* the registration that made the committed device row
    keyFor,      \* api_key rows: the registration each belongs to
    reg,         \* where each registration is in its handler
    local,       \* checkDeviceExistsIsFrozen, memory level, per instance
    shared,      \* checkDeviceExistsIsFrozen, Redis level
    lookup,      \* the lookup in flight on each instance
    wire,        \* commands each instance has sent to Redis
    pending,     \* deletions of the device whose 'end' listener has not run
    keyCached,   \* checkApiKeyExists, in Redis, where only true is cached
    keyPending,  \* the same for deleted api keys
    deletes,     \* device deletions so far
    faults       \* crashes and failed commands so far

vars == <<device, keyFor, reg, local, shared, lookup, wire, pending,
          keyCached, keyPending, deletes, faults>>

tables == <<device, keyFor, deletes>>
levels == <<local, shared, lookup, wire>>
listeners == <<pending, keyPending>>

None == "none"
Verdicts == {"there", "gone"}
Commands == {"get", "del"} \cup Verdicts
Steps == {"new", "waiting", "key", "queryKey", "keyFound", "tx", "inserted",
          "keyed", "committed", "created", "denied", "failed"}
Ended == {"created", "denied", "failed"}

\* Registrations that hold uncommitted rows, and so the unique uuid.
Holding == {r \in Registrations : reg[r] \in {"inserted", "keyed"}}

TypeOK ==
    /\ device \in Registrations \cup {NoOne}
    /\ keyFor \in [Keys -> Registrations \cup {NoOne}]
    /\ reg \in [Registrations -> Steps]
    /\ local \in [Instances -> Verdicts \cup {None}]
    /\ shared \in Verdicts \cup {None}
    /\ lookup \in [Instances -> {"idle", "asking", "querying", "storing"}
                                    \cup Verdicts]
    /\ wire \in [Instances -> Seq(Commands)]
    /\ pending \in [Instances -> 0..MaxDeletes]
    /\ keyCached \subseteq Keys
    /\ keyPending \in [Instances -> SUBSET Keys]
    /\ deletes \in 0..MaxDeletes
    /\ faults \in 0..MaxFaults
    \* Joined lookups: whoever waits, waits for the one in flight.
    /\ \A r \in Registrations : reg[r] = "waiting" => lookup[At[r]] # "idle"

Init ==
    /\ device = NoOne
    /\ keyFor = [k \in Keys |-> NoOne]
    /\ reg = [r \in Registrations |-> "new"]
    /\ local = [i \in Instances |-> None]
    /\ shared = None
    /\ lookup = [i \in Instances |-> "idle"]
    /\ wire = [i \in Instances |-> <<>>]
    /\ pending = [i \in Instances |-> 0]
    /\ keyCached = {}
    /\ keyPending = [i \in Instances |-> {}]
    /\ deletes = 0
    /\ faults = 0

-----------------------------------------------------------------------------
(* The two-level cache: wrap, and delete.                                  *)

\* gracefullyDenyConflictingRegistrations: a device that exists is a conflict.
Judged(verdict) == IF verdict = "there" THEN "denied" ELSE "key"

\* Every caller that joined the lookup of instance i gets its outcome.
Deliver(i, step) ==
    reg' = [r \in Registrations |->
              IF At[r] = i /\ reg[r] = "waiting" THEN step ELSE reg[r]]

\* A miss in memory asks Redis, unless a lookup is already on its way.
Ask(i) ==
    IF lookup[i] = "idle"
    THEN /\ lookup' = [lookup EXCEPT ![i] = "asking"]
         /\ wire' = [wire EXCEPT ![i] = Append(@, "get")]
    ELSE UNCHANGED <<lookup, wire>>

\* As Look, but a hit in memory is written through to Redis, which gives it a
\* fresh lifetime there.
LookThrough(i) ==
    /\ lookup[i] = "idle"
    /\ IF local[i] = None
       THEN Ask(i)
       ELSE /\ lookup' = [lookup EXCEPT ![i] = "storing"]
            /\ wire' = [wire EXCEPT ![i] = Append(@, local[i])]
    /\ UNCHANGED <<tables, reg, local, shared, keyCached, listeners, faults>>

\* A request of the device reaches the existence check of instance i
\* (resolveOrDenyDevicesWithStatus) and misses.
Look(i) ==
    /\ local[i] = None
    /\ lookup[i] = "idle"
    /\ Ask(i)
    /\ UNCHANGED <<tables, reg, local, shared, keyCached, listeners, faults>>

\* Redis has the entry: it fills the memory level only.
Hit(i) ==
    /\ local' = [local EXCEPT ![i] = shared]
    /\ lookup' = [lookup EXCEPT ![i] = "idle"]
    /\ Deliver(i, Judged(shared))
    /\ UNCHANGED shared

Miss(i) ==
    /\ lookup' = [lookup EXCEPT ![i] = "querying"]
    /\ UNCHANGED <<reg, local, shared>>

\* Both levels hold the answer: the lookup is over.
Stored(i, verdict) ==
    /\ shared' = verdict
    /\ lookup' = [lookup EXCEPT ![i] = "idle"]
    /\ Deliver(i, Judged(verdict))
    /\ UNCHANGED local

\* Redis handles the oldest command of instance i.
Arrive(i) ==
    /\ wire[i] # <<>>
    /\ wire' = [wire EXCEPT ![i] = Tail(@)]
    /\ \/ /\ Head(wire[i]) = "del"
          /\ shared' = None
          /\ UNCHANGED <<reg, local, lookup>>
       \/ Head(wire[i]) = "get" /\ shared # None /\ Hit(i)
       \/ Head(wire[i]) = "get" /\ shared = None /\ Miss(i)
       \/ Head(wire[i]) \in Verdicts /\ Stored(i, Head(wire[i]))
    /\ UNCHANGED <<tables, keyCached, listeners, faults>>

\* As Drop, but the lookup is never settled.
DropUnsettled(i) ==
    /\ wire[i] # <<>>
    /\ faults < MaxFaults
    /\ wire' = [wire EXCEPT ![i] = Tail(@)]
    /\ faults' = faults + 1
    /\ UNCHANGED <<tables, reg, local, shared, lookup, keyCached, listeners>>

\* Redis fails the command: a read or a write fails every caller of the
\* lookup, a deletion is only reported.
Drop(i) ==
    /\ wire[i] # <<>>
    /\ faults < MaxFaults
    /\ wire' = [wire EXCEPT ![i] = Tail(@)]
    /\ faults' = faults + 1
    /\ IF Head(wire[i]) = "del"
       THEN UNCHANGED <<reg, lookup>>
       ELSE lookup' = [lookup EXCEPT ![i] = "idle"] /\ Deliver(i, "failed")
    /\ UNCHANGED <<tables, local, shared, keyCached, listeners>>

\* checkDeviceExistsIsFrozenQuery.
Query(i) ==
    /\ lookup[i] = "querying"
    /\ lookup' = [lookup EXCEPT ![i] =
                    IF device = NoOne THEN "gone" ELSE "there"]
    /\ UNCHANGED <<tables, reg, local, shared, wire, keyCached, listeners, faults>>

\* The answer, undefined stored as false, goes to both levels at once.
Store(i) ==
    /\ lookup[i] \in Verdicts
    /\ local' = [local EXCEPT ![i] = lookup[i]]
    /\ wire' = [wire EXCEPT ![i] = Append(@, lookup[i])]
    /\ lookup' = [lookup EXCEPT ![i] = "storing"]
    /\ UNCHANGED <<tables, reg, shared, keyCached, listeners,
                   faults>>

\* The delete of the memoized function: memory now, Redis on arrival.
Forget(i) ==
    /\ local' = [local EXCEPT ![i] = None]
    /\ wire' = [wire EXCEPT ![i] = Append(@, "del")]
    /\ UNCHANGED <<shared, lookup>>

\* Entries run out: DEVICE_EXISTS_CACHE_TIMEOUT on either level,
\* API_KEY_EXISTS_CACHE_TIMEOUT.
ExpireLocal(i) ==
    /\ local[i] # None
    /\ local' = [local EXCEPT ![i] = None]
    /\ UNCHANGED <<tables, reg, shared, lookup, wire, keyCached, listeners, faults>>

ExpireShared ==
    /\ shared # None
    /\ shared' = None
    /\ UNCHANGED <<tables, reg, local, lookup, wire, keyCached, listeners, faults>>

ExpireKey(k) ==
    /\ k \in keyCached
    /\ keyCached' = keyCached \ {k}
    /\ UNCHANGED <<tables, reg, levels, listeners, faults>>

-----------------------------------------------------------------------------
(* POST /device/register                                                   *)

Become(r, step) == reg' = [reg EXCEPT ![r] = step]

\* The request arrives and its uuid is checked first.
Register(r) ==
    /\ reg[r] = "new"
    /\ IF local[At[r]] # None
       THEN Become(r, Judged(local[At[r]])) /\ UNCHANGED <<lookup, wire>>
       ELSE Become(r, "waiting") /\ Ask(At[r])
    /\ UNCHANGED <<tables, local, shared, keyCached, listeners,
                   faults>>

\* checkApiKeyExists: Redis, then the database, then Redis again when the key
\* exists.
CheckKey(r) ==
    /\ reg[r] = "key"
    /\ Become(r, IF KeyOf[r] \in keyCached THEN "denied" ELSE "queryKey")
    /\ UNCHANGED <<tables, levels, keyCached, listeners, faults>>

QueryKey(r) ==
    /\ reg[r] = "queryKey"
    /\ Become(r, IF keyFor[KeyOf[r]] # NoOne THEN "keyFound" ELSE "tx")
    /\ UNCHANGED <<tables, levels, keyCached, listeners, faults>>

StoreKey(r) ==
    /\ reg[r] = "keyFound"
    /\ Become(r, "denied")
    /\ keyCached' = keyCached \cup {KeyOf[r]}
    /\ UNCHANGED <<tables, levels, listeners, faults>>

\* The transaction inserts the device row.  The unique uuid makes it wait for
\* another transaction that has inserted it, and fail once there is a row.
InsertDevice(r) ==
    /\ reg[r] = "tx"
    /\ Holding = {}
    /\ Become(r, IF device # NoOne THEN "denied" ELSE "inserted")
    /\ UNCHANGED <<tables, levels, keyCached, listeners, faults>>

\* As CreateKey, but in a transaction of its own, as without the tx option.
CreateKeyApart(r) ==
    /\ reg[r] = "inserted"
    /\ IF keyFor[KeyOf[r]] # NoOne
       THEN Become(r, "denied") /\ UNCHANGED keyFor
       ELSE Become(r, "keyed") /\ keyFor' = [keyFor EXCEPT ![KeyOf[r]] = r]
    /\ UNCHANGED <<device, deletes, levels, keyCached, listeners,
                   faults>>

\* createDeviceApiKey, in the same transaction: the key is unique too.
CreateKey(r) ==
    /\ reg[r] = "inserted"
    /\ Become(r, IF keyFor[KeyOf[r]] # NoOne THEN "denied" ELSE "keyed")
    /\ UNCHANGED <<tables, levels, keyCached, listeners, faults>>

\* The transaction commits, unless the client has gone.
Commit(r) ==
    /\ reg[r] = "keyed"
    /\ Become(r, "committed")
    /\ device' = r
    /\ keyFor' = [keyFor EXCEPT ![KeyOf[r]] = r]
    /\ UNCHANGED <<deletes, levels, keyCached, listeners, faults>>

\* The response is closed before the transaction is: onFinished rolls it back.
Abort(r) ==
    /\ reg[r] \in {"tx", "inserted", "keyed"}
    /\ Become(r, "failed")
    /\ UNCHANGED <<tables, levels, keyCached, listeners, faults>>

\* After the commit the cached verdict is deleted and the client answered.
Respond(r) ==
    /\ reg[r] = "committed"
    /\ Become(r, "created")
    /\ Forget(At[r])
    /\ UNCHANGED <<tables, keyCached, listeners, faults>>

-----------------------------------------------------------------------------
(* Deletions, and their cache invalidation when the transaction has ended. *)

\* DELETE device.  Its api key is left behind.
DeleteDevice(i) ==
    /\ device # NoOne
    /\ deletes < MaxDeletes
    /\ device' = NoOne
    /\ deletes' = deletes + 1
    /\ pending' = [pending EXCEPT ![i] = @ + 1]
    /\ UNCHANGED <<keyFor, reg, levels, keyCached, keyPending,
                   faults>>

InvalidateDevice(i) ==
    /\ pending[i] > 0
    /\ pending' = [pending EXCEPT ![i] = @ - 1]
    /\ Forget(i)
    /\ UNCHANGED <<tables, reg, keyCached, keyPending, faults>>

\* DELETE api_key, for the key that a deleted device left behind.
DeleteKey(i, k) ==
    /\ keyFor[k] \notin {NoOne, device}
    /\ keyFor' = [keyFor EXCEPT ![k] = NoOne]
    /\ keyPending' = [keyPending EXCEPT ![i] = @ \cup {k}]
    /\ UNCHANGED <<device, deletes, reg, levels, keyCached, pending,
                   faults>>

InvalidateKey(i, k) ==
    /\ k \in keyPending[i]
    /\ keyPending' = [keyPending EXCEPT ![i] = @ \ {k}]
    /\ keyCached' = keyCached \ {k}
    /\ UNCHANGED <<tables, reg, levels, pending, faults>>

-----------------------------------------------------------------------------
\* The process of instance i dies: its memory, its lookup, the listeners it
\* still had to run and its requests are gone, its transactions roll back.
Crash(i) ==
    /\ faults < MaxFaults
    /\ faults' = faults + 1
    /\ local' = [local EXCEPT ![i] = None]
    /\ lookup' = [lookup EXCEPT ![i] = "idle"]
    /\ wire' = [wire EXCEPT ![i] = <<>>]
    /\ pending' = [pending EXCEPT ![i] = 0]
    /\ keyPending' = [keyPending EXCEPT ![i] = {}]
    /\ reg' = [r \in Registrations |->
                 IF At[r] = i /\ reg[r] \notin Ended \cup {"new"}
                 THEN "failed" ELSE reg[r]]
    /\ UNCHANGED <<tables, shared, keyCached>>

\* What an instance does on its own once it has begun.
Progress(i) ==
    Query(i) \/ Store(i) \/ InvalidateDevice(i)

RegistrationStep(r) ==
    \/ CheckKey(r) \/ QueryKey(r) \/ StoreKey(r)
    \/ InsertDevice(r) \/ CreateKey(r) \/ Commit(r) \/ Respond(r)

Next ==
    \/ ExpireShared
    \/ \E i \in Instances :
         \/ Look(i) \/ Arrive(i) \/ Drop(i) \/ Progress(i) \/ ExpireLocal(i)
         \/ Crash(i)
    \/ \E i \in DeletesAt : DeleteDevice(i)
    \/ \E r \in Registrations : Register(r) \/ RegistrationStep(r) \/ Abort(r)
    \/ \E k \in Keys : ExpireKey(k)
    \/ \E i \in DeletesAt, k \in Keys : DeleteKey(i, k) \/ InvalidateKey(i, k)

Spec == Init /\ [][Next]_vars

\* Timers run out, Redis answers, and a request that has begun goes on.
\* Nothing obliges anyone to send a request.
FairSpec ==
    /\ Spec
    /\ WF_vars(ExpireShared)
    /\ \A i \in Instances :
         /\ WF_vars(Arrive(i)) /\ WF_vars(Query(i)) /\ WF_vars(Store(i))
         /\ WF_vars(InvalidateDevice(i)) /\ WF_vars(ExpireLocal(i))
         /\ \A k \in Keys : WF_vars(InvalidateKey(i, k))
    /\ \A k \in Keys : WF_vars(ExpireKey(k))
    /\ \A r \in Registrations : WF_vars(RegistrationStep(r))

-----------------------------------------------------------------------------
\* A registration leaves a device with its api key, or nothing: a client that
\* goes away, a conflict or a crash between the two inserts never leaves a
\* device without a key or a key without ever a device (register.ts keeps both
\* in one transaction and rolls it back when the response closes).
WholeOrNothing ==
    \A r \in Registrations :
      /\ device = r => keyFor[KeyOf[r]] = r
      /\ reg[r] \in {"new", "waiting", "tx", "inserted", "keyed", "denied"}
           => device # r /\ \A k \in Keys : keyFor[k] # r
      /\ (\E k \in Keys : keyFor[k] = r) => device = r \/ deletes > 0

\* What the levels say now.
Entries == {shared} \cup {local[i] : i \in Instances}

\* The caches catch up: once the device stays registered, from some moment on
\* no instance holds that it is gone; once it stays deleted, no instance holds
\* that it exists.  No sequence of lookups
\* hands a stale answer from one level or instance to another for ever.
CachesSettle ==
    /\ <>[](device # NoOne) => <>[](\A c \in Entries : c # "gone")
    /\ <>[](device = NoOne) => <>[](\A c \in Entries : c # "there")

\* A registration that has begun is answered or has failed: joining the lookup
\* of another request, whose Redis commands may fail, never leaves it waiting.
RegistrationEnds ==
    \A r \in Registrations : (reg[r] # "new") ~> (reg[r] \in Ended)

\* Tables, caches, lookups and registrations are well-formed, whatever stops
\* and whatever is dropped, and WholeOrNothing.
AccessInv == TypeOK /\ WholeOrNothing
=============================================================================
