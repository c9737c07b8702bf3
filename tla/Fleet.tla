-------------------------------- MODULE Fleet --------------------------------
(***************************************************************************)
(* The requests that change which releases devices should run, with the    *)
(* hooks they pass through: PATCH and POST of device and PATCH of          *)
(* application (src/features/devices/hooks, ci-cd/hooks/service-installs,  *)
(* ci-cd/hooks/*-update-trigger, hostapp, supervisor-app) and the task     *)
(* create_service_installs (ci-cd/tasks/service-installs.ts).              *)
(*                                                                         *)
(* A request runs in one READ COMMITTED transaction: the PRERUN hooks, the *)
(* statement itself, the POSTRUN hooks, the commit; the devices are told   *)
(* to update after the commit.  The statement waits for the rows that      *)
(* another transaction changed; the PRERUN hooks run before it holds them. *)
(* A task runs in a transaction of its own, beside the requests.           *)
(***************************************************************************)
EXTENDS SystemApps, FiniteSets, Bags

CONSTANTS
    Devices,
    Services,
    ServicesOf, \* [Releases -> SUBSET Services]
    ServiceApp, \* [Services -> Apps]
    Requests,   \* slots for running requests
    Workers,    \* slots for running tasks
    Bodies,     \* bodies of PATCH device
    Posts,      \* bodies of POST device
    AppBodies,  \* bodies of PATCH application
    InitDevice, \* [Devices -> a row of the device table, or Null]
    InitTarget, \* [Apps -> should_be_running__release]
    Reporting,  \* devices that report what they run
    Withdrawn,  \* releases that may be invalidated
    Async,      \* ASYNC_TASKS_ENABLED and ..._CREATE_SERVICE_INSTALLS_ENABLED
    BatchSize,  \* ASYNC_TASK_CREATE_SERVICE_INSTALLS_BATCH_SIZE
    None,
    MaxRequests, \* bound on received requests
    MaxFaults   \* bound on failing requests and workers

(* A row of the device table, and the bodies of PATCH device and of PATCH  *)
(* application.                                                            *)
Row ==
    [app : Apps, pin : Releases \cup {Null}, managed : Releases \cup {Null},
     operated : Releases \cup {Null}, type : DOMAIN CpuArch,
     os : Nat \cup {Null, Unparsable}, variant : {"dev", "prod", Null},
     sv : Nat \cup {Null}]

PatchBody ==
    [app : Apps \cup {Undefined}, pin : Releases \cup {Null, Undefined},
     managed : Releases \cup {Null, Undefined}, operated : Releases \cup {Null, Undefined},
     type : DOMAIN CpuArch \cup {Undefined}, os : Nat \cup {Null, Unparsable, Undefined},
     variant : {"dev", "prod", Null, Undefined}, sv : Nat \cup {Null, Undefined}]
AppBody == [app : Apps, target : Releases \cup {Null}]

ASSUME FleetAssumption ==
    /\ Release \in [Releases ->
                      [app : Apps, semver : Nat, tag : Nat \cup {Null}, success : BOOLEAN,
                       variant : {"dev", "prod", ""}, created : Nat,
                       tagVariant : {"development", "production", Null},
                       revision : Nat \cup {Null}]]
    /\ ServicesOf \in [Releases -> SUBSET Services]
    /\ ServiceApp \in [Services -> Apps]
    /\ \A r \in Releases, s \in Services :
         s \in ServicesOf[r] => ServiceApp[s] = Release[r].app
    /\ InitTarget \in [Apps -> Releases \cup {Null}]
    /\ InitDevice \in [Devices -> Row \cup {Null}]
    /\ Bodies \subseteq PatchBody /\ Posts \subseteq Row /\ AppBodies \subseteq AppBody
    /\ IsFiniteSet(Releases)
    /\ {Undefined, Null, Unparsable} \cap (Apps \cup Releases \cup DOMAIN CpuArch \cup Nat) = {}
    /\ Undefined \notin {Null, Unparsable, "dev", "prod"} /\ Null \notin {Unparsable, "dev", "prod"}
    /\ {None, Null} \cap Row = {}
    /\ Async \in BOOLEAN
    /\ BatchSize \in Nat \ {0}
    /\ MaxRequests \in Nat /\ MaxFaults \in Nat

OsNotOlder(row) ==
    Parses(row.os) /\ KnownVariant(row.variant) /\ row.operated # Null =>
      BaseVersion(row.operated) >= row.os

(* A release that has its version in the semver fields has no other one in *)
(* its tag, and devices are registered with a version that is not 0.0.0,   *)
(* and without a target of their own choice: POST checks none of this.     *)
ASSUME RegistrationAssumption ==
    /\ \A r \in Releases : Release[r].semver # 0 => Release[r].tag \in {Null, Release[r].semver}
    /\ \A b \in Posts : b.operated = Null /\ b.os # 0
    /\ \A d \in Devices : InitDevice[d] # Null => OsNotOlder(InitDevice[d])

(* Devices belong to fleets, not to host apps or supervisors, and the      *)
(* tables follow the rules of the model when the first request comes.      *)
Ordinary(a) == ~App[a].is_host /\ ~App[a].is_supervisor

ASSUME TablesAssumption ==
    /\ \A b \in Bodies : Given(b.app) => Ordinary(b.app)
    /\ \A b \in Posts : Ordinary(b.app)
    /\ \A d \in Devices : InitDevice[d] # Null =>
         Ordinary(InitDevice[d].app) /\ TargetRules(InitDevice[d])
    /\ \A a \in Apps : InitTarget[a] # Null => Release[InitTarget[a]].app = a

(* Tables are finite; only releases are invalidated.                       *)
ASSUME FiniteAssumption ==
    IsFiniteSet(Devices) /\ IsFiniteSet(Apps) /\ Withdrawn \subseteq Releases

VARIABLES
    target,   \* should_be_running__release of the applications
    device,   \* the device table
    installs, \* the service_install table, pairs of device and service
    running,  \* is_running__release of the devices
    images,   \* releases with image installs of the device, not deleted
    invalid,  \* releases that are invalidated
    tasks,    \* bag of queued tasks, each a set of devices
    request,
    worker,
    received, \* number of requests so far
    faults,
    missed,   \* history: devices with a new target that were not told,
    serial    \* and whether no two requests overlapped

tables == <<target, device, installs, running, images, invalid>>
ghosts == <<missed, serial>>
vars == <<tables, tasks, request, worker, received, faults, ghosts>>

-----------------------------------------------------------------------------
(* ids: the devices of a PATCH or POST of device; moved: custom.movedDevices;*)
(* mine, ins, del, posted: what the transaction wrote; todo: the service   *)
(* installs it still has to insert; tell: devices to tell after it.        *)
Idle ==
    [pc |-> "idle", kind |-> "device", body |-> None, ids |-> {}, moved |-> {},
     supervisor |-> [d \in Devices |-> Null], mine |-> [d \in Devices |-> None],
     ins |-> {}, del |-> {}, todo |-> {}, posted |-> EmptyBag, tell |-> {}]

(* task: the devices of the task; services: targetServicesByDevice; have:  *)
(* the service installs found; left: devices still to be looked at; rest:  *)
(* remainingDevices.                                                       *)
IdleWorker ==
    [pc |-> "idle", task |-> {}, services |-> [d \in Devices |-> {}], have |-> {},
     left |-> {}, rest |-> {}, ins |-> {}, posted |-> EmptyBag]

TypeOK ==
    /\ target \in [Apps -> Releases \cup {Null}]
    /\ device \in [Devices -> Row \cup {Null}]
    /\ installs \subseteq Devices \X Services
    /\ running \in [Devices -> Releases \cup {Null}]
    /\ images \subseteq Devices \X Releases
    /\ invalid \subseteq Releases
    /\ IsABag(tasks) /\ BagToSet(tasks) \subseteq SUBSET Devices
    /\ \A q \in Requests :
         /\ DOMAIN request[q] = DOMAIN Idle
         /\ request[q].mine \in [Devices -> Row \cup {None}]
         /\ request[q].ins \cup request[q].del \cup request[q].todo
              \subseteq Devices \X Services
         /\ request[q].tell \cup request[q].moved \subseteq Devices
    /\ \A w \in Workers :
         /\ DOMAIN worker[w] = DOMAIN IdleWorker
         /\ worker[w].services \in [Devices -> SUBSET Services]
         /\ worker[w].left \subseteq worker[w].rest /\ worker[w].rest \subseteq worker[w].task
    /\ received \in 0 .. MaxRequests /\ faults \in 0 .. MaxFaults
    /\ missed \subseteq Devices /\ serial \in BOOLEAN

(* should be running-release, a computed field of the device.              *)
ShouldBeRunning(row, t) == IF row.pin # Null THEN row.pin ELSE t[row.app]

TargetsOf(row, t) == {ShouldBeRunning(row, t), row.managed, row.operated} \ {Null}

Exist == {d \in Devices : device[d] # Null}

Init ==
    /\ target = InitTarget
    /\ device = InitDevice
    /\ installs = {p \in Devices \X Services :
                     /\ device[p[1]] # Null
                     /\ \E r \in TargetsOf(device[p[1]], target) : p[2] \in ServicesOf[r]}
    /\ running = [d \in Devices |-> IF device[d] = Null THEN Null
                                    ELSE ShouldBeRunning(device[d], target)]
    /\ images = {<<d, running[d]>> : d \in {e \in Devices : running[e] # Null}}
    /\ invalid = {}
    /\ tasks = EmptyBag
    /\ request = [q \in Requests |-> Idle]
    /\ worker = [w \in Workers |-> IdleWorker]
    /\ received = 0 /\ faults = 0
    /\ missed = {}
    /\ serial = TRUE

-----------------------------------------------------------------------------
(* Transactions *)

(* What a query inside the transaction of q sees.                          *)
SeenRow(q, d) == IF request[q].mine[d] # None THEN request[q].mine[d] ELSE device[d]
SeenInstalls(rec) == (installs \ rec.del) \cup rec.ins

(* Rows and keys that an open transaction other than t changed.            *)
RowsOf(t) == {d \in Devices : \E q \in Requests \ {t} : request[q].mine[d] # None}
KeysOf(t) ==
    (UNION {request[q].ins \cup request[q].del : q \in Requests \ {t}})
      \cup UNION {worker[w].ins : w \in Workers \ {t}}

(* Batches of at most BatchSize, as lodash chunk makes them.               *)
Batches(ids) ==
    CHOOSE P \in SUBSET ((SUBSET ids) \ {{}}) :
      /\ UNION P = ids
      /\ \A B, C \in P : B # C => B \cap C = {}
      /\ \A B \in P : Cardinality(B) <= BatchSize
      /\ Cardinality({B \in P : Cardinality(B) < BatchSize}) <= 1

(* createReleaseServiceInstalls for every call in calls: triples of what   *)
(* the call is for, the devices and the releases.  Either a task per batch *)
(* or the missing service installs of the devices.                         *)
CreateServiceInstalls(rec, calls) ==
    LET made == {c \in calls : c[2] # {}}
        new == [B \in UNION {Batches(c[2]) : c \in made} |->
                  Cardinality({c \in made : B \in Batches(c[2])})]
        missing == UNION {c[2] \X UNION {ServicesOf[r] : r \in c[3]} : c \in made}
    IN IF Async
       THEN [rec EXCEPT !.posted = rec.posted (+) new]
       ELSE [rec EXCEPT !.todo = rec.todo \cup (missing \ SeenInstalls(rec))]

(* The releases that should be running on application a, none or one.      *)
AppRelease(a) == {target[a]} \ {Null}

(* Apply the given values to a row.                                        *)
Assign(row, v) == [f \in DOMAIN row |-> IF v[f] = Undefined THEN row[f] ELSE v[f]]

Goto(q, rec) == request' = [request EXCEPT ![q] = rec]

(* Undo the transaction of q and answer with an error.                     *)
RollBack(q) == request' = [request EXCEPT ![q] = Idle]

-----------------------------------------------------------------------------
(* PATCH device *)

(* POSTPARSE: a device that moves is unpinned, and one that changes its    *)
(* type has no target host app, unless they are given.                     *)
ParsedMove(b) ==
    IF Given(b.app) /\ b.pin = Undefined THEN [b EXCEPT !.pin = Null] ELSE b
ParsedType(b) ==
    IF Given(b.type) /\ b.operated = Undefined THEN [b EXCEPT !.operated = Null] ELSE b

Busy == \E q \in Requests : request[q].pc \notin {"idle", "notify"}

ReceivePatch(q) ==
    /\ request[q].pc = "idle"
    /\ received < MaxRequests
    /\ received' = received + 1
    /\ \E b \in Bodies, ids \in (SUBSET Exist) \ {{}} :
         Goto(q, [Idle EXCEPT !.pc = "prerun", !.body = ParsedType(ParsedMove(b)), !.ids = ids])
    /\ serial' = (serial /\ ~Busy)
    /\ UNCHANGED <<tables, tasks, worker, faults, missed>>

(* needs__os_version_range of the type of the application, checkVersion.   *)
CanBeIn(row, a) ==
    App[a].range # Null =>
      /\ row.os = Null => row.sv = Null
      /\ row.os # Null => row.os # Unparsable /\ row.os >= App[a].range

(* Mutant: $ne is lost.                                                    *)
OldInstallsOfNew(q, a) ==
    {p \in SeenInstalls(request[q]) : p[1] \in request[q].ids /\ ServiceApp[p[2]] = a}

(* deleteServiceInstallsForCurrentApp: of any application other than the   *)
(* new one that owns one of the devices.                                   *)
OldInstalls(q, a) ==
    {p \in SeenInstalls(request[q]) :
       /\ p[1] \in request[q].ids
       /\ ServiceApp[p[2]] # a
       /\ \E d \in request[q].ids : device[d].app = ServiceApp[p[2]]}

(* What the PRERUN hook of a PATCH deletes if the devices move.            *)
Deleted(q, v) == IF Given(v.app) THEN OldInstalls(q, v.app) ELSE {}

(* The checks of the PRERUN hooks.                                         *)
Allowed(v, rows) ==
    /\ Given(v.app) => \A row \in rows : CanBeIn(row, v.app)
    /\ Given(v.managed) => SupervisorUpgrade(rows, v.managed, invalid)

(* The PRERUN hooks read the rows before the transaction holds them.       *)
PreRun(q) ==
    LET v == request[q].body
        ids == request[q].ids
        rows == {device[d] : d \in ids}
        old == Deleted(q, v)
    IN /\ request[q].pc = "prerun" /\ request[q].kind = "device"
       /\ old \cap KeysOf(q) = {}
       /\ IF Allowed(v, rows)
          THEN Goto(q, [request[q] EXCEPT
                 !.pc = IF Given(v.sv) THEN "supervisor" ELSE "update",
                 !.moved = IF Given(v.app) THEN {d \in ids : device[d].app # v.app} ELSE {},
                 !.supervisor = [d \in Devices |->
                     IF Given(v.sv) /\ d \in ids THEN InitialSupervisor(device[d], v.sv)
                                                 ELSE Null],
                 !.del = old])
          ELSE RollBack(q)
       /\ UNCHANGED <<tables, received, tasks, worker, faults, ghosts>>

(* The PATCH of setSupervisorReleaseResource, with its own hooks.          *)
SetSupervisor(q) ==
    LET sv == request[q].supervisor
        ids == {d \in Devices : sv[d] # Null}
        rec == [request[q] EXCEPT
                  !.pc = "update",
                  !.mine = [d \in Devices |-> IF d \in ids
                              THEN [SeenRow(q, d) EXCEPT !.managed = sv[d]]
                              ELSE request[q].mine[d]]]
    IN /\ request[q].pc = "supervisor"
       /\ ids \cap RowsOf(q) = {}
       /\ Goto(q, CreateServiceInstalls(rec,
                    {<<r, {d \in ids : sv[d] = r}, {r}>> : r \in {sv[d] : d \in ids}}))
       /\ UNCHANGED <<tables, received, tasks, worker, faults, ghosts>>

Update(q) ==
    /\ request[q].pc = "update" /\ request[q].kind = "device"
    /\ request[q].ids \cap RowsOf(q) = {}
    /\ Goto(q, [request[q] EXCEPT
         !.pc = "postrun",
         !.mine = [d \in Devices |-> IF d \in request[q].ids
                     THEN Assign(SeenRow(q, d), request[q].body)
                     ELSE request[q].mine[d]]])
    /\ UNCHANGED <<tables, received, tasks, worker, faults, ghosts>>

(* Mutant: a pin that is removed is taken for one that is not given.       *)
InstallCallsIfGiven(v, ids, mine) ==
    (IF Given(v.app) THEN {<<"app", ids, AppRelease(v.app)>>}
     ELSE IF Given(v.pin) THEN {<<"pin", ids, {v.pin}>>} ELSE {})
    \cup (IF Given(v.managed) THEN {<<"managed", ids, {v.managed}>>} ELSE {})
    \cup (IF Given(v.operated) THEN {<<"operated", ids, {v.operated}>>} ELSE {})

(* The service installs for the applications or releases that were given.  *)
InstallCalls(v, ids, mine) ==
    (IF Given(v.app) THEN {<<"app", ids, AppRelease(v.app)>>}
     ELSE IF Given(v.pin) THEN {<<"pin", ids, {v.pin}>>}
     ELSE IF v.pin = Null
     THEN {<<<<"unpin", a>>, {d \in ids : mine[d].app = a}, AppRelease(a)>> : a \in Apps}
     ELSE {})
    \cup (IF Given(v.managed) THEN {<<"managed", ids, {v.managed}>>} ELSE {})
    \cup (IF Given(v.operated) THEN {<<"operated", ids, {v.operated}>>} ELSE {})

(* The version of the OS or its variant is given, and parses.              *)
ReportsOs(v) ==
    /\ v.os # Unparsable
    /\ Given(v.os) \/ KnownVariant(v.variant)

(* Devices are told to update when these are given.                        *)
Tells(v) == v.pin # Undefined \/ Given(v.app) \/ Given(v.operated)

(* The POSTRUN hooks: service installs, the check of the host app, and the *)
(* PATCH of the target host app of devices that report a newer version,    *)
(* which passes the same check as root.                                    *)
PostRun(q) ==
    LET v == request[q].body
        ids == request[q].ids
        mine == request[q].mine
        new == [d \in Devices |-> IF d \in ids /\ ReportsOs(v) THEN ProgressedTarget(mine[d])
                                  ELSE IF d \in ids THEN mine[d].operated ELSE Null]
        changed == {d \in ids : new[d] # mine[d].operated}
        progressed == {d \in ids : /\ ReportsOs(v) /\ Outdated(mine[d])
                                   /\ OSRelease(mine[d].type, mine[d].os, mine[d].variant) # Null}
        rec == [request[q] EXCEPT
                  !.pc = "open",
                  !.mine = [d \in Devices |-> IF d \in changed
                              THEN [mine[d] EXCEPT !.operated = new[d]] ELSE mine[d]],
                  !.tell = progressed \cup IF Tells(v) THEN ids ELSE {}]
    IN /\ request[q].pc = "postrun" /\ request[q].kind = "device"
       /\ IF /\ Given(v.operated) =>
                  HostappUpgrade({mine[d] : d \in ids}, v.operated, FALSE, invalid)
             /\ \A d \in progressed : HostappUpgrade({mine[d]}, new[d], TRUE, invalid)
          THEN Goto(q, CreateServiceInstalls(rec,
                 InstallCalls(v, ids, mine) \cup
                 {<<<<"os", r>>, {d \in progressed : new[d] = r}, {r}>>
                    : r \in {new[d] : d \in progressed}}))
          ELSE RollBack(q)
       /\ UNCHANGED <<tables, received, tasks, worker, faults, ghosts>>

-----------------------------------------------------------------------------
(* POST device *)

(* POSTPARSE: the releases of the OS and of the supervisor that the device *)
(* is registered with.                                                     *)
RegisteredOs(b) ==
    LET r == IF Parses(b.os) /\ Given(b.variant) THEN OSRelease(b.type, b.os, b.variant)
                                                 ELSE Null
    IN IF r = Null THEN b ELSE [b EXCEPT !.operated = r]
RegisteredSupervisor(b) ==
    LET r == IF Given(b.sv) THEN SupervisorRelease(b.sv, CpuArch[b.type]) ELSE Null
    IN IF r = Null THEN b ELSE [b EXCEPT !.managed = r]

PostDevice(q) ==
    /\ request[q].pc = "idle"
    /\ received < MaxRequests
    /\ received' = received + 1
    /\ \E b \in Posts, d \in Devices \ Exist :
         LET row == RegisteredSupervisor(RegisteredOs(b))
             rec == [Idle EXCEPT !.pc = "open", !.kind = "post", !.body = row, !.ids = {d},
                       !.mine = [Idle.mine EXCEPT ![d] = row]]
         IN /\ d \notin RowsOf(q)
            /\ CanBeIn(row, row.app)
            /\ Goto(q, CreateServiceInstalls(rec,
                 {<<"app", {d}, AppRelease(row.app)>>} \cup
                 IF Async THEN {}
                 ELSE {<<"pin", {d}, {row.pin} \ {Null}>>,
                       <<"system", {d}, {row.managed, row.operated} \ {Null}>>}))
    /\ serial' = (serial /\ ~Busy)
    /\ UNCHANGED <<tables, tasks, worker, faults, missed>>

-----------------------------------------------------------------------------
(* PATCH application *)

AppLocked(q, a) ==
    \E p \in Requests \ {q} :
      /\ request[p].kind = "app" /\ request[p].pc = "open"
      /\ request[p].body.app = a

(* The statement and the POSTRUN hooks; ids: the devices that are not      *)
(* pinned, which other transactions may be about to change.                *)
PatchApplication(q) ==
    /\ request[q].pc = "idle"
    /\ received < MaxRequests
    /\ received' = received + 1
    /\ \E b \in AppBodies :
         LET ids == {d \in Exist : device[d].app = b.app /\ device[d].pin = Null}
             rec == [Idle EXCEPT !.pc = "open", !.kind = "app", !.body = b]
         IN /\ ~AppLocked(q, b.app)
            /\ Goto(q, IF b.target = Null THEN rec
                       ELSE CreateServiceInstalls(rec, {<<"app", ids, {b.target}>>}))
    /\ serial' = (serial /\ ~Busy)
    /\ UNCHANGED <<tables, tasks, worker, faults, missed>>

-----------------------------------------------------------------------------
(* POST service_install waits for a transaction that wrote the key, and    *)
(* fails if the key exists.                                                *)
Insert(q) ==
    LET todo == request[q].todo
    IN /\ request[q].pc = "open"
       /\ todo # {}
       /\ todo \cap KeysOf(q) = {}
       /\ IF todo \cap SeenInstalls(request[q]) = {}
          THEN Goto(q, [request[q] EXCEPT !.todo = {}, !.ins = request[q].ins \cup todo])
          ELSE RollBack(q)
       /\ UNCHANGED <<tables, received, tasks, worker, faults, ghosts>>

(* The rules of the model hold of what the transaction wrote.              *)
RulesHold(rec) ==
    IF rec.kind = "app"
    THEN rec.body.target # Null =>
           Release[rec.body.target].success /\ Release[rec.body.target].app = rec.body.app
    ELSE \A d \in rec.ids : TargetRules(rec.mine[d])

ImageInstallsAfter(rec) == {p \in images : p[1] \notin rec.moved}

Commit(q) ==
    LET rec == request[q]
        row == [d \in Devices |-> IF rec.mine[d] # None THEN rec.mine[d] ELSE device[d]]
        t == IF rec.kind = "app" THEN [target EXCEPT ![rec.body.app] = rec.body.target]
                                 ELSE target
        run(d) == ShouldBeRunning(row[d], t)
        changed == {d \in Exist : run(d) # ShouldBeRunning(device[d], target)}
    IN /\ rec.pc = "open"
       /\ rec.todo = {}
       /\ IF RulesHold(rec)
          THEN /\ device' = row
               /\ target' = t
               /\ installs' = SeenInstalls(rec)
               /\ images' = ImageInstallsAfter(rec)
               /\ tasks' = tasks (+) rec.posted
               /\ missed' = (missed \ changed) \cup
                            {d \in changed : run(d) \notin {Null, running[d]}}
               /\ Goto(q, [Idle EXCEPT !.pc = "notify", !.kind = rec.kind,
                             !.body = rec.body, !.tell = rec.tell])
          ELSE /\ RollBack(q)
               /\ UNCHANGED <<device, target, installs, images, tasks, missed>>
       /\ UNCHANGED <<received, running, invalid, worker, faults, serial>>

(* Mutant: only devices that are pinned are told.                          *)
ToldIfPinned(q) ==
    IF request[q].kind = "app"
    THEN {d \in Exist : device[d].app = request[q].body.app /\ device[d].pin # Null}
    ELSE request[q].tell

(* The devices that postDevices finds after the commit.                    *)
Told(q) ==
    LET b == request[q].body
    IN IF request[q].kind = "app"
       THEN {d \in Exist : /\ b.target # Null
                           /\ device[d].app = b.app
                           /\ device[d].pin = Null
                           /\ running[d] # b.target}
       ELSE request[q].tell

(* The end of the transaction.                                             *)
Notify(q) ==
    /\ request[q].pc = "notify"
    /\ missed' = missed \ Told(q)
    /\ RollBack(q)
    /\ UNCHANGED <<tables, received, tasks, worker, faults, serial>>

(* A request fails (a query, the connection, the process).                 *)
FailRequest(q) ==
    /\ request[q].pc \notin {"idle", "notify"}
    /\ faults < MaxFaults
    /\ faults' = faults + 1
    /\ RollBack(q)
    /\ UNCHANGED <<tables, received, tasks, worker, ghosts>>

-----------------------------------------------------------------------------
(* The task create_service_installs *)

StartTask(w) ==
    /\ worker[w].pc = "idle"
    /\ \E devices \in BagToSet(tasks) :
         /\ tasks' = tasks (-) SetToBag({devices})
         /\ worker' = [worker EXCEPT ![w] =
              [IdleWorker EXCEPT !.pc = "missing", !.task = devices, !.rest = devices,
                 !.services = [d \in Devices |-> IF d \in devices \cap Exist
                    THEN UNION {ServicesOf[r] : r \in TargetsOf(device[d], target)}
                    ELSE {}]]]
    /\ UNCHANGED <<tables, received, request, faults, ghosts>>

(* devicesToAddServiceInstalls: the devices of the task that lack any of   *)
(* the services of all its devices.                                        *)
FindMissing(w) ==
    LET rec == worker[w]
        all == UNION {rec.services[d] : d \in Devices}
    IN /\ rec.pc = "missing"
       /\ worker' = [worker EXCEPT ![w] =
            [rec EXCEPT !.pc = "insert",
               !.have = {p \in installs : p[1] \in rec.task /\ p[2] \in all},
               !.left = {d \in rec.task \cap Exist :
                           \E s \in all : <<d, s>> \notin installs}]]
       /\ UNCHANGED <<tables, received, tasks, request, faults, ghosts>>

InsertMissing(w) ==
    /\ worker[w].pc = "insert"
    /\ \E d \in worker[w].left :
         LET rec == worker[w]
             todo == ({d} \X rec.services[d]) \ rec.have
         IN /\ todo \cap KeysOf(w) = {}
            /\ todo \cap installs = {}
            /\ worker' = [worker EXCEPT ![w] =
                 [rec EXCEPT !.ins = rec.ins \cup todo, !.left = rec.left \ {d},
                    !.rest = rec.rest \ {d}]]
    /\ UNCHANGED <<tables, received, tasks, request, faults, ghosts>>

(* Mutant: the devices that are left are forgotten.                        *)
TimeIsUpNoTask(w) ==
    /\ worker[w].pc = "insert"
    /\ worker[w].left # {}
    /\ faults < MaxFaults
    /\ faults' = faults + 1
    /\ worker' = [worker EXCEPT ![w] = [worker[w] EXCEPT !.left = {}]]
    /\ UNCHANGED <<tables, received, tasks, request, ghosts>>

(* The time is up: a task for remainingDevices, in the same transaction.   *)
TimeIsUp(w) ==
    /\ worker[w].pc = "insert"
    /\ worker[w].left # {}
    /\ faults < MaxFaults
    /\ faults' = faults + 1
    /\ worker' = [worker EXCEPT ![w] =
         [worker[w] EXCEPT !.left = {}, !.posted = SetToBag({worker[w].rest})]]
    /\ UNCHANGED <<tables, received, tasks, request, ghosts>>

CommitTask(w) ==
    /\ worker[w].pc = "insert"
    /\ worker[w].left = {}
    /\ installs' = installs \cup worker[w].ins
    /\ tasks' = tasks (+) worker[w].posted
    /\ worker' = [worker EXCEPT ![w] =
         [IdleWorker EXCEPT !.pc = "done", !.task = worker[w].task]]
    /\ UNCHANGED <<target, device, running, images, invalid, request, received, faults,
                   ghosts>>

(* Mutant: the handler does not say that it succeeded, and is run again.   *)
FinishTaskAgain(w) ==
    /\ worker[w].pc = "done"
    /\ tasks' = tasks (+) SetToBag({worker[w].task})
    /\ worker' = [worker EXCEPT ![w] = IdleWorker]
    /\ UNCHANGED <<tables, received, request, faults, ghosts>>

(* The queue marks the task as succeeded.                                  *)
FinishTask(w) ==
    /\ worker[w].pc = "done"
    /\ worker' = [worker EXCEPT ![w] = IdleWorker]
    /\ UNCHANGED <<tables, received, tasks, request, faults, ghosts>>

(* A service install exists by now: the task fails and is tried again.     *)
TaskConflict(w) ==
    /\ worker[w].pc = "insert"
    /\ \E d \in worker[w].left :
         LET todo == ({d} \X worker[w].services[d]) \ worker[w].have
         IN todo \cap KeysOf(w) = {} /\ todo \cap installs # {}
    /\ tasks' = tasks (+) SetToBag({worker[w].task})
    /\ worker' = [worker EXCEPT ![w] = IdleWorker]
    /\ UNCHANGED <<tables, received, request, faults, ghosts>>

(* The next insert of w may wait for a key of v, in the order in which the *)
(* query returned the devices of w.                                        *)
WaitsFor(w, v) ==
    /\ worker[w].pc = "insert"
    /\ \E d \in worker[w].left :
         (({d} \X worker[w].services[d]) \ worker[w].have) \cap worker[v].ins # {}

(* Two tasks insert for the same devices in different orders: the database *)
(* aborts one of them, which has to wait for its next attempt.             *)
DeadlockTask(w) ==
    /\ \E v \in Workers \ {w} : WaitsFor(w, v) /\ WaitsFor(v, w)
    /\ worker' = [worker EXCEPT ![w] =
         [IdleWorker EXCEPT !.pc = "backoff", !.task = worker[w].task]]
    /\ UNCHANGED <<tables, received, tasks, request, faults, ghosts>>

(* The queue delays the next attempt by seconds, so the transaction that   *)
(* got the keys has ended by then.                                         *)
RetryTask(w) ==
    /\ worker[w].pc = "backoff"
    /\ \A v \in Workers : worker[v].pc \notin {"missing", "insert"}
    /\ tasks' = tasks (+) SetToBag({worker[w].task})
    /\ worker' = [worker EXCEPT ![w] = IdleWorker]
    /\ UNCHANGED <<tables, received, request, faults, ghosts>>

(* The worker goes down: the queue hands its task out again, even if its   *)
(* transaction was committed.                                              *)
CrashWorker(w) ==
    /\ worker[w].pc # "idle"
    /\ faults < MaxFaults
    /\ faults' = faults + 1
    /\ tasks' = tasks (+) SetToBag({worker[w].task})
    /\ worker' = [worker EXCEPT ![w] = IdleWorker]
    /\ UNCHANGED <<tables, received, request, ghosts>>

-----------------------------------------------------------------------------
(* A device reports the release it runs, and its image installs.           *)
Report(d) ==
    /\ d \in Exist
    /\ d \notin RowsOf(None)
    /\ ShouldBeRunning(device[d], target) \notin {Null, running[d]}
    /\ running' = [running EXCEPT ![d] = ShouldBeRunning(device[d], target)]
    /\ images' = {p \in images : p[1] # d} \cup {<<d, running'[d]>>}
    /\ missed' = missed \ {d}
    /\ UNCHANGED <<target, device, installs, invalid, tasks, request, worker, received,
                   faults, serial>>

(* PATCH of is_invalidated.                                                *)
Invalidate(r) ==
    /\ r \notin invalid
    /\ invalid' = invalid \cup {r}
    /\ UNCHANGED <<target, device, installs, running, images, tasks, request, worker,
                   received, faults, ghosts>>

RequestStep(q) ==
    \/ ReceivePatch(q) \/ PreRun(q) \/ SetSupervisor(q) \/ Update(q) \/ PostRun(q)
    \/ PostDevice(q) \/ PatchApplication(q)
    \/ Insert(q) \/ Commit(q) \/ Notify(q) \/ FailRequest(q)

WorkerStep(w) ==
    \/ StartTask(w) \/ FindMissing(w) \/ InsertMissing(w) \/ TimeIsUp(w) \/ CommitTask(w)
    \/ FinishTask(w) \/ TaskConflict(w) \/ DeadlockTask(w) \/ RetryTask(w) \/ CrashWorker(w)

Next ==
    \/ \E q \in Requests : RequestStep(q)
    \/ \E w \in Workers : WorkerStep(w)
    \/ \E d \in Reporting : Report(d)
    \/ \E r \in Withdrawn : Invalidate(r)

Spec == Init /\ [][Next]_vars

(* Requests run to their end, or fail; the queue hands out tasks as long   *)
(* as there are any, and a worker ends what it started.                    *)
FairSpec ==
    /\ Spec
    /\ \A q \in Requests :
         WF_vars(PreRun(q) \/ SetSupervisor(q) \/ Update(q) \/ PostRun(q) \/ Insert(q)
                 \/ Commit(q) \/ Notify(q))
    /\ \A w \in Workers :
         WF_vars(StartTask(w) \/ FindMissing(w) \/ InsertMissing(w) \/ CommitTask(w)
                 \/ FinishTask(w) \/ TaskConflict(w) \/ DeadlockTask(w) \/ RetryTask(w))

-----------------------------------------------------------------------------
Quiet ==
    /\ \A q \in Requests : request[q].pc \in {"idle", "notify"}
    /\ \A w \in Workers : worker[w].pc \in {"idle", "done"}
    /\ tasks = EmptyBag

Lacks(d) ==
    /\ d \in Exist
    /\ \E r \in TargetsOf(device[d], target), s \in Services :
         s \in ServicesOf[r] /\ <<d, s>> \notin installs

(* When no request and no task is left, and the requests ran one after the *)
(* other, every device has a service install for every service of the      *)
(* releases it should run: no move, pin, change of the target of a fleet,  *)
(* registration, conflict of two tasks, timeout or restart of a task loses *)
(* one.                                                                    *)
InstallsComplete == Quiet /\ serial => \A d \in Devices : ~Lacks(d)

(* Requests and tasks end: once requests stop, every request has been      *)
(* answered, no task is left or running, and no service install is missing *)
(* if no two requests overlapped.                                          *)
EverythingEnds ==
    <>[](/\ \A q \in Requests : request[q].pc = "idle"
         /\ \A w \in Workers : worker[w].pc = "idle"
         /\ tasks = EmptyBag
         /\ serial => \A d \in Devices : ~Lacks(d))

(* When no request is left and requests ran one after the other, a device  *)
(* that was moved kept no service install of the application it left.      *)
NothingLeftBehind ==
    Quiet /\ serial =>
      \A p \in installs :
        \/ ServiceApp[p[2]] = device[p[1]].app
        \/ App[ServiceApp[p[2]]].is_host
        \/ App[ServiceApp[p[2]]].is_supervisor

(* A device whose target release becomes another one than it runs is told  *)
(* to update once the requests have ended, however requests that move, pin *)
(* and unpin devices and change the target of their fleets overlap.        *)
NoSilentChange == missed # {} => \E q \in Requests : request[q].pc = "notify"

(* "device.should_be_operated_by__release[0].semver >= device.os_version", *)
(* for versions and variants that are known: no overlap of reports of the  *)
(* OS version, upgrades, moves and changes of device type breaks it.       *)
OsTargetNotOlder == \A d \in Exist : OsNotOlder(device[d])

(* The supervisor a device should run is not downgraded once it reported   *)
(* one, by requests that do not overlap.                                   *)
SupervisorNotDowngraded ==
    [][\A d \in Exist :
         /\ serial'
         /\ device[d].sv # Null
         /\ device[d].managed # Null /\ device'[d].managed # Null
         => ~RawLess(device'[d].managed, device[d].managed)]_vars

(* Rows, requests and workers are well-formed, whatever fails and is tried *)
(* again, and InstallsComplete.                                            *)
FleetInv == TypeOK /\ InstallsComplete
=============================================================================
