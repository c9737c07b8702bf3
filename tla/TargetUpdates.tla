--------------------------- MODULE TargetUpdates ---------------------------
(***************************************************************************)
(* How a change of the target state reaches the devices: the hooks on the  *)
(* environment and configuration variables (vars-update-trigger.ts), on    *)
(* devices and on applications, the proxy that tells connected devices to  *)
(* update, and the devices that then poll their target state.              *)
(*                                                                         *)
(* A hook sends its requests after the transaction has ended.  For a       *)
(* created or changed variable it looks the devices up only then, in a     *)
(* read transaction of its own; for a deleted one before the deletion.     *)
(***************************************************************************)
EXTENDS TargetState

CONSTANTS
    Requests,      \* requests in flight
    Instances,     \* service instances of the VPN
    VarKeys,       \* the variables requests write
    DevicePatches, \* what a PATCH of each device may set: [app, pin]
    InitialDevice, \* [Devices -> [app, pin, operated, managed]]
    InitialTarget, \* [Apps -> Releases \cup {Unset}]
    InitialLink,   \* the instance all devices are connected to at first
    Unreliable,    \* devices whose tunnel may be lost
    InitialVar,    \* [Keys -> Values \cup {Unset}]
    MaxStarted,    \* bound on the number of requests
    MaxFaults      \* bound on failed lookups, lost requests and lost connections

VARIABLES
    device,     \* the device rows
    target,     \* should be running-release of the applications
    var,        \* the variables
    images,     \* the image rows
    installs,   \* the images each device has an image install of
    running,    \* is running-release, as the devices report it
    vpn,        \* is managed by-service instance; Unset: not connected to vpn
    link,       \* the instance of the VPN that holds the device's tunnel
    leaving,    \* tunnels that were lost, with the instance still to say so
    work,       \* what each request still has to do
    told,       \* devices that were asked to update
    polling,    \* the state being sent to a device, if any
    got,        \* the state a device has
    missed,     \* devices that a change was not announced to (ghost)
    started,
    faults

dbVars == <<device, target, var, images>>
vpnVars == <<vpn, link, leaving>>
deviceVars == <<installs, running, vpnVars, told, polling, got>>
updateVars == <<dbVars, deviceVars, work, missed, started, faults>>

Db == [device |-> device, target |-> target, var |-> var, images |-> images]
Target(d) == StateV3(Db, d)

Keys == {AppVar(a) : a \in Apps} \cup {DeviceVar(d) : d \in Devices}
        \cup {ServiceVar(s) : s \in Services} \cup {ImageVar(i) : i \in Images}
        \cup {DeviceServiceVar(d, s) : d \in Devices, s \in Services}
        \cup {AppConfig(a, n) : a \in Apps, n \in ConfigNames}
        \cup {DeviceConfig(d, n) : d \in Devices, n \in ConfigNames}

DeviceRow ==
    [app : Apps, pin : Maybe(Releases), operated : Maybe(Releases), managed : Maybe(Releases)]

(* A device is pinned to a release of its application, and an application  *)
(* should be running a release of its own: rules of the model.             *)
ASSUME UpdatesAssumption ==
    /\ InitialDevice \in [Devices -> DeviceRow] /\ InitialTarget \in [Apps -> Maybe(Releases)]
    /\ \A d \in Devices : InitialDevice[d].pin # Unset =>
          AppOf[InitialDevice[d].pin] = InitialDevice[d].app
    /\ \A a \in Apps : InitialTarget[a] # Unset => AppOf[InitialTarget[a]] = a
    /\ InitialVar \in [Keys -> Maybe(Values)] /\ VarKeys \subseteq Keys
    /\ DevicePatches \in [Devices -> SUBSET [app : Apps, pin : Maybe(Releases)]]
    /\ Unreliable \subseteq Devices
    /\ InitialLink \in Maybe(Instances) /\ Unset \notin Instances
    /\ IsFiniteSet(Devices)
    /\ MaxStarted \in Nat /\ MaxFaults \in Nat

Idle == [phase |-> "idle"]

Work ==
    {Idle}
    \cup [phase : {"lookup"}, key : Keys]
    \cup [phase : {"delete"}, key : Keys, devices : SUBSET Devices]
    \cup [phase : {"post"}, devices : SUBSET Devices]
    \cup [phase : {"postApp"}, app : Apps, release : Releases]

(* The tables, the requests in flight and what the devices know are        *)
(* well-formed, whatever requests and failures there were.                 *)
UpdatesTypeOK ==
    /\ device \in [Devices -> DeviceRow]
    /\ target \in [Apps -> Maybe(Releases)]
    /\ var \in [Keys -> Maybe(Values)]
    /\ images \subseteq Images
    /\ installs \in [Devices -> SUBSET Images]
    /\ running \in [Devices -> Maybe(Releases)]
    /\ vpn \in [Devices -> Maybe(Instances)] /\ link \in [Devices -> Maybe(Instances)]
    /\ leaving \subseteq Devices \X Instances
    /\ told \subseteq Devices /\ missed \subseteq Devices
    /\ work \in [Requests -> Work]
    /\ started \in 0 .. MaxStarted /\ faults \in 0 .. MaxFaults

(* Every device has its state, and has reported that it runs it.           *)
UpdatesInit ==
    /\ device = InitialDevice /\ target = InitialTarget
    /\ var = InitialVar
    /\ images = Images
    /\ got = [d \in Devices |-> Target(d)]
    /\ installs = [d \in Devices |-> ImagesIn(Target(d))]
    /\ running = [d \in Devices |-> ShouldBeRunning(Db, d)]
    /\ vpn = [d \in Devices |-> InitialLink] /\ link = vpn /\ leaving = {}
    /\ work = [q \in Requests |-> Idle]
    /\ told = {} /\ missed = {}
    /\ polling = [d \in Devices |-> {}]
    /\ started = 0 /\ faults = 0

----------------------------------------------------------------------------
(* Variables. *)

(* The filters of addAppEnvHooks, addDeviceEnvHooks and of the hooks on    *)
(* service and image variables: the devices a variable is said to affect.  *)
RunsService(d, s) ==
    /\ ShouldBeRunning(Db, d) # Unset
    /\ \E i \in ImagesOf[ShouldBeRunning(Db, d)] \cap images : ServiceOf[i] = s

HasInstalled(d, i) == i \in installs[d] \cap images

(* A hook that forgets that the devices of an application may be pinned.   *)
AffectedUnpinned(k) ==
    CASE k[1] \in {"application_environment_variable", "application_config_variable"} ->
            {d \in Devices : device[d].app = k[2] /\ device[d].pin = Unset}
      [] k[1] \in {"device_environment_variable", "device_config_variable",
                   "device_service_environment_variable"} -> {k[2]}
      [] k[1] = "service_environment_variable" -> {d \in Devices : RunsService(d, k[2])}
      [] k[1] = "image_environment_variable" -> {d \in Devices : HasInstalled(d, k[2])}

Affected(k) ==
    CASE k[1] \in {"application_environment_variable", "application_config_variable"} ->
            {d \in Devices : device[d].app = k[2]}
      [] k[1] \in {"device_environment_variable", "device_config_variable",
                   "device_service_environment_variable"} -> {k[2]}
      [] k[1] = "service_environment_variable" -> {d \in Devices : RunsService(d, k[2])}
      [] k[1] = "image_environment_variable" -> {d \in Devices : HasInstalled(d, k[2])}

TargetReleases(d) ==
    {Visible(Db, d, r) : r \in {ShouldBeRunning(Db, d), device[d].managed, device[d].operated}}
        \ {Unset}

(* The variables that go into the environment of the services of a device. *)
Reads(d, k) ==
    \E r \in TargetReleases(d) :
        \/ k = AppVar(AppOf[r])
        \/ \E i \in ImagesOf[r] \cap images : k \in {ImageVar(i), ServiceVar(ServiceOf[i])}

(* The hooks leave devices out: the variables of an image are announced to *)
(* those that have installed it, not to those that should, and those of    *)
(* the host application and of the supervisor to the devices in them.      *)
NotAffected(k) == {d \in Devices : Reads(d, k)} \ Affected(k)

(* POST, PUT or PATCH of a variable, up to its commit.                     *)
WriteVar(q, k, v) ==
    /\ work[q] = Idle /\ started < MaxStarted
    /\ v # var[k]
    /\ var' = [var EXCEPT ![k] = v]
    /\ work' = [work EXCEPT ![q] = [phase |-> "lookup", key |-> k]]
    /\ started' = started + 1
    /\ UNCHANGED <<device, target, images, deviceVars, missed, faults>>

(* The end event, one second later: the devices are looked up.             *)
LookUp(q) ==
    /\ work[q].phase = "lookup"
    /\ missed' = missed \cup NotAffected(work[q].key)
    /\ work' = [work EXCEPT ![q] = [phase |-> "post", devices |-> Affected(work[q].key)]]
    /\ UNCHANGED <<dbVars, deviceVars, started, faults>>

(* The lookup fails: nobody is told.                                       *)
LookUpFails(q) ==
    /\ work[q].phase = "lookup" /\ faults < MaxFaults
    /\ missed' = missed \cup Affected(work[q].key) \cup NotAffected(work[q].key)
    /\ work' = [work EXCEPT ![q] = Idle]
    /\ faults' = faults + 1
    /\ UNCHANGED <<dbVars, deviceVars, started>>

(* DELETE of a variable: PRERUN reads whom it affects ...                  *)
DeletePreRun(q, k) ==
    /\ work[q] = Idle /\ started < MaxStarted
    /\ var[k] # Unset
    /\ work' = [work EXCEPT ![q] = [phase |-> "delete", key |-> k, devices |-> Affected(k)]]
    /\ started' = started + 1
    /\ UNCHANGED <<dbVars, deviceVars, missed, faults>>

(* ... and the row is gone with the commit, or stays if it is rolled back. *)
(* Whoever came to be affected in between is not told.                     *)
DeleteCommit(q) ==
    /\ work[q].phase = "delete"
    /\ LET w == work[q]
       IN  /\ var' = [var EXCEPT ![w.key] = Unset]
           /\ missed' = missed \cup (Affected(w.key) \ w.devices) \cup NotAffected(w.key)
           /\ work' = [work EXCEPT ![q] = [phase |-> "post", devices |-> w.devices]]
    /\ UNCHANGED <<device, target, images, deviceVars, started, faults>>

DeleteRollback(q) ==
    /\ work[q].phase = "delete" /\ faults < MaxFaults
    /\ work' = [work EXCEPT ![q] = Idle]
    /\ faults' = faults + 1
    /\ UNCHANGED <<dbVars, deviceVars, missed, started>>

----------------------------------------------------------------------------
(* Devices and applications. *)

(* PATCH device, up to its commit: a device that moves reports anew.       *)
PatchDevice(q, d, p) ==
    /\ work[q] = Idle /\ started < MaxStarted
    /\ p.pin # Unset => AppOf[p.pin] = p.app
    /\ <<p.app, p.pin>> # <<device[d].app, device[d].pin>>
    /\ device' = [device EXCEPT ![d].app = p.app, ![d].pin = p.pin]
    /\ running' = IF p.app = device[d].app THEN running ELSE [running EXCEPT ![d] = Unset]
    /\ work' = [work EXCEPT ![q] = [phase |-> "post", devices |-> {d}]]
    /\ started' = started + 1
    /\ UNCHANGED <<target, var, images, installs, vpnVars, told, polling, got, missed, faults>>

(* Devices whose host application a has the updater of: they are sent the  *)
(* image of its target release, and it is not announced to them.           *)
UpdatedWith(a) ==
    {d \in Devices : device[d].operated # Unset /\ UpdatedBy[AppOf[device[d].operated]] = a}

(* PATCH application with a new target release, up to its commit.          *)
PatchApplication(q, r) ==
    /\ work[q] = Idle /\ started < MaxStarted
    /\ r # target[AppOf[r]]
    /\ target' = [target EXCEPT ![AppOf[r]] = r]
    /\ missed' = missed \cup UpdatedWith(AppOf[r])
    /\ work' = [work EXCEPT ![q] = [phase |-> "postApp", app |-> AppOf[r], release |-> r]]
    /\ started' = started + 1
    /\ UNCHANGED <<device, var, images, deviceVars, faults>>

----------------------------------------------------------------------------
(* The proxy. *)

(* requestDevices: the devices of a filter that are connected get the      *)
(* request, through the instance their row names; errors of single devices *)
(* are ignored.                                                            *)
Reached(devices) == {d \in devices : vpn[d] # Unset /\ vpn[d] = link[d]}

PostDevices(q, devices, lost) ==
    /\ lost \subseteq Reached(devices)
    /\ faults + Cardinality(lost) <= MaxFaults
    /\ faults' = faults + Cardinality(lost)
    /\ told' = told \cup (Reached(devices) \ lost)
    /\ work' = [work EXCEPT ![q] = Idle]

Post(q, lost) ==
    /\ work[q].phase = "post"
    /\ LET devices == work[q].devices
       IN  /\ PostDevices(q, devices, lost)
           /\ missed' = missed \cup (devices \ Reached(devices)) \cup lost
    /\ UNCHANGED <<dbVars, installs, running, vpnVars, polling, got, started>>

(* The devices of an application that follow it and do not run the release *)
(* yet.  One that still runs it from before may be on its way to another.  *)
Followers(a) == {d \in Devices : device[d].app = a /\ device[d].pin = Unset}

PostApp(q, lost) ==
    /\ work[q].phase = "postApp"
    /\ LET w == work[q]
           devices == {d \in Followers(w.app) : running[d] # w.release}
       IN  /\ PostDevices(q, devices, lost)
           /\ missed' = missed \cup (Followers(w.app) \ devices) \cup (devices \ Reached(devices)) \cup lost
    /\ UNCHANGED <<dbVars, installs, running, vpnVars, polling, got, started>>

----------------------------------------------------------------------------
(* Devices. *)

(* GET state: one query in a read transaction; the answer takes a while.   *)
StartPoll(d) ==
    /\ polling[d] = {}
    /\ d \in told \cup missed \/ got[d] # Target(d)
    /\ polling' = [polling EXCEPT ![d] = {Target(d)}]
    /\ told' = told \ {d} /\ missed' = missed \ {d}
    /\ UNCHANGED <<dbVars, installs, running, vpnVars, got, work, started, faults>>

EndPoll(d) ==
    /\ \E state \in polling[d] : got' = [got EXCEPT ![d] = state]
    /\ polling' = [polling EXCEPT ![d] = {}]
    /\ UNCHANGED <<dbVars, installs, running, vpnVars, told, missed, work, started, faults>>

(* The device has applied its state and reports it.                        *)
Report(d) ==
    /\ <<running[d], installs[d]>> # <<got[d].release, ImagesIn(got[d]) \cap images>>
    /\ running' = [running EXCEPT ![d] = got[d].release]
    /\ installs' = [installs EXCEPT ![d] = ImagesIn(got[d]) \cap images]
    /\ UNCHANGED <<dbVars, vpnVars, told, polling, got, missed, work, started, faults>>

----------------------------------------------------------------------------
(* The VPN.  An instance lets a device in once clientConnect has answered  *)
(* it, and calls clientDisconnect some time after it lost the device; it   *)
(* does not take the same device again before that.                        *)
ClientConnect(d, s) ==
    /\ link[d] = Unset /\ <<d, s>> \notin leaving
    /\ vpn' = [vpn EXCEPT ![d] = s]
    /\ link' = [link EXCEPT ![d] = s]
    /\ UNCHANGED <<dbVars, installs, running, told, polling, got, leaving, missed, work, started,
                   faults>>

LoseLink(d) ==
    /\ link[d] # Unset /\ faults < MaxFaults
    /\ leaving' = leaving \cup {<<d, link[d]>>}
    /\ link' = [link EXCEPT ![d] = Unset]
    /\ faults' = faults + 1
    /\ UNCHANGED <<dbVars, installs, running, told, polling, got, vpn, missed, work, started>>

(* A disconnect that does not look who manages the device now.             *)
ClientDisconnectAnyway(d, s) ==
    /\ <<d, s>> \in leaving
    /\ leaving' = leaving \ {<<d, s>>}
    /\ vpn' = [vpn EXCEPT ![d] = Unset]
    /\ UNCHANGED <<dbVars, installs, running, told, polling, got, link, missed, work, started,
                   faults>>

ClientDisconnect(d, s) ==
    /\ <<d, s>> \in leaving
    /\ leaving' = leaving \ {<<d, s>>}
    /\ vpn' = IF vpn[d] = s THEN [vpn EXCEPT ![d] = Unset] ELSE vpn
    /\ UNCHANGED <<dbVars, installs, running, told, polling, got, link, missed, work, started,
                   faults>>

UpdatesNext ==
    \/ \E q \in Requests, k \in VarKeys : DeletePreRun(q, k)
    \/ \E q \in Requests, k \in VarKeys, v \in Values : WriteVar(q, k, v)
    \/ \E q \in Requests : LookUp(q) \/ LookUpFails(q) \/ DeleteCommit(q) \/ DeleteRollback(q)
    \/ \E q \in Requests, d \in Devices : \E p \in DevicePatches[d] : PatchDevice(q, d, p)
    \/ \E q \in Requests, r \in Releases : PatchApplication(q, r)
    \/ \E q \in Requests, lost \in SUBSET Devices : Post(q, lost) \/ PostApp(q, lost)
    \/ \E d \in Devices : StartPoll(d) \/ EndPoll(d) \/ Report(d)
    \/ \E d \in Unreliable : LoseLink(d)
    \/ \E d \in Devices, s \in Instances : ClientConnect(d, s) \/ ClientDisconnect(d, s)

----------------------------------------------------------------------------
(* A request that is going to tell d, or to leave it out.                  *)
WillTell(q, d) ==
    CASE work[q].phase = "lookup" -> d \in Affected(work[q].key) \cup NotAffected(work[q].key)
      [] work[q].phase = "post" -> d \in work[q].devices
      [] work[q].phase = "postApp" -> d \in Followers(work[q].app)
      [] OTHER -> FALSE

(* A device whose target state is no longer the one it has is told so, is  *)
(* about to be told, or is just being sent the new one; unless telling it  *)
(* failed, it was not connected, or it is one of the cases the filters of *)
(* the hooks leave out.  The hooks look devices up before or after a       *)
(* commit, while devices move, change release and poll.                    *)
StaleDeviceIsTold ==
    \A d \in Devices :
        \/ d \in told \cup missed
        \/ \E q \in Requests : WillTell(q, d)
        \/ got[d] = Target(d) \/ Target(d) \in polling[d]

(* The service instance in the row of a device, through which requests are *)
(* sent to it, is the one that holds its tunnel; if the tunnel is gone,    *)
(* that instance is going to say so.  The disconnect of an instance may    *)
(* come long after another has taken the device over.                      *)
ConnectionIsKnown ==
    \A d \in Devices :
        /\ link[d] # Unset => vpn[d] = link[d]
        /\ vpn[d] # Unset => link[d] = vpn[d] \/ <<d, vpn[d]>> \in leaving

(* The two versions of the state endpoint, which assemble it separately,   *)
(* agree on the configuration and on the services of the user application, *)
(* except for those of a profile, which v3 withholds.                      *)
VersionsAgree ==
    \A d \in Devices :
        LET v2 == StateV2(Db, d)
            v3 == Target(d)
            services == v3.apps[v2.app]
        IN  /\ v2.config = v3.config
            /\ DOMAIN services = {s \in DOMAIN v2.services : ImageProfiles[v2.services[s].image] = {}}
            /\ \A s \in DOMAIN services :
                /\ services[s].image = v2.services[s].image
                /\ services[s].environment = v2.services[s].environment
                /\ services[s].strategy = v2.services[s].strategy

(* What the fleet state endpoint announces for a fleet, and for a release  *)
(* of it, is what a device that follows the fleet, or is pinned to the     *)
(* release, and has no variables of its own is then sent.                  *)
Plain(d) ==
    /\ var[DeviceVar(d)] = Unset
    /\ \A s \in Services : var[DeviceServiceVar(d, s)] = Unset
    /\ \A n \in ConfigNames : var[DeviceConfig(d, n)] = Unset

FleetStateIsWhatDevicesGet ==
    \A d \in Devices :
        LET a == device[d].app
            state == Target(d)
            preview == FleetStateV3(Db, a, device[d].pin)
        IN  Plain(d) /\ FleetStateExists(Db, a, device[d].pin) =>
                /\ state.apps[a] = preview.apps[a]
                /\ state.config = preview.config
=============================================================================
