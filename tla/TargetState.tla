---------------------------- MODULE TargetState ----------------------------
(***************************************************************************)
(* The target state a device is sent: GET /device/v3/:uuid/state and its   *)
(* predecessor v2, and GET /device/v3/fleet/:uuid/state.  Everything here  *)
(* is a function of a snapshot db of the tables, because each handler reads *)
(* the whole state with one query in one read transaction.                 *)
(*                                                                         *)
(* A variable has one name per kind, as lists of variables are merged name *)
(* by name; Unset stands for no row.  Releases, their images, labels and   *)
(* profiles do not change while devices poll, so they are constants.       *)
(***************************************************************************)
EXTENDS Integers, FiniteSets, Functions

CONSTANTS
    Devices, Apps, Releases, Images, Services,
    AppOf,            \* [Releases -> Apps]            belongs to-application
    ImagesOf,         \* [Releases -> SUBSET Images]   release image
    ServiceOf,        \* [Images -> Services]          is a build of-service
    ServiceApp,       \* [Services -> Apps]
    ImageProfiles,    \* [Images -> SUBSET Profiles]   image profile
    ActiveProfiles,   \* [Apps -> SUBSET (Profiles \X Apps)] activates profile name on
    ImageLabel,       \* [Images -> labels \cup {Unset}]     the update strategy label
    ServiceLabel,     \* [Services -> labels \cup {Unset}]
    IsPublic,         \* [Apps -> BOOLEAN]
    TypeOf,           \* [Apps \cup Devices -> device types]
    UpdatedBy,        \* [Apps -> Apps \cup {Unset}] is updated by-application
    Succeeded,        \* SUBSET Releases: status is success
    Values,           \* the values of variables: numbers, and NotANumber
    NotANumber,
    DefaultPollInterval,
    Unset

Maybe(S) == S \cup {Unset}

(* Each service is built at most once in a release: services are keyed by  *)
(* service name in a state, and the rows come in no particular order.      *)
ASSUME OneImagePerService ==
    \A r \in Releases : \A i, j \in ImagesOf[r] : ServiceOf[i] = ServiceOf[j] => i = j

ASSUME TargetAssumption ==
    /\ AppOf \in [Releases -> Apps] /\ ImagesOf \in [Releases -> SUBSET Images]
    /\ ServiceOf \in [Images -> Services] /\ UpdatedBy \in [Apps -> Maybe(Apps)]
    /\ Unset \notin Devices \cup Apps \cup Releases

(* The rows variables are attached to, one per (kind, owner).              *)
AppVar(a) == <<"application_environment_variable", a>>
DeviceVar(d) == <<"device_environment_variable", d>>
ServiceVar(s) == <<"service_environment_variable", s>>
DeviceServiceVar(d, s) == <<"device_service_environment_variable", d, s>>
ImageVar(i) == <<"image_environment_variable", i>>
AppConfig(a, n) == <<"application_config_variable", a, n>>
DeviceConfig(d, n) == <<"device_config_variable", d, n>>

(* The configuration variables the server itself reads.                    *)
UpdateStrategy == "SUPERVISOR_UPDATE_STRATEGY"
PollInterval == "SUPERVISOR_POLL_INTERVAL"
HostLogToDisplay == "HOST_LOG_TO_DISPLAY"
UiConfig == "UI_CONFIG"
ConfigNames == {UpdateStrategy, PollInterval, HostLogToDisplay, UiConfig}

----------------------------------------------------------------------------
(* What the key of a device may read. *)

CanAccessApp(db, d, a) ==
    \/ db.device[d].app = a
    \/ IsPublic[a] /\ TypeOf[a] = TypeOf[d]

CanAccessRelease(db, d, r) ==
    \/ db.device[d].pin = r
    \/ CanAccessApp(db, d, AppOf[r])

(* An expand of the state query: the release, if the key may read it.      *)
Visible(db, d, r) == IF r # Unset /\ CanAccessRelease(db, d, r) THEN r ELSE Unset

----------------------------------------------------------------------------
(* Variables and labels. *)

(* varListInsert: a row overrides what the less specific rows have set.    *)
VarListInsert(row, value) == IF row = Unset THEN value ELSE row

Environment(db, d, a, i) ==
    LET s == ServiceOf[i]
        shared == VarListInsert(db.var[ServiceVar(s)],
                    VarListInsert(db.var[AppVar(a)], db.var[ImageVar(i)]))
    IN  IF d = Unset THEN shared
        ELSE VarListInsert(db.var[DeviceServiceVar(d, s)],
                VarListInsert(db.var[DeviceVar(d)], shared))

MinPollInterval(value) ==
    IF value = NotANumber THEN NotANumber
    ELSE LET n == IF value = Unset THEN 0 ELSE value
         IN  IF n > DefaultPollInterval THEN n ELSE DefaultPollInterval

(* Variables of the dashboard and RESIN_HOST_LOG_TO_DISPLAY are not sent.  *)
Config(db, d, a) ==
    LET row(n) == IF d = Unset THEN db.var[AppConfig(a, n)]
                  ELSE VarListInsert(db.var[DeviceConfig(d, n)], db.var[AppConfig(a, n)])
    IN  [strategy |-> row(UpdateStrategy), poll |-> MinPollInterval(row(PollInterval))]

NoConfig == [strategy |-> Unset]

(* The label of a service or of its image wins over the configuration.     *)
StrategyLabel(i, config) ==
    LET own == VarListInsert(ServiceLabel[ServiceOf[i]], ImageLabel[i])
    IN  VarListInsert(own, config.strategy)

----------------------------------------------------------------------------
(* The images of the block that updates a host application.                *)
UpdaterImages(db, d, a) ==
    LET u == UpdatedBy[a]
    IN  IF u = Unset \/ db.target[u] = Unset \/ ~CanAccessApp(db, d, u) THEN {}
        ELSE ImagesOf[db.target[u]] \cap db.images

(* The application of a release as v3 sends it: service name -> service.   *)
(* The services of a host application carry the label of the root store,   *)
(* and that of the updater.                                                *)
ServiceState(db, d, a, i, config, isHost) ==
    [image |-> i, environment |-> Environment(db, d, a, i),
     strategy |-> StrategyLabel(i, config), store |-> isHost,
     updater |-> IF isHost THEN UpdaterImages(db, d, a) ELSE {}]

BuildAppFromRelease(db, d, a, r, config, isHost, profiles) ==
    LET sent == {i \in ImagesOf[r] \cap db.images :
                    ImageProfiles[i] = {} \/ ImageProfiles[i] \cap profiles # {}}
    IN  [s \in {ServiceOf[i] : i \in sent} |->
            ServiceState(db, d, a, CHOOSE i \in sent : ServiceOf[i] = s, config, isHost)]

ShouldBeRunning(db, d) ==
    IF db.device[d].pin # Unset THEN db.device[d].pin ELSE db.target[db.device[d].app]

(* getAppState: the applications of one target release field, keyed by     *)
(* application.  The user application is sent even without a release.      *)
NoApps == [a \in {} |-> Unset]
OneApp(a, services) == [x \in {a} |-> services]

ManagedApp(db, d) ==
    LET r == Visible(db, d, db.device[d].managed)
    IN  IF r = Unset THEN NoApps
        ELSE OneApp(AppOf[r], BuildAppFromRelease(db, d, AppOf[r], r, NoConfig, FALSE, {}))

OperatedApp(db, d) ==
    LET r == Visible(db, d, db.device[d].operated)
        active == {p[1] : p \in {q \in ActiveProfiles[db.device[d].app] : q[2] = AppOf[r]}}
    IN  IF r = Unset THEN NoApps
        ELSE OneApp(AppOf[r], BuildAppFromRelease(db, d, AppOf[r], r, NoConfig, TRUE, active))

UserApp(db, d) ==
    LET a == db.device[d].app
        r == Visible(db, d, ShouldBeRunning(db, d))
    IN  OneApp(a, IF r = Unset THEN NoApps
                  ELSE BuildAppFromRelease(db, d, a, r, Config(db, d, a), FALSE, {}))

(* getStateV3: the user application overrides the host application, which  *)
(* overrides the supervisor.                                               *)
StateV3(db, d) ==
    LET m == ManagedApp(db, d)
        o == OperatedApp(db, d)
        u == UserApp(db, d)
    IN  [config |-> Config(db, d, db.device[d].app),
         release |-> Visible(db, d, ShouldBeRunning(db, d)),
         apps |-> [a \in DOMAIN m \cup DOMAIN o \cup DOMAIN u |->
                     IF a \in DOMAIN u THEN u[a] ELSE IF a \in DOMAIN o THEN o[a] ELSE m[a]]]

(* A v2 in which the configuration wins over the labels.                   *)
BuildAppFromReleaseV2ConfigFirst(db, d, a, r, config) ==
    LET sent == ImagesOf[r] \cap db.images
    IN  [s \in {ServiceOf[i] : i \in sent} |->
            LET i == CHOOSE i \in sent : ServiceOf[i] = s
            IN  [image |-> i, environment |-> Environment(db, d, a, i),
                 strategy |-> VarListInsert(config.strategy, StrategyLabel(i, config))]]

(* getStateV2: only the user application, its services keyed by id, with   *)
(* no regard to profiles.                                                  *)
BuildAppFromReleaseV2(db, d, a, r, config) ==
    LET sent == ImagesOf[r] \cap db.images
    IN  [s \in {ServiceOf[i] : i \in sent} |->
            LET i == CHOOSE i \in sent : ServiceOf[i] = s
            IN  [image |-> i, environment |-> Environment(db, d, a, i),
                 strategy |-> StrategyLabel(i, config)]]

StateV2(db, d) ==
    LET a == db.device[d].app
        r == Visible(db, d, ShouldBeRunning(db, d))
        config == Config(db, d, a)
    IN  [config |-> config,
         app |-> a,
         services |-> IF r = Unset THEN NoApps ELSE BuildAppFromReleaseV2(db, d, a, r, config)]

(* getFleetStateV3: what a device that is about to join would be sent.  A  *)
(* release given by its commit must be a successful one of the fleet, and  *)
(* an image of a service of another application is an error.               *)
FleetReleaseOfTarget(db, a, commit) == db.target[a]
FleetRelease(db, a, commit) == IF commit = Unset THEN db.target[a] ELSE commit

FleetStateExists(db, a, commit) ==
    /\ commit # Unset => commit \in Succeeded /\ AppOf[commit] = a
    /\ FleetRelease(db, a, commit) # Unset =>
            \A i \in ImagesOf[FleetRelease(db, a, commit)] \cap db.images :
                ImageProfiles[i] = {} => ServiceApp[ServiceOf[i]] = a

FleetStateV3(db, a, commit) ==
    LET r == FleetRelease(db, a, commit)
        config == Config(db, Unset, a)
    IN  [config |-> config,
         apps |-> OneApp(a, IF r = Unset THEN NoApps
                            ELSE BuildAppFromRelease(db, Unset, a, r, config, FALSE, {}))]

(* The images a state asks a device to pull.                               *)
ImagesIn(state) ==
    UNION {UNION {{state.apps[a][s].image} \cup state.apps[a][s].updater :
                    s \in DOMAIN state.apps[a]} : a \in DOMAIN state.apps}
=============================================================================
