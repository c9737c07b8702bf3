---------------------------- MODULE RegistryProofs ----------------------------
(***************************************************************************)
(* Proofs about Registry, and about TargetUpdates and TargetState on which *)
(* it builds, for any devices, applications, releases, images, variables,  *)
(* callers and requests, however these overlap and fail.                   *)
(*                                                                         *)
(* What a state says of a device follows from the tables alone (GoodDb).   *)
(* Which devices know that their state changed, which images tokens are    *)
(* given for and which repositories are deleted depends on the order in    *)
(* which things happen, and is proved by induction.                        *)
(***************************************************************************)
EXTENDS Registry, FiniteSetTheorems, TLAPS

-----------------------------------------------------------------------------
(* Target states, as functions of the tables. *)

GoodDb(db) ==
    /\ db.device \in [Devices -> DeviceRow] /\ db.target \in [Apps -> Maybe(Releases)]
    /\ db.images \subseteq Images
    /\ \A d \in Devices : db.device[d].pin # Unset => AppOf[db.device[d].pin] = db.device[d].app
    /\ \A a \in Apps : db.target[a] # Unset => AppOf[db.target[a]] = a

LEMMA RowType ==
    ASSUME NEW db, GoodDb(db), NEW d \in Devices
    PROVE  LET row == db.device[d]
               r == ShouldBeRunning(db, d)
           IN  /\ row.app \in Apps /\ row.pin \in Maybe(Releases)
               /\ row.operated \in Maybe(Releases) /\ row.managed \in Maybe(Releases)
               /\ r \in Maybe(Releases)
               /\ r # Unset => r \in Releases /\ AppOf[r] = row.app
<1>1. db.device[d] \in DeviceRow
  BY DEF GoodDb
<1>2. /\ db.device[d].app \in Apps /\ db.device[d].pin \in Maybe(Releases)
      /\ db.device[d].operated \in Maybe(Releases) /\ db.device[d].managed \in Maybe(Releases)
  BY <1>1 DEF DeviceRow
<1> QED BY <1>2 DEF GoodDb, ShouldBeRunning, Maybe

(* A release that is sent is of an application that the device may access. *)
LEMMA VisibleIs ==
    ASSUME NEW db, GoodDb(db), NEW d \in Devices, NEW r \in Maybe(Releases)
    PROVE  LET v == Visible(db, d, r)
           IN  /\ v \in {r, Unset} /\ v \in Maybe(Releases)
               /\ v # Unset => v \in Releases /\ AppOf[v] \in Apps /\ CanAccessApp(db, d, AppOf[v])
<1> DEFINE v == Visible(db, d, r)
<1>1. v \in {r, Unset}
  BY DEF Visible
<1>2. ASSUME v # Unset PROVE CanAccessApp(db, d, AppOf[v])
  <2>1. v = r /\ r # Unset /\ CanAccessRelease(db, d, r)
    BY <1>2 DEF Visible
  <2>2. db.device[d].pin = r => AppOf[r] = db.device[d].app
    BY <2>1 DEF GoodDb
  <2> QED BY <2>1, <2>2 DEF CanAccessRelease, CanAccessApp
<1>3. v # Unset => v \in Releases /\ AppOf[v] \in Apps
  BY <1>1, TargetAssumption DEF Maybe
<1> HIDE DEF v
<1>4. v \in Maybe(Releases)
  BY <1>1 DEF Maybe
<1> QED BY <1>1, <1>2, <1>3, <1>4 DEF v

(* The images of a release that are sent.                                  *)
Sent(db, r, profiles) ==
    {i \in ImagesOf[r] \cap db.images :
        ImageProfiles[i] = {} \/ ImageProfiles[i] \cap profiles # {}}

(* No two images of a release are of the same service, so each of them is  *)
(* the one that its service is sent with.                                  *)
ServicesAre(f, db, d, a, r, config, isHost, profiles) ==
    /\ f = [s \in DOMAIN f |-> f[s]]
    /\ \A s : s \in DOMAIN f <=> \E i \in Sent(db, r, profiles) : s = ServiceOf[i]
    /\ \A i \in Sent(db, r, profiles) :
         f[ServiceOf[i]] = ServiceState(db, d, a, i, config, isHost)

LEMMA BuildIs ==
    ASSUME NEW db, NEW d, NEW a, NEW r \in Releases, NEW config, NEW isHost, NEW profiles
    PROVE  ServicesAre(BuildAppFromRelease(db, d, a, r, config, isHost, profiles),
                       db, d, a, r, config, isHost, profiles)
<1> DEFINE S == Sent(db, r, profiles)
           Pick(s) == CHOOSE i \in S : ServiceOf[i] = s
           State(i) == ServiceState(db, d, a, i, config, isHost)
           f == BuildAppFromRelease(db, d, a, r, config, isHost, profiles)
<1>1. f = [s \in {ServiceOf[i] : i \in S} |-> State(Pick(s))]
  BY DEF BuildAppFromRelease, Sent
<1>2. \A i \in S : Pick(ServiceOf[i]) = i
  <2> TAKE i \in S
  <2>1. Pick(ServiceOf[i]) \in S /\ ServiceOf[Pick(ServiceOf[i])] = ServiceOf[i]
    OBVIOUS
  <2>2. S \subseteq ImagesOf[r]
    BY DEF Sent
  <2> HIDE DEF Pick, S
  <2> QED BY <2>1, <2>2, OneImagePerService
<1> HIDE DEF Pick, State, S, f
<1>3. \A i \in S : f[ServiceOf[i]] = State(i)
  BY <1>1, <1>2
<1>4. f = [s \in DOMAIN f |-> f[s]] /\ \A s : s \in DOMAIN f <=> \E i \in S : s = ServiceOf[i]
  BY <1>1
<1> QED BY <1>3, <1>4 DEF f, S, State, ServicesAre

ServicesV2Are(f, db, d, a, r, config) ==
    /\ \A s : s \in DOMAIN f <=> \E i \in ImagesOf[r] \cap db.images : s = ServiceOf[i]
    /\ \A i \in ImagesOf[r] \cap db.images :
         f[ServiceOf[i]] = [image |-> i, environment |-> Environment(db, d, a, i),
                            strategy |-> StrategyLabel(i, config)]

LEMMA BuildV2Is ==
    ASSUME NEW db, NEW d, NEW a, NEW r \in Releases, NEW config
    PROVE  ServicesV2Are(BuildAppFromReleaseV2(db, d, a, r, config), db, d, a, r, config)
<1> DEFINE S == ImagesOf[r] \cap db.images
           Pick(s) == CHOOSE i \in S : ServiceOf[i] = s
           State(i) == [image |-> i, environment |-> Environment(db, d, a, i),
                        strategy |-> StrategyLabel(i, config)]
           f == BuildAppFromReleaseV2(db, d, a, r, config)
<1>1. f = [s \in {ServiceOf[i] : i \in S} |-> State(Pick(s))]
  BY DEF BuildAppFromReleaseV2
<1>2. \A i \in S : Pick(ServiceOf[i]) = i
  <2> TAKE i \in S
  <2>1. Pick(ServiceOf[i]) \in S /\ ServiceOf[Pick(ServiceOf[i])] = ServiceOf[i]
    OBVIOUS
  <2> HIDE DEF Pick
  <2> QED BY <2>1, OneImagePerService
<1> HIDE DEF Pick, State, S, f
<1>3. \A i \in S : f[ServiceOf[i]] = State(i)
  BY <1>1, <1>2
<1>4. \A s : s \in DOMAIN f <=> \E i \in S : s = ServiceOf[i]
  BY <1>1
<1> QED BY <1>3, <1>4 DEF f, S, State, ServicesV2Are

(* The applications of a state: the user application, or else the host     *)
(* application, or else the supervisor.                                    *)
Overrides(apps, m, o, u) ==
    /\ DOMAIN apps = DOMAIN m \cup DOMAIN o \cup DOMAIN u
    /\ \A a \in DOMAIN apps :
         apps[a] = IF a \in DOMAIN u THEN u[a] ELSE IF a \in DOMAIN o THEN o[a] ELSE m[a]

LEMMA StateIs ==
    ASSUME NEW db, NEW d
    PROVE  /\ StateV3(db, d).config = Config(db, d, db.device[d].app)
           /\ StateV3(db, d).release = Visible(db, d, ShouldBeRunning(db, d))
BY DEF StateV3

LEMMA StateApps ==
    ASSUME NEW db, NEW d
    PROVE  Overrides(StateV3(db, d).apps, ManagedApp(db, d), OperatedApp(db, d), UserApp(db, d))
<1> DEFINE m == ManagedApp(db, d)
           o == OperatedApp(db, d)
           u == UserApp(db, d)
           apps == [a \in DOMAIN m \cup DOMAIN o \cup DOMAIN u |->
                      IF a \in DOMAIN u THEN u[a] ELSE IF a \in DOMAIN o THEN o[a] ELSE m[a]]
<1>1. StateV3(db, d).apps = apps
  BY DEF StateV3
<1> HIDE DEF m, o, u
<1>2. Overrides(apps, m, o, u)
  BY DEF Overrides
<1> QED BY <1>1, <1>2 DEF m, o, u

UserServices(db, d) ==
    LET a == db.device[d].app
        r == Visible(db, d, ShouldBeRunning(db, d))
    IN  IF r = Unset THEN NoApps ELSE BuildAppFromRelease(db, d, a, r, Config(db, d, a), FALSE, {})

LEMMA UserAppIs ==
    ASSUME NEW db, NEW d
    PROVE  /\ db.device[d].app \in DOMAIN StateV3(db, d).apps
           /\ StateV3(db, d).apps[db.device[d].app] = UserServices(db, d)
<1>1. UserApp(db, d) = OneApp(db.device[d].app, UserServices(db, d))
  BY DEF UserApp, UserServices
<1>2. DOMAIN UserApp(db, d) = {db.device[d].app} /\ UserApp(db, d)[db.device[d].app] = UserServices(db, d)
  BY <1>1 DEF OneApp
<1>3. Overrides(StateV3(db, d).apps, ManagedApp(db, d), OperatedApp(db, d), UserApp(db, d))
  BY StateApps
<1> QED BY <1>2, <1>3 DEF Overrides

(* Each is empty or built from a release the device may access.            *)
Built(db, d, a, f) ==
    \/ DOMAIN f = {}
    \/ \E r \in Releases : \E config, isHost, profiles :
         CanAccessApp(db, d, AppOf[r]) /\ f = BuildAppFromRelease(db, d, a, r, config, isHost, profiles)

LEMMA AppsAreBuilt ==
    ASSUME NEW db, GoodDb(db), NEW d \in Devices, NEW a \in DOMAIN StateV3(db, d).apps
    PROVE  a \in Apps /\ Built(db, d, a, StateV3(db, d).apps[a])
<1> DEFINE m == ManagedApp(db, d)
           o == OperatedApp(db, d)
           u == UserApp(db, d)
<1>1. /\ db.device[d].app \in Apps /\ db.device[d].operated \in Maybe(Releases)
      /\ db.device[d].managed \in Maybe(Releases) /\ ShouldBeRunning(db, d) \in Maybe(Releases)
  BY RowType
<1>2. ASSUME NEW x \in DOMAIN m PROVE x \in Apps /\ Built(db, d, x, m[x])
  <2> DEFINE r == Visible(db, d, db.device[d].managed)
             f == BuildAppFromRelease(db, d, AppOf[r], r, NoConfig, FALSE, {})
  <2>1. m = IF r = Unset THEN NoApps ELSE OneApp(AppOf[r], f)
    BY DEF ManagedApp
  <2>2. DOMAIN NoApps = {} /\ DOMAIN OneApp(AppOf[r], f) = {AppOf[r]} /\ OneApp(AppOf[r], f)[AppOf[r]] = f
    BY DEF NoApps, OneApp
  <2>3. r # Unset => r \in Releases /\ AppOf[r] \in Apps /\ CanAccessApp(db, d, AppOf[r])
    BY <1>1, VisibleIs
  <2> HIDE DEF m, r
  <2>4. r # Unset /\ x = AppOf[r] /\ m[x] = f
    BY <1>2, <2>1, <2>2
  <2> QED BY <2>3, <2>4 DEF Built
<1>3. ASSUME NEW x \in DOMAIN o PROVE x \in Apps /\ Built(db, d, x, o[x])
  <2> DEFINE r == Visible(db, d, db.device[d].operated)
             p == {z[1] : z \in {q \in ActiveProfiles[db.device[d].app] : q[2] = AppOf[r]}}
             f == BuildAppFromRelease(db, d, AppOf[r], r, NoConfig, TRUE, p)
  <2>1. o = IF r = Unset THEN NoApps ELSE OneApp(AppOf[r], f)
    BY DEF OperatedApp
  <2>2. DOMAIN NoApps = {} /\ DOMAIN OneApp(AppOf[r], f) = {AppOf[r]} /\ OneApp(AppOf[r], f)[AppOf[r]] = f
    BY DEF NoApps, OneApp
  <2>3. r # Unset => r \in Releases /\ AppOf[r] \in Apps /\ CanAccessApp(db, d, AppOf[r])
    BY <1>1, VisibleIs
  <2> HIDE DEF o, r, p
  <2>4. r # Unset /\ x = AppOf[r] /\ o[x] = f
    BY <1>3, <2>1, <2>2
  <2> QED BY <2>3, <2>4 DEF Built
<1>4. ASSUME NEW x \in DOMAIN u PROVE x \in Apps /\ Built(db, d, x, u[x])
  <2> DEFINE r == Visible(db, d, ShouldBeRunning(db, d))
             c == Config(db, d, x)
             f == BuildAppFromRelease(db, d, x, r, c, FALSE, {})
  <2>1. x = db.device[d].app /\ u[x] = IF r = Unset THEN NoApps ELSE f
    BY <1>4 DEF UserApp, OneApp
  <2>2. r # Unset => r \in Releases /\ CanAccessApp(db, d, AppOf[r])
    BY <1>1, VisibleIs
  <2>3. DOMAIN NoApps = {}
    BY DEF NoApps
  <2> HIDE DEF u, r, c
  <2> QED BY <1>1, <2>1, <2>2, <2>3 DEF Built
<1> DEFINE st == StateV3(db, d)
<1>5. Overrides(st.apps, m, o, u)
  BY StateApps
<1> HIDE DEF m, o, u, st
<1> QED BY <1>2, <1>3, <1>4, <1>5 DEF Overrides, st

(* The images of the updater are of an application the device may access.  *)
LEMMA UpdaterIs ==
    ASSUME NEW db, GoodDb(db), NEW d, NEW a \in Apps, NEW i \in UpdaterImages(db, d, a)
    PROVE  i \in db.images /\ \E r \in Releases : i \in ImagesOf[r] /\ CanAccessApp(db, d, AppOf[r])
<1> DEFINE u == UpdatedBy[a]
           r == db.target[u]
<1>1. u # Unset /\ r # Unset /\ CanAccessApp(db, d, u) /\ i \in ImagesOf[r] \cap db.images
  BY DEF UpdaterImages
<1>2. u \in Apps
  BY <1>1, TargetAssumption DEF Maybe
<1>3. r \in Releases /\ AppOf[r] = u
  BY <1>1, <1>2 DEF GoodDb, Maybe
<1> QED BY <1>1, <1>3

(* A device is sent images that exist, of releases of applications it may  *)
(* access.                                                                 *)
LEMMA TargetImages ==
    ASSUME NEW db, GoodDb(db), NEW d \in Devices, NEW j \in ImagesIn(StateV3(db, d))
    PROVE  j \in db.images /\ \E r \in Releases : j \in ImagesOf[r] /\ CanAccessApp(db, d, AppOf[r])
<1> DEFINE st == StateV3(db, d)
<1>1. PICK a \in DOMAIN st.apps : \E s \in DOMAIN st.apps[a] :
        j \in {st.apps[a][s].image} \cup st.apps[a][s].updater
  BY DEF ImagesIn
<1> DEFINE f == st.apps[a]
<1>2. PICK s \in DOMAIN f : j \in {f[s].image} \cup f[s].updater
  BY <1>1
<1>3. a \in Apps /\ Built(db, d, a, f)
  BY AppsAreBuilt
<1> HIDE DEF f
<1>4. PICK r \in Releases : \E config, isHost, profiles :
        CanAccessApp(db, d, AppOf[r]) /\ f = BuildAppFromRelease(db, d, a, r, config, isHost, profiles)
  BY <1>2, <1>3 DEF Built
<1>5. PICK config, isHost, profiles :
        CanAccessApp(db, d, AppOf[r]) /\ f = BuildAppFromRelease(db, d, a, r, config, isHost, profiles)
  BY <1>4
<1> DEFINE S == Sent(db, r, profiles)
<1>6. ServicesAre(f, db, d, a, r, config, isHost, profiles)
  BY <1>5, BuildIs
<1>7. PICK i \in S : s = ServiceOf[i] /\ f[s] = ServiceState(db, d, a, i, config, isHost)
  BY <1>2, <1>6 DEF ServicesAre
<1>8. f[s].image = i /\ (j \in f[s].updater => j \in UpdaterImages(db, d, a))
  BY <1>7 DEF ServiceState
<1>9. i \in db.images /\ i \in ImagesOf[r]
  BY DEF Sent
<1>10. CASE j = i
  BY <1>5, <1>9, <1>10
<1>11. CASE j \in UpdaterImages(db, d, a)
  BY <1>3, <1>11, UpdaterIs
<1> QED BY <1>2, <1>8, <1>10, <1>11

SameAsV2(f, g) ==
    /\ DOMAIN f = {s \in DOMAIN g : ImageProfiles[g[s].image] = {}}
    /\ \A s \in DOMAIN f :
         /\ f[s].image = g[s].image /\ f[s].environment = g[s].environment
         /\ f[s].strategy = g[s].strategy

LEMMA ServicesAgree ==
    ASSUME NEW db, NEW d, NEW a, NEW r, NEW config, NEW f, NEW g,
           ServicesAre(f, db, d, a, r, config, FALSE, {}), ServicesV2Are(g, db, d, a, r, config)
    PROVE  SameAsV2(f, g)
<1> DEFINE A == ImagesOf[r] \cap db.images
           S == Sent(db, r, {})
<1>1. S = {i \in A : ImageProfiles[i] = {}}
  BY DEF Sent
<1>2. \A i \in A : g[ServiceOf[i]] = [image |-> i, environment |-> Environment(db, d, a, i),
                                     strategy |-> StrategyLabel(i, config)]
  BY DEF ServicesV2Are
<1>3. \A i \in S : f[ServiceOf[i]] = ServiceState(db, d, a, i, config, FALSE)
  BY DEF ServicesAre
<1>4. \A s : s \in DOMAIN f <=> \E i \in S : s = ServiceOf[i]
  BY DEF ServicesAre
<1>5. \A s : s \in DOMAIN g <=> \E i \in A : s = ServiceOf[i]
  BY DEF ServicesV2Are
<1> HIDE DEF S, A
<1>6. ASSUME NEW i \in A
      PROVE  /\ g[ServiceOf[i]].image = i /\ g[ServiceOf[i]].environment = Environment(db, d, a, i)
             /\ g[ServiceOf[i]].strategy = StrategyLabel(i, config)
  <2> DEFINE x == g[ServiceOf[i]]
             e == Environment(db, d, a, i)
             l == StrategyLabel(i, config)
  <2>1. x = [image |-> i, environment |-> e, strategy |-> l]
    BY <1>2
  <2> HIDE DEF x, e, l
  <2>2. x.image = i /\ x.environment = e /\ x.strategy = l
    BY <2>1
  <2> QED BY <2>2 DEF x, e, l
<1>7. ASSUME NEW i \in S
      PROVE  /\ f[ServiceOf[i]].image = i /\ f[ServiceOf[i]].environment = Environment(db, d, a, i)
             /\ f[ServiceOf[i]].strategy = StrategyLabel(i, config)
  <2> DEFINE x == f[ServiceOf[i]]
             e == Environment(db, d, a, i)
             l == StrategyLabel(i, config)
  <2>1. x = [image |-> i, environment |-> e, strategy |-> l, store |-> FALSE,
             updater |-> IF FALSE THEN UpdaterImages(db, d, a) ELSE {}]
    BY <1>3 DEF ServiceState
  <2> HIDE DEF x, e, l
  <2>2. x.image = i /\ x.environment = e /\ x.strategy = l
    BY <2>1
  <2> QED BY <2>2 DEF x, e, l
<1>8. \A s \in DOMAIN f : s \in DOMAIN g /\ ImageProfiles[g[s].image] = {}
  BY <1>1, <1>4, <1>5, <1>6
<1>9. \A s \in DOMAIN g : ImageProfiles[g[s].image] = {} => s \in DOMAIN f
  BY <1>1, <1>4, <1>5, <1>6
<1>10. ASSUME NEW s \in DOMAIN f
       PROVE  /\ f[s].image = g[s].image /\ f[s].environment = g[s].environment
              /\ f[s].strategy = g[s].strategy
  <2>1. PICK i \in S : s = ServiceOf[i]
    BY <1>4
  <2>2. i \in A
    BY <1>1
  <2> QED BY <1>6, <1>7, <2>1, <2>2
<1> QED BY <1>8, <1>9, <1>10 DEF SameAsV2

(* The state of every service the release sends is the same for `d' as for *)
(* `e'.                                                                    *)
SameStates(db, d, e, a, r, config) ==
  \A i \in Sent(db, r, {}) :
    ServiceState(db, d, a, i, config, FALSE) = ServiceState(db, e, a, i, config, FALSE)

(* Two service lists of a release with the same states are the same list.  *)
LEMMA SameServices ==
    ASSUME NEW db, NEW d, NEW e, NEW a, NEW r, NEW config, NEW f, NEW g,
           ServicesAre(f, db, d, a, r, config, FALSE, {}),
           ServicesAre(g, db, e, a, r, config, FALSE, {}),
           SameStates(db, d, e, a, r, config)
    PROVE  f = g
<1> DEFINE S == Sent(db, r, {})
           Of(x, i) == ServiceState(db, x, a, i, config, FALSE)
<1>1. /\ f = [s \in DOMAIN f |-> f[s]] /\ g = [s \in DOMAIN g |-> g[s]]
      /\ \A s : s \in DOMAIN f <=> \E i \in S : s = ServiceOf[i]
      /\ \A s : s \in DOMAIN g <=> \E i \in S : s = ServiceOf[i]
      /\ \A i \in S : f[ServiceOf[i]] = Of(d, i) /\ g[ServiceOf[i]] = Of(e, i) /\ Of(d, i) = Of(e, i)
  BY DEF ServicesAre, SameStates
<1> HIDE DEF S, Of
<1>2. DOMAIN f = DOMAIN g
  BY <1>1
<1>3. \A s \in DOMAIN f : f[s] = g[s]
  BY <1>1
<1> QED BY <1>1, <1>2, <1>3

LEMMA VersionsMatch ==
    ASSUME GoodDb(Db)
    PROVE  VersionsAgree
<1> DEFINE db == Db
<1>1. ASSUME NEW d \in Devices
      PROVE  LET v2 == StateV2(db, d)
                 services == StateV3(db, d).apps[v2.app]
             IN  /\ v2.config = StateV3(db, d).config
                 /\ DOMAIN services =
                      {s \in DOMAIN v2.services : ImageProfiles[v2.services[s].image] = {}}
                 /\ \A s \in DOMAIN services :
                      /\ services[s].image = v2.services[s].image
                      /\ services[s].environment = v2.services[s].environment
                      /\ services[s].strategy = v2.services[s].strategy
  <2> DEFINE v2 == StateV2(db, d)
             a == db.device[d].app
             r == Visible(db, d, ShouldBeRunning(db, d))
             config == Config(db, d, a)
             f == UserServices(db, d)
             g == v2.services
  <2>1. v2.config = StateV3(db, d).config /\ v2.app = a
    BY StateIs DEF StateV2
  <2>2. StateV3(db, d).apps[a] = f
    BY UserAppIs
  <2>3. g = IF r = Unset THEN NoApps ELSE BuildAppFromReleaseV2(db, d, a, r, config)
    BY DEF StateV2
  <2>4. f = IF r = Unset THEN NoApps ELSE BuildAppFromRelease(db, d, a, r, config, FALSE, {})
    BY DEF UserServices
  <2>5. r # Unset => r \in Releases
    BY RowType, VisibleIs
  <2> HIDE DEF f, g, r, config
  <2>6. CASE r = Unset
    BY <2>1, <2>2, <2>3, <2>4, <2>6 DEF NoApps, g
  <2>7. CASE r # Unset
    <3>1. ServicesAre(f, db, d, a, r, config, FALSE, {}) /\ ServicesV2Are(g, db, d, a, r, config)
      BY <2>3, <2>4, <2>5, <2>7, BuildIs, BuildV2Is
    <3>2. SameAsV2(f, g)
      BY <3>1, ServicesAgree
    <3> QED BY <2>1, <2>2, <3>2 DEF g, SameAsV2
  <2> QED BY <2>6, <2>7
<1> QED BY <1>1 DEF VersionsAgree, Target

(* A device without variables of its own has the environment and the       *)
(* configuration of its fleet.                                             *)
LEMMA PlainIs ==
    ASSUME NEW d \in Devices, Plain(d), NEW a
    PROVE  /\ Config(Db, d, a) = Config(Db, Unset, a)
           /\ \A i \in Images : Environment(Db, d, a, i) = Environment(Db, Unset, a, i)
<1>1. d # Unset
  BY TargetAssumption
<1>2. Db.var = var
  BY DEF Db
<1>3. ASSUME NEW i \in Images PROVE Environment(Db, d, a, i) = Environment(Db, Unset, a, i)
  <2>1. ServiceOf[i] \in Services
    BY TargetAssumption
  <2>2. var[DeviceVar(d)] = Unset /\ var[DeviceServiceVar(d, ServiceOf[i])] = Unset
    BY <2>1 DEF Plain
  <2> QED BY <1>1, <1>2, <2>2 DEF Environment, VarListInsert
<1>4. Config(Db, d, a) = Config(Db, Unset, a)
  <2>1. var[DeviceConfig(d, UpdateStrategy)] = Unset /\ var[DeviceConfig(d, PollInterval)] = Unset
    BY DEF Plain, ConfigNames
  <2> QED BY <1>1, <1>2, <2>1 DEF Config, VarListInsert
<1> QED BY <1>3, <1>4

LEMMA FleetStateMatches ==
    ASSUME GoodDb(Db)
    PROVE  FleetStateIsWhatDevicesGet
<1> SUFFICES ASSUME NEW d \in Devices, Plain(d)
             PROVE  LET a == device[d].app
                        preview == FleetStateV3(Db, a, device[d].pin)
                    IN  Target(d).apps[a] = preview.apps[a] /\ Target(d).config = preview.config
  BY DEF FleetStateIsWhatDevicesGet
<1> DEFINE a == device[d].app
           r == ShouldBeRunning(Db, d)
           c == Config(Db, d, a)
           preview == FleetStateV3(Db, a, device[d].pin)
           f == UserServices(Db, d)
           g == IF r = Unset THEN NoApps ELSE BuildAppFromRelease(Db, Unset, a, r, c, FALSE, {})
<1>1. Db.device = device /\ Db.target = target /\ Db.images = images
  BY DEF Db
<1>2. a \in Apps /\ r \in Maybe(Releases) /\ (r # Unset => r \in Releases /\ AppOf[r] = a)
  BY <1>1, RowType
<1>3. FleetRelease(Db, a, device[d].pin) = r
  BY <1>1 DEF FleetRelease, ShouldBeRunning
<1>4. c = Config(Db, Unset, a) /\ \A i \in Images : Environment(Db, d, a, i) = Environment(Db, Unset, a, i)
  BY PlainIs
<1>5. preview.apps[a] = g /\ preview.config = c
  BY <1>3, <1>4 DEF FleetStateV3, OneApp
<1>6. Target(d).config = c /\ Target(d).apps[a] = f
  <2>1. Target(d) = StateV3(Db, d)
    BY DEF Target
  <2>2. StateV3(Db, d).config = c
    BY <1>1, StateIs
  <2>3. StateV3(Db, d).apps[a] = f
    BY <1>1, UserAppIs
  <2> QED BY <2>1, <2>2, <2>3
<1>7. Visible(Db, d, r) = r
  BY <1>1, <1>2 DEF Visible, CanAccessRelease, CanAccessApp
<1>8. f = IF r = Unset THEN NoApps ELSE BuildAppFromRelease(Db, d, a, r, c, FALSE, {})
  BY <1>1, <1>7 DEF UserServices
<1> HIDE DEF f, g, r, c, preview
<1>9. CASE r = Unset
  BY <1>5, <1>6, <1>8, <1>9 DEF g, preview
<1>10. CASE r # Unset
  <2>1. ServicesAre(f, Db, d, a, r, c, FALSE, {}) /\ ServicesAre(g, Db, Unset, a, r, c, FALSE, {})
    BY <1>2, <1>8, <1>10, BuildIs DEF g
  <2>2. SameStates(Db, d, Unset, a, r, c)
    <3>1. Sent(Db, r, {}) \subseteq Images
      BY <1>1 DEF Sent, GoodDb
    <3> QED BY <1>4, <3>1 DEF ServiceState, SameStates
  <2>3. f = g
    BY <2>1, <2>2, SameServices
  <2> QED BY <1>5, <1>6, <2>3 DEF preview
<1> QED BY <1>9, <1>10

LEMMA TargetsArePullable ==
    ASSUME GoodDb(Db)
    PROVE  TargetIsPullable
<1> SUFFICES ASSUME NEW d \in Devices, NEW i \in ImagesIn(Target(d)) PROVE i \in images /\ CanRead(d, i)
  BY DEF TargetIsPullable
<1>1. i \in Db.images /\ \E r \in Releases : i \in ImagesOf[r] /\ CanAccessApp(Db, d, AppOf[r])
  BY TargetImages DEF Target
<1>2. Db.images = images
  BY DEF Db
<1> QED BY <1>1, <1>2 DEF CanRead


-----------------------------------------------------------------------------
(* Tables, requests, devices, caches and tasks are well-formed. *)

DbInv ==
    /\ GoodDb(Db)
    /\ var \in [Keys -> Maybe(Values)]

DeviceInv ==
    /\ installs \in [Devices -> SUBSET Images]
    /\ running \in [Devices -> Maybe(Releases)]
    /\ told \subseteq Devices /\ missed \subseteq Devices
    /\ DOMAIN got = Devices /\ DOMAIN polling = Devices
    /\ \A d \in Devices : \A st \in {got[d]} \cup polling[d] : st.release \in Maybe(Releases)

VpnInv ==
    /\ vpn \in [Devices -> Maybe(Instances)] /\ link \in [Devices -> Maybe(Instances)]
    /\ leaving \subseteq Devices \X Instances

WorkInv ==
    /\ work \in [Requests -> Work]
    /\ started \in 0 .. MaxStarted /\ faults \in 0 .. MaxFaults

CacheInv ==
    /\ idCache \in [V2Images -> Maybe(BOOLEAN)]
    /\ readCache \in [Callers \X V2Images -> Maybe(BOOLEAN)]
    /\ aliasCache \in [Callers \X AliasScopes -> Maybe(SUBSET Images)]
    /\ token.subject \in Devices \cup {User, Unset} /\ token.image \subseteq Images
    /\ token.actions \subseteq Actions

TaskInv ==
    /\ tasks \subseteq [images : SUBSET Images, attempt : 1 .. AttemptLimit]
    /\ worker \in [images : SUBSET Images, remaining : SUBSET Images, attempt : 0 .. AttemptLimit]
    /\ worker.remaining \subseteq worker.images
    /\ repo \subseteq Repos /\ abandoned \subseteq Images

TInv == DbInv /\ DeviceInv /\ VpnInv /\ WorkInv /\ CacheInv /\ TaskInv

LEMMA DbIs ==
    Db.device = device /\ Db.target = target /\ Db.var = var /\ Db.images = images
BY DEF Db

LEMMA TInvIsTypeOK == TInv => TypeOK
<1> SUFFICES ASSUME TInv PROVE TypeOK
  OBVIOUS
<1>1. UpdatesTypeOK
  BY DbIs DEF TInv, DbInv, GoodDb, DeviceInv, VpnInv, WorkInv, UpdatesTypeOK
<1> QED BY <1>1 DEF TInv, CacheInv, TaskInv, TypeOK

LEMMA WorkIs ==
    ASSUME NEW w \in Work
    PROVE  /\ w.phase = "lookup" => w.key \in Keys
           /\ w.phase = "delete" => w.key \in Keys /\ w.devices \subseteq Devices
           /\ w.phase = "post" => w.devices \subseteq Devices
           /\ w.phase = "postApp" => w.app \in Apps /\ w.release \in Releases
           /\ w.phase = "idle" => w = Idle
BY DEF Work, Idle

LEMMA WorkOf ==
    /\ Idle \in Work
    /\ \A k \in Keys : [phase |-> "lookup", key |-> k] \in Work
    /\ \A k \in Keys, D \in SUBSET Devices : [phase |-> "delete", key |-> k, devices |-> D] \in Work
    /\ \A D \in SUBSET Devices : [phase |-> "post", devices |-> D] \in Work
    /\ \A a \in Apps, r \in Releases : [phase |-> "postApp", app |-> a, release |-> r] \in Work
BY DEF Work

LEMMA KeyKinds ==
    ASSUME NEW k \in Keys
    PROVE  \/ k[1] = "application_environment_variable" \/ k[1] = "application_config_variable"
           \/ /\ \/ k[1] = "device_environment_variable" \/ k[1] = "device_config_variable"
                 \/ k[1] = "device_service_environment_variable"
              /\ k[2] \in Devices
           \/ k[1] = "service_environment_variable"
           \/ k[1] = "image_environment_variable"
BY DEF Keys, AppVar, DeviceVar, ServiceVar, ImageVar, DeviceServiceVar, AppConfig, DeviceConfig

LEMMA AffectedIs ==
    ASSUME NEW k \in Keys
    PROVE  Affected(k) \subseteq Devices /\ NotAffected(k) \subseteq Devices
<1>1. NotAffected(k) \subseteq Devices
  BY DEF NotAffected
<1>2. CASE k[1] = "application_environment_variable" \/ k[1] = "application_config_variable"
  BY <1>1, <1>2 DEF Affected
<1>3. CASE /\ \/ k[1] = "device_environment_variable" \/ k[1] = "device_config_variable"
              \/ k[1] = "device_service_environment_variable"
           /\ k[2] \in Devices
  BY <1>1, <1>3 DEF Affected
<1>4. CASE k[1] = "service_environment_variable"
  BY <1>1, <1>4 DEF Affected
<1>5. CASE k[1] = "image_environment_variable"
  BY <1>1, <1>5 DEF Affected
<1> QED BY <1>2, <1>3, <1>4, <1>5, KeyKinds


(* What a step leaves alone stays well-formed.                             *)
LEMMA DbFrame == DbInv /\ UNCHANGED dbVars => DbInv'
<1> SUFFICES ASSUME DbInv, UNCHANGED dbVars PROVE DbInv'
  OBVIOUS
<1>1. Db' = Db /\ var' = var
  BY DEF Db, dbVars
<1> QED BY <1>1 DEF DbInv

LEMMA VpnFrame == VpnInv /\ UNCHANGED vpnVars => VpnInv'
BY DEF VpnInv, vpnVars

LEMMA CacheFrame == CacheInv /\ UNCHANGED <<idCache, readCache, aliasCache, token>> => CacheInv'
BY DEF CacheInv

LEMMA TaskFrame == TaskInv /\ UNCHANGED taskVars => TaskInv'
BY DEF TaskInv, taskVars

LEMMA DeviceFrame ==
    DeviceInv /\ UNCHANGED <<installs, running, told, polling, got>> /\ missed' \subseteq Devices => DeviceInv'
BY DEF DeviceInv

LEMMA TargetRelease ==
    ASSUME GoodDb(Db), NEW d \in Devices
    PROVE  Target(d).release \in Maybe(Releases)
<1>1. ShouldBeRunning(Db, d) \in Maybe(Releases)
  BY RowType
<1>2. Visible(Db, d, ShouldBeRunning(Db, d)) \in Maybe(Releases)
  BY <1>1, VisibleIs
<1>3. Target(d).release = Visible(Db, d, ShouldBeRunning(Db, d))
  BY StateIs DEF Target
<1> QED BY <1>2, <1>3

LEMMA InitType == Init => TInv
<1> SUFFICES ASSUME Init PROVE TInv
  OBVIOUS
<1> USE DEF Init
<1>1. GoodDb(Db)
  BY DbIs, UpdatesAssumption DEF UpdatesInit, GoodDb
<1>2. DbInv
  BY <1>1, UpdatesAssumption DEF DbInv, UpdatesInit
<1>3. DeviceInv
  <2>1. \A d \in Devices : ImagesIn(Target(d)) \in SUBSET Images
    BY <1>1, TargetImages DEF Target, GoodDb
  <2>2. installs \in [Devices -> SUBSET Images]
    BY <2>1 DEF UpdatesInit
  <2>3. running \in [Devices -> Maybe(Releases)]
    BY <1>1, RowType DEF UpdatesInit
  <2>4. \A d \in Devices : Target(d).release \in Maybe(Releases)
    BY <1>1, TargetRelease
  <2>5. /\ DOMAIN got = Devices /\ DOMAIN polling = Devices /\ told = {} /\ missed = {}
        /\ \A d \in Devices : got[d] = Target(d) /\ polling[d] = {}
    BY DEF UpdatesInit
  <2> QED BY <2>2, <2>3, <2>4, <2>5 DEF DeviceInv
<1>4. VpnInv
  BY UpdatesAssumption DEF VpnInv, UpdatesInit
<1>5. WorkInv
  BY WorkOf, UpdatesAssumption DEF WorkInv, UpdatesInit
<1>6. CacheInv
  BY DEF CacheInv, NoToken, Maybe
<1>7. TaskInv
  BY RegistryAssumption DEF TaskInv, NoWorker
<1> QED BY <1>2, <1>3, <1>4, <1>5, <1>6, <1>7 DEF TInv

(* A request goes on to its next phase, or is answered.                    *)
LEMMA WorkStep ==
    ASSUME WorkInv, NEW q \in Requests, NEW w \in Work,
           work' = [work EXCEPT ![q] = w],
           started' = started \/ (started < MaxStarted /\ started' = started + 1),
           faults' = faults \/ (faults < MaxFaults /\ faults' = faults + 1)
    PROVE  WorkInv'
BY UpdatesAssumption DEF WorkInv

LEMMA VariableTypes ==
    ASSUME TInv, NEW q \in Requests, NEW k \in VarKeys,
           DeletePreRun(q, k) \/ \E v \in Values : WriteVar(q, k, v)
    PROVE  DbInv' /\ DeviceInv' /\ VpnInv' /\ WorkInv'
<1> USE DEF TInv
<1>1. k \in Keys
  BY UpdatesAssumption
<1>2. CASE DeletePreRun(q, k)
  <2>1. DbInv' /\ DeviceInv' /\ VpnInv'
    BY <1>2, DbFrame, DeviceFrame, VpnFrame DEF DeletePreRun, deviceVars, DeviceInv
  <2>2. [phase |-> "delete", key |-> k, devices |-> Affected(k)] \in Work
    BY <1>1, AffectedIs, WorkOf
  <2> QED BY <1>2, <2>1, <2>2, WorkStep DEF DeletePreRun
<1>3. ASSUME NEW v \in Values, WriteVar(q, k, v) PROVE DbInv' /\ DeviceInv' /\ VpnInv' /\ WorkInv'
  <2>1. DeviceInv' /\ VpnInv'
    BY <1>3, DeviceFrame, VpnFrame DEF WriteVar, deviceVars, DeviceInv
  <2>2. [phase |-> "lookup", key |-> k] \in Work
    BY <1>1, WorkOf
  <2>3. DbInv'
    BY <1>3, DbIs DEF WriteVar, DbInv, GoodDb, Maybe, Db
  <2> QED BY <1>3, <2>1, <2>2, <2>3, WorkStep DEF WriteVar
<1> QED BY <1>2, <1>3

LEMMA HookTypes ==
    ASSUME TInv, NEW q \in Requests,
           LookUp(q) \/ LookUpFails(q) \/ DeleteCommit(q) \/ DeleteRollback(q)
    PROVE  DbInv' /\ DeviceInv' /\ VpnInv' /\ WorkInv'
<1> USE DEF TInv
<1>1. work[q] \in Work
  BY DEF WorkInv
<1>2. CASE LookUp(q)
  <2>1. work[q].key \in Keys
    BY <1>1, <1>2, WorkIs DEF LookUp
  <2>2. DbInv' /\ DeviceInv' /\ VpnInv'
    BY <1>2, <2>1, AffectedIs, DbFrame, DeviceFrame, VpnFrame DEF LookUp, deviceVars, DeviceInv
  <2>3. [phase |-> "post", devices |-> Affected(work[q].key)] \in Work
    BY <2>1, AffectedIs, WorkOf
  <2> QED BY <1>2, <2>2, <2>3, WorkStep DEF LookUp
<1>3. CASE LookUpFails(q)
  <2>1. work[q].key \in Keys
    BY <1>1, <1>3, WorkIs DEF LookUpFails
  <2>2. DbInv' /\ DeviceInv' /\ VpnInv'
    BY <1>3, <2>1, AffectedIs, DbFrame, DeviceFrame, VpnFrame DEF LookUpFails, deviceVars, DeviceInv
  <2> QED BY <1>3, <2>2, WorkOf, WorkStep DEF LookUpFails
<1>4. CASE DeleteCommit(q)
  <2>1. work[q].key \in Keys /\ work[q].devices \subseteq Devices
    BY <1>1, <1>4, WorkIs DEF DeleteCommit
  <2>2. DeviceInv' /\ VpnInv'
    BY <1>4, <2>1, AffectedIs, DeviceFrame, VpnFrame DEF DeleteCommit, deviceVars, DeviceInv
  <2>3. DbInv'
    BY <1>4, <2>1, DbIs DEF DeleteCommit, DbInv, GoodDb, Maybe, Db
  <2>4. [phase |-> "post", devices |-> work[q].devices] \in Work
    BY <2>1, WorkOf
  <2> QED BY <1>4, <2>2, <2>3, <2>4, WorkStep DEF DeleteCommit
<1>5. CASE DeleteRollback(q)
  <2>1. DbInv' /\ DeviceInv' /\ VpnInv'
    BY <1>5, DbFrame, DeviceFrame, VpnFrame DEF DeleteRollback, deviceVars, DeviceInv
  <2> QED BY <1>5, <2>1, WorkOf, WorkStep DEF DeleteRollback
<1> QED BY <1>2, <1>3, <1>4, <1>5

LEMMA PatchTypes ==
    ASSUME TInv, NEW q \in Requests,
           \/ \E d \in Devices : \E p \in DevicePatches[d] : PatchDevice(q, d, p)
           \/ \E r \in Releases : PatchApplication(q, r)
    PROVE  DbInv' /\ DeviceInv' /\ VpnInv' /\ WorkInv'
<1> USE DEF TInv
<1>1. ASSUME NEW d \in Devices, NEW p \in DevicePatches[d], PatchDevice(q, d, p)
      PROVE  DbInv' /\ DeviceInv' /\ VpnInv' /\ WorkInv'
  <2>1. p \in [app : Apps, pin : Maybe(Releases)]
    BY UpdatesAssumption
  <2>2. DbInv'
    <3>1. device \in [Devices -> DeviceRow] /\ device[d] \in DeviceRow
      BY DbIs DEF DbInv, GoodDb
    <3>2. [device[d] EXCEPT !.app = p.app, !.pin = p.pin] \in DeviceRow
      BY <2>1, <3>1 DEF DeviceRow
    <3>3. device' = [device EXCEPT ![d] = [device[d] EXCEPT !.app = p.app, !.pin = p.pin]]
      BY <1>1, <3>1 DEF PatchDevice
    <3>4. device' \in [Devices -> DeviceRow]
      BY <3>1, <3>2, <3>3
    <3>5. device'[d].app = p.app /\ device'[d].pin = p.pin
      BY <3>1, <3>3 DEF DeviceRow
    <3>6. \A e \in Devices \ {d} : device'[e] = device[e]
      BY <3>1, <3>3
    <3>7. \A e \in Devices : device'[e].pin # Unset => AppOf[device'[e].pin] = device'[e].app
      BY <1>1, <3>5, <3>6, DbIs DEF PatchDevice, DbInv, GoodDb
    <3> QED BY <1>1, <3>4, <3>7, DbIs DEF PatchDevice, DbInv, GoodDb, Db
  <2>3. DeviceInv'
    BY <1>1 DEF PatchDevice, DeviceInv, Maybe
  <2>4. VpnInv'
    BY <1>1, VpnFrame DEF PatchDevice
  <2>5. [phase |-> "post", devices |-> {d}] \in Work
    BY WorkOf
  <2> QED BY <1>1, <2>2, <2>3, <2>4, <2>5, WorkStep DEF PatchDevice
<1>2. ASSUME NEW r \in Releases, PatchApplication(q, r)
      PROVE  DbInv' /\ DeviceInv' /\ VpnInv' /\ WorkInv'
  <2>1. AppOf[r] \in Apps
    BY TargetAssumption
  <2>2. DbInv'
    BY <1>2, <2>1, DbIs DEF PatchApplication, DbInv, GoodDb, Db, Maybe
  <2>3. DeviceInv' /\ VpnInv'
    BY <1>2, DeviceFrame, VpnFrame DEF PatchApplication, deviceVars, DeviceInv, UpdatedWith
  <2>4. [phase |-> "postApp", app |-> AppOf[r], release |-> r] \in Work
    BY <2>1, WorkOf
  <2> QED BY <1>2, <2>2, <2>3, <2>4, WorkStep DEF PatchApplication
<1> QED BY <1>1, <1>2

(* The failures of a lost request are counted one by one.                  *)
LEMMA PostType ==
    ASSUME WorkInv, NEW q \in Requests, NEW D \in SUBSET Devices, NEW lost, PostDevices(q, D, lost),
           started' = started
    PROVE  WorkInv' /\ lost \subseteq Devices /\ told' \subseteq told \cup Devices
<1>1. lost \subseteq Devices /\ told' \subseteq told \cup Devices
  BY DEF PostDevices, Reached
<1>2. Cardinality(lost) \in Nat
  BY <1>1, FS_Subset, FS_CardinalityType, UpdatesAssumption
<1>3. faults' \in 0 .. MaxFaults
  BY <1>2, UpdatesAssumption DEF PostDevices, WorkInv
<1>4. work' \in [Requests -> Work]
  BY WorkOf DEF PostDevices, WorkInv
<1> QED BY <1>1, <1>3, <1>4 DEF WorkInv

LEMMA PostTypes ==
    ASSUME TInv, NEW q \in Requests, NEW lost, Post(q, lost) \/ PostApp(q, lost)
    PROVE  DbInv' /\ DeviceInv' /\ VpnInv' /\ WorkInv'
<1> USE DEF TInv
<1>1. work[q] \in Work
  BY DEF WorkInv
<1>2. CASE Post(q, lost)
  <2>1. work[q].devices \subseteq Devices
    BY <1>1, <1>2, WorkIs DEF Post
  <2>2. WorkInv' /\ lost \subseteq Devices /\ told' \subseteq told \cup Devices
    BY <1>2, <2>1, PostType DEF Post
  <2>3. DbInv' /\ VpnInv'
    BY <1>2, DbFrame, VpnFrame DEF Post
  <2>4. DeviceInv'
    BY <1>2, <2>1, <2>2 DEF Post, DeviceInv
  <2> QED BY <2>2, <2>3, <2>4
<1>3. CASE PostApp(q, lost)
  <2>1. Followers(work[q].app) \subseteq Devices
    BY DEF Followers
  <2>2. WorkInv' /\ lost \subseteq Devices /\ told' \subseteq told \cup Devices
    BY <1>3, <2>1, PostType DEF PostApp
  <2>3. DbInv' /\ VpnInv'
    BY <1>3, DbFrame, VpnFrame DEF PostApp
  <2>4. DeviceInv'
    BY <1>3, <2>1, <2>2 DEF PostApp, DeviceInv
  <2> QED BY <2>2, <2>3, <2>4
<1> QED BY <1>2, <1>3


LEMMA PollTypes ==
    ASSUME TInv, NEW d \in Devices, StartPoll(d) \/ EndPoll(d) \/ Report(d)
    PROVE  DbInv' /\ DeviceInv' /\ VpnInv' /\ WorkInv'
<1> USE DEF TInv
<1>1. DbInv' /\ VpnInv' /\ WorkInv'
  BY DbFrame, VpnFrame DEF StartPoll, EndPoll, Report, WorkInv
<1>2. CASE StartPoll(d)
  <2>1. Target(d).release \in Maybe(Releases)
    BY TargetRelease DEF DbInv
  <2> QED BY <1>1, <1>2, <2>1 DEF StartPoll, DeviceInv
<1>3. CASE EndPoll(d)
  BY <1>1, <1>3 DEF EndPoll, DeviceInv
<1>4. CASE Report(d)
  <2>1. installs' \in [Devices -> SUBSET Images]
    BY <1>4, DbIs DEF Report, DeviceInv, DbInv, GoodDb
  <2>2. running' \in [Devices -> Maybe(Releases)]
    BY <1>4 DEF Report, DeviceInv
  <2> QED BY <1>1, <1>4, <2>1, <2>2 DEF Report, DeviceInv
<1> QED BY <1>2, <1>3, <1>4

LEMMA VpnTypes ==
    ASSUME TInv, NEW d \in Devices,
           LoseLink(d) \/ \E s \in Instances : ClientConnect(d, s) \/ ClientDisconnect(d, s)
    PROVE  DbInv' /\ DeviceInv' /\ VpnInv' /\ WorkInv'
<1> USE DEF TInv
<1>1. DbInv'
  BY DbFrame DEF LoseLink, ClientConnect, ClientDisconnect
<1>2. DeviceInv'
  BY DeviceFrame DEF LoseLink, ClientConnect, ClientDisconnect, DeviceInv
<1>3. CASE LoseLink(d)
  <2>1. WorkInv'
    BY <1>3, UpdatesAssumption DEF LoseLink, WorkInv
  <2>2. link[d] \in Instances
    BY <1>3 DEF LoseLink, VpnInv, Maybe
  <2>3. VpnInv'
    BY <1>3, <2>2 DEF LoseLink, VpnInv, Maybe
  <2> QED BY <1>1, <1>2, <2>1, <2>3
<1>4. ASSUME NEW s \in Instances, ClientConnect(d, s) \/ ClientDisconnect(d, s) PROVE WorkInv' /\ VpnInv'
  <2>1. WorkInv'
    BY <1>4 DEF ClientConnect, ClientDisconnect, WorkInv
  <2>2. CASE ClientConnect(d, s)
    BY <2>1, <2>2 DEF ClientConnect, VpnInv, Maybe
  <2>3. CASE ClientDisconnect(d, s)
    BY <2>1, <2>3 DEF ClientDisconnect, VpnInv, Maybe
  <2> QED BY <1>4, <2>2, <2>3
<1> QED BY <1>1, <1>2, <1>3, <1>4

UpdatesStep ==
    /\ UpdatesNext
    /\ been' = [d \in Devices |-> been[d] \cup {device'[d].app}]
    /\ UNCHANGED <<idCache, readCache, aliasCache, token, taskVars>>

LEMMA UpdatesType == TInv /\ UpdatesStep => TInv'
<1> SUFFICES ASSUME TInv, UpdatesStep PROVE TInv'
  OBVIOUS
<1> USE DEF UpdatesStep
<1>1. CacheInv' /\ TaskInv'
  BY CacheFrame, TaskFrame DEF TInv
<1> DEFINE Typed == DbInv' /\ DeviceInv' /\ VpnInv' /\ WorkInv'
<1>2. ASSUME NEW q \in Requests, NEW k \in VarKeys,
             DeletePreRun(q, k) \/ \E v \in Values : WriteVar(q, k, v)
      PROVE  Typed
  BY <1>2, VariableTypes
<1>3. ASSUME NEW q \in Requests, LookUp(q) \/ LookUpFails(q) \/ DeleteCommit(q) \/ DeleteRollback(q)
      PROVE  Typed
  BY <1>3, HookTypes
<1>4. ASSUME NEW q \in Requests,
             \/ \E d \in Devices : \E p \in DevicePatches[d] : PatchDevice(q, d, p)
             \/ \E r \in Releases : PatchApplication(q, r)
      PROVE  Typed
  BY <1>4, PatchTypes
<1>5. ASSUME NEW q \in Requests, NEW lost \in SUBSET Devices, Post(q, lost) \/ PostApp(q, lost) PROVE Typed
  BY <1>5, PostTypes
<1>6. ASSUME NEW d \in Devices, StartPoll(d) \/ EndPoll(d) \/ Report(d) PROVE Typed
  BY <1>6, PollTypes
<1>7. ASSUME NEW d \in Devices,
             LoseLink(d) \/ \E s \in Instances : ClientConnect(d, s) \/ ClientDisconnect(d, s)
      PROVE  Typed
  BY <1>7, VpnTypes
<1>8. Typed
  BY <1>2, <1>3, <1>4, <1>5, <1>6, <1>7, UpdatesAssumption DEF UpdatesNext
<1> QED BY <1>1, <1>8 DEF TInv


(* The token endpoint. *)

(* A scope names an image, or an application and a version, that exist.    *)
LEMMA ScopeIs ==
    ASSUME NEW s \in Names
    PROVE  /\ s.kind \in {"v2", "alias", "resinos", "supervisor", "legacy"}
           /\ s.kind = "v2" => s.image \in Images /\ s.image \in V2Images
           /\ s.kind = "alias" => s \in AliasScopes
BY RegistryAssumption DEF Names, V2Images, AliasScopes

LEMMA LookupTypes ==
    ASSUME CacheInv, NEW c \in Callers
    PROVE  /\ \A i \in V2Images : ImageId(i) \in BOOLEAN /\ ReadAccess(c, i) \in BOOLEAN
           /\ \A s \in AliasScopes : Located(c, s) \in SUBSET Images
<1>1. ASSUME NEW i \in V2Images PROVE ImageId(i) \in BOOLEAN
  <2>1. idCache[i] \in Maybe(BOOLEAN)
    BY DEF CacheInv
  <2>2. (i \in images) \in BOOLEAN
    OBVIOUS
  <2> QED BY <2>1, <2>2 DEF ImageId, Cached, Maybe
<1>2. ASSUME NEW i \in V2Images PROVE ReadAccess(c, i) \in BOOLEAN
  <2>1. readCache[<<c, i>>] \in Maybe(BOOLEAN)
    BY DEF CacheInv
  <2>2. CanRead(c, i) \in BOOLEAN
    BY DEF CanRead
  <2> QED BY <2>1, <2>2 DEF ReadAccess, ReadKey, Cached, Maybe
<1>3. ASSUME NEW s \in AliasScopes PROVE Located(c, s) \in SUBSET Images
  <2>1. aliasCache[<<c, s>>] \in Maybe(SUBSET Images)
    BY DEF CacheInv
  <2>2. ImageLocation(c, s) \in SUBSET Images
    BY DEF ImageLocation
  <2> QED BY <2>1, <2>2 DEF Located, Cached, Maybe
<1> QED BY <1>1, <1>2, <1>3

(* A token is for pulling and pushing images that exist, whatever was      *)
(* asked for.                                                              *)
LEMMA TokenIs ==
    ASSUME CacheInv, NEW c \in Callers, NEW s \in Names, NEW requested
    PROVE  Granted(c, s, requested) \subseteq Actions /\ About(c, s) \subseteq Images
<1>1. s.kind \in {"v2", "alias", "resinos", "supervisor", "legacy"}
  BY ScopeIs
<1>2. s.kind = "v2" => s.image \in Images
  BY ScopeIs
<1>3. s.kind = "alias" => Located(c, s) \subseteq Images
  BY ScopeIs, LookupTypes
<1>4. About(c, s) \subseteq Images
  BY <1>1, <1>2, <1>3 DEF About
<1>5. CASE c = Builder
  BY <1>4, <1>5 DEF Granted, Actions
<1>6. CASE c # Builder
  <2>1. CASE s.kind = "v2"
    BY <1>4, <1>6, <2>1 DEF Granted, ResolveAccess, Actions
  <2>2. CASE s.kind = "alias"
    BY <1>4, <1>6, <2>2 DEF Granted, Actions
  <2>3. CASE s.kind \in {"resinos", "supervisor"}
    BY <1>4, <1>6, <2>3 DEF Granted, Actions
  <2>4. CASE s.kind = "legacy"
    BY <1>4, <1>6, <2>4 DEF Granted, Actions
  <2> QED BY <1>1, <2>1, <2>2, <2>3, <2>4
<1> QED BY <1>5, <1>6

LEMMA TokenType ==
    ASSUME TInv, NEW c \in Callers, NEW s \in Scopes, Token(c, s.name, s.actions)
    PROVE  TInv'
<1> DEFINE n == s.name
<1> USE DEF TInv
<1>1. n \in Names
  BY DEF Names
<1>2. DbInv' /\ DeviceInv' /\ VpnInv' /\ TaskInv'
  BY DbFrame, DeviceFrame, VpnFrame, TaskFrame DEF Token, deviceVars, DeviceInv
<1>3. WorkInv'
  BY UpdatesAssumption DEF Token, WorkInv
<1> HIDE DEF n
<1>4. Token(c, n, s.actions)
  BY DEF n
<1>5. idCache' \in [V2Images -> Maybe(BOOLEAN)]
  <2>1. n.kind = "v2" => n.image \in V2Images /\ ImageId(n.image) \in BOOLEAN
    BY <1>1, ScopeIs, LookupTypes
  <2> QED BY <1>4, <2>1 DEF Token, CacheInv, Maybe
<1>6. readCache' \in [Callers \X V2Images -> Maybe(BOOLEAN)]
  <2>1. n.kind = "v2" => n.image \in V2Images /\ ReadAccess(c, n.image) \in BOOLEAN
    BY <1>1, ScopeIs, LookupTypes
  <2> QED BY <1>4, <2>1 DEF Token, CacheInv, Maybe
<1>7. aliasCache' \in [Callers \X AliasScopes -> Maybe(SUBSET Images)]
  <2>1. n.kind = "alias" => n \in AliasScopes /\ Located(c, n) \in SUBSET Images
    BY <1>1, ScopeIs, LookupTypes
  <2> QED BY <1>4, <2>1 DEF Token, CacheInv, Maybe
<1>8. Granted(c, n, s.actions) \subseteq Actions /\ About(c, n) \subseteq Images
  BY <1>1, TokenIs
<1>9. /\ token'.subject = Subject(c) /\ token'.image = About(c, n)
      /\ token'.actions = Granted(c, n, s.actions)
  BY <1>4 DEF Token
<1>10. Subject(c) \in Devices \cup {User, Unset}
  BY DEF Subject
<1>11. CacheInv'
  BY <1>5, <1>6, <1>7, <1>8, <1>9, <1>10 DEF CacheInv
<1> QED BY <1>2, <1>3, <1>11

LEMMA ExpireType == TInv /\ Expire => TInv'
<1> SUFFICES ASSUME TInv, Expire PROVE TInv'
  OBVIOUS
<1> USE DEF TInv
<1>1. DbInv' /\ DeviceInv' /\ VpnInv' /\ TaskInv' /\ WorkInv'
  BY DbFrame, DeviceFrame, VpnFrame, TaskFrame DEF Expire, updateVars, deviceVars, DeviceInv, WorkInv
<1>2. idCache' \in [V2Images -> Maybe(BOOLEAN)]
  BY DEF Expire, CacheInv, Maybe
<1>3. readCache' \in [Callers \X V2Images -> Maybe(BOOLEAN)]
  BY DEF Expire, CacheInv, Maybe
<1>4. aliasCache' \in [Callers \X AliasScopes -> Maybe(SUBSET Images)]
  BY DEF Expire, CacheInv, Maybe
<1>5. token' = token
  BY DEF Expire
<1> QED BY <1>1, <1>2, <1>3, <1>4, <1>5 DEF CacheInv

-----------------------------------------------------------------------------
(* The deletion of images. *)

LEMMA DeleteType ==
    ASSUME TInv, NEW S \in Deletable, DeleteImages(S)
    PROVE  TInv'
<1> USE DEF TInv
<1>1. S \subseteq Images
  BY RegistryAssumption
<1>2. DbInv'
  BY DbIs DEF DeleteImages, DbInv, GoodDb, Db
<1>3. DeviceInv'
  <2>1. installs' \in [Devices -> SUBSET Images]
    BY DEF DeleteImages, DeviceInv
  <2> QED BY <2>1 DEF DeleteImages, DeviceInv
<1>4. VpnInv' /\ CacheInv'
  BY VpnFrame, CacheFrame DEF DeleteImages, cacheVars
<1>5. WorkInv'
  BY UpdatesAssumption DEF DeleteImages, WorkInv
<1>6. TaskInv'
  <2>1. NewTask(S) \in [images : SUBSET Images, attempt : 1 .. AttemptLimit]
    BY <1>1, RegistryAssumption DEF NewTask
  <2> QED BY <2>1 DEF DeleteImages, TaskInv
<1> QED BY <1>2, <1>3, <1>4, <1>5, <1>6

TaskStep ==
    \/ \E t \in tasks : StartTask(t)
    \/ \E i \in Images : DeleteRepo(i)
    \/ EndTask \/ TimeOut \/ FailTask

LEMMA TaskType == TInv /\ TaskStep => TInv'
<1> SUFFICES ASSUME TInv, TaskStep PROVE TInv'
  OBVIOUS
<1> USE DEF TInv
<1>1. UNCHANGED <<dbVars, deviceVars, missed, work, started, cacheVars>>
  BY DEF TaskStep, StartTask, DeleteRepo, EndTask, TimeOut, FailTask, updateVars
<1>2. DbInv' /\ DeviceInv' /\ VpnInv' /\ CacheInv'
  BY <1>1, DbFrame, DeviceFrame, VpnFrame, CacheFrame DEF deviceVars, cacheVars, DeviceInv
<1>3. faults' = faults \/ (faults < MaxFaults /\ faults' = faults + 1)
  BY DEF TaskStep, StartTask, DeleteRepo, EndTask, TimeOut, FailTask, updateVars
<1>4. WorkInv'
  BY <1>1, <1>3, UpdatesAssumption DEF WorkInv
<1> DEFINE Task == [images : SUBSET Images, attempt : 1 .. AttemptLimit]
           Worker == [images : SUBSET Images, remaining : SUBSET Images, attempt : 0 .. AttemptLimit]
<1>5. NoWorker \in Worker /\ NoWorker.remaining \subseteq NoWorker.images
  BY RegistryAssumption DEF NoWorker
<1>6. /\ tasks \subseteq Task /\ worker \in Worker /\ worker.remaining \subseteq worker.images
      /\ abandoned \subseteq Images
  BY DEF TaskInv
<1>7. ASSUME NEW t \in tasks, StartTask(t) PROVE TaskInv'
  <2>1. t \in Task
    BY <1>6
  <2>2. [images |-> t.images, remaining |-> t.images \ images, attempt |-> t.attempt] \in Worker
    BY <2>1, RegistryAssumption
  <2> QED BY <1>7, <2>1, <2>2 DEF StartTask, TaskInv
<1>8. ASSUME NEW i \in Images, DeleteRepo(i) PROVE TaskInv'
  <2>1. CASE CacheRepos(i) # {}
    BY <1>8, <2>1 DEF DeleteRepo, DeleteRepoManifests, TaskInv
  <2>2. CASE CacheRepos(i) = {}
    <3>1. /\ worker' = [worker EXCEPT !.remaining = worker.remaining \ {i}]
          /\ repo' \subseteq repo /\ tasks' = tasks /\ abandoned' = abandoned
      BY <1>8, <2>2 DEF DeleteRepo, DeleteRepoManifests
    <3>2. worker' \in Worker /\ worker'.remaining \subseteq worker'.images
      BY <1>6, <3>1
    <3> QED BY <3>1, <3>2 DEF TaskInv
  <2> QED BY <2>1, <2>2
<1>9. ASSUME worker' = NoWorker, repo' = repo, tasks' \subseteq Task, abandoned' \subseteq Images
      PROVE  TaskInv'
  <2>1. worker' \in Worker /\ worker'.remaining \subseteq worker'.images
    BY <1>5, <1>9
  <2> QED BY <1>9, <2>1 DEF TaskInv
<1>10. ASSUME EndTask PROVE TaskInv'
  BY <1>6, <1>9, <1>10 DEF EndTask
<1>11. ASSUME TimeOut PROVE TaskInv'
  <2>1. NewTask(worker.remaining) \in Task
    BY <1>6, RegistryAssumption DEF NewTask
  <2> QED BY <1>6, <1>9, <1>11, <2>1 DEF TimeOut
<1>12. ASSUME FailTask PROVE TaskInv'
  <2>1. CASE worker.attempt < AttemptLimit
    <3>1. [images |-> worker.images, attempt |-> worker.attempt + 1] \in Task
      BY <1>6, <2>1, RegistryAssumption
    <3> QED BY <1>6, <1>9, <1>12, <2>1, <3>1 DEF FailTask
  <2>2. CASE ~ (worker.attempt < AttemptLimit)
    <3>1. worker.images \subseteq Images
      BY <1>6
    <3> QED BY <1>6, <1>9, <1>12, <2>2, <3>1 DEF FailTask
  <2> QED BY <2>1, <2>2
<1>13. TaskInv'
  BY <1>7, <1>8, <1>10, <1>11, <1>12 DEF TaskStep
<1> QED BY <1>2, <1>4, <1>13

LEMMA Steps == Next <=> \/ UpdatesStep
                        \/ \E c \in Callers, s \in Scopes : Token(c, s.name, s.actions)
                        \/ Expire
                        \/ \E S \in Deletable : DeleteImages(S)
                        \/ TaskStep
BY DEF Next, UpdatesStep, TaskStep

LEMMA Types == Spec => []TInv
<1>1. Init => TInv
  BY InitType
<1>2. TInv /\ [Next]_vars => TInv'
  <2>1. TInv /\ UNCHANGED vars => TInv'
    <3> SUFFICES ASSUME TInv, UNCHANGED vars PROVE TInv'
      OBVIOUS
    <3>1. DbInv' /\ DeviceInv' /\ VpnInv' /\ WorkInv'
      BY DbFrame, DeviceFrame, VpnFrame DEF TInv, vars, updateVars, deviceVars, DeviceInv, WorkInv
    <3>2. CacheInv' /\ TaskInv'
      BY CacheFrame, TaskFrame DEF TInv, vars, registryVars, taskVars
    <3> QED BY <3>1, <3>2 DEF TInv
  <2> QED BY <2>1, Steps, UpdatesType, TokenType, ExpireType, DeleteType, TaskType
<1> QED BY <1>1, <1>2, PTL DEF Spec


-----------------------------------------------------------------------------
(* What follows from the tables being well-formed. *)

(* The two versions of the state endpoint agree on the user application:   *)
(* both read the same rows in one transaction, and each service of a       *)
(* release has one image, so the order of the rows does not matter.        *)
THEOREM VersionsOfStateAgree == Spec => []VersionsAgree
<1>1. TInv => VersionsAgree
  BY VersionsMatch DEF TInv, DbInv
<1> QED BY <1>1, Types, PTL

(* The fleet state endpoint announces what a device of the fleet without   *)
(* variables of its own is sent.                                           *)
THEOREM FleetStateIsFaithful == Spec => []FleetStateIsWhatDevicesGet
<1>1. TInv => FleetStateIsWhatDevicesGet
  BY FleetStateMatches DEF TInv, DbInv
<1> QED BY <1>1, Types, PTL

(* A device may pull every image its target state names, at any moment.    *)
THEOREM TargetsCanBePulled == Spec => []TargetIsPullable
<1>1. TInv => TargetIsPullable
  BY TargetsArePullable DEF TInv, DbInv
<1> QED BY <1>1, Types, PTL

-----------------------------------------------------------------------------
(* The VPN. *)

(* An instance does not hold a device whose loss it has still to announce. *)
LinkInv ==
    /\ ConnectionIsKnown
    /\ \A d \in Devices : link[d] # Unset => <<d, link[d]>> \notin leaving

LEMMA LinkFrame == LinkInv /\ UNCHANGED vpnVars => LinkInv'
BY DEF LinkInv, ConnectionIsKnown, vpnVars

LEMMA LinkStep ==
    ASSUME VpnInv, LinkInv, NEW d \in Devices,
           LoseLink(d) \/ \E s \in Instances : ClientConnect(d, s) \/ ClientDisconnect(d, s)
    PROVE  LinkInv'
<1> USE DEF LinkInv, ConnectionIsKnown
<1>1. link \in [Devices -> Maybe(Instances)] /\ vpn \in [Devices -> Maybe(Instances)] /\ Unset \notin Instances
  BY UpdatesAssumption DEF VpnInv
<1>2. CASE LoseLink(d)
  <2>1. /\ leaving' = leaving \cup {<<d, link[d]>>} /\ link' = [link EXCEPT ![d] = Unset] /\ vpn' = vpn
        /\ link[d] # Unset
    BY <1>2 DEF LoseLink
  <2> QED BY <1>1, <2>1
<1>3. ASSUME NEW s \in Instances, ClientConnect(d, s) PROVE LinkInv'
  <2>1. /\ link' = [link EXCEPT ![d] = s] /\ vpn' = [vpn EXCEPT ![d] = s] /\ leaving' = leaving
        /\ <<d, s>> \notin leaving
    BY <1>3 DEF ClientConnect
  <2> QED BY <1>1, <2>1
<1>4. ASSUME NEW s \in Instances, ClientDisconnect(d, s) PROVE LinkInv'
  <2>1. /\ vpn' = IF vpn[d] = s THEN [vpn EXCEPT ![d] = Unset] ELSE vpn
        /\ link' = link /\ leaving' = leaving \ {<<d, s>>} /\ <<d, s>> \in leaving
    BY <1>4 DEF ClientDisconnect
  <2>2. link[d] # s
    BY <1>1, <2>1
  <2> QED BY <1>1, <2>1, <2>2
<1> QED BY <1>2, <1>3, <1>4

LEMMA LinkNext == TInv /\ LinkInv /\ [Next]_vars => LinkInv'
<1> SUFFICES ASSUME TInv, LinkInv, [Next]_vars PROVE LinkInv'
  OBVIOUS
<1>1. CASE UNCHANGED vpnVars
  BY <1>1, LinkFrame
<1>2. \/ UNCHANGED vpnVars
      \/ \E d \in Devices : LoseLink(d)
      \/ \E d \in Devices, s \in Instances : ClientConnect(d, s) \/ ClientDisconnect(d, s)
  <2>1. CASE UNCHANGED vars
    BY <2>1 DEF vars, updateVars, deviceVars
  <2>2. CASE UpdatesStep
    BY <2>2, UpdatesAssumption DEF UpdatesStep, UpdatesNext, DeletePreRun, WriteVar, LookUp, LookUpFails, DeleteCommit,
                DeleteRollback, PatchDevice, PatchApplication, Post, PostApp, StartPoll, EndPoll, Report,
                deviceVars
  <2>3. CASE \E c \in Callers, s \in Scopes : Token(c, s.name, s.actions)
    BY <2>3 DEF Token, deviceVars
  <2>4. CASE Expire
    BY <2>4 DEF Expire, updateVars, deviceVars
  <2>5. CASE \E S \in Deletable : DeleteImages(S)
    BY <2>5 DEF DeleteImages
  <2>6. CASE TaskStep
    BY <2>6 DEF TaskStep, StartTask, DeleteRepo, EndTask, TimeOut, FailTask, updateVars, deviceVars
  <2> QED BY <2>1, <2>2, <2>3, <2>4, <2>5, <2>6, Steps
<1> QED BY <1>1, <1>2, LinkStep DEF TInv

(* The service instance in the row of a device is the one that holds its   *)
(* tunnel, or is still to say that it lost it, however late the            *)
(* disconnects arrive.                                                     *)
THEOREM ConnectionsAreKnown == Spec => []ConnectionIsKnown
<1>1. Init => LinkInv
  BY UpdatesAssumption DEF Init, UpdatesInit, LinkInv, ConnectionIsKnown
<1>2. LinkInv => ConnectionIsKnown
  BY DEF LinkInv
<1> QED BY <1>1, <1>2, LinkNext, Types, PTL DEF Spec

-----------------------------------------------------------------------------
(* Repositories. *)

(* The repositories of an image are its own and that of its cache.         *)
LEMMA OwnIsLast ==
    ASSUME TaskInv, NEW i, CacheRepos(i) = {}, NEW r \in repo, r[1] = i
    PROVE  r = <<i, "own">>
<1>1. r \in (Images \X {"own"}) \cup (MultiStage \X {"cache"})
  BY DEF TaskInv, Repos
<1>2. r[2] # "cache"
  BY DEF CacheRepos
<1> QED BY <1>1, <1>2

LEMMA ForgottenFrame ==
    ASSUME NoImageForgotten, images' = images, repo' \subseteq repo, UNCHANGED <<tasks, worker, abandoned>>
    PROVE  NoImageForgotten'
BY DEF NoImageForgotten

LEMMA ForgottenStep ==
    ASSUME TInv, NoImageForgotten, TaskStep
    PROVE  NoImageForgotten'
<1> USE DEF TInv
<1> DEFINE Left == {r[1] : r \in repo} \ images
<1>1. images' = images
  BY DEF TaskStep, StartTask, DeleteRepo, EndTask, TimeOut, FailTask, updateVars, dbVars
<1>2. ASSUME NEW t \in tasks, StartTask(t) PROVE NoImageForgotten'
  <2>1. /\ worker = NoWorker /\ tasks' = tasks \ {t} /\ repo' = repo /\ abandoned' = abandoned
        /\ worker'.remaining = t.images \ images
    BY <1>2 DEF StartTask
  <2>2. worker.remaining = {}
    BY <2>1 DEF NoWorker
  <2> QED BY <1>1, <2>1, <2>2 DEF NoImageForgotten
<1>3. ASSUME NEW i \in Images, DeleteRepo(i) PROVE NoImageForgotten'
  <2>1. CASE CacheRepos(i) # {}
    BY <1>1, <1>3, <2>1, ForgottenFrame DEF DeleteRepo, DeleteRepoManifests
  <2>2. CASE CacheRepos(i) = {}
    <3>1. /\ worker' = [worker EXCEPT !.remaining = worker.remaining \ {i}]
          /\ repo' = repo \ {<<i, "own">>} /\ tasks' = tasks /\ abandoned' = abandoned
      BY <1>3, <2>2 DEF DeleteRepo, DeleteRepoManifests
    <3>2. worker'.remaining = worker.remaining \ {i}
      BY <3>1 DEF TaskInv
    <3>3. \A r \in repo' : r[1] # i
      BY <2>2, <3>1, OwnIsLast
    <3> QED BY <1>1, <3>1, <3>2, <3>3 DEF NoImageForgotten
  <2> QED BY <2>1, <2>2
<1>4. ASSUME EndTask PROVE NoImageForgotten'
  <2>1. worker.remaining = {} /\ tasks' = tasks /\ repo' = repo /\ abandoned' = abandoned
    BY <1>4 DEF EndTask
  <2> QED BY <1>1, <2>1 DEF NoImageForgotten
<1>5. ASSUME TimeOut PROVE NoImageForgotten'
  <2>1. NewTask(worker.remaining).images = worker.remaining
    BY DEF NewTask
  <2>2. /\ tasks' = tasks \cup {NewTask(worker.remaining)}
        /\ repo' = repo /\ abandoned' = abandoned
    BY <1>5 DEF TimeOut
  <2> QED BY <1>1, <2>1, <2>2 DEF NoImageForgotten
<1>6. ASSUME FailTask PROVE NoImageForgotten'
  <2>1. worker.remaining \subseteq worker.images
    BY DEF TaskInv
  <2>2. CASE worker.attempt < AttemptLimit
    <3> DEFINE t == [images |-> worker.images, attempt |-> worker.attempt + 1]
    <3>1. t.images = worker.images
      OBVIOUS
    <3>2. tasks' = tasks \cup {t} /\ repo' = repo /\ abandoned' = abandoned
      BY <1>6, <2>2 DEF FailTask
    <3> HIDE DEF t
    <3> QED BY <1>1, <2>1, <3>1, <3>2 DEF NoImageForgotten
  <2>3. CASE ~ (worker.attempt < AttemptLimit)
    <3>1. tasks' = tasks /\ repo' = repo /\ abandoned' = abandoned \cup worker.images
      BY <1>6, <2>3 DEF FailTask
    <3> QED BY <1>1, <2>1, <3>1 DEF NoImageForgotten
  <2> QED BY <2>2, <2>3
<1> QED BY <1>2, <1>3, <1>4, <1>5, <1>6 DEF TaskStep

LEMMA ForgottenNext == TInv /\ NoImageForgotten /\ [Next]_vars => NoImageForgotten'
<1> SUFFICES ASSUME TInv, NoImageForgotten, [Next]_vars PROVE NoImageForgotten'
  OBVIOUS
<1>1. CASE images' = images /\ UNCHANGED taskVars
  BY <1>1, ForgottenFrame DEF taskVars
<1>2. CASE UNCHANGED vars
  BY <1>1, <1>2 DEF vars, updateVars, registryVars, dbVars, taskVars
<1>3. CASE UpdatesStep
  <2>1. images' = images
    BY <1>3 DEF UpdatesStep, UpdatesNext, DeletePreRun, WriteVar, LookUp, LookUpFails, DeleteCommit,
                DeleteRollback, PatchDevice, PatchApplication, Post, PostApp, StartPoll, EndPoll, Report,
                LoseLink, ClientConnect, ClientDisconnect, dbVars
  <2> QED BY <1>1, <1>3, <2>1 DEF UpdatesStep
<1>4. CASE \E c \in Callers, s \in Scopes : Token(c, s.name, s.actions)
  BY <1>1, <1>4 DEF Token, dbVars
<1>5. CASE Expire
  BY <1>1, <1>5 DEF Expire, updateVars, dbVars
<1>6. ASSUME NEW S \in Deletable, DeleteImages(S) PROVE NoImageForgotten'
  <2>1. NewTask(S).images = S
    BY DEF NewTask
  <2>2. /\ images' = images \ S /\ tasks' = tasks \cup {NewTask(S)}
        /\ worker' = worker /\ repo' = repo /\ abandoned' = abandoned
    BY <1>6 DEF DeleteImages
  <2> QED BY <2>1, <2>2 DEF NoImageForgotten
<1>7. CASE TaskStep
  BY <1>7, ForgottenStep
<1> QED BY <1>2, <1>3, <1>4, <1>5, <1>6, <1>7, Steps

(* The repositories of a deleted image are gone, or a task is going to     *)
(* delete them, or all its attempts were used up.                          *)
THEOREM RepositoriesAreDeleted == Spec => []RegistryInv
<1>1. Init => NoImageForgotten
  <2> SUFFICES ASSUME Init PROVE NoImageForgotten
    OBVIOUS
  <2>1. images = Images /\ repo = Repos
    BY DEF Init, UpdatesInit
  <2>2. \A r \in Repos : r[1] \in Images
    BY RegistryAssumption DEF Repos
  <2> QED BY <2>1, <2>2 DEF NoImageForgotten
<1>2. TInv /\ NoImageForgotten => RegistryInv
  BY TInvIsTypeOK DEF RegistryInv
<1> QED BY <1>1, <1>2, ForgottenNext, Types, PTL DEF Spec


-----------------------------------------------------------------------------
(* Tokens. *)

(* An image of an application the device is or has been in, or of a public *)
(* one for its type.                                                       *)
Owned(d, i) ==
    \E r \in Releases :
        /\ i \in ImagesOf[r]
        /\ \/ AppOf[r] \in been[d]
           \/ IsPublic[AppOf[r]] /\ TypeOf[AppOf[r]] = TypeOf[d]

(* Whatever gives a device permission to read an image, rows and entries   *)
(* of the caches alike, was made when it could.                            *)
HeldInv ==
    /\ DOMAIN been = Devices /\ \A d \in Devices : device[d].app \in been[d]
    /\ \A d \in Devices : \A i \in installs[d] : Owned(d, i)
    /\ \A d \in Devices : \A st \in {got[d]} \cup polling[d] : \A i \in ImagesIn(st) : Owned(d, i)

CachedInv ==
    /\ \A d \in Devices, i \in V2Images : readCache[<<d, i>>] # Unset /\ readCache[<<d, i>>] = TRUE => Owned(d, i)
    /\ \A d \in Devices, s \in AliasScopes :
         aliasCache[<<d, s>>] # Unset => \A i \in aliasCache[<<d, s>>] : Owned(d, i)

OwnInv == HeldInv /\ CachedInv /\ PullsOwnImages

(* A device never ceases to own an image.                                  *)
LEMMA StillOwned ==
    ASSUME \A d \in Devices : been[d] \subseteq been'[d], NEW d \in Devices, NEW i, Owned(d, i)
    PROVE  Owned(d, i)'
BY DEF Owned

LEMMA AccessIsOwned ==
    ASSUME DbInv, NEW d \in Devices, device[d].app \in been[d], NEW i
    PROVE  /\ \A r \in Releases : i \in ImagesOf[r] /\ CanAccessApp(Db, d, AppOf[r]) => Owned(d, i)
           /\ CanRead(d, i) => Owned(d, i)
           /\ CanReadImage(d, i) => i \in installs[d] \/ Owned(d, i)
<1>1. d # User
  BY RegistryAssumption
<1>2. \A r \in Releases : i \in ImagesOf[r] /\ CanAccessApp(Db, d, AppOf[r]) => Owned(d, i)
  BY DbIs DEF CanAccessApp, Owned
<1>3. CanRead(d, i) => Owned(d, i)
  BY <1>1, <1>2 DEF CanRead
<1>4. \A r \in Releases : CanAccessRelease(Db, d, r) => CanAccessApp(Db, d, AppOf[r])
  BY TargetAssumption, DbIs DEF CanAccessRelease, CanAccessApp, DbInv, GoodDb
<1>5. CanReadImage(d, i) => i \in installs[d] \/ Owned(d, i)
  BY <1>1, <1>2, <1>4 DEF CanReadImage
<1> QED BY <1>2, <1>3, <1>5

LEMMA TargetIsOwned ==
    ASSUME DbInv, NEW d \in Devices, device[d].app \in been[d], NEW i \in ImagesIn(Target(d))
    PROVE  Owned(d, i)
BY AccessIsOwned, TargetImages DEF DbInv, Target

LEMMA TokenFrame ==
    ASSUME CachedInv, PullsOwnImages, \A d \in Devices : been[d] \subseteq been'[d],
           UNCHANGED <<readCache, aliasCache, token>>
    PROVE  CachedInv' /\ PullsOwnImages'
<1>1. CachedInv'
  BY StillOwned DEF CachedInv
<1>2. PullsOwnImages'
  BY DEF PullsOwnImages
<1> QED BY <1>1, <1>2

LEMMA HeldFrame ==
    ASSUME HeldInv, UNCHANGED <<been, got, polling>>, \A d \in Devices : device'[d] = device[d],
           \A d \in Devices : installs'[d] \subseteq installs[d]
    PROVE  HeldInv'
BY DEF HeldInv, Owned

LEMMA UpdatesOwned ==
    ASSUME TInv, OwnInv, UpdatesStep
    PROVE  OwnInv'
<1>1. \A d \in Devices : been'[d] = been[d] \cup {device'[d].app}
  BY DEF UpdatesStep
<1>2. CachedInv' /\ PullsOwnImages'
  BY <1>1, TokenFrame DEF OwnInv, UpdatesStep
<1>3. DOMAIN been' = Devices /\ \A d \in Devices : device'[d].app \in been'[d]
  BY <1>1 DEF UpdatesStep
<1>4. ASSUME UNCHANGED <<installs, got, polling>> PROVE HeldInv'
  BY <1>1, <1>3, <1>4, StillOwned DEF OwnInv, HeldInv
<1>5. ASSUME NEW d \in Devices, StartPoll(d) PROVE HeldInv'
  <2>1. /\ polling' = [polling EXCEPT ![d] = {Target(d)}] /\ installs' = installs /\ got' = got
    BY <1>5 DEF StartPoll
  <2>2. \A i \in ImagesIn(Target(d)) : Owned(d, i)
    BY TargetIsOwned DEF TInv, OwnInv, HeldInv
  <2>3. \A e \in Devices : \A st \in {got'[e]} \cup polling'[e] : \A i \in ImagesIn(st) : Owned(e, i)
    BY <2>1, <2>2 DEF TInv, DeviceInv, OwnInv, HeldInv
  <2> QED BY <1>1, <1>3, <2>1, <2>3, StillOwned DEF OwnInv, HeldInv
<1>6. ASSUME NEW d \in Devices, EndPoll(d) PROVE HeldInv'
  <2>1. PICK st \in polling[d] : got' = [got EXCEPT ![d] = st]
    BY <1>6 DEF EndPoll
  <2>2. polling' = [polling EXCEPT ![d] = {}] /\ installs' = installs
    BY <1>6 DEF EndPoll
  <2>3. \A e \in Devices : \A x \in {got'[e]} \cup polling'[e] : \A i \in ImagesIn(x) : Owned(e, i)
    BY <2>1, <2>2 DEF TInv, DeviceInv, OwnInv, HeldInv
  <2> QED BY <1>1, <1>3, <2>2, <2>3, StillOwned DEF OwnInv, HeldInv
<1>7. ASSUME NEW d \in Devices, Report(d) PROVE HeldInv'
  <2>1. installs' = [installs EXCEPT ![d] = ImagesIn(got[d]) \cap images] /\ got' = got /\ polling' = polling
    BY <1>7 DEF Report
  <2>2. \A e \in Devices : \A i \in installs'[e] : Owned(e, i)
    BY <2>1 DEF TInv, DeviceInv, OwnInv, HeldInv
  <2> QED BY <1>1, <1>3, <2>1, <2>2, StillOwned DEF OwnInv, HeldInv
<1>8. \/ UNCHANGED <<installs, got, polling>>
      \/ \E d \in Devices : StartPoll(d) \/ EndPoll(d) \/ Report(d)
  BY DEF UpdatesStep, UpdatesNext, DeletePreRun, WriteVar, LookUp, LookUpFails, DeleteCommit,
         DeleteRollback, PatchDevice, PatchApplication, Post, PostApp, LoseLink, ClientConnect,
         ClientDisconnect, deviceVars
<1> QED BY <1>2, <1>4, <1>5, <1>6, <1>7, <1>8 DEF OwnInv

(* The entries that a request adds are for its caller.                     *)
LEMMA TokenOwned ==
    ASSUME TInv, OwnInv, NEW c \in Callers, NEW s \in Scopes, Token(c, s.name, s.actions)
    PROVE  OwnInv'
<1> DEFINE n == s.name
<1> USE DEF TInv, OwnInv
<1>1. n \in Names
  BY DEF Names
<1> HIDE DEF n
<1>2. Token(c, n, s.actions)
  BY DEF n
<1>3. HeldInv'
  BY <1>2, HeldFrame DEF Token, deviceVars, dbVars
<1>4. been' = been
  BY <1>2 DEF Token
<1>5. ASSUME c \in Devices, n.kind = "v2", ReadAccess(c, n.image) = TRUE PROVE Owned(c, n.image)
  <2>1. n.image \in V2Images
    BY <1>1, <1>5, ScopeIs
  <2> QED BY <1>5, <2>1, AccessIsOwned DEF ReadAccess, ReadKey, Cached, CachedInv, HeldInv
<1>6. ASSUME c \in Devices, n.kind = "alias" PROVE \A i \in Located(c, n) : Owned(c, i)
  <2>1. n \in AliasScopes
    BY <1>1, <1>6, ScopeIs
  <2>2. \A i \in ImageLocation(c, n) : Owned(c, i)
    BY <1>6, AccessIsOwned DEF ImageLocation, HeldInv
  <2> QED BY <1>6, <2>1, <2>2 DEF Located, Cached, CachedInv
<1>7. CachedInv'
  <2>1. ASSUME NEW d \in Devices, NEW i \in V2Images,
               readCache'[<<d, i>>] # Unset, readCache'[<<d, i>>] = TRUE
        PROVE  Owned(d, i)
    <3>1. CASE readCache' = readCache
      BY <2>1, <3>1 DEF CachedInv
    <3>2. CASE n.kind = "v2" /\ readCache' = [readCache EXCEPT ![<<c, n.image>>] = ReadAccess(c, n.image)]
      <4>1. <<d, i>> \in DOMAIN readCache
        BY DEF CacheInv, Callers
      <4>2. CASE c = d /\ n.image = i
        BY <1>5, <2>1, <3>2, <4>1, <4>2
      <4>3. CASE ~ (c = d /\ n.image = i)
        BY <2>1, <3>2, <4>1, <4>3 DEF CachedInv
      <4> QED BY <4>2, <4>3
    <3> QED BY <1>2, <3>1, <3>2 DEF Token, ReadKey
  <2>2. ASSUME NEW d \in Devices, NEW t \in AliasScopes, aliasCache'[<<d, t>>] # Unset,
               NEW i \in aliasCache'[<<d, t>>]
        PROVE  Owned(d, i)
    <3>1. CASE aliasCache' = aliasCache
      BY <2>2, <3>1 DEF CachedInv
    <3>2. CASE n.kind = "alias" /\ aliasCache' = [aliasCache EXCEPT ![<<c, n>>] = Located(c, n)]
      <4>1. <<d, t>> \in DOMAIN aliasCache
        BY DEF CacheInv, Callers
      <4>2. CASE c = d /\ n = t
        BY <1>6, <2>2, <3>2, <4>1, <4>2
      <4>3. CASE ~ (c = d /\ n = t)
        BY <2>2, <3>2, <4>1, <4>3 DEF CachedInv
      <4> QED BY <4>2, <4>3
    <3> QED BY <1>2, <3>1, <3>2 DEF Token
  <2>3. \A d \in Devices : \A i : Owned(d, i) => Owned(d, i)'
    BY <1>4, StillOwned
  <2> QED BY <2>1, <2>2, <2>3 DEF CachedInv
<1>8. PullsOwnImages'
  <2>1. SUFFICES ASSUME token'.subject \in Devices, "pull" \in token'.actions, NEW i \in token'.image
                 PROVE  Owned(token'.subject, i)
    BY <1>4 DEF PullsOwnImages, Owned
  <2>2. token'.subject = Subject(c) /\ token'.image = About(c, n) /\ token'.actions = Granted(c, n, s.actions)
    BY <1>2 DEF Token
  <2>3. c = token'.subject /\ c \in Devices /\ c # Builder
    BY <2>1, <2>2, RegistryAssumption, TargetAssumption DEF Subject
  <2>4. CASE n.kind = "v2"
    <3>1. i = n.image
      BY <2>1, <2>2, <2>4 DEF About
    <3>2. "pull" \in ResolveAccess(c, n.image, s.actions)
      BY <2>1, <2>2, <2>3, <2>4 DEF Granted
    <3>3. ReadAccess(c, n.image)
      BY <3>2 DEF ResolveAccess
    <3>4. ReadAccess(c, n.image) \in BOOLEAN
      BY <1>1, <2>4, ScopeIs, LookupTypes
    <3> QED BY <1>5, <2>3, <2>4, <3>1, <3>3, <3>4
  <2>5. CASE n.kind = "alias"
    BY <1>6, <2>1, <2>2, <2>3, <2>5 DEF About
  <2>6. CASE n.kind # "v2" /\ n.kind # "alias"
    BY <2>1, <2>2, <2>6 DEF About
  <2> QED BY <2>4, <2>5, <2>6
<1> QED BY <1>3, <1>7, <1>8

LEMMA OwnNext == TInv /\ OwnInv /\ [Next]_vars => OwnInv'
<1> SUFFICES ASSUME TInv, OwnInv, [Next]_vars PROVE OwnInv'
  OBVIOUS
<1>1. ASSUME UNCHANGED <<been, got, polling, device, token, readCache, aliasCache>>,
             \A d \in Devices : installs'[d] \subseteq installs[d]
      PROVE  OwnInv'
  BY <1>1, HeldFrame, TokenFrame DEF OwnInv
<1>2. CASE UNCHANGED vars
  BY <1>1, <1>2 DEF vars, updateVars, registryVars, dbVars, deviceVars
<1>3. CASE Expire
  <2>1. HeldInv'
    BY <1>3, HeldFrame DEF Expire, updateVars, dbVars, deviceVars, OwnInv
  <2>2. been' = been /\ token' = token
    BY <1>3 DEF Expire
  <2>3. /\ \A k \in DOMAIN readCache : readCache'[k] \in {readCache[k], Unset}
        /\ \A k \in DOMAIN aliasCache : aliasCache'[k] \in {aliasCache[k], Unset}
    BY <1>3 DEF Expire
  <2>4. /\ \A d \in Devices, i \in V2Images : <<d, i>> \in DOMAIN readCache
        /\ \A d \in Devices, s \in AliasScopes : <<d, s>> \in DOMAIN aliasCache
    BY DEF TInv, CacheInv, Callers
  <2>5. CachedInv'
    BY <2>2, <2>3, <2>4 DEF OwnInv, CachedInv, Owned
  <2>6. PullsOwnImages'
    BY <2>2 DEF OwnInv, PullsOwnImages
  <2> QED BY <2>1, <2>5, <2>6 DEF OwnInv
<1>4. ASSUME NEW S \in Deletable, DeleteImages(S) PROVE OwnInv'
  BY <1>1, <1>4 DEF DeleteImages, cacheVars
<1>5. CASE TaskStep
  BY <1>1, <1>5 DEF TaskStep, StartTask, DeleteRepo, EndTask, TimeOut, FailTask, updateVars, dbVars,
                    deviceVars, cacheVars
<1> QED BY <1>2, <1>3, <1>4, <1>5, UpdatesOwned, TokenOwned, Steps

(* A token lets a device pull only images that it could read at some time. *)
THEOREM DevicesPullTheirImages == Spec => []PullsOwnImages
<1>1. Init => OwnInv
  <2> SUFFICES ASSUME Init PROVE OwnInv
    OBVIOUS
  <2>1. DbInv
    BY InitType DEF TInv
  <2>2. DOMAIN been = Devices /\ \A d \in Devices : device[d].app \in been[d]
    BY DEF Init
  <2>3. \A d \in Devices : \A i \in ImagesIn(Target(d)) : Owned(d, i)
    BY <2>1, <2>2, TargetIsOwned
  <2>4. \A d \in Devices : got[d] = Target(d) /\ polling[d] = {} /\ installs[d] = ImagesIn(Target(d))
    BY DEF Init, UpdatesInit
  <2>5. HeldInv
    BY <2>2, <2>3, <2>4 DEF HeldInv
  <2>6. /\ \A d \in Devices, i \in V2Images : readCache[<<d, i>>] = Unset
        /\ \A d \in Devices, s \in AliasScopes : aliasCache[<<d, s>>] = Unset
    BY DEF Init, Callers
  <2>7. token.image = {}
    BY DEF Init, NoToken
  <2> QED BY <2>5, <2>6, <2>7 DEF OwnInv, CachedInv, PullsOwnImages
<1>2. OwnInv => PullsOwnImages
  BY DEF OwnInv
<1> QED BY <1>1, <1>2, OwnNext, Types, PTL DEF Spec


-----------------------------------------------------------------------------
(* What a target state depends on. *)

VisibleReleases(db, d) ==
    {Visible(db, d, r) : r \in {ShouldBeRunning(db, d), db.device[d].managed, db.device[d].operated}}
        \ {Unset}

(* The services of an application in the states db and e of the tables,    *)
(* between which the row of the device has not changed.                    *)
Pair(db, e, d, a, f, g) ==
    \/ f = NoApps /\ g = NoApps
    \/ \E r \in VisibleReleases(db, d), isHost \in BOOLEAN : \E profiles, c, k :
         /\ a = AppOf[r] /\ (isHost => r = db.device[d].operated)
         /\ \/ c = NoConfig /\ k = NoConfig
            \/ c = Config(db, d, db.device[d].app) /\ k = Config(e, d, db.device[d].app)
         /\ f = BuildAppFromRelease(db, d, a, r, c, isHost, profiles)
         /\ g = BuildAppFromRelease(e, d, a, r, k, isHost, profiles)

SameRow(db, e, d) ==
    e.device[d] = db.device[d] /\ ShouldBeRunning(e, d) = ShouldBeRunning(db, d)

LEMMA SameVisible ==
    ASSUME NEW db, NEW e, NEW d, SameRow(db, e, d), NEW r
    PROVE  Visible(e, d, r) = Visible(db, d, r)
BY DEF SameRow, Visible, CanAccessRelease, CanAccessApp

MapsTo(db, e, d, m, n) == DOMAIN n = DOMAIN m /\ \A a \in DOMAIN m : Pair(db, e, d, a, m[a], n[a])

LEMMA PairOfApps ==
    ASSUME NEW db, NEW e, NEW d
    PROVE  /\ MapsTo(db, e, d, NoApps, NoApps)
           /\ \A a, f, g : Pair(db, e, d, a, f, g) => MapsTo(db, e, d, OneApp(a, f), OneApp(a, g))
<1>1. MapsTo(db, e, d, NoApps, NoApps)
  BY DEF MapsTo, NoApps
<1>2. ASSUME NEW a, NEW f, NEW g, Pair(db, e, d, a, f, g) PROVE MapsTo(db, e, d, OneApp(a, f), OneApp(a, g))
  <2>1. /\ DOMAIN OneApp(a, f) = {a} /\ OneApp(a, f)[a] = f
        /\ DOMAIN OneApp(a, g) = {a} /\ OneApp(a, g)[a] = g
    BY DEF OneApp
  <2> QED BY <1>2, <2>1 DEF MapsTo
<1> QED BY <1>1, <1>2

LEMMA Paired ==
    ASSUME NEW db, GoodDb(db), NEW e, NEW d \in Devices, SameRow(db, e, d)
    PROVE  LET st == StateV3(db, d).apps
               su == StateV3(e, d).apps
           IN  DOMAIN su = DOMAIN st /\ \A a \in DOMAIN st : Pair(db, e, d, a, st[a], su[a])
<1> DEFINE row == db.device[d]
           V(r) == Visible(db, d, r)
<1>1. e.device[d] = row /\ ShouldBeRunning(e, d) = ShouldBeRunning(db, d) /\ \A r : Visible(e, d, r) = V(r)
  BY SameVisible DEF SameRow
<1>2. \A r \in {ShouldBeRunning(db, d), row.managed, row.operated} : V(r) # Unset => V(r) \in VisibleReleases(db, d)
  BY DEF VisibleReleases
<1>5. ShouldBeRunning(db, d) \in Maybe(Releases) /\ (ShouldBeRunning(db, d) # Unset => AppOf[ShouldBeRunning(db, d)] = row.app)
  BY RowType
<1>6. \A r : V(r) \in {r, Unset}
  BY DEF Visible
<1> HIDE DEF V
<1>7. MapsTo(db, e, d, ManagedApp(db, d), ManagedApp(e, d))
  <2> DEFINE r == V(row.managed)
             B(x) == BuildAppFromRelease(x, d, AppOf[r], r, NoConfig, FALSE, {})
  <2>1. /\ ManagedApp(db, d) = IF r = Unset THEN NoApps ELSE OneApp(AppOf[r], B(db))
        /\ ManagedApp(e, d) = IF r = Unset THEN NoApps ELSE OneApp(AppOf[r], B(e))
    BY <1>1 DEF ManagedApp, V
  <2>2. r # Unset => Pair(db, e, d, AppOf[r], B(db), B(e))
    BY <1>2 DEF Pair
  <2> HIDE DEF r, B
  <2> QED BY <2>1, <2>2, PairOfApps
<1>8. MapsTo(db, e, d, OperatedApp(db, d), OperatedApp(e, d))
  <2> DEFINE r == V(row.operated)
             p == {x[1] : x \in {q \in ActiveProfiles[row.app] : q[2] = AppOf[r]}}
             B(x) == BuildAppFromRelease(x, d, AppOf[r], r, NoConfig, TRUE, p)
  <2>1. /\ OperatedApp(db, d) = IF r = Unset THEN NoApps ELSE OneApp(AppOf[r], B(db))
        /\ OperatedApp(e, d) = IF r = Unset THEN NoApps ELSE OneApp(AppOf[r], B(e))
    BY <1>1 DEF OperatedApp, V
  <2>2. r # Unset => Pair(db, e, d, AppOf[r], B(db), B(e))
    <3>1. r # Unset => r = row.operated /\ r \in VisibleReleases(db, d)
      BY <1>2, <1>6
    <3> HIDE DEF p, r
    <3> QED BY <3>1 DEF Pair
  <2> HIDE DEF r, B
  <2> QED BY <2>1, <2>2, PairOfApps
<1>9. MapsTo(db, e, d, UserApp(db, d), UserApp(e, d))
  <2> DEFINE r == V(ShouldBeRunning(db, d))
             a == row.app
             B(x) == BuildAppFromRelease(x, d, a, r, Config(x, d, a), FALSE, {})
  <2>1. /\ UserApp(db, d) = OneApp(a, IF r = Unset THEN NoApps ELSE B(db))
        /\ UserApp(e, d) = OneApp(a, IF r = Unset THEN NoApps ELSE B(e))
    BY <1>1 DEF UserApp, V
  <2>2. r # Unset => Pair(db, e, d, a, B(db), B(e))
    <3>1. r # Unset => r \in VisibleReleases(db, d) /\ AppOf[r] = a
      BY <1>2, <1>5, <1>6
    <3> HIDE DEF r
    <3> QED BY <3>1 DEF Pair
  <2>3. Pair(db, e, d, a, NoApps, NoApps)
    BY DEF Pair
  <2> HIDE DEF r, B, a
  <2> QED BY <2>1, <2>2, <2>3, PairOfApps
<1> DEFINE m == ManagedApp(db, d)
           o == OperatedApp(db, d)
           u == UserApp(db, d)
           m2 == ManagedApp(e, d)
           o2 == OperatedApp(e, d)
           u2 == UserApp(e, d)
           st == StateV3(db, d).apps
           su == StateV3(e, d).apps
<1>10. Overrides(st, m, o, u) /\ Overrides(su, m2, o2, u2)
  BY StateApps
<1>11. MapsTo(db, e, d, m, m2) /\ MapsTo(db, e, d, o, o2) /\ MapsTo(db, e, d, u, u2)
  BY <1>7, <1>8, <1>9
<1> HIDE DEF m, o, u, m2, o2, u2, st, su, row
<1>12. DOMAIN su = DOMAIN st
  BY <1>10, <1>11 DEF MapsTo, Overrides
<1>13. \A a \in DOMAIN st : Pair(db, e, d, a, st[a], su[a])
  BY <1>10, <1>11, <1>12 DEF MapsTo, Overrides
<1> QED BY <1>12, <1>13 DEF st, su

(* Services that are sent alike make the same application.                 *)
LEMMA SameBuild ==
    ASSUME NEW db, NEW e, NEW d, NEW a, NEW r \in Releases, NEW c, NEW k, NEW isHost, NEW profiles,
           Sent(e, r, profiles) = Sent(db, r, profiles),
           \A i \in Sent(db, r, profiles) :
             ServiceState(e, d, a, i, k, isHost) = ServiceState(db, d, a, i, c, isHost)
    PROVE  BuildAppFromRelease(e, d, a, r, k, isHost, profiles) =
           BuildAppFromRelease(db, d, a, r, c, isHost, profiles)
<1> DEFINE S == Sent(db, r, profiles)
           f == BuildAppFromRelease(db, d, a, r, c, isHost, profiles)
           g == BuildAppFromRelease(e, d, a, r, k, isHost, profiles)
           Of(i) == ServiceState(db, d, a, i, c, isHost)
<1>0. ServicesAre(f, db, d, a, r, c, isHost, profiles) /\ ServicesAre(g, e, d, a, r, k, isHost, profiles)
  BY BuildIs
<1> HIDE DEF f, g
<1>1. /\ f = [s \in DOMAIN f |-> f[s]]
      /\ \A s : s \in DOMAIN f <=> \E i \in S : s = ServiceOf[i]
      /\ \A i \in S : f[ServiceOf[i]] = Of(i)
  BY <1>0 DEF ServicesAre
<1>2. /\ g = [s \in DOMAIN g |-> g[s]]
      /\ \A s : s \in DOMAIN g <=> \E i \in S : s = ServiceOf[i]
      /\ \A i \in S : g[ServiceOf[i]] = Of(i)
  BY <1>0 DEF ServicesAre
<1> HIDE DEF S, Of
<1>3. DOMAIN f = DOMAIN g
  BY <1>1, <1>2
<1>4. \A s \in DOMAIN f : f[s] = g[s]
  BY <1>1, <1>2
<1>5. f = g
  BY <1>1, <1>2, <1>3, <1>4
<1> QED BY <1>5 DEF f, g


(* What the services of one application of a state depend on.              *)
SameServicesOf(db, e, d, a, r, isHost, profiles) ==
    /\ Sent(e, r, profiles) = Sent(db, r, profiles)
    /\ \A i \in Sent(db, r, profiles) :
         /\ Environment(e, d, a, i) = Environment(db, d, a, i)
         /\ isHost => UpdaterImages(e, d, a) = UpdaterImages(db, d, a)

(* An application that a state has, as it was built.                       *)
BuiltFrom(db, d, a, r, c, isHost, profiles) ==
    /\ a \in DOMAIN StateV3(db, d).apps
    /\ r \in VisibleReleases(db, d) /\ a = AppOf[r]
    /\ isHost => r = db.device[d].operated
    /\ StateV3(db, d).apps[a] = BuildAppFromRelease(db, d, a, r, c, isHost, profiles)

LEMMA VisibleAreReleases ==
    ASSUME NEW db, GoodDb(db), NEW d \in Devices, NEW r \in VisibleReleases(db, d)
    PROVE  r \in Releases
<1>1. \A x \in {ShouldBeRunning(db, d), db.device[d].managed, db.device[d].operated} : x \in Maybe(Releases)
  BY RowType
<1>2. PICK x \in {ShouldBeRunning(db, d), db.device[d].managed, db.device[d].operated} :
        r = Visible(db, d, x) /\ r # Unset
  BY DEF VisibleReleases
<1> QED BY <1>1, <1>2, VisibleIs

(* A state is as before when its configuration and its services are.       *)
LEMMA SameState ==
    ASSUME NEW db, GoodDb(db), NEW e, NEW d \in Devices, SameRow(db, e, d),
           Config(e, d, db.device[d].app) = Config(db, d, db.device[d].app),
           \A a, r, c, profiles : \A isHost \in BOOLEAN :
             BuiltFrom(db, d, a, r, c, isHost, profiles) =>
               SameServicesOf(db, e, d, a, r, isHost, profiles)
    PROVE  StateV3(e, d) = StateV3(db, d)
<1> DEFINE st == StateV3(db, d).apps
           su == StateV3(e, d).apps
           app == db.device[d].app
<1>1. DOMAIN su = DOMAIN st /\ \A a \in DOMAIN st : Pair(db, e, d, a, st[a], su[a])
  BY Paired
<1>2. ASSUME NEW a \in DOMAIN st PROVE su[a] = st[a]
  <2>1. CASE st[a] = NoApps /\ su[a] = NoApps
    BY <2>1
  <2>2. ASSUME NEW r \in VisibleReleases(db, d), NEW isHost \in BOOLEAN, NEW profiles, NEW c, NEW k,
               a = AppOf[r], isHost => r = db.device[d].operated,
               \/ c = NoConfig /\ k = NoConfig
               \/ c = Config(db, d, app) /\ k = Config(e, d, app),
               st[a] = BuildAppFromRelease(db, d, a, r, c, isHost, profiles),
               su[a] = BuildAppFromRelease(e, d, a, r, k, isHost, profiles)
        PROVE  su[a] = st[a]
    <3>1. BuiltFrom(db, d, a, r, c, isHost, profiles)
      BY <1>2, <2>2 DEF BuiltFrom
    <3>2. SameServicesOf(db, e, d, a, r, isHost, profiles)
      BY <3>1
    <3>3. c = k
      BY <2>2
    <3>4. \A i \in Sent(db, r, profiles) :
            ServiceState(e, d, a, i, k, isHost) = ServiceState(db, d, a, i, c, isHost)
      BY <3>2, <3>3 DEF SameServicesOf, ServiceState
    <3>5. r \in Releases
      BY VisibleAreReleases
    <3> HIDE DEF st, su
    <3> QED BY <2>2, <3>2, <3>4, <3>5, SameBuild DEF SameServicesOf
  <2>3. Pair(db, e, d, a, st[a], su[a])
    BY <1>1
  <2> HIDE DEF st, su
  <2> QED BY <2>1, <2>2, <2>3 DEF Pair
<1>3. e.device[d].app = app /\ Visible(e, d, ShouldBeRunning(e, d)) = Visible(db, d, ShouldBeRunning(db, d))
  BY SameVisible DEF SameRow
<1>4. /\ StateV3(db, d) = [config |-> Config(db, d, app),
                           release |-> Visible(db, d, ShouldBeRunning(db, d)), apps |-> st]
      /\ st = [a \in DOMAIN st |-> st[a]]
  BY DEF StateV3
<1>5. /\ StateV3(e, d) = [config |-> Config(e, d, e.device[d].app),
                          release |-> Visible(e, d, ShouldBeRunning(e, d)), apps |-> su]
      /\ su = [a \in DOMAIN su |-> su[a]]
  BY DEF StateV3
<1> HIDE DEF st, su, app
<1>6. su = st
  BY <1>1, <1>2, <1>4, <1>5
<1> QED BY <1>3, <1>4, <1>5, <1>6 DEF app

(* An image that is sent is in the state, with that of the updater.        *)
SentIn(st, i, isHost, updater) == i \in ImagesIn(st) /\ (isHost => updater \subseteq ImagesIn(st))

LEMMA SentIsUsed ==
    ASSUME NEW db, GoodDb(db), NEW d \in Devices, NEW a, NEW r, NEW c, NEW isHost \in BOOLEAN, NEW profiles,
           BuiltFrom(db, d, a, r, c, isHost, profiles), NEW i \in Sent(db, r, profiles)
    PROVE  LET f == StateV3(db, d).apps[a]
           IN  /\ ServiceOf[i] \in DOMAIN f /\ f[ServiceOf[i]].image = i
               /\ isHost => f[ServiceOf[i]].updater = UpdaterImages(db, d, a)
               /\ SentIn(StateV3(db, d), i, isHost, UpdaterImages(db, d, a))
<1> DEFINE st == StateV3(db, d)
           f == st.apps[a]
           s == ServiceOf[i]
<1>1. r \in Releases
  BY VisibleAreReleases DEF BuiltFrom
<1>2. f = BuildAppFromRelease(db, d, a, r, c, isHost, profiles)
  BY DEF BuiltFrom
<1>3. ServicesAre(f, db, d, a, r, c, isHost, profiles)
  BY <1>1, <1>2, BuildIs
<1> HIDE DEF f
<1>4. s \in DOMAIN f /\ f[s] = ServiceState(db, d, a, i, c, isHost)
  BY <1>3 DEF ServicesAre
<1>5. f[s].image = i /\ (isHost => f[s].updater = UpdaterImages(db, d, a))
  BY <1>4 DEF ServiceState
<1>6. a \in DOMAIN st.apps
  BY DEF BuiltFrom
<1>7. \A j \in {f[s].image} \cup f[s].updater : j \in ImagesIn(st)
  <2> HIDE DEF st
  <2> QED BY <1>4, <1>6 DEF ImagesIn, f
<1>8. SentIn(st, i, isHost, UpdaterImages(db, d, a))
  BY <1>5, <1>7 DEF SentIn
<1> QED BY <1>4, <1>5, <1>8 DEF f

LEMMA SentIsIn ==
    ASSUME NEW db, GoodDb(db), NEW d \in Devices, NEW a, NEW r, NEW c, NEW isHost \in BOOLEAN, NEW profiles,
           BuiltFrom(db, d, a, r, c, isHost, profiles), NEW i \in Sent(db, r, profiles)
    PROVE  SentIn(StateV3(db, d), i, isHost, UpdaterImages(db, d, a))
BY SentIsUsed


LEMMA ServiceIsBuilt ==
    ASSUME NEW db, GoodDb(db), NEW d \in Devices, NEW a \in DOMAIN StateV3(db, d).apps,
           NEW s \in DOMAIN StateV3(db, d).apps[a]
    PROVE  \E r \in VisibleReleases(db, d) : \E i \in ImagesOf[r] \cap db.images :
             a = AppOf[r] /\ s = ServiceOf[i] /\ StateV3(db, d).apps[a][s].image = i
<1> DEFINE f == StateV3(db, d).apps[a]
<1>1. Pair(db, db, d, a, f, f)
  BY Paired DEF SameRow
<1>2. f # NoApps
  BY DEF NoApps
<1> HIDE DEF f
<1>3. PICK r \in VisibleReleases(db, d), isHost \in BOOLEAN : \E profiles, c :
        a = AppOf[r] /\ f = BuildAppFromRelease(db, d, a, r, c, isHost, profiles)
  BY <1>1, <1>2 DEF Pair
<1>4. PICK profiles, c : a = AppOf[r] /\ f = BuildAppFromRelease(db, d, a, r, c, isHost, profiles)
  BY <1>3
<1>5. ServicesAre(f, db, d, a, r, c, isHost, profiles)
  BY <1>4, BuildIs, VisibleAreReleases
<1>6. PICK i \in Sent(db, r, profiles) : s = ServiceOf[i] /\ f[s] = ServiceState(db, d, a, i, c, isHost)
  BY <1>5 DEF ServicesAre, f
<1>7. f[s].image = i
  BY <1>6 DEF ServiceState
<1>8. i \in ImagesOf[r] \cap db.images
  BY DEF Sent
<1> QED BY <1>4, <1>6, <1>7, <1>8 DEF f

-----------------------------------------------------------------------------
(* The devices a change concerns. *)

(* The variable goes into the state of the device.                         *)
Uses(d, k) ==
    LET apps == Target(d).apps
    IN  \E a \in DOMAIN apps : \E s \in DOMAIN apps[a] :
            k \in {AppVar(a), ServiceVar(s), ImageVar(apps[a][s].image)}

Concerned(d, k) ==
    \/ /\ k[1] \in {"device_environment_variable", "device_config_variable",
                    "device_service_environment_variable"}
       /\ k[2] = d
    \/ /\ k[1] \in {"application_environment_variable", "application_config_variable"}
       /\ k[2] = device[d].app
    \/ Uses(d, k)

(* Whom a variable concerns its hook tells, or is known to leave out.      *)
LEMMA ConcernedAreAffected ==
    ASSUME DbInv, NEW d \in Devices, NEW k \in Keys, Concerned(d, k)
    PROVE  d \in Affected(k) \cup NotAffected(k)
<1>1. CASE /\ k[1] \in {"device_environment_variable", "device_config_variable",
                        "device_service_environment_variable"}
           /\ k[2] = d
  BY <1>1 DEF Affected
<1>2. CASE /\ k[1] \in {"application_environment_variable", "application_config_variable"}
           /\ k[2] = device[d].app
  BY <1>2 DEF Affected
<1>3. CASE Uses(d, k)
  <2> DEFINE apps == StateV3(Db, d).apps
  <2>1. PICK a \in DOMAIN apps : \E s \in DOMAIN apps[a] :
          k \in {AppVar(a), ServiceVar(s), ImageVar(apps[a][s].image)}
    BY <1>3 DEF Uses, Target
  <2>2. PICK s \in DOMAIN apps[a] : k \in {AppVar(a), ServiceVar(s), ImageVar(apps[a][s].image)}
    BY <2>1
  <2>3. PICK r \in VisibleReleases(Db, d) : \E i \in ImagesOf[r] \cap Db.images :
          a = AppOf[r] /\ s = ServiceOf[i] /\ apps[a][s].image = i
    BY ServiceIsBuilt DEF DbInv
  <2>4. r \in TargetReleases(d)
    BY DbIs DEF VisibleReleases, TargetReleases
  <2> HIDE DEF apps
  <2>5. Reads(d, k)
    BY <2>2, <2>3, <2>4, DbIs DEF Reads
  <2> QED BY <2>5 DEF NotAffected
<1> QED BY <1>1, <1>2, <1>3 DEF Concerned

LEMMA NewDbIs ==
    Db'.device = device' /\ Db'.target = target' /\ Db'.var = var' /\ Db'.images = images'
BY DEF Db

(* A variable that does not concern a device leaves its state as it is.    *)
LEMMA VarFrame ==
    ASSUME DbInv, NEW d \in Devices, NEW k \in Keys, NEW v, ~Concerned(d, k),
           var' = [var EXCEPT ![k] = v], UNCHANGED <<device, target, images>>
    PROVE  Target(d)' = Target(d)
<1> DEFINE app == device[d].app
<1>1. SameRow(Db, Db', d)
  BY DbIs, NewDbIs DEF SameRow, ShouldBeRunning
<1>2. app \in Apps /\ DOMAIN var = Keys
  BY RowType, DbIs DEF DbInv
<1>3. \A x \in Keys : x # k => var'[x] = var[x]
  BY <1>2
<1>4. Config(Db', d, app) = Config(Db, d, app)
  <2>1. \A n \in ConfigNames : DeviceConfig(d, n) \in Keys /\ AppConfig(app, n) \in Keys
    BY <1>2 DEF Keys
  <2>2. \A n \in ConfigNames : DeviceConfig(d, n) # k /\ AppConfig(app, n) # k
    BY DEF Concerned, DeviceConfig, AppConfig
  <2>3. /\ var'[DeviceConfig(d, UpdateStrategy)] = var[DeviceConfig(d, UpdateStrategy)]
        /\ var'[DeviceConfig(d, PollInterval)] = var[DeviceConfig(d, PollInterval)]
        /\ var'[AppConfig(app, UpdateStrategy)] = var[AppConfig(app, UpdateStrategy)]
        /\ var'[AppConfig(app, PollInterval)] = var[AppConfig(app, PollInterval)]
    BY <1>3, <2>1, <2>2 DEF ConfigNames
  <2> QED BY <2>3, DbIs, NewDbIs DEF Config
<1>5. ASSUME NEW a, NEW r, NEW c, NEW profiles, NEW isHost \in BOOLEAN,
             BuiltFrom(Db, d, a, r, c, isHost, profiles)
      PROVE  SameServicesOf(Db, Db', d, a, r, isHost, profiles)
  <2>1. Sent(Db', r, profiles) = Sent(Db, r, profiles)
    BY DbIs, NewDbIs DEF Sent
  <2>2. UpdaterImages(Db', d, a) = UpdaterImages(Db, d, a)
    BY DbIs, NewDbIs DEF UpdaterImages, CanAccessApp
  <2>3. r \in Releases /\ a = AppOf[r] /\ a \in Apps
    BY <1>5, VisibleAreReleases, TargetAssumption DEF BuiltFrom, DbInv
  <2>4. ASSUME NEW i \in Sent(Db, r, profiles)
        PROVE  Environment(Db', d, a, i) = Environment(Db, d, a, i)
    <3> DEFINE s == ServiceOf[i]
               f == Target(d).apps[a]
    <3>1. i \in Images /\ s \in Services
      BY DbIs, TargetAssumption DEF Sent, DbInv, GoodDb
    <3>2. a \in DOMAIN Target(d).apps /\ s \in DOMAIN f /\ f[s].image = i
      BY <1>5, <2>4, SentIsUsed DEF Target, BuiltFrom, DbInv
    <3>3. k # AppVar(a) /\ k # ServiceVar(s) /\ k # ImageVar(i)
      BY <3>2 DEF Concerned, Uses
    <3>4. k # DeviceVar(d) /\ k # DeviceServiceVar(d, s)
      BY DEF Concerned, DeviceVar, DeviceServiceVar
    <3>5. /\ AppVar(a) \in Keys /\ ServiceVar(s) \in Keys /\ ImageVar(i) \in Keys
          /\ DeviceVar(d) \in Keys /\ DeviceServiceVar(d, s) \in Keys
      BY <2>3, <3>1 DEF Keys
    <3>6. /\ var'[AppVar(a)] = var[AppVar(a)] /\ var'[ServiceVar(s)] = var[ServiceVar(s)]
          /\ var'[ImageVar(i)] = var[ImageVar(i)] /\ var'[DeviceVar(d)] = var[DeviceVar(d)]
          /\ var'[DeviceServiceVar(d, s)] = var[DeviceServiceVar(d, s)]
      BY <1>3, <3>3, <3>4, <3>5
    <3> QED BY <3>6, DbIs, NewDbIs DEF Environment
  <2> QED BY <2>1, <2>2, <2>4 DEF SameServicesOf
<1>6. StateV3(Db', d) = StateV3(Db, d)
  <2>1. Db.device[d].app = app /\ GoodDb(Db)
    BY DbIs DEF DbInv
  <2> QED BY <1>1, <1>4, <1>5, <2>1, SameState
<1> QED BY <1>6 DEF Target


(* A write changes values only, so whom it concerns it still concerns.     *)
LEMMA StillConcerned ==
    ASSUME DbInv, NEW d \in Devices, NEW k, UNCHANGED <<device, target, images>>, Concerned(d, k)
    PROVE  Concerned(d, k)'
<1> SUFFICES ASSUME Uses(d, k) PROVE Uses(d, k)'
  BY DEF Concerned
<1> DEFINE st == StateV3(Db, d).apps
           su == StateV3(Db', d).apps
<1>1. PICK a \in DOMAIN st : \E s \in DOMAIN st[a] : k \in {AppVar(a), ServiceVar(s), ImageVar(st[a][s].image)}
  BY DEF Uses, Target
<1>2. PICK s \in DOMAIN st[a] : k \in {AppVar(a), ServiceVar(s), ImageVar(st[a][s].image)}
  BY <1>1
<1>3. SameRow(Db, Db', d)
  BY DbIs, NewDbIs DEF SameRow, ShouldBeRunning
<1>4. DOMAIN su = DOMAIN st /\ Pair(Db, Db', d, a, st[a], su[a])
  BY <1>3, Paired DEF DbInv
<1> DEFINE f == st[a]
           g == su[a]
<1>5. f # NoApps
  BY <1>2 DEF NoApps
<1>6. g = su[a] /\ f = st[a] /\ s \in DOMAIN f
  OBVIOUS
<1> HIDE DEF f, g, st, su
<1>7. PICK r \in VisibleReleases(Db, d), isHost \in BOOLEAN : \E profiles, c, x :
        /\ f = BuildAppFromRelease(Db, d, a, r, c, isHost, profiles)
        /\ g = BuildAppFromRelease(Db', d, a, r, x, isHost, profiles)
  BY <1>4, <1>5, <1>6 DEF Pair
<1>8. PICK profiles, c, x :
        /\ f = BuildAppFromRelease(Db, d, a, r, c, isHost, profiles)
        /\ g = BuildAppFromRelease(Db', d, a, r, x, isHost, profiles)
  BY <1>7
<1>9. r \in Releases
  BY VisibleAreReleases DEF DbInv
<1>10. ServicesAre(f, Db, d, a, r, c, isHost, profiles) /\ ServicesAre(g, Db', d, a, r, x, isHost, profiles)
  BY <1>8, <1>9, BuildIs
<1>11. Sent(Db', r, profiles) = Sent(Db, r, profiles)
  BY DbIs, NewDbIs DEF Sent
<1>12. PICK i \in Sent(Db, r, profiles) : s = ServiceOf[i] /\ f[s] = ServiceState(Db, d, a, i, c, isHost)
  BY <1>6, <1>10 DEF ServicesAre
<1>13. s \in DOMAIN g /\ g[s] = ServiceState(Db', d, a, i, x, isHost)
  BY <1>10, <1>11, <1>12 DEF ServicesAre
<1>14. f[s].image = i /\ g[s].image = i
  BY <1>12, <1>13 DEF ServiceState
<1> QED BY <1>2, <1>4, <1>6, <1>13, <1>14 DEF Uses, Target, su

(* The state of a device depends on no other device.                       *)
LEMMA OtherDeviceFrame ==
    ASSUME DbInv, NEW d \in Devices, device'[d] = device[d], UNCHANGED <<target, var, images>>
    PROVE  Target(d)' = Target(d)
<1>1. SameRow(Db, Db', d)
  BY DbIs, NewDbIs DEF SameRow, ShouldBeRunning
<1>2. \A a : Config(Db', d, a) = Config(Db, d, a)
  BY DbIs, NewDbIs DEF Config
<1>3. ASSUME NEW a, NEW r, NEW profiles, NEW isHost
      PROVE  SameServicesOf(Db, Db', d, a, r, isHost, profiles)
  <2>1. Sent(Db', r, profiles) = Sent(Db, r, profiles)
    BY DbIs, NewDbIs DEF Sent
  <2>2. UpdaterImages(Db', d, a) = UpdaterImages(Db, d, a)
    BY DbIs, NewDbIs DEF UpdaterImages, CanAccessApp
  <2>3. \A i : Environment(Db', d, a, i) = Environment(Db, d, a, i)
    BY DbIs, NewDbIs DEF Environment
  <2> QED BY <2>1, <2>2, <2>3 DEF SameServicesOf
<1>4. StateV3(Db', d) = StateV3(Db, d)
  BY <1>1, <1>2, <1>3, SameState DEF DbInv
<1> QED BY <1>4 DEF Target

(* The target of an application reaches the devices that follow it, and    *)
(* those whose host application it updates.                                *)
LEMMA ApplicationFrame ==
    ASSUME DbInv, NEW d \in Devices, NEW q \in Releases,
           target' = [target EXCEPT ![AppOf[q]] = q], UNCHANGED <<device, var, images>>,
           d \notin Followers(AppOf[q]), d \notin UpdatedWith(AppOf[q])
    PROVE  Target(d)' = Target(d)
<1>0. device[d].app \in Apps /\ target \in [Apps -> Maybe(Releases)]
  BY RowType, DbIs DEF DbInv, GoodDb
<1>1. SameRow(Db, Db', d)
  BY <1>0, DbIs, NewDbIs DEF SameRow, ShouldBeRunning, Followers
<1>2. \A a : Config(Db', d, a) = Config(Db, d, a)
  BY DbIs, NewDbIs DEF Config
<1>3. ASSUME NEW a, NEW r, NEW c, NEW profiles, NEW isHost \in BOOLEAN,
             BuiltFrom(Db, d, a, r, c, isHost, profiles)
      PROVE  SameServicesOf(Db, Db', d, a, r, isHost, profiles)
  <2>1. Sent(Db', r, profiles) = Sent(Db, r, profiles)
    BY DbIs, NewDbIs DEF Sent
  <2>2. \A i : Environment(Db', d, a, i) = Environment(Db, d, a, i)
    BY DbIs, NewDbIs DEF Environment
  <2>3. ASSUME isHost PROVE UpdaterImages(Db', d, a) = UpdaterImages(Db, d, a)
    <3>1. r \in Releases
      BY <1>3, VisibleAreReleases DEF BuiltFrom, DbInv
    <3>2. r = device[d].operated /\ r # Unset /\ a = AppOf[r]
      BY <1>3, <2>3, <3>1, DbIs, TargetAssumption DEF BuiltFrom
    <3>3. UpdatedBy[a] # AppOf[q]
      BY <3>2 DEF UpdatedWith
    <3>4. UpdatedBy[a] \in Maybe(Apps)
      BY <3>1, <3>2, TargetAssumption
    <3>5. UpdatedBy[a] # Unset => target'[UpdatedBy[a]] = target[UpdatedBy[a]]
      BY <1>0, <3>3, <3>4 DEF Maybe
    <3> QED BY <3>5, DbIs, NewDbIs DEF UpdaterImages, CanAccessApp
  <2> QED BY <2>1, <2>2, <2>3 DEF SameServicesOf
<1>4. StateV3(Db', d) = StateV3(Db, d)
  BY <1>1, <1>2, <1>3, SameState DEF DbInv
<1> QED BY <1>4 DEF Target

(* Deleting images that a device is not sent leaves its state as it is.    *)
LEMMA DeleteFrame ==
    ASSUME DbInv, NEW d \in Devices, NEW S, images' = images \ S, UNCHANGED <<device, target, var>>,
           ImagesIn(Target(d)) \cap S = {}
    PROVE  Target(d)' = Target(d)
<1>1. SameRow(Db, Db', d)
  BY DbIs, NewDbIs DEF SameRow, ShouldBeRunning
<1>2. \A a : Config(Db', d, a) = Config(Db, d, a)
  BY DbIs, NewDbIs DEF Config
<1>3. ASSUME NEW a, NEW r, NEW c, NEW profiles, NEW isHost \in BOOLEAN,
             BuiltFrom(Db, d, a, r, c, isHost, profiles)
      PROVE  SameServicesOf(Db, Db', d, a, r, isHost, profiles)
  <2>1. \A i \in Sent(Db, r, profiles) :
          i \notin S /\ (isHost => UpdaterImages(Db, d, a) \cap S = {})
    <3> TAKE i \in Sent(Db, r, profiles)
    <3>1. GoodDb(Db)
      BY DEF DbInv
    <3>2. SentIn(StateV3(Db, d), i, isHost, UpdaterImages(Db, d, a))
      BY <1>3, <3>1, SentIsIn
    <3>3. ImagesIn(StateV3(Db, d)) \cap S = {}
      BY DEF Target
    <3> QED BY <3>2, <3>3 DEF SentIn
  <2>2. Sent(Db', r, profiles) = Sent(Db, r, profiles) \ S
    BY DbIs, NewDbIs DEF Sent
  <2>3. UpdaterImages(Db', d, a) = UpdaterImages(Db, d, a) \ S
    BY DbIs, NewDbIs DEF UpdaterImages, CanAccessApp
  <2>4. \A i : Environment(Db', d, a, i) = Environment(Db, d, a, i)
    BY DbIs, NewDbIs DEF Environment
  <2>5. Sent(Db', r, profiles) = Sent(Db, r, profiles)
    BY <2>1, <2>2
  <2>6. \A i \in Sent(Db, r, profiles) : isHost => UpdaterImages(Db', d, a) = UpdaterImages(Db, d, a)
    BY <2>1, <2>3
  <2> QED BY <2>4, <2>5, <2>6 DEF SameServicesOf
<1>4. StateV3(Db', d) = StateV3(Db, d)
  BY <1>1, <1>2, <1>3, SameState DEF DbInv
<1> QED BY <1>4 DEF Target


-----------------------------------------------------------------------------
(* Devices learn that their state has changed. *)

(* What a device has, or is being sent, is its target state.               *)
Fresh(d) == IF polling[d] = {} THEN got[d] = Target(d) ELSE polling[d] = {Target(d)}

(* A request that is going to tell the device, or to miss it.              *)
Covers(q, d) ==
    \/ work[q].phase = "lookup" /\ Concerned(d, work[q].key)
    \/ work[q].phase = "post" /\ d \in work[q].devices
    \/ work[q].phase = "postApp" /\ d \in Followers(work[q].app)

Announced(d) == d \in told \cup missed \/ \E q \in Requests : Covers(q, d)

FreshInv == \A d \in Devices : Fresh(d) \/ Announced(d)

(* A device that nothing happens to.                                       *)
LEMMA CoverFrame ==
    ASSUME NEW d \in Devices, NEW q, work'[q] = work[q], Covers(q, d),
           device'[d] = device[d], Target(d)' = Target(d)
    PROVE  Covers(q, d)'
<1>1. \A k : Concerned(d, k)' = Concerned(d, k)
  BY DEF Concerned, Uses
<1>2. \A a : d \in Followers(a)' <=> d \in Followers(a)
  BY DEF Followers
<1> QED BY <1>1, <1>2 DEF Covers

LEMMA FreshFrame ==
    ASSUME NEW d \in Devices, Fresh(d) \/ Announced(d),
           device'[d] = device[d], Target(d)' = Target(d), got'[d] = got[d], polling'[d] = polling[d],
           d \in told \cup missed => d \in told' \cup missed',
           \A q \in Requests : Covers(q, d) => work'[q] = work[q] \/ d \in told' \cup missed' \/ Covers(q, d)'
    PROVE  Fresh(d)' \/ Announced(d)'
<1>1. Fresh(d) => Fresh(d)'
  BY DEF Fresh
<1>2. Announced(d) => Announced(d)'
  BY CoverFrame DEF Announced
<1> QED BY <1>1, <1>2

(* Requests. *)
LEMMA WriteFresh ==
    ASSUME TInv, FreshInv, NEW q \in Requests, NEW k \in VarKeys, NEW v, WriteVar(q, k, v)
    PROVE  FreshInv'
<1> SUFFICES ASSUME NEW d \in Devices PROVE Fresh(d)' \/ Announced(d)'
  BY DEF FreshInv
<1>1. /\ work[q] = Idle /\ var' = [var EXCEPT ![k] = v]
      /\ work' = [work EXCEPT ![q] = [phase |-> "lookup", key |-> k]]
      /\ UNCHANGED <<device, target, images, got, polling, told, missed>>
  BY DEF WriteVar, deviceVars
<1>2. k \in Keys /\ DbInv /\ DOMAIN work = Requests
  BY UpdatesAssumption DEF TInv, WorkInv
<1>3. CASE Concerned(d, k)
  <2>1. Concerned(d, k)'
    BY <1>1, <1>2, <1>3, StillConcerned
  <2>2. work'[q].phase = "lookup" /\ work'[q].key = k
    BY <1>1, <1>2
  <2> QED BY <2>1, <2>2 DEF Announced, Covers
<1>4. CASE ~Concerned(d, k)
  <2>1. Target(d)' = Target(d)
    BY <1>1, <1>2, <1>4, VarFrame
  <2>2. ~Covers(q, d)
    BY <1>1 DEF Covers, Idle
  <2>3. \A p \in Requests : p # q => work'[p] = work[p]
    BY <1>1, <1>2
  <2> QED BY <1>1, <2>1, <2>2, <2>3, FreshFrame DEF FreshInv
<1> QED BY <1>3, <1>4

LEMMA PreRunFresh ==
    ASSUME TInv, FreshInv, NEW q \in Requests, NEW k, DeletePreRun(q, k) \/ DeleteRollback(q)
    PROVE  FreshInv'
<1> SUFFICES ASSUME NEW d \in Devices PROVE Fresh(d)' \/ Announced(d)'
  BY DEF FreshInv
<1>1. UNCHANGED <<dbVars, got, polling, told, missed>>
  BY DEF DeletePreRun, DeleteRollback, deviceVars
<1>2. DOMAIN work = Requests
  BY DEF TInv, WorkInv
<1>3. ~Covers(q, d) /\ \A p \in Requests : p # q => work'[p] = work[p]
  BY <1>2 DEF DeletePreRun, DeleteRollback, Covers, Idle
<1>4. Db' = Db /\ device' = device
  BY <1>1 DEF Db, dbVars
<1>5. Target(d)' = Target(d)
  BY <1>4 DEF Target
<1> QED BY <1>1, <1>3, <1>4, <1>5, FreshFrame DEF FreshInv

LEMMA LookUpFresh ==
    ASSUME TInv, FreshInv, NEW q \in Requests, LookUp(q) \/ LookUpFails(q)
    PROVE  FreshInv'
<1> SUFFICES ASSUME NEW d \in Devices PROVE Fresh(d)' \/ Announced(d)'
  BY DEF FreshInv
<1> DEFINE k == work[q].key
<1>1. UNCHANGED <<dbVars, got, polling, told>> /\ missed \subseteq missed' /\ work[q].phase = "lookup"
  BY DEF LookUp, LookUpFails, deviceVars
<1>2. DOMAIN work = Requests /\ k \in Keys /\ DbInv
  BY <1>1, WorkIs DEF TInv, WorkInv
<1>3. \A p \in Requests : p # q => work'[p] = work[p]
  BY <1>2 DEF LookUp, LookUpFails
<1>4. Db' = Db /\ device' = device
  BY <1>1 DEF Db, dbVars
<1>5. Target(d)' = Target(d)
  BY <1>4 DEF Target
<1>6. Covers(q, d) => d \in missed' \/ Covers(q, d)'
  <2> SUFFICES ASSUME Covers(q, d) PROVE d \in missed' \/ Covers(q, d)'
    OBVIOUS
  <2>1. d \in Affected(k) \cup NotAffected(k)
    BY <1>1, <1>2, ConcernedAreAffected DEF Covers
  <2>2. CASE LookUp(q)
    <3>1. work'[q] = [phase |-> "post", devices |-> Affected(k)] /\ missed' = missed \cup NotAffected(k)
      BY <1>2, <2>2 DEF LookUp
    <3>2. work'[q].phase = "post" /\ work'[q].devices = Affected(k)
      BY <3>1
    <3> QED BY <2>1, <3>1, <3>2 DEF Covers
  <2>3. CASE LookUpFails(q)
    BY <2>1, <2>3 DEF LookUpFails
  <2> QED BY <2>2, <2>3
<1> QED BY <1>1, <1>3, <1>4, <1>5, <1>6, FreshFrame DEF FreshInv

LEMMA DeleteCommitFresh ==
    ASSUME TInv, FreshInv, NEW q \in Requests, DeleteCommit(q)
    PROVE  FreshInv'
<1> SUFFICES ASSUME NEW d \in Devices PROVE Fresh(d)' \/ Announced(d)'
  BY DEF FreshInv
<1> DEFINE k == work[q].key
           D == work[q].devices
<1>1. /\ UNCHANGED <<device, target, images, got, polling, told>> /\ work[q].phase = "delete"
      /\ var' = [var EXCEPT ![k] = Unset] /\ missed' = missed \cup (Affected(k) \ D) \cup NotAffected(k)
      /\ work' = [work EXCEPT ![q] = [phase |-> "post", devices |-> D]]
  BY DEF DeleteCommit, deviceVars
<1>2. DOMAIN work = Requests /\ k \in Keys /\ DbInv
  BY <1>1, WorkIs DEF TInv, WorkInv
<1>3. CASE Concerned(d, k)
  <2>1. d \in Affected(k) \cup NotAffected(k)
    BY <1>2, <1>3, ConcernedAreAffected
  <2>2. work'[q].phase = "post" /\ work'[q].devices = D
    BY <1>1, <1>2
  <2> QED BY <1>1, <2>1, <2>2 DEF Announced, Covers
<1>4. CASE ~Concerned(d, k)
  <2>1. Target(d)' = Target(d)
    BY <1>1, <1>2, <1>4, VarFrame
  <2>2. ~Covers(q, d)
    BY <1>1 DEF Covers
  <2>3. \A p \in Requests : p # q => work'[p] = work[p]
    BY <1>1, <1>2
  <2> QED BY <1>1, <2>1, <2>2, <2>3, FreshFrame DEF FreshInv
<1> QED BY <1>3, <1>4

LEMMA PatchDeviceFresh ==
    ASSUME TInv, FreshInv, NEW q \in Requests, NEW e \in Devices, NEW p, PatchDevice(q, e, p)
    PROVE  FreshInv'
<1> SUFFICES ASSUME NEW d \in Devices PROVE Fresh(d)' \/ Announced(d)'
  BY DEF FreshInv
<1>1. /\ work[q] = Idle /\ work' = [work EXCEPT ![q] = [phase |-> "post", devices |-> {e}]]
      /\ device' = [device EXCEPT ![e].app = p.app, ![e].pin = p.pin]
      /\ UNCHANGED <<target, var, images, got, polling, told, missed>>
  BY DEF PatchDevice
<1>2. DOMAIN work = Requests /\ DbInv
  BY DEF TInv, WorkInv
<1>3. CASE d = e
  <2>1. work'[q].phase = "post" /\ work'[q].devices = {e}
    BY <1>1, <1>2
  <2> QED BY <1>3, <2>1 DEF Announced, Covers
<1>4. CASE d # e
  <2>1. device'[d] = device[d]
    BY <1>1, <1>2, <1>4, DbIs DEF DbInv, GoodDb
  <2>2. Target(d)' = Target(d)
    BY <1>1, <1>2, <2>1, OtherDeviceFrame
  <2>3. ~Covers(q, d)
    BY <1>1 DEF Covers, Idle
  <2>4. \A x \in Requests : x # q => work'[x] = work[x]
    BY <1>1, <1>2
  <2> QED BY <1>1, <2>1, <2>2, <2>3, <2>4, FreshFrame DEF FreshInv
<1> QED BY <1>3, <1>4

LEMMA PatchApplicationFresh ==
    ASSUME TInv, FreshInv, NEW q \in Requests, NEW r \in Releases, PatchApplication(q, r)
    PROVE  FreshInv'
<1> SUFFICES ASSUME NEW d \in Devices PROVE Fresh(d)' \/ Announced(d)'
  BY DEF FreshInv
<1> DEFINE a == AppOf[r]
<1>1. /\ work[q] = Idle /\ work' = [work EXCEPT ![q] = [phase |-> "postApp", app |-> a, release |-> r]]
      /\ target' = [target EXCEPT ![a] = r] /\ missed' = missed \cup UpdatedWith(a)
      /\ UNCHANGED <<device, var, images, got, polling, told>>
  BY DEF PatchApplication, deviceVars
<1>2. DOMAIN work = Requests /\ DbInv
  BY DEF TInv, WorkInv
<1>3. CASE d \in Followers(a)
  <2>1. work'[q].phase = "postApp" /\ work'[q].app = a
    BY <1>1, <1>2
  <2>2. d \in Followers(a)'
    BY <1>1, <1>3 DEF Followers
  <2> QED BY <2>1, <2>2 DEF Announced, Covers
<1>4. CASE d \in UpdatedWith(a)
  BY <1>1, <1>4 DEF Announced
<1>5. CASE d \notin Followers(a) /\ d \notin UpdatedWith(a)
  <2>1. Target(d)' = Target(d)
    BY <1>1, <1>2, <1>5, ApplicationFrame
  <2>2. ~Covers(q, d)
    BY <1>1 DEF Covers, Idle
  <2>3. \A x \in Requests : x # q => work'[x] = work[x]
    BY <1>1, <1>2
  <2> QED BY <1>1, <2>1, <2>2, <2>3, FreshFrame DEF FreshInv
<1> QED BY <1>3, <1>4, <1>5


(* Whoever is to be told is reached, or else is missed.                    *)
LEMMA PostFresh ==
    ASSUME TInv, FreshInv, NEW q \in Requests, NEW lost, Post(q, lost) \/ PostApp(q, lost)
    PROVE  FreshInv'
<1> SUFFICES ASSUME NEW d \in Devices PROVE Fresh(d)' \/ Announced(d)'
  BY DEF FreshInv
<1>1. UNCHANGED <<dbVars, got, polling>> /\ missed \subseteq missed' /\ told \subseteq told'
  BY DEF Post, PostApp, PostDevices
<1>2. DOMAIN work = Requests
  BY DEF TInv, WorkInv
<1>3. \A p \in Requests : p # q => work'[p] = work[p]
  BY <1>2 DEF Post, PostApp, PostDevices
<1>4. Db' = Db /\ device' = device
  BY <1>1 DEF Db, dbVars
<1>5. Target(d)' = Target(d)
  BY <1>4 DEF Target
<1>6. Covers(q, d) => d \in told' \cup missed'
  <2>1. CASE Post(q, lost)
    BY <2>1 DEF Covers, Post, PostDevices
  <2>2. CASE PostApp(q, lost)
    BY <2>2 DEF Covers, PostApp, PostDevices
  <2> QED BY <2>1, <2>2
<1> QED BY <1>1, <1>3, <1>4, <1>5, <1>6, FreshFrame DEF FreshInv

(* An answer that is on its way is the one the device will have.           *)
LEMMA PollFresh ==
    ASSUME TInv, FreshInv, NEW e \in Devices, StartPoll(e) \/ EndPoll(e)
    PROVE  FreshInv'
<1> SUFFICES ASSUME NEW d \in Devices PROVE Fresh(d)' \/ Announced(d)'
  BY DEF FreshInv
<1>1. UNCHANGED <<dbVars, work>> /\ DOMAIN got = Devices /\ DOMAIN polling = Devices
  BY DEF StartPoll, EndPoll, TInv, DeviceInv
<1>2. Db' = Db /\ device' = device
  BY <1>1 DEF Db, dbVars
<1>3. Target(d)' = Target(d)
  BY <1>2 DEF Target
<1>4. CASE d # e
  <2>1. got'[d] = got[d] /\ polling'[d] = polling[d] /\ (d \in told \cup missed => d \in told' \cup missed')
    BY <1>1, <1>4 DEF StartPoll, EndPoll
  <2> QED BY <1>1, <1>2, <1>3, <2>1, FreshFrame DEF FreshInv
<1>5. CASE d = e /\ StartPoll(e)
  <2>1. polling'[d] = {Target(d)}
    BY <1>1, <1>5 DEF StartPoll
  <2> QED BY <1>3, <2>1 DEF Fresh
<1>6. CASE d = e /\ EndPoll(e)
  <2>1. PICK st \in polling[d] : got' = [got EXCEPT ![d] = st]
    BY <1>6 DEF EndPoll
  <2>2. got'[d] = st /\ polling'[d] = {} /\ told' = told /\ missed' = missed
    BY <1>1, <1>6, <2>1 DEF EndPoll
  <2>3. CASE Fresh(d)
    <3>1. st = Target(d)
      BY <2>1, <2>3 DEF Fresh
    <3> QED BY <1>3, <2>2, <3>1 DEF Fresh
  <2>4. CASE Announced(d)
    BY <1>1, <1>2, <1>3, <2>2, <2>4, CoverFrame DEF Announced
  <2> QED BY <2>3, <2>4 DEF FreshInv
<1> QED BY <1>4, <1>5, <1>6

LEMMA QuietFresh ==
    ASSUME FreshInv, UNCHANGED <<dbVars, got, polling, told, missed, work>>
    PROVE  FreshInv'
<1> SUFFICES ASSUME NEW d \in Devices PROVE Fresh(d)' \/ Announced(d)'
  BY DEF FreshInv
<1>1. Db' = Db /\ device' = device
  BY DEF Db, dbVars
<1>2. Target(d)' = Target(d)
  BY <1>1 DEF Target
<1> QED BY <1>1, <1>2, FreshFrame DEF FreshInv

LEMMA DeleteFresh ==
    ASSUME TInv, FreshInv, NEW S, DeleteImages(S)
    PROVE  FreshInv'
<1> SUFFICES ASSUME NEW d \in Devices PROVE Fresh(d)' \/ Announced(d)'
  BY DEF FreshInv
<1>1. /\ images' = images \ S /\ missed' = missed \cup {x \in Devices : ImagesIn(Target(x)) \cap S # {}}
      /\ UNCHANGED <<device, target, var, work, told, polling, got>>
  BY DEF DeleteImages
<1>2. CASE ImagesIn(Target(d)) \cap S # {}
  BY <1>1, <1>2 DEF Announced
<1>3. CASE ImagesIn(Target(d)) \cap S = {}
  <2>1. Target(d)' = Target(d)
    BY <1>1, <1>3, DeleteFrame DEF TInv
  <2> QED BY <1>1, <2>1, FreshFrame DEF FreshInv
<1> QED BY <1>2, <1>3

LEMMA FreshNext == TInv /\ FreshInv /\ [Next]_vars => FreshInv'
<1> SUFFICES ASSUME TInv, FreshInv, [Next]_vars PROVE FreshInv'
  OBVIOUS
<1>1. CASE UNCHANGED vars
  BY <1>1, QuietFresh DEF vars, updateVars, deviceVars
<1>2. CASE UpdatesStep
  <2>1. ASSUME NEW q \in Requests, NEW k \in VarKeys,
               DeletePreRun(q, k) \/ \E v \in Values : WriteVar(q, k, v)
        PROVE  FreshInv'
    BY <2>1, PreRunFresh, WriteFresh
  <2>2. ASSUME NEW q \in Requests, LookUp(q) \/ LookUpFails(q) \/ DeleteCommit(q) \/ DeleteRollback(q)
        PROVE  FreshInv'
    BY <2>2, LookUpFresh, DeleteCommitFresh, PreRunFresh
  <2>3. ASSUME NEW q \in Requests, NEW d \in Devices, NEW p \in DevicePatches[d], PatchDevice(q, d, p)
        PROVE  FreshInv'
    BY <2>3, PatchDeviceFresh
  <2>4. ASSUME NEW q \in Requests, NEW r \in Releases, PatchApplication(q, r) PROVE FreshInv'
    BY <2>4, PatchApplicationFresh
  <2>5. ASSUME NEW q \in Requests, NEW lost \in SUBSET Devices, Post(q, lost) \/ PostApp(q, lost)
        PROVE  FreshInv'
    BY <2>5, PostFresh
  <2>6. ASSUME NEW d \in Devices, StartPoll(d) \/ EndPoll(d) \/ Report(d) \/ LoseLink(d) PROVE FreshInv'
    BY <2>6, PollFresh, QuietFresh DEF Report, LoseLink
  <2>7. ASSUME NEW d \in Devices, NEW s \in Instances, ClientConnect(d, s) \/ ClientDisconnect(d, s)
        PROVE  FreshInv'
    BY <2>7, QuietFresh DEF ClientConnect, ClientDisconnect
  <2> QED BY <1>2, <2>1, <2>2, <2>3, <2>4, <2>5, <2>6, <2>7, UpdatesAssumption DEF UpdatesStep, UpdatesNext
<1>3. CASE \E c \in Callers, s \in Scopes : Token(c, s.name, s.actions)
  BY <1>3, QuietFresh DEF Token, deviceVars
<1>4. CASE Expire
  BY <1>4, QuietFresh DEF Expire, updateVars, deviceVars
<1>5. CASE \E S \in Deletable : DeleteImages(S)
  BY <1>5, DeleteFresh
<1>6. CASE TaskStep
  BY <1>6, QuietFresh DEF TaskStep, StartTask, DeleteRepo, EndTask, TimeOut, FailTask, updateVars, deviceVars
<1> QED BY <1>1, <1>2, <1>3, <1>4, <1>5, <1>6, Steps

LEMMA FreshIsTold == TInv /\ FreshInv => StaleDeviceIsTold
<1> SUFFICES ASSUME TInv, FreshInv, NEW d \in Devices
             PROVE  \/ got[d] = Target(d) \/ Target(d) \in polling[d]
                    \/ d \in told \cup missed
                    \/ \E q \in Requests : WillTell(q, d)
  BY DEF StaleDeviceIsTold
<1>1. CASE Fresh(d)
  BY <1>1 DEF Fresh
<1>2. CASE d \in told \cup missed
  BY <1>2
<1>3. ASSUME NEW q \in Requests, Covers(q, d) PROVE WillTell(q, d)
  <2>1. work[q] \in Work /\ DbInv
    BY DEF TInv, WorkInv
  <2>2. CASE work[q].phase = "lookup"
    <3>1. work[q].key \in Keys /\ Concerned(d, work[q].key)
      BY <1>3, <2>1, <2>2, WorkIs DEF Covers
    <3> QED BY <2>1, <2>2, <3>1, ConcernedAreAffected DEF WillTell
  <2>3. CASE work[q].phase = "post"
    BY <1>3, <2>3 DEF Covers, WillTell
  <2>4. CASE work[q].phase = "postApp"
    BY <1>3, <2>4 DEF Covers, WillTell
  <2> QED BY <1>3, <2>2, <2>3, <2>4 DEF Covers
<1> QED BY <1>1, <1>2, <1>3 DEF FreshInv, Announced

(* A device whose target state is no longer the one it has is told, is     *)
(* about to be told or is being sent the new one, unless telling it failed *)
(* or it is one of those that the hooks leave out.  A request that has     *)
(* still to look its devices up finds those that it concerns then, however *)
(* they have moved since: what makes a variable concern a device no longer *)
(* is a change of its own, which is announced or counted as missed.        *)
THEOREM StaleDevicesAreTold == Spec => []StaleDeviceIsTold
<1>1. Init => FreshInv
  BY DEF Init, UpdatesInit, FreshInv, Fresh
<1> QED BY <1>1, FreshNext, FreshIsTold, Types, PTL DEF Spec
=============================================================================
