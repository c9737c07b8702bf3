-------------------------- MODULE StateReportProofs --------------------------
(***************************************************************************)
(* Proofs about StateReport, for any images, reports and number of running *)
(* requests: rows, cache entries and requests are well-formed, a report    *)
(* that runs by itself and that no cache entry suppresses is stored,       *)
(* whatever the reports before it have left behind, and the progress that  *)
(* DeviceStatus computes of the rows fits the status it computes.          *)
(*                                                                         *)
(* The argument follows the report that runs by itself (OnTrack): what it  *)
(* has not looked at yet is still not suppressed, as only it sets cache    *)
(* entries, and what it has dealt with is as it reported, as no other      *)
(* transaction is open.                                                    *)
(***************************************************************************)
EXTENDS DeviceStatus, TLAPS, FiniteSetTheorems

(* What a transaction sees, as Seen and SeenDevice.                        *)
Sees(x, inst, i) == IF x.mine[i] # None THEN x.mine[i] ELSE inst[i]
SeesDevice(x, dev) == IF x.myDevice # None THEN x.myDevice ELSE dev

(* A request writes nothing outside of its transaction, updates the image  *)
(* installs it was sent, and patches those that were there.                *)
Shaped(x, inst) ==
    /\ x.pc # "tx" =>
         /\ ~x.patches /\ x.phase = "done" /\ x.myDevice = None
         /\ \A i \in Images : x.mine[i] = None
    /\ x.phase # "upsert" => \A i \in Images : x.step[i] = "none"
    /\ \A i \in Images :
         /\ x.step[i] # "none" => i \in Reported(x.body)
         /\ x.step[i] \in {"get", "set", "patch"} => inst[i] # None

Good(x, inst) == x \in Request /\ Shaped(x, inst)

RowStored(b, i, row) ==
    IF i \in Reported(b)
    THEN /\ row # None
         /\ row.release = b.apps[i].release
         /\ Normalized(b.apps[i].status) \in {Undefined, row.status}
    ELSE row # None => row.status = "deleted"

DeviceStored(b, row) ==
    b.fields \in {Undefined, row.fields} /\ b.metrics \in {Undefined, row.metrics}

Unsuppressed(b, i, last) ==
    \/ last[i] = None
    \/ last[i].status # UpdateBody(b, i).status
    \/ last[i].release # UpdateBody(b, i).release

(* How far a report that no cache entry stood in the way of has come.      *)
OnTrackDevice(x, dev, recent) ==
    /\ x.pc = "metrics" => ~recent
    /\ x.pc \in {"fetch", "tx"} => (x.body.metrics # Undefined => x.forced)
    /\ x.pc = "tx" /\ ~x.patches => DeviceStored(x.body, SeesDevice(x, dev))
    /\ x.pc = "idle" => DeviceStored(x.body, dev)

OnTrackImages(x, inst, last) ==
    /\ x.pc \in {"metrics", "setMetrics", "fetch"} \/ x.phase = "read" =>
         \A i \in Reported(x.body) : Unsuppressed(x.body, i, last)
    /\ x.phase = "upsert" =>
         \A i \in Reported(x.body) :
           /\ x.step[i] = "none" => RowStored(x.body, i, Sees(x, inst, i))
           /\ x.step[i] = "get" => Unsuppressed(x.body, i, last)
    /\ x.pc = "tx" /\ x.phase = "done" /\ x.body.apps # None =>
         \A i \in Images : RowStored(x.body, i, Sees(x, inst, i))
    /\ x.pc = "idle" /\ x.body.apps # None =>
         \A i \in Images : RowStored(x.body, i, inst[i])

OnTrack(x, dev, inst, last, recent) == OnTrackDevice(x, dev, recent) /\ OnTrackImages(x, inst, last)

AloneInv ==
    alone # None =>
      /\ \A u \in Requests \ {alone} : request[u].pc = "idle"
      /\ uncached => OnTrack(request[alone], device, install, lastReport, metricsRecent)

RInv == TypeOK /\ (\A t \in Requests : Shaped(request[t], install)) /\ AloneInv

-----------------------------------------------------------------------------
(* A body is typed. *)
LEMMA BodyType ==
    ASSUME NEW b \in Reports, NEW i \in Reported(b)
    PROVE  /\ i \in Images /\ b.apps # None
           /\ UpdateBody(b, i).status \in KnownStatuses \cup {Undefined}
           /\ UpdateBody(b, i).status = Normalized(b.apps[i].status)
           /\ UpdateBody(b, i).release \in ReleasesNamed
           /\ UpdateBody(b, i).release = b.apps[i].release
           /\ UpdateBody(b, i).progress \in ProgressNamed
<1>1. b.apps # None /\ i \in DOMAIN b.apps /\ i \in Images
  BY ReportAssumption DEF Reported
<1>2. b.apps[i].release \in ReleasesNamed /\ b.apps[i].progress \in ProgressNamed
  BY DEF ReleasesNamed, ProgressNamed
<1> QED BY <1>1, <1>2 DEF UpdateBody, Normalized

LEMMA IdleGood ==
    ASSUME NEW b \in Reports, NEW inst
    PROVE  /\ Good(Idle(b), inst) /\ Idle(b).pc = "idle" /\ Idle(b).body = b
           /\ ~Idle(b).patches /\ Idle(b).phase = "done" /\ Idle(b).myDevice = None
           /\ \A i \in Images : Idle(b).mine[i] = None
BY DEF Good, Shaped, Idle, Request

(* A request starts, or goes on, and nothing is written to the tables.     *)
LEMMA GoesOn ==
    ASSUME RInv, NEW t \in Requests, NEW x, Good(x, install),
           request' = [request EXCEPT ![t] = x], UNCHANGED <<device, install>>,
           faults' \in 0 .. MaxFaults, uncached' \in BOOLEAN, metricsRecent' \in BOOLEAN,
           lastReport' \in [Images -> Entry \cup {None}],
           alone' \in {alone, None, t},
           alone' = t => /\ \A u \in Requests \ {t} : request[u].pc = "idle"
                         /\ uncached' => OnTrack(x, device, install, lastReport', metricsRecent'),
           alone' = alone => alone \in {t, None}
    PROVE  RInv'
<1>1. request'[t] = x /\ \A u \in Requests \ {t} : request'[u] = request[u]
  BY DEF RInv, TypeOK
<1>2. TypeOK'
  BY DEF RInv, TypeOK, Good
<1>3. \A u \in Requests : Shaped(request'[u], install')
  BY <1>1 DEF RInv, Good
<1>4. AloneInv'
  <2> SUFFICES ASSUME alone' # None
               PROVE  /\ \A u \in Requests \ {t} : request'[u].pc = "idle"
                      /\ uncached' => OnTrack(request'[t], device', install', lastReport', metricsRecent')
                      /\ alone' = t
    BY DEF AloneInv
  <2> QED BY <1>1
<1> QED BY <1>2, <1>3, <1>4 DEF RInv

-----------------------------------------------------------------------------
(* The steps of a request. *)

LEMMA BecomesKeeps ==
    ASSUME RInv, NEW t \in Requests, request[t].pc # "idle", NEW x, Good(x, install), Becomes(t, x),
           metricsRecent' \in BOOLEAN, lastReport' \in [Images -> Entry \cup {None}],
           alone = t /\ uncached /\ OnTrack(request[t], device, install, lastReport, metricsRecent)
             => OnTrack(x, device, install, lastReport', metricsRecent')
    PROVE  RInv'
<1>1. /\ request' = [request EXCEPT ![t] = x] /\ UNCHANGED <<device, install>>
      /\ faults' \in 0 .. MaxFaults /\ uncached' \in BOOLEAN /\ uncached' = uncached /\ alone' = alone
  BY DEF Becomes, ghosts, RInv, TypeOK
<1>2. alone \in {t, None}
  BY DEF RInv, AloneInv, TypeOK
<1>3. alone = t => /\ \A u \in Requests \ {t} : request[u].pc = "idle"
                   /\ uncached => OnTrack(x, device, install, lastReport', metricsRecent')
  BY ReportAssumption DEF RInv, AloneInv
<1> QED BY <1>1, <1>2, <1>3, GoesOn

LEMMA ArriveKeeps ==
    ASSUME RInv, NEW t \in Requests, NEW b \in Reports, Arrive(t, b)
    PROVE  RInv'
<1> DEFINE x == [Idle(b) EXCEPT !.pc = IF b.metrics = Undefined THEN "fetch" ELSE "metrics"]
<1>1. Good(x, install) /\ x.pc \in {"fetch", "metrics"} /\ x.body = b /\ x.phase = "done"
      /\ (x.pc = "metrics" <=> b.metrics # Undefined)
  BY DEF Good, Shaped, Idle, Request
<1>2. uncached' \in BOOLEAN
  BY DEF Arrive, Uncached
<1>3. Uncached(b) => OnTrack(x, device, install, lastReport, metricsRecent)
  <2> HIDE DEF x
  <2> QED BY <1>1 DEF Uncached, OnTrack, OnTrackDevice, OnTrackImages, Unsuppressed
<1> HIDE DEF x
<1>4. /\ request' = [request EXCEPT ![t] = x] /\ UNCHANGED <<device, install, lastReport, metricsRecent>>
      /\ faults' = faults /\ uncached' = Uncached(b)
      /\ alone' = IF {u \in Requests : request[u].pc # "idle"} = {} THEN t ELSE None
  BY DEF Arrive, x
<1>5. /\ faults' \in 0 .. MaxFaults /\ metricsRecent' \in BOOLEAN
      /\ lastReport' \in [Images -> Entry \cup {None}]
  BY <1>4 DEF RInv, TypeOK
<1>6. t # None
  BY ReportAssumption
<1>7. alone' = t => /\ \A u \in Requests \ {t} : request[u].pc = "idle"
                    /\ uncached' => OnTrack(x, device, install, lastReport', metricsRecent')
  BY <1>3, <1>4, <1>6
<1>8. alone' = alone => alone \in {t, None}
  BY <1>4
<1> QED BY <1>1, <1>2, <1>4, <1>5, <1>7, <1>8, GoesOn

LEMMA RollBackKeeps ==
    ASSUME RInv, NEW t \in Requests, RollBack(t), faults' \in 0 .. MaxFaults
    PROVE  RInv'
<1>1. request[t].body \in Reports
  BY DEF RInv, TypeOK, Request
<1> DEFINE x == Idle(request[t].body)
<1>2. Good(x, install)
  BY <1>1, IdleGood
<1> HIDE DEF x
<1>3. /\ request' = [request EXCEPT ![t] = x] /\ UNCHANGED <<device, install, lastReport, metricsRecent>>
      /\ uncached' = uncached /\ alone' = None
  BY DEF RollBack, x
<1>4. uncached' \in BOOLEAN /\ metricsRecent' \in BOOLEAN /\ lastReport' \in [Images -> Entry \cup {None}]
  BY <1>3 DEF RInv, TypeOK
<1>5. t # None
  BY ReportAssumption
<1> QED BY <1>2, <1>3, <1>4, <1>5, GoesOn

LEMMA MetricsKeep ==
    ASSUME RInv, NEW t \in Requests, CheckMetrics(t) \/ SetMetrics(t)
    PROVE  RInv'
<1> DEFINE y == request[t]
<1>1. Good(y, install) /\ lastReport \in [Images -> Entry \cup {None}] /\ metricsRecent \in BOOLEAN
  BY DEF RInv, TypeOK, Good
<1>2. ASSUME CheckMetrics(t) PROVE RInv'
  <2> DEFINE x == [y EXCEPT !.pc = IF metricsRecent THEN "fetch" ELSE "setMetrics"]
  <2>1. y.pc = "metrics" /\ Becomes(t, x) /\ UNCHANGED <<lastReport, metricsRecent>>
    BY <1>2 DEF CheckMetrics
  <2>2. /\ x.pc = (IF metricsRecent THEN "fetch" ELSE "setMetrics") /\ x.body = y.body
        /\ x.phase = "done" /\ Good(x, install)
    <3> HIDE DEF y
    <3> QED BY <1>1, <2>1 DEF Good, Shaped, Request
  <2> HIDE DEF x
  <2>3. OnTrack(y, device, install, lastReport, metricsRecent)
          => OnTrack(x, device, install, lastReport, metricsRecent)
    BY <2>1, <2>2 DEF OnTrack, OnTrackDevice, OnTrackImages
  <2> QED BY <1>1, <2>1, <2>2, <2>3, BecomesKeeps
<1>3. ASSUME SetMetrics(t) PROVE RInv'
  <2> DEFINE x == [y EXCEPT !.pc = "fetch", !.forced = TRUE]
  <2>1. y.pc = "setMetrics" /\ Becomes(t, x) /\ lastReport' = lastReport /\ metricsRecent' = TRUE
    BY <1>3 DEF SetMetrics
  <2>2. /\ x.pc = "fetch" /\ x.body = y.body /\ x.forced = TRUE
        /\ x.phase = "done" /\ Good(x, install)
    <3> HIDE DEF y
    <3> QED BY <1>1, <2>1 DEF Good, Shaped, Request
  <2> HIDE DEF x
  <2>3. OnTrack(y, device, install, lastReport, metricsRecent)
          => OnTrack(x, device, install, lastReport, metricsRecent')
    BY <2>1, <2>2 DEF OnTrack, OnTrackDevice, OnTrackImages
  <2> QED BY <1>1, <2>1, <2>2, <2>3, BecomesKeeps
<1> QED BY <1>2, <1>3

LEMMA EnterKeeps ==
    ASSUME RInv, NEW t \in Requests, request[t].pc = "fetch", Enter(t)
    PROVE  RInv'
<1> DEFINE y == request[t]
           done == Idle(y.body)
           x == [y EXCEPT !.pc = "tx", !.patches = ~DeviceBodyEmpty(y),
                          !.phase = IF y.body.apps = None THEN "done" ELSE "read"]
<1>1. /\ Good(y, install) /\ lastReport \in [Images -> Entry \cup {None}] /\ metricsRecent \in BOOLEAN
      /\ y.body \in Reports /\ y.pc = "fetch"
  BY DEF RInv, TypeOK, Good, Request
<1>2. /\ UNCHANGED <<lastReport, metricsRecent>>
      /\ \/ y.body.apps = None /\ DeviceBodyEmpty(y) /\ Becomes(t, done)
         \/ Becomes(t, x)
  BY DEF Enter
<1>3. ASSUME y.body.apps = None, DeviceBodyEmpty(y), Becomes(t, done) PROVE RInv'
  <2>1. Good(done, install) /\ done.pc = "idle" /\ done.body = y.body /\ done.phase = "done"
    BY <1>1, IdleGood
  <2> HIDE DEF done
  <2>2. OnTrack(y, device, install, lastReport, metricsRecent)
          => OnTrack(done, device, install, lastReport, metricsRecent)
    BY <1>3, <2>1 DEF OnTrack, OnTrackDevice, OnTrackImages, DeviceBodyEmpty, DeviceStored
  <2> QED BY <1>1, <1>2, <1>3, <2>1, <2>2, BecomesKeeps
<1>4. ASSUME Becomes(t, x) PROVE RInv'
  <2>1. DeviceBodyEmpty(y) \in BOOLEAN
    BY DEF DeviceBodyEmpty
  <2>2. /\ x.pc = "tx" /\ x.body = y.body /\ x.patches = ~DeviceBodyEmpty(y) /\ x.forced = y.forced
        /\ x.phase = (IF y.body.apps = None THEN "done" ELSE "read")
        /\ x.myDevice = None /\ (\A i \in Images : x.mine[i] = None) /\ Good(x, install)
    <3> HIDE DEF y
    <3> QED BY <1>1, <2>1 DEF Good, Shaped, Request
  <2> HIDE DEF x
  <2>3. OnTrack(y, device, install, lastReport, metricsRecent)
          => OnTrack(x, device, install, lastReport, metricsRecent)
    BY <2>2 DEF OnTrack, OnTrackDevice, OnTrackImages, DeviceBodyEmpty, DeviceStored
  <2> QED BY <1>1, <1>2, <1>4, <2>2, <2>3, BecomesKeeps
<1> QED BY <1>2, <1>3, <1>4

LEMMA PatchDeviceKeeps ==
    ASSUME RInv, NEW t \in Requests, PatchDevice(t)
    PROVE  RInv'
<1> DEFINE y == request[t]
           row == SeenDevice(t)
           new == [fields |-> Given(y.body.fields, row.fields),
                   metrics |-> Given(y.body.metrics, row.metrics)]
           mine == IF Differs(y, row) THEN new ELSE y.myDevice
           x == [y EXCEPT !.patches = FALSE, !.myDevice = mine]
<1>1. /\ y.pc = "tx" /\ UNCHANGED <<lastReport, metricsRecent>> /\ Becomes(t, x)
  BY DEF PatchDevice
<1>2. /\ Good(y, install) /\ lastReport \in [Images -> Entry \cup {None}] /\ metricsRecent \in BOOLEAN
      /\ y.body \in Reports /\ y \in Request /\ device \in Device
  BY DEF RInv, TypeOK, Good, Request
<1>3. row \in Device
  BY <1>2 DEF SeenDevice, Request
<1>4. new \in Device /\ new.fields = Given(y.body.fields, row.fields)
      /\ new.metrics = Given(y.body.metrics, row.metrics)
  BY <1>2, <1>3 DEF Device, Given
<1>5. Differs(y, row) => mine = new /\ mine # None
  BY <1>4, RowAssumption
<1>6. ~Differs(y, row) => mine = y.myDevice
  OBVIOUS
<1>7. mine \in Device \cup {None}
  BY <1>2, <1>4 DEF Request
<1> HIDE DEF mine, new
<1>8. /\ x.pc = "tx" /\ x.body = y.body /\ ~x.patches /\ x.forced = y.forced /\ x.phase = y.phase
      /\ x.step = y.step /\ x.mine = y.mine /\ x.myDevice = mine /\ Good(x, install)
  <2> HIDE DEF y
  <2> QED BY <1>1, <1>2, <1>7 DEF Good, Shaped, Request
<1> HIDE DEF x
<1>9. OnTrack(y, device, install, lastReport, metricsRecent)
        => OnTrack(x, device, install, lastReport, metricsRecent)
  <2> SUFFICES ASSUME OnTrack(y, device, install, lastReport, metricsRecent)
               PROVE  OnTrack(x, device, install, lastReport, metricsRecent)
    OBVIOUS
  <2>1. SeesDevice(x, device) = IF Differs(y, row) THEN new ELSE row
    BY <1>5, <1>6, <1>8 DEF SeesDevice, SeenDevice
  <2>2. y.body.metrics # Undefined => y.forced
    BY <1>1 DEF OnTrack, OnTrackDevice
  <2>3. DeviceStored(y.body, SeesDevice(x, device))
    <3>1. CASE Differs(y, row)
      BY <1>4, <2>1, <3>1 DEF DeviceStored, Given
    <3>2. CASE ~Differs(y, row)
      BY <2>1, <2>2, <3>2 DEF DeviceStored, Differs
    <3> QED BY <3>1, <3>2
  <2>4. OnTrackDevice(x, device, metricsRecent)
    BY <1>8, <2>2, <2>3 DEF OnTrackDevice
  <2>5. OnTrackImages(x, install, lastReport)
    BY <1>1, <1>8 DEF OnTrack, OnTrackImages, Sees
  <2> QED BY <2>4, <2>5 DEF OnTrack
<1> QED BY <1>1, <1>2, <1>8, <1>9, BecomesKeeps

LEMMA ReadInstallsKeeps ==
    ASSUME RInv, NEW t \in Requests, ReadInstalls(t)
    PROVE  RInv'
<1> DEFINE y == request[t]
           step == [i \in Images |-> IF i \notin Reported(y.body) THEN "none"
                                     ELSE IF install[i] = None THEN "post" ELSE "get"]
           x == [y EXCEPT !.phase = "upsert", !.step = step]
<1>1. y.pc = "tx" /\ y.phase = "read" /\ UNCHANGED <<lastReport, metricsRecent>> /\ Becomes(t, x)
  BY DEF ReadInstalls
<1>2. /\ Good(y, install) /\ lastReport \in [Images -> Entry \cup {None}] /\ metricsRecent \in BOOLEAN
      /\ y.body \in Reports /\ y \in Request
  BY DEF RInv, TypeOK, Good, Request
<1>3. /\ step \in [Images -> {"none", "post", "get"}]
      /\ \A i \in Images : /\ step[i] # "none" <=> i \in Reported(y.body)
                           /\ step[i] = "get" => install[i] # None
  OBVIOUS
<1> HIDE DEF step
<1>4. /\ x.pc = "tx" /\ x.body = y.body /\ x.patches = y.patches /\ x.forced = y.forced
      /\ x.phase = "upsert" /\ x.step = step /\ x.mine = y.mine /\ x.myDevice = y.myDevice
      /\ x \in Request
  <2>1. /\ x.pc = y.pc /\ x.body = y.body /\ x.patches = y.patches /\ x.forced = y.forced
        /\ x.phase = "upsert" /\ x.step = step /\ x.mine = y.mine /\ x.myDevice = y.myDevice
    <3> HIDE DEF y
    <3> QED BY <1>2 DEF Request
  <2>2. x \in Request
    <3> HIDE DEF y
    <3> QED BY <1>2, <1>3 DEF Request
  <2> HIDE DEF x
  <2> QED BY <1>1, <2>1, <2>2
<1> HIDE DEF x
<1>5. Good(x, install)
  BY <1>2, <1>3, <1>4 DEF Good, Shaped
<1>6. OnTrack(y, device, install, lastReport, metricsRecent)
        => OnTrack(x, device, install, lastReport, metricsRecent)
  <2> SUFFICES ASSUME OnTrack(y, device, install, lastReport, metricsRecent)
               PROVE  OnTrack(x, device, install, lastReport, metricsRecent)
    OBVIOUS
  <2>1. OnTrackDevice(x, device, metricsRecent)
    BY <1>1, <1>4 DEF OnTrack, OnTrackDevice, SeesDevice
  <2>2. OnTrackImages(x, install, lastReport)
    BY <1>1, <1>2, <1>3, <1>4, BodyType DEF OnTrack, OnTrackImages
  <2> QED BY <2>1, <2>2 DEF OnTrack
<1> QED BY <1>1, <1>2, <1>5, <1>6, BecomesKeeps

(* One step of the update of image i.                                      *)
LEMMA UpsertKeeps ==
    ASSUME RInv, NEW t \in Requests, NEW i \in Images, NEW s, NEW entry, NEW row,
           request[t].step[i] # "none",
           s \in {"none", "set", "patch"}, entry \in Entry \cup {None}, row \in Install \cup {None},
           s # "none" => install[i] # None,
           Becomes(t, [request[t] EXCEPT !.step[i] = s, !.entry[i] = entry, !.mine[i] = row]),
           metricsRecent' = metricsRecent,
           lastReport' \in [Images -> Entry \cup {None}],
           \A j \in Images \ {i} : lastReport'[j] = lastReport[j],
           alone = t /\ uncached /\ OnTrack(request[t], device, install, lastReport, metricsRecent)
             => (s = "none" => RowStored(request[t].body, i, IF row # None THEN row ELSE install[i]))
    PROVE  RInv'
<1> DEFINE y == request[t]
           x == [y EXCEPT !.step[i] = s, !.entry[i] = entry, !.mine[i] = row]
<1>1. /\ Good(y, install) /\ y.body \in Reports /\ y \in Request /\ metricsRecent \in BOOLEAN
      /\ y.step[i] # "none"
  BY DEF RInv, TypeOK, Good, Request
<1>2. y.pc = "tx" /\ y.phase = "upsert" /\ i \in Reported(y.body)
  BY <1>1 DEF Good, Shaped
<1>3. /\ x.pc = "tx" /\ x.body = y.body /\ x.patches = y.patches /\ x.forced = y.forced
      /\ x.phase = "upsert" /\ x.step[i] = s /\ x.mine[i] = row /\ x.myDevice = y.myDevice
      /\ \A j \in Images \ {i} : x.step[j] = y.step[j] /\ x.mine[j] = y.mine[j]
      /\ x \in Request
  <2> HIDE DEF y
  <2> QED BY <1>1, <1>2 DEF Request
<1> HIDE DEF x
<1>4. Good(x, install)
  BY <1>1, <1>2, <1>3 DEF Good, Shaped
<1>5. ASSUME OnTrack(y, device, install, lastReport, metricsRecent),
             s = "none" => RowStored(y.body, i, IF row # None THEN row ELSE install[i])
      PROVE  OnTrack(x, device, install, lastReport', metricsRecent')
  <2>1. OnTrackDevice(x, device, metricsRecent')
    BY <1>2, <1>3, <1>5 DEF OnTrack, OnTrackDevice, SeesDevice
  <2>2. ASSUME NEW j \in Reported(y.body)
        PROVE  /\ x.step[j] = "none" => RowStored(y.body, j, Sees(x, install, j))
               /\ x.step[j] = "get" => Unsuppressed(y.body, j, lastReport')
    <3>1. j \in Images
      BY <1>1, BodyType
    <3>2. CASE j = i
      BY <1>3, <1>5, <3>2 DEF Sees
    <3>3. CASE j # i
      <4>1. /\ y.step[j] = "none" => RowStored(y.body, j, Sees(y, install, j))
            /\ y.step[j] = "get" => Unsuppressed(y.body, j, lastReport)
        BY <1>2, <1>5 DEF OnTrack, OnTrackImages
      <4>2. Sees(x, install, j) = Sees(y, install, j)
        BY <1>3, <3>1, <3>3 DEF Sees
      <4> QED BY <1>3, <3>1, <3>3, <4>1, <4>2 DEF Unsuppressed
    <3> QED BY <3>2, <3>3
  <2>3. OnTrackImages(x, install, lastReport')
    BY <1>3, <2>2 DEF OnTrackImages
  <2> QED BY <2>1, <2>3 DEF OnTrack
<1>6. Becomes(t, x)
  BY DEF x
<1> QED BY <1>1, <1>2, <1>4, <1>5, <1>6, BecomesKeeps

(* What the transaction sees of image i, and the fields that a step leaves.*)
LEMMA ImageType ==
    ASSUME RInv, NEW t \in Requests, NEW i \in Images, request[t].step[i] # "none"
    PROVE  LET y == request[t]
           IN  /\ y \in Request /\ y.body \in Reports /\ i \in Reported(y.body) /\ y.pc = "tx"
               /\ y.entry[i] \in Entry \cup {None} /\ y.mine[i] \in Install \cup {None}
               /\ Seen(t, i) = Sees(y, install, i) /\ lastReport \in [Images -> Entry \cup {None}]
               /\ y.step[i] \in {"get", "set", "patch"} => install[i] # None /\ Seen(t, i) \in Install
BY DEF RInv, TypeOK, Request, Shaped, Seen, Sees

LEMMA PostKeeps ==
    ASSUME RInv, NEW t \in Requests, NEW i \in Images, Post(t, i)
    PROVE  RInv'
<1> DEFINE y == request[t]
           body == UpdateBody(y.body, i)
           row == Inserted(body)
           entry == y.entry[i]
           x == [y EXCEPT !.step[i] = "none", !.entry[i] = entry, !.mine[i] = row]
<1>1. /\ y.step[i] = "post" /\ body.status # Undefined /\ UNCHANGED <<lastReport, metricsRecent>>
      /\ Becomes(t, [y EXCEPT !.step[i] = "none", !.mine[i] = row])
  BY DEF Post
<1>2. /\ y \in Request /\ y.body \in Reports /\ i \in Reported(y.body)
      /\ entry \in Entry \cup {None} /\ lastReport \in [Images -> Entry \cup {None}]
  BY <1>1, ImageType
<1>3. row \in Install /\ row.release = body.release /\ row.status = body.status
  BY <1>1, <1>2, BodyType DEF Inserted, Install
<1>4. [y EXCEPT !.step[i] = "none", !.mine[i] = row] = x
  <2> HIDE DEF y, row
  <2> QED BY <1>2 DEF Request
<1>5. row # None /\ RowStored(y.body, i, row)
  BY <1>1, <1>2, <1>3, BodyType, RowAssumption DEF RowStored
<1>6. Becomes(t, x)
  BY <1>1, <1>4
<1> HIDE DEF row, entry
<1> QED BY <1>1, <1>2, <1>3, <1>5, <1>6, UpsertKeeps

LEMMA GetReportKeeps ==
    ASSUME RInv, NEW t \in Requests, NEW i \in Images, GetReport(t, i)
    PROVE  RInv'
<1> DEFINE y == request[t]
           body == UpdateBody(y.body, i)
           last == lastReport[i]
           due == ShouldUpdate(last, body)
           s == IF due THEN "set" ELSE "none"
           entry == IF due THEN NewEntry(last, body) ELSE y.entry[i]
           row == y.mine[i]
           x == [y EXCEPT !.step[i] = s, !.entry[i] = entry, !.mine[i] = row]
<1>1. /\ y.step[i] = "get" /\ UNCHANGED <<lastReport, metricsRecent>>
      /\ Becomes(t, IF due THEN [y EXCEPT !.step[i] = "set", !.entry[i] = NewEntry(last, body)]
                    ELSE [y EXCEPT !.step[i] = "none"])
  BY DEF GetReport
<1>2. /\ y \in Request /\ y.body \in Reports /\ i \in Reported(y.body) /\ install[i] # None
      /\ y.entry[i] \in Entry \cup {None} /\ row \in Install \cup {None}
      /\ lastReport \in [Images -> Entry \cup {None}] /\ y.pc = "tx"
  BY <1>1, ImageType
<1>3. NewEntry(last, body) \in Entry
  <2>1. last \in Entry \cup {None}
    BY <1>2
  <2>2. /\ body.status \in KnownStatuses \cup {Undefined} /\ body.release \in ReleasesNamed
        /\ body.progress \in ProgressNamed
    BY <1>2, BodyType
  <2> HIDE DEF last, body
  <2> QED BY <2>1, <2>2 DEF NewEntry, Entry
<1>4. due \in BOOLEAN
  BY DEF ShouldUpdate
<1>5. OnTrack(y, device, install, lastReport, metricsRecent) => due
  <2> SUFFICES ASSUME OnTrack(y, device, install, lastReport, metricsRecent) PROVE due
    OBVIOUS
  <2>1. y.phase = "upsert"
    BY <1>1 DEF RInv, Shaped
  <2>2. Unsuppressed(y.body, i, lastReport)
    BY <1>1, <1>2, <2>1 DEF OnTrack, OnTrackImages
  <2> QED BY <2>2 DEF Unsuppressed, ShouldUpdate
<1> HIDE DEF due
<1>6. Becomes(t, x)
  <2>1. CASE due
    <3>1. [y EXCEPT !.step[i] = "set", !.entry[i] = NewEntry(last, body)] = x
      <4> DEFINE e == NewEntry(last, body)
      <4>1. s = "set" /\ entry = e
        BY <2>1
      <4> HIDE DEF y, e, s, entry
      <4> QED BY <1>2, <4>1 DEF Request, e
    <3> QED BY <1>1, <2>1, <3>1
  <2>2. CASE ~due
    <3>1. [y EXCEPT !.step[i] = "none"] = x
      <4>1. s = "none" /\ entry = y.entry[i]
        BY <2>2
      <4> HIDE DEF y, s, entry
      <4> QED BY <1>2, <4>1 DEF Request
    <3> QED BY <1>1, <2>2, <3>1
  <2> QED BY <2>1, <2>2
<1>7. s \in {"none", "set"} /\ entry \in Entry \cup {None} /\ (due => s = "set")
  BY <1>2, <1>3
<1> HIDE DEF s, entry, row
<1>8. alone = t /\ uncached /\ OnTrack(request[t], device, install, lastReport, metricsRecent)
        => (s = "none" => RowStored(request[t].body, i, IF row # None THEN row ELSE install[i]))
  BY <1>5, <1>7
<1>9. /\ request[t].step[i] # "none" /\ s \in {"none", "set", "patch"} /\ (s # "none" => install[i] # None)
      /\ metricsRecent' = metricsRecent /\ lastReport' \in [Images -> Entry \cup {None}]
      /\ \A j \in Images \ {i} : lastReport'[j] = lastReport[j]
  BY <1>1, <1>2, <1>7
<1> QED BY <1>2, <1>6, <1>7, <1>8, <1>9, UpsertKeeps

LEMMA SetReportKeeps ==
    ASSUME RInv, NEW t \in Requests, NEW i \in Images, SetReport(t, i)
    PROVE  RInv'
<1> DEFINE y == request[t]
           row == y.mine[i]
           x == [y EXCEPT !.step[i] = "patch", !.entry[i] = None, !.mine[i] = row]
<1>1. /\ y.step[i] = "set" /\ lastReport' = [lastReport EXCEPT ![i] = y.entry[i]]
      /\ metricsRecent' = metricsRecent
      /\ Becomes(t, [y EXCEPT !.step[i] = "patch", !.entry[i] = None])
  BY DEF SetReport
<1>2. /\ y \in Request /\ install[i] # None
      /\ y.entry[i] \in Entry \cup {None} /\ row \in Install \cup {None}
      /\ lastReport \in [Images -> Entry \cup {None}]
  BY <1>1, ImageType
<1>3. [y EXCEPT !.step[i] = "patch", !.entry[i] = None] = x
  <2> HIDE DEF y
  <2> QED BY <1>2 DEF Request
<1>4. Becomes(t, x)
  BY <1>1, <1>3
<1>5. lastReport' \in [Images -> Entry \cup {None}] /\ \A j \in Images \ {i} : lastReport'[j] = lastReport[j]
  BY <1>1, <1>2
<1> QED BY <1>1, <1>2, <1>4, <1>5, UpsertKeeps

LEMMA PatchInstallKeeps ==
    ASSUME RInv, NEW t \in Requests, NEW i \in Images, PatchInstall(t, i)
    PROVE  RInv'
<1> DEFINE y == request[t]
           old == Seen(t, i)
           body == UpdateBody(y.body, i)
           new == Patched(old, body)
           row == IF new # old THEN new ELSE y.mine[i]
           entry == y.entry[i]
           x == [y EXCEPT !.step[i] = "none", !.entry[i] = entry, !.mine[i] = row]
<1>1. /\ y.step[i] = "patch" /\ UNCHANGED <<lastReport, metricsRecent>>
      /\ Becomes(t, [y EXCEPT !.step[i] = "none", !.mine[i] = row])
  BY DEF PatchInstall
<1>2. /\ y \in Request /\ y.body \in Reports /\ i \in Reported(y.body) /\ install[i] # None
      /\ entry \in Entry \cup {None} /\ y.mine[i] \in Install \cup {None} /\ old \in Install
      /\ lastReport \in [Images -> Entry \cup {None}] /\ old = Sees(y, install, i)
  BY <1>1, ImageType
<1>3. /\ body.status \in KnownStatuses \cup {Undefined} /\ body.release \in ReleasesNamed
      /\ body.progress \in ProgressNamed
      /\ body.release = y.body.apps[i].release /\ body.status = Normalized(y.body.apps[i].status)
  BY <1>2, BodyType
<1>4. new \in Install /\ new.release = body.release /\ body.status \in {Undefined, new.status}
  <2> HIDE DEF old, body
  <2> QED BY <1>2, <1>3 DEF Patched, Install, Given
<1> DEFINE after == IF row # None THEN row ELSE install[i]
<1>5. after = new /\ row \in Install \cup {None}
  <2> HIDE DEF new, old
  <2> QED BY <1>2, <1>4, RowAssumption DEF Sees
<1>6. RowStored(y.body, i, after)
  BY <1>2, <1>3, <1>4, <1>5, RowAssumption DEF RowStored
<1> HIDE DEF row
<1>7. [y EXCEPT !.step[i] = "none", !.mine[i] = row] = x
  <2> HIDE DEF y
  <2> QED BY <1>2 DEF Request
<1>8. Becomes(t, x)
  BY <1>1, <1>7
<1>9. RowStored(request[t].body, i, IF row # None THEN row ELSE install[i])
  BY <1>6
<1>10. /\ request[t].step[i] # "none" /\ metricsRecent' = metricsRecent
       /\ lastReport' \in [Images -> Entry \cup {None}]
       /\ \A j \in Images \ {i} : lastReport'[j] = lastReport[j]
  BY <1>1, <1>2
<1> HIDE DEF entry
<1> QED BY <1>2, <1>5, <1>8, <1>9, <1>10, UpsertKeeps

LEMMA DeleteOldKeeps ==
    ASSUME RInv, NEW t \in Requests, DeleteOld(t)
    PROVE  RInv'
<1> DEFINE y == request[t]
           old == OldInstalls(t)
           mine == [i \in Images |-> IF i \in old
                      THEN [Seen(t, i) EXCEPT !.status = "deleted", !.progress = Null] ELSE y.mine[i]]
           x == [y EXCEPT !.phase = "done", !.mine = mine]
<1>1. /\ y.phase = "upsert" /\ (\A i \in Images : y.step[i] = "none")
      /\ UNCHANGED <<lastReport, metricsRecent>> /\ Becomes(t, x)
  BY DEF DeleteOld
<1>2. /\ Good(y, install) /\ lastReport \in [Images -> Entry \cup {None}] /\ metricsRecent \in BOOLEAN
      /\ y.body \in Reports /\ y \in Request /\ y.pc = "tx"
  BY <1>1 DEF RInv, TypeOK, Good, Request, Shaped
<1>3. \A i \in Images : Seen(t, i) = Sees(y, install, i) /\ Seen(t, i) \in Install \cup {None}
                        /\ y.mine[i] \in Install \cup {None}
  BY <1>2 DEF Seen, Sees, RInv, TypeOK, Request
<1>4. ASSUME NEW i \in old
      PROVE  i \in Images /\ i \notin Reported(y.body) /\ mine[i] \in Install /\ mine[i].status = "deleted"
  <2> DEFINE r == Seen(t, i)
  <2>1. i \in Images /\ i \notin Reported(y.body) /\ r # None /\ r \in Install
    BY <1>3 DEF OldInstalls
  <2>2. mine[i] = [r EXCEPT !.status = "deleted", !.progress = Null]
    BY <2>1
  <2> HIDE DEF r, mine
  <2>3. mine[i] \in Install /\ mine[i].status = "deleted"
    BY <2>1, <2>2, ReportAssumption DEF Install
  <2> QED BY <2>1, <2>3
<1>5. \A i \in Images \ old : mine[i] = y.mine[i]
  OBVIOUS
<1>6. mine \in [Images -> Install \cup {None}]
  <2>1. \A i \in Images : mine[i] \in Install \cup {None}
    BY <1>3, <1>4, <1>5
  <2> QED BY <2>1
<1>7. \A i \in Images \ (old \cup Reported(y.body)) : Seen(t, i) # None => Seen(t, i).status = "deleted"
  BY DEF OldInstalls, IsDeleted
<1> HIDE DEF mine, old
<1>8. /\ x.pc = "tx" /\ x.body = y.body /\ x.patches = y.patches /\ x.forced = y.forced
      /\ x.phase = "done" /\ x.step = y.step /\ x.mine = mine /\ x.myDevice = y.myDevice
      /\ x \in Request
  <2> HIDE DEF y
  <2> QED BY <1>2, <1>6 DEF Request
<1> HIDE DEF x
<1>9. Good(x, install)
  BY <1>1, <1>2, <1>8 DEF Good, Shaped
<1>10. OnTrack(y, device, install, lastReport, metricsRecent)
        => OnTrack(x, device, install, lastReport, metricsRecent)
  <2> SUFFICES ASSUME OnTrack(y, device, install, lastReport, metricsRecent)
               PROVE  OnTrack(x, device, install, lastReport, metricsRecent)
    OBVIOUS
  <2>1. OnTrackDevice(x, device, metricsRecent)
    BY <1>2, <1>8 DEF OnTrack, OnTrackDevice, SeesDevice
  <2>2. ASSUME NEW i \in Images PROVE RowStored(y.body, i, Sees(x, install, i))
    <3>1. CASE i \in old
      BY <1>4, <1>8, <3>1, RowAssumption DEF Sees, RowStored
    <3>2. CASE i \notin old
      <4>1. Sees(x, install, i) = Sees(y, install, i)
        BY <1>5, <1>8, <3>2 DEF Sees
      <4>2. CASE i \in Reported(y.body)
        BY <1>1, <4>1, <4>2 DEF OnTrack, OnTrackImages
      <4>3. CASE i \notin Reported(y.body)
        BY <1>3, <1>7, <3>2, <4>1, <4>3 DEF RowStored
      <4> QED BY <4>2, <4>3
    <3> QED BY <3>1, <3>2
  <2>3. OnTrackImages(x, install, lastReport)
    BY <1>8, <2>2 DEF OnTrackImages
  <2> QED BY <2>1, <2>3 DEF OnTrack
<1> QED BY <1>1, <1>2, <1>9, <1>10, BecomesKeeps

LEMMA CommitKeeps ==
    ASSUME RInv, NEW t \in Requests, Commit(t)
    PROVE  RInv'
<1> DEFINE y == request[t]
           x == Idle(y.body)
<1>1. /\ y.pc = "tx" /\ ~y.patches /\ y.phase = "done"
      /\ device' = SeenDevice(t) /\ install' = [i \in Images |-> Seen(t, i)]
      /\ request' = [request EXCEPT ![t] = x]
      /\ UNCHANGED <<lastReport, metricsRecent, faults, alone, uncached>>
  BY DEF Commit, ghosts
<1>2. TypeOK /\ y \in Request /\ y.body \in Reports
  BY DEF RInv, TypeOK, Request
<1>3. /\ SeenDevice(t) = SeesDevice(y, device) /\ SeenDevice(t) \in Device
      /\ \A i \in Images : Seen(t, i) = Sees(y, install, i) /\ Seen(t, i) \in Install \cup {None}
                           /\ (install[i] # None => Seen(t, i) # None)
  BY <1>2 DEF SeenDevice, SeesDevice, Seen, Sees, TypeOK, Request
<1>4. Good(x, install') /\ x.pc = "idle" /\ x.body = y.body /\ x.phase = "done" /\ ~x.patches
  BY <1>2, IdleGood
<1> HIDE DEF x
<1>5. request'[t] = x /\ \A u \in Requests \ {t} : request'[u] = request[u]
  BY <1>1, <1>2 DEF TypeOK
<1>6. TypeOK'
  <2>1. install' \in [Images -> Install \cup {None}] /\ device' \in Device
    BY <1>1, <1>3
  <2>2. request' \in [Requests -> Request]
    BY <1>1, <1>2, <1>4 DEF TypeOK, Good
  <2> QED BY <1>1, <1>2, <2>1, <2>2 DEF TypeOK
<1>7. \A u \in Requests : Shaped(request'[u], install')
  <2>1. \A i \in Images : install[i] # None => install'[i] # None
    BY <1>1, <1>3
  <2>2. \A u \in Requests \ {t} : Shaped(request[u], install')
    BY <2>1 DEF RInv, Shaped
  <2> QED BY <1>4, <1>5, <2>2 DEF Good
<1>8. AloneInv'
  <2>1. alone \in {t, None}
    BY <1>1, <1>2 DEF RInv, AloneInv, TypeOK
  <2> SUFFICES ASSUME alone = t, t # None
               PROVE  /\ \A u \in Requests \ {t} : request'[u].pc = "idle"
                      /\ uncached => OnTrack(x, device', install', lastReport', metricsRecent')
    BY <1>1, <1>5, <2>1 DEF AloneInv
  <2>2. \A u \in Requests \ {t} : request'[u].pc = "idle"
    BY <1>5 DEF RInv, AloneInv
  <2>3. ASSUME uncached PROVE OnTrack(x, device', install', lastReport', metricsRecent')
    <3>1. OnTrack(y, device, install, lastReport, metricsRecent)
      BY <2>3 DEF RInv, AloneInv
    <3>2. DeviceStored(y.body, device')
      BY <1>1, <1>3, <3>1 DEF OnTrack, OnTrackDevice
    <3>3. y.body.apps # None => \A i \in Images : RowStored(y.body, i, install'[i])
      BY <1>1, <1>3, <3>1 DEF OnTrack, OnTrackImages
    <3> QED BY <1>4, <3>2, <3>3 DEF OnTrack, OnTrackDevice, OnTrackImages
  <2> QED BY <2>2, <2>3
<1> QED BY <1>6, <1>7, <1>8 DEF RInv

-----------------------------------------------------------------------------
(* Time passes: an entry that suppresses less, or nothing.                 *)
LEMMA TimeKeeps ==
    ASSUME RInv, UNCHANGED <<device, install, request, faults, alone, uncached>>,
           metricsRecent' \in {metricsRecent, FALSE},
           lastReport' \in [Images -> Entry \cup {None}],
           \A i \in Images :
             \/ lastReport'[i] \in {lastReport[i], None}
             \/ /\ lastReport[i] # None /\ lastReport'[i].status = lastReport[i].status
                /\ lastReport'[i].release = lastReport[i].release
    PROVE  RInv'
<1>1. TypeOK'
  BY DEF RInv, TypeOK
<1>2. AloneInv'
  <2> SUFFICES ASSUME alone # None, uncached,
                      OnTrack(request[alone], device, install, lastReport, metricsRecent)
               PROVE  OnTrack(request[alone], device, install, lastReport', metricsRecent')
    BY DEF RInv, AloneInv
  <2> DEFINE y == request[alone]
  <2>1. y.body \in Reports
    BY DEF RInv, TypeOK, Request
  <2>2. OnTrackDevice(y, device, metricsRecent')
    <3>1. CASE metricsRecent' = metricsRecent
      BY <3>1 DEF OnTrack
    <3>2. CASE metricsRecent' = FALSE
      BY <3>2 DEF OnTrack, OnTrackDevice
    <3> QED BY <3>1, <3>2
  <2>3. \A i \in Reported(y.body) :
          Unsuppressed(y.body, i, lastReport) => Unsuppressed(y.body, i, lastReport')
    BY <2>1, BodyType DEF Unsuppressed
  <2>4. OnTrackImages(y, install, lastReport')
    BY <2>3 DEF OnTrack, OnTrackImages
  <2> QED BY <2>2, <2>4 DEF OnTrack
<1> QED BY <1>1, <1>2 DEF RInv

LEMMA RInvInit == Init => RInv
<1> SUFFICES ASSUME Init PROVE RInv
  OBVIOUS
<1> DEFINE b == CHOOSE c \in Reports : TRUE
<1>1. b \in Reports
  BY ReportAssumption
<1>2. Good(Idle(b), install)
  BY <1>1, IdleGood
<1>3. request = [t \in Requests |-> Idle(b)]
  BY DEF Init
<1> HIDE DEF b
<1>4. TypeOK
  <2>1. device \in Device /\ faults \in 0 .. MaxFaults
    BY ReportAssumption DEF Init, Device
  <2>2. request \in [Requests -> Request]
    BY <1>2, <1>3 DEF Good
  <2>3. metricsRecent \in BOOLEAN /\ uncached \in BOOLEAN
    BY DEF Init
  <2> QED BY <2>1, <2>2, <2>3 DEF Init, TypeOK
<1>5. \A t \in Requests : Shaped(request[t], install)
  BY <1>2, <1>3 DEF Good
<1> QED BY <1>4, <1>5 DEF Init, RInv, AloneInv

LEMMA RInvStep == RInv /\ [Next]_vars => RInv'
<1> SUFFICES ASSUME RInv, [Next]_vars PROVE RInv'
  OBVIOUS
<1>1. TypeOK
  BY DEF RInv
<1>2. ASSUME NEW t \in Requests, NEW b \in Reports, Receive(t, b) \/ ReceiveV2(t, b) PROVE RInv'
  BY <1>2, ArriveKeeps DEF Receive, ReceiveV2
<1>3. ASSUME NEW t \in Requests, Step(t) PROVE RInv'
  <2>1. CASE Fetch(t) \/ ResolveRelease(t)
    BY <2>1, EnterKeeps DEF Fetch, ResolveRelease
  <2>2. CASE Deadlock(t) \/ \E i \in Images : PostFails(t, i)
    <3>1. RollBack(t) /\ faults' = faults
      BY <2>2 DEF Deadlock, PostFails
    <3>2. faults' \in 0 .. MaxFaults
      BY <1>1, <3>1 DEF TypeOK
    <3> QED BY <3>1, <3>2, RollBackKeeps
  <2> QED BY <1>3, <2>1, <2>2, MetricsKeep, PatchDeviceKeeps, ReadInstallsKeeps, PostKeeps, GetReportKeeps,
             SetReportKeeps, PatchInstallKeeps, DeleteOldKeeps, CommitKeeps
          DEF Step
<1>4. ASSUME NEW t \in Requests, Fail(t) PROVE RInv'
  <2>1. RollBack(t) /\ faults' \in 0 .. MaxFaults
    BY <1>1, <1>4, ReportAssumption DEF Fail, TypeOK
  <2> QED BY <2>1, RollBackKeeps
<1>5. ASSUME NEW i \in Images, EntryDue(i) PROVE RInv'
  <2> DEFINE e == [lastReport[i] EXCEPT !.due = TRUE]
  <2>1. /\ UNCHANGED <<device, install, request, faults, alone, uncached, metricsRecent>>
        /\ lastReport' = [lastReport EXCEPT ![i] = e] /\ lastReport[i] # None
    BY <1>5 DEF EntryDue, ghosts
  <2>2. e \in Entry /\ e.status = lastReport[i].status /\ e.release = lastReport[i].release
    BY <1>1, <2>1 DEF TypeOK, Entry
  <2> HIDE DEF e
  <2>3. /\ lastReport' \in [Images -> Entry \cup {None}] /\ lastReport'[i] = e
        /\ \A j \in Images \ {i} : lastReport'[j] = lastReport[j]
    BY <1>1, <2>1, <2>2 DEF TypeOK
  <2> QED BY <2>1, <2>2, <2>3, TimeKeeps
<1>6. ASSUME NEW i \in Images, EntryExpires(i) PROVE RInv'
  <2>1. /\ UNCHANGED <<device, install, request, faults, alone, uncached, metricsRecent>>
        /\ lastReport' = [lastReport EXCEPT ![i] = None]
    BY <1>6 DEF EntryExpires, ghosts
  <2>2. /\ lastReport' \in [Images -> Entry \cup {None}] /\ lastReport'[i] = None
        /\ \A j \in Images \ {i} : lastReport'[j] = lastReport[j]
    BY <1>1, <2>1 DEF TypeOK
  <2> QED BY <2>1, <2>2, TimeKeeps
<1>7. CASE MetricsDue \/ UNCHANGED vars
  <2>1. /\ UNCHANGED <<device, install, request, faults, alone, uncached, lastReport>>
        /\ metricsRecent' \in {metricsRecent, FALSE}
    BY <1>7 DEF MetricsDue, vars, ghosts
  <2> QED BY <1>1, <2>1, TimeKeeps DEF TypeOK
<1> QED BY <1>2, <1>3, <1>4, <1>5, <1>6, <1>7 DEF Next

(* A report that runs by itself, and that no cache entry suppresses, is in *)
(* the tables once it is answered: reports that overlapped before it, that *)
(* were rolled back after they set cache entries, or that deadlocked leave *)
(* nothing behind that it does not put right.                              *)
THEOREM ReportsAreStored == Spec => []ReportInv
<1>1. RInv => ReportInv
  <2> SUFFICES ASSUME RInv, Undisturbed, uncached PROVE Stored(request[alone].body)
    BY DEF RInv, ReportInv, ReportIsStored
  <2>1. OnTrack(request[alone], device, install, lastReport, metricsRecent) /\ request[alone].pc = "idle"
    BY DEF RInv, AloneInv, Undisturbed
  <2>2. DeviceStored(request[alone].body, device)
    BY <2>1 DEF OnTrack, OnTrackDevice
  <2>3. request[alone].body.apps # None => \A i \in Images : InstallStored(request[alone].body, i)
    BY <2>1 DEF OnTrack, OnTrackImages, RowStored, InstallStored
  <2> QED BY <2>2, <2>3 DEF Stored, DeviceStored
<1> QED BY <1>1, RInvInit, RInvStep, PTL DEF Spec

-----------------------------------------------------------------------------
(* The average of DeviceStatus.  What an image install weighs in it.       *)
Weight(i) == IF install[i].progress = Null THEN 100 ELSE install[i].progress

First(s) == CHOOSE i \in s : TRUE

SumOf(f, s) == IF s = {} THEN 0 ELSE Weight(First(s)) + f[s \ {First(s)}]

IsSum(f, S) == f = [s \in SUBSET S |-> SumOf(f, s)]

(* As far as sets of at most n installs go.                                *)
UpTo(S, n) == {s \in SUBSET S : Cardinality(s) <= n}

SummedUpTo(S, n) == \E f : f = [s \in UpTo(S, n) |-> SumOf(f, s)]

LEMMA AverageIs ==
    ASSUME NEW S
    PROVE  AverageProgress(S) =
             LET n == Cardinality(S)
                 sum == (CHOOSE f : IsSum(f, S))[S]
             IN  IF n = 0 THEN Null ELSE (2 * sum + n) \div (2 * n)
BY DEF AverageProgress, MapThenSumSet, MapThenFoldSet, IsSum, SumOf, First, Weight

(* A non-empty family of subsets of a finite set has a minimal one.        *)
LEMMA Minimal ==
    ASSUME NEW S, IsFiniteSet(S), NEW Family, Family \subseteq SUBSET S, Family # {}
    PROVE  \E T \in Family : \A x \in T : T \ {x} \notin Family
<1>1. Family \subseteq FiniteSubsetsOf(S)
  BY FS_Subset DEF FiniteSubsetsOf
<1>2. PICK T \in Family : \A U \in Family : ~(<<U, T>> \in StrictSubsetOrdering(S))
  BY <1>1, FS_StrictSubsetOrderingWellFounded, WFMin
<1>3. ASSUME NEW x \in T, T \ {x} \in Family PROVE FALSE
  BY <1>2, <1>3 DEF StrictSubsetOrdering
<1> QED BY <1>3

(* The recursion of the fold over a finite set has a solution: one up to   *)
(* n installs is extended to n + 1.                                        *)
LEMMA SumExtends ==
    ASSUME NEW S, IsFiniteSet(S), NEW n \in Nat, n # 0, SummedUpTo(S, n - 1)
    PROVE  SummedUpTo(S, n)
<1>1. PICK f : f = [s \in UpTo(S, n - 1) |-> SumOf(f, s)]
  BY DEF SummedUpTo
<1> DEFINE g == [s \in UpTo(S, n) |-> SumOf(f, s)]
<1>2. ASSUME NEW s \in UpTo(S, n) PROVE SumOf(f, s) = SumOf(g, s)
  <2>1. CASE s = {}
    BY <2>1 DEF SumOf
  <2>2. CASE s # {}
    <3> DEFINE u == s \ {First(s)}
    <3>1. First(s) \in s
      BY <2>2 DEF First
    <3>2. s \in SUBSET S /\ IsFiniteSet(s) /\ Cardinality(s) <= n
      BY FS_Subset DEF UpTo
    <3>3. IsFiniteSet(u) /\ Cardinality(u) = Cardinality(s) - 1 /\ Cardinality(s) \in Nat
      BY <3>1, <3>2, FS_RemoveElement, FS_CardinalityType
    <3>4. u \in SUBSET S /\ Cardinality(u) <= n - 1 /\ Cardinality(u) <= n
      BY <3>2, <3>3
    <3>5. u \in UpTo(S, n - 1) /\ u \in UpTo(S, n)
      BY <3>4 DEF UpTo
    <3>6. f[u] = SumOf(f, u) /\ g[u] = SumOf(f, u)
      BY <1>1, <3>5
    <3> QED BY <2>2, <3>6 DEF SumOf
  <2> QED BY <2>1, <2>2
<1>3. g = [s \in UpTo(S, n) |-> SumOf(g, s)]
  BY <1>2
<1> QED BY <1>3 DEF SummedUpTo

LEMMA SumExists ==
    ASSUME NEW S, IsFiniteSet(S)
    PROVE  IsSum(CHOOSE f : IsSum(f, S), S)
<1> DEFINE Bad == {T \in SUBSET S : ~SummedUpTo(S, Cardinality(T))}
<1>1. ASSUME Bad # {} PROVE FALSE
  <2>1. PICK T \in Bad : \A x \in T : T \ {x} \notin Bad
    BY <1>1, Minimal
  <2>2. T \in SUBSET S /\ IsFiniteSet(T) /\ Cardinality(T) \in Nat
    BY FS_Subset, FS_CardinalityType
  <2>3. CASE T = {}
    <3>1. Cardinality(T) = 0
      BY <2>3, FS_EmptySet
    <3>2. ASSUME NEW s \in UpTo(S, 0) PROVE s = {}
      <4>1. s \in SUBSET S /\ IsFiniteSet(s) /\ Cardinality(s) \in Nat /\ Cardinality(s) <= 0
        BY FS_Subset, FS_CardinalityType DEF UpTo
      <4> QED BY <4>1, FS_EmptySet
    <3>3. [s \in UpTo(S, 0) |-> 0] = [s \in UpTo(S, 0) |-> SumOf([r \in UpTo(S, 0) |-> 0], s)]
      BY <3>2 DEF SumOf
    <3>4. SummedUpTo(S, 0)
      BY <3>3 DEF SummedUpTo
    <3> QED BY <2>1, <3>1, <3>4
  <2>4. CASE T # {}
    <3>1. PICK x \in T : TRUE
      BY <2>4
    <3>2. Cardinality(T \ {x}) = Cardinality(T) - 1 /\ Cardinality(T) # 0
      BY <2>2, <2>4, <3>1, FS_RemoveElement, FS_EmptySet
    <3>3. SummedUpTo(S, Cardinality(T) - 1)
      BY <2>1, <2>2, <3>2
    <3>4. SummedUpTo(S, Cardinality(T))
      BY <2>2, <3>2, <3>3, SumExtends
    <3> QED BY <2>1, <3>4
  <2> QED BY <2>3, <2>4
<1>2. SummedUpTo(S, Cardinality(S))
  BY <1>1
<1>3. UpTo(S, Cardinality(S)) = SUBSET S
  BY FS_Subset DEF UpTo
<1>4. PICK f : IsSum(f, S)
  BY <1>2, <1>3 DEF SummedUpTo, IsSum
<1> QED BY <1>4

(* Any solution sums up percentages.                                       *)
LEMMA SumBounds ==
    ASSUME NEW S, IsFiniteSet(S), \A i \in S : Weight(i) \in 0 .. 100, NEW f, IsSum(f, S)
    PROVE  f[S] \in 0 .. 100 * Cardinality(S)
<1> DEFINE Bad == {T \in SUBSET S : f[T] \notin 0 .. 100 * Cardinality(T)}
<1>1. ASSUME Bad # {} PROVE FALSE
  <2>1. PICK T \in Bad : \A x \in T : T \ {x} \notin Bad
    BY <1>1, Minimal
  <2>2. T \in SUBSET S /\ IsFiniteSet(T) /\ Cardinality(T) \in Nat
    BY FS_Subset, FS_CardinalityType
  <2>3. f[T] = SumOf(f, T)
    BY <2>2 DEF IsSum
  <2>4. CASE T = {}
    BY <2>1, <2>3, <2>4, FS_EmptySet DEF SumOf
  <2>5. CASE T # {}
    <3> DEFINE x == First(T)
    <3>1. x \in T
      BY <2>5 DEF First
    <3>2. Cardinality(T \ {x}) = Cardinality(T) - 1
      BY <2>2, <3>1, FS_RemoveElement
    <3>3. f[T \ {x}] \in 0 .. 100 * (Cardinality(T) - 1) /\ Weight(x) \in 0 .. 100
      BY <2>1, <2>2, <3>1, <3>2
    <3>4. f[T] = Weight(x) + f[T \ {x}]
      BY <2>3, <2>5 DEF SumOf
    <3>5. f[T] \in 0 .. 100 * Cardinality(T)
      BY <2>2, <3>3, <3>4
    <3> QED BY <2>1, <3>5
  <2> QED BY <2>4, <2>5
<1> QED BY <1>1

(* The average of some percentages is a percentage.                        *)
LEMMA AverageBounds ==
    ASSUME NEW S, IsFiniteSet(S), S # {}, \A i \in S : Weight(i) \in 0 .. 100
    PROVE  AverageProgress(S) \in 0 .. 100
<1> DEFINE n == Cardinality(S)
           sum == (CHOOSE f : IsSum(f, S))[S]
<1>1. n \in Nat /\ n # 0
  BY FS_CardinalityType, FS_EmptySet
<1>2. sum \in 0 .. 100 * n
  BY SumExists, SumBounds
<1>3. AverageProgress(S) = (2 * sum + n) \div (2 * n)
  BY <1>1, AverageIs
<1> HIDE DEF n, sum
<1> QED BY <1>1, <1>2, <1>3

LEMMA RowsArePercentages ==
    ASSUME TypeOK
    PROVE  IsFiniteSet(Rows) /\ \A i \in Rows : Weight(i) \in 0 .. 100
<1>1. IsFiniteSet(Rows)
  BY PercentAssumption, FS_Subset DEF Rows
<1>2. ProgressNamed \subseteq (0 .. 100) \cup {Undefined, Null}
  BY PercentAssumption DEF ProgressNamed
<1>3. ASSUME NEW i \in Rows PROVE Weight(i) \in 0 .. 100
  <2>1. install[i] \in Install
    BY DEF TypeOK, Rows
  <2>2. install[i].progress \in (0 .. 100) \cup {Null}
    BY <1>2, <2>1 DEF Install
  <2> QED BY <2>2 DEF Weight
<1> QED BY <1>1, <1>3

(* A device that is shown as updating because of its image installs has    *)
(* something to average: every install that is downloading is averaged,    *)
(* for whichever release.                                                  *)
LEMMA DownloadHasAverage ==
    ASSUME TypeOK, NEW d, Downloading # {}
    PROVE  AverageProgress(Averaged(d)) \in 0 .. 100
<1>1. Averaged(d) \subseteq Rows /\ Averaged(d) # {}
  BY DEF Averaged, Downloading
<1>2. IsFiniteSet(Averaged(d)) /\ \A i \in Averaged(d) : Weight(i) \in 0 .. 100
  BY <1>1, RowsArePercentages, FS_Subset
<1> QED BY <1>1, <1>2, AverageBounds

LEMMA FitsStatus ==
    ASSUME TypeOK, NEW d \in Circumstance
    PROVE  /\ OverallStatus(d) = "updating" => OverallProgress(d) \in 0 .. 100
           /\ OverallStatus(d) \in {"operational", "disconnected", "inactive"} =>
                OverallProgress(d) = Null
           /\ OverallStatus(d) = "configuring" =>
                \/ OverallProgress(d) = d.provisioning
                \/ d.heartbeat \in {"offline", "unknown"} /\ OverallProgress(d) = d.osDownload
           /\ OverallStatus(d) = "post-provisioning" => OverallProgress(d) = d.provisioning
<1> DEFINE average == AverageProgress(Averaged(d))
<1>1. Downloading # {} => average \in 0 .. 100
  BY DownloadHasAverage
<1>2. /\ d.inactive \in BOOLEAN /\ d.vpn \in BOOLEAN /\ d.contacted \in BOOLEAN
      /\ d.postProvisioning \in BOOLEAN
      /\ d.heartbeat \in {"unknown", "online", "timeout", "offline"}
      /\ d.provisioning \in {Null, 30} /\ d.osDownload \in {Null, 60}
  BY DEF Circumstance
<1>3. OverallProgress(d) =
        IF d.inactive THEN Null
        ELSE IF d.postProvisioning \/ IsPreProvisioning(d) THEN d.provisioning
        ELSE IF IsOverallOffline(d) THEN Null
        ELSE IF d.osDownload # Null THEN d.osDownload
        ELSE IF d.provisioning # Null THEN d.provisioning
        ELSE IF Downloading # {} THEN average
        ELSE Null
  BY DEF OverallProgress
<1> HIDE DEF average
<1>4. OverallStatus(d) = "updating" => OverallProgress(d) \in 0 .. 100
  BY <1>1, <1>2, <1>3 DEF OverallStatus, IsPreProvisioning, IsOverallOffline
<1>5. OverallStatus(d) \in {"operational", "disconnected", "inactive"} => OverallProgress(d) = Null
  BY <1>1, <1>2, <1>3 DEF OverallStatus, IsPreProvisioning, IsOverallOffline, HasPartialConnectivity
<1>6. OverallStatus(d) = "configuring" =>
        \/ OverallProgress(d) = d.provisioning
        \/ d.heartbeat \in {"offline", "unknown"} /\ OverallProgress(d) = d.osDownload
  BY <1>2, <1>3 DEF OverallStatus, IsPreProvisioning, IsOverallOffline
<1>7. OverallStatus(d) = "post-provisioning" => OverallProgress(d) = d.provisioning
  BY <1>2, <1>3 DEF OverallStatus
<1> QED BY <1>4, <1>5, <1>6, <1>7

(* Whatever reports that overlap or are rolled back leave behind in the    *)
(* image installs, the two fields that device-additions.ts computes over   *)
(* them agree: a device shown as updating always has a progress, which is  *)
(* a percentage, also while all that is downloading belongs to another     *)
(* release than its target, and no other status shows that of a download.  *)
THEOREM ProgressAndStatusAgree == Spec => []ProgressFitsStatus
<1>1. TypeOK => ProgressFitsStatus
  BY FitsStatus DEF ProgressFitsStatus
<1>2. Spec => []TypeOK
  BY ReportsAreStored, PTL DEF ReportInv
<1> QED BY <1>1, <1>2, PTL
=============================================================================
