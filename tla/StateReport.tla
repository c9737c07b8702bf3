---------------------------- MODULE StateReport ----------------------------
(***************************************************************************)
(* The state reports of one device: PATCH of /device/v2/:uuid/state and    *)
(* /device/v3/state (src/features/device-state/routes/state-patch-v2.ts    *)
(* and state-patch-v3.ts) with the caches of state-patch-utils.ts.         *)
(*                                                                         *)
(* A report asks Redis whether metrics are due, looks up what it names,    *)
(* and then patches the device and its image installs in one transaction.  *)
(* The updates of the transaction run side by side, and each image install *)
(* asks and sets its own cache entry on the way, which the end of the      *)
(* transaction does not undo.                                              *)
(*                                                                         *)
(* Transactions are READ COMMITTED: an update sees the committed rows and  *)
(* its own, leaves alone the rows its filter excludes, and waits for those *)
(* that another transaction changed.  A device sends one report at a time, *)
(* but one that it gave up on may still be running when it sends the next. *)
(***************************************************************************)
EXTENDS Naturals, FiniteSets

CONSTANTS
    Images,
    Reports,       \* what the device may have to report
    Requests,      \* slots for running reports
    KnownStatuses, \* imageInstallKnownStatuses, which includes "deleted"
    Undefined,     \* a field that is not given
    Null,
    None,
    Full,          \* a download_progress of 100
    Overlap,       \* the device may report while a report is running
    MaxFaults      \* bound on failing requests

ASSUME ReportAssumption ==
    /\ \A b \in Reports :
         /\ b.apps = None \/ DOMAIN b.apps \subseteq Images
         /\ b.apps # None => \A i \in DOMAIN b.apps : b.apps[i].release # None
    /\ \A b \in Reports : b.version \in {"v2", "v3"}
    /\ "deleted" \in KnownStatuses
    /\ None \notin Requests \cup {Undefined, Null, Full}
    /\ Reports # {}
    /\ Undefined \notin KnownStatuses
    /\ Undefined \notin {Null, Full}
    /\ Null # Full
    /\ Overlap \in BOOLEAN
    /\ MaxFaults \in Nat

VARIABLES
    device,        \* the device row: reported fields and metrics
    install,       \* image_install of the device and an image, or None
    lastReport,    \* lastImageInstallUpdate in Redis, or None
    metricsRecent, \* lastMetricsReportTime is within the interval
    request,
    faults,
    alone,         \* history variables: the request that ran by itself since
    uncached       \* it started, and whether no cache entry stood in its way

ghosts == <<alone, uncached>>

vars == <<device, install, lastReport, metricsRecent, request, faults, ghosts>>

-----------------------------------------------------------------------------
(* normalizeImageInstallStatus *)
Normalized(status) == IF status \in KnownStatuses THEN status ELSE Undefined

(* ImageInstallUpdateBody of image i in report b.                          *)
UpdateBody(b, i) ==
    [status |-> Normalized(b.apps[i].status),
     release |-> b.apps[i].release,
     progress |-> b.apps[i].progress]

Reported(b) == IF b.apps = None THEN {} ELSE DOMAIN b.apps

ReleasesNamed == UNION {{b.apps[i].release : i \in Reported(b)} : b \in Reports}
ProgressNamed == UNION {{b.apps[i].progress : i \in Reported(b)} : b \in Reports}

Device ==
    [fields : {b.fields : b \in Reports} \cup {Null},
     metrics : {b.metrics : b \in Reports} \cup {Null}]

Install ==
    [status : KnownStatuses,
     release : ReleasesNamed,
     progress : (ProgressNamed \ {Undefined}) \cup {Null}]

(* due: DOWNLOAD_PROGRESS_MAX_REPORT_INTERVAL has passed.                  *)
Entry ==
    [status : KnownStatuses \cup {Undefined},
     release : ReleasesNamed,
     progress : ProgressNamed \cup {Undefined},
     due : BOOLEAN]

ASSUME RowAssumption == None \notin Device \cup Install \cup Entry

(* forced: shouldUpdateMetrics returned true; patches: the device is still *)
(* to be patched; phase, of the update of the image installs; step and     *)
(* entry, of upsertImageInstall; myDevice and mine are the uncommitted     *)
(* rows.                                                                   *)
Request ==
    [pc : {"idle", "metrics", "setMetrics", "fetch", "tx"},
     body : Reports,
     forced : BOOLEAN,
     patches : BOOLEAN,
     phase : {"read", "upsert", "done"},
     step : [Images -> {"none", "post", "get", "set", "patch"}],
     entry : [Images -> Entry \cup {None}],
     myDevice : Device \cup {None},
     mine : [Images -> Install \cup {None}]]

TypeOK ==
    /\ device \in Device
    /\ install \in [Images -> Install \cup {None}]
    /\ lastReport \in [Images -> Entry \cup {None}]
    /\ metricsRecent \in BOOLEAN
    /\ request \in [Requests -> Request]
    /\ faults \in 0 .. MaxFaults
    /\ alone \in Requests \cup {None}
    /\ uncached \in BOOLEAN

Idle(b) ==
    [pc |-> "idle", body |-> b, forced |-> FALSE, patches |-> FALSE, phase |-> "done",
     step |-> [i \in Images |-> "none"], entry |-> [i \in Images |-> None],
     myDevice |-> None, mine |-> [i \in Images |-> None]]

Init ==
    /\ device = [fields |-> Null, metrics |-> Null]
    /\ install = [i \in Images |-> None]
    /\ lastReport = [i \in Images |-> None]
    /\ metricsRecent = FALSE
    /\ request = [t \in Requests |-> Idle(CHOOSE b \in Reports : TRUE)]
    /\ faults = 0
    /\ alone = None
    /\ uncached = FALSE

-----------------------------------------------------------------------------
(* What a query of the transaction sees, and whether a row is free of the  *)
(* writes of other transactions.                                           *)
Seen(t, i) == IF request[t].mine[i] # None THEN request[t].mine[i] ELSE install[i]
SeenDevice(t) == IF request[t].myDevice # None THEN request[t].myDevice ELSE device

Holds(u, i) == request[u].mine[i] # None
HoldsDevice(u) == request[u].myDevice # None

Free(t, i) == \A u \in Requests \ {t} : ~Holds(u, i)
FreeDevice(t) == \A u \in Requests \ {t} : ~HoldsDevice(u)

(* A step of request t that changes nothing outside of it.                 *)
Becomes(t, x) ==
    /\ request' = [request EXCEPT ![t] = x]
    /\ UNCHANGED <<device, install, faults, ghosts>>

-----------------------------------------------------------------------------
NoProgress(progress) == progress \in {Undefined, Null}

(* Mutant: without an entry nothing is taken to have changed.              *)
ShouldUpdateIfCached(last, body) ==
    /\ last # None
    /\ \/ last.progress # body.progress /\ last.due
       \/ last.status # body.status
       \/ last.release # body.release
       \/ NoProgress(last.progress) # NoProgress(body.progress)
       \/ body.progress = Full

(* shouldUpdateImageInstall *)
ShouldUpdate(last, body) ==
    \/ last = None
    \/ last.progress # body.progress /\ last.due
    \/ last.status # body.status
    \/ last.release # body.release
    \/ NoProgress(last.progress) # NoProgress(body.progress)
    \/ body.progress = Full

(* No cache entry says that a part of report b was reported before.        *)
Uncached(b) ==
    /\ b.metrics # Undefined => ~metricsRecent
    /\ \A i \in Reported(b) :
         \/ lastReport[i] = None
         \/ lastReport[i].status # UpdateBody(b, i).status
         \/ lastReport[i].release # UpdateBody(b, i).release

(* A report arrives.  Metrics are looked at first, if there are any.       *)
Arrive(t, b) ==
    LET others == {u \in Requests : request[u].pc # "idle"}
    IN  /\ request[t].pc = "idle"
        /\ Overlap \/ others = {}
        /\ request' = [request EXCEPT ![t] =
                         [Idle(b) EXCEPT !.pc = IF b.metrics = Undefined THEN "fetch"
                                                ELSE "metrics"]]
        /\ alone' = IF others = {} THEN t ELSE None
        /\ uncached' = Uncached(b)
        /\ UNCHANGED <<device, install, lastReport, metricsRecent, faults>>

Receive(t, b) == b.version = "v3" /\ Arrive(t, b)

ReceiveV2(t, b) == b.version = "v2" /\ Arrive(t, b)

(* shouldUpdateMetrics: the last report time is read, and set if metrics   *)
(* are due.                                                                *)
CheckMetrics(t) ==
    /\ request[t].pc = "metrics"
    /\ Becomes(t, [request[t] EXCEPT !.pc = IF metricsRecent THEN "fetch" ELSE "setMetrics"])
    /\ UNCHANGED <<lastReport, metricsRecent>>

SetMetrics(t) ==
    /\ request[t].pc = "setMetrics"
    /\ metricsRecent' = TRUE
    /\ Becomes(t, [request[t] EXCEPT !.pc = "fetch", !.forced = TRUE])
    /\ UNCHANGED lastReport

(* What is left of deviceBody: the fields, and the metrics if forced.      *)
DeviceBodyEmpty(x) == x.body.fields = Undefined /\ ~x.forced

(* Enter the transaction.  A report with nothing to write is answered at   *)
(* once.                                                                   *)
Enter(t) ==
    LET x == request[t]
    IN  /\ IF x.body.apps = None /\ DeviceBodyEmpty(x)
           THEN Becomes(t, Idle(x.body))
           ELSE Becomes(t, [x EXCEPT !.pc = "tx",
                                     !.patches = ~DeviceBodyEmpty(x),
                                     !.phase = IF x.body.apps = None THEN "done" ELSE "read"])
        /\ UNCHANGED <<lastReport, metricsRecent>>

(* fetchData found all releases and images.                                *)
Fetch(t) == request[t].pc = "fetch" /\ request[t].body.version = "v3" /\ Enter(t)

(* Version 2 names releases and images by id; a commit that is not found   *)
(* is left out of the fields.                                              *)
ResolveRelease(t) == request[t].pc = "fetch" /\ request[t].body.version = "v2" /\ Enter(t)

-----------------------------------------------------------------------------
(* The PATCH of the device, filtered on $not: deviceBody; metrics that are *)
(* not forced come along without being a reason to write.                  *)
Given(new, old) == IF new = Undefined THEN old ELSE new

Differs(x, row) ==
    \/ x.body.fields # Undefined /\ x.body.fields # row.fields
    \/ x.forced /\ x.body.metrics # row.metrics

PatchDevice(t) ==
    LET x == request[t]
        row == SeenDevice(t)
    IN  /\ x.pc = "tx"
        /\ x.patches
        /\ Differs(x, row) => FreeDevice(t)
        /\ Becomes(t, [x EXCEPT !.patches = FALSE,
                                !.myDevice = IF Differs(x, row)
                                             THEN [fields |-> Given(x.body.fields, row.fields),
                                                   metrics |-> Given(x.body.metrics, row.metrics)]
                                             ELSE @])
        /\ UNCHANGED <<lastReport, metricsRecent>>

(* existingImgInstalls *)
ReadInstalls(t) ==
    LET x == request[t]
    IN  /\ x.pc = "tx"
        /\ x.phase = "read"
        /\ Becomes(t, [x EXCEPT !.phase = "upsert",
                                !.step = [i \in Images |->
                                            IF i \notin Reported(x.body) THEN "none"
                                            ELSE IF install[i] = None THEN "post" ELSE "get"]])
        /\ UNCHANGED <<lastReport, metricsRecent>>

Inserted(body) ==
    [status |-> body.status,
     release |-> body.release,
     progress |-> IF body.progress = Undefined THEN Null ELSE body.progress]

(* upsertImageInstall of an image that had no image install.  By the       *)
(* data model a device installs an image at most once, and an image        *)
(* install has a status.                                                   *)
Post(t, i) ==
    LET x == request[t]
    IN  /\ x.step[i] = "post"
        /\ Free(t, i)
        /\ install[i] = None
        /\ UpdateBody(x.body, i).status # Undefined
        /\ Becomes(t, [x EXCEPT !.step[i] = "none",
                                !.mine[i] = Inserted(UpdateBody(x.body, i))])
        /\ UNCHANGED <<lastReport, metricsRecent>>

(* "Keep the last reported download progress if the current report doesn't *)
(* include it"                                                             *)
NewEntry(last, body) ==
    [status |-> body.status,
     release |-> body.release,
     progress |-> IF body.progress = Undefined /\ last # None THEN last.progress
                  ELSE body.progress,
     due |-> FALSE]

GetReport(t, i) ==
    LET x == request[t]
        body == UpdateBody(x.body, i)
    IN  /\ x.step[i] = "get"
        /\ Becomes(t, IF ShouldUpdate(lastReport[i], body)
                      THEN [x EXCEPT !.step[i] = "set",
                                     !.entry[i] = NewEntry(lastReport[i], body)]
                      ELSE [x EXCEPT !.step[i] = "none"])
        /\ UNCHANGED <<lastReport, metricsRecent>>

SetReport(t, i) ==
    LET x == request[t]
    IN  /\ x.step[i] = "set"
        /\ lastReport' = [lastReport EXCEPT ![i] = x.entry[i]]
        /\ Becomes(t, [x EXCEPT !.step[i] = "patch", !.entry[i] = None])
        /\ UNCHANGED metricsRecent

Patched(row, body) ==
    [status |-> Given(body.status, row.status),
     release |-> body.release,
     progress |-> Given(body.progress, row.progress)]

(* The PATCH of the image install, filtered on $not: body.                 *)
PatchInstall(t, i) ==
    LET x == request[t]
        row == Seen(t, i)
        new == Patched(row, UpdateBody(x.body, i))
    IN  /\ x.step[i] = "patch"
        /\ new # row => Free(t, i)
        /\ Becomes(t, [x EXCEPT !.step[i] = "none",
                                !.mine[i] = IF new # row THEN new ELSE @])
        /\ UNCHANGED <<lastReport, metricsRecent>>

(* deleteOldImageInstalls, once all upserts are done.                      *)
IsDeleted(row) == row.status = "deleted" /\ row.progress = Null

OldInstalls(t) ==
    {i \in Images \ Reported(request[t].body) : Seen(t, i) # None /\ ~IsDeleted(Seen(t, i))}

DeleteOld(t) ==
    LET x == request[t]
        old == OldInstalls(t)
    IN  /\ x.phase = "upsert"
        /\ \A i \in Images : x.step[i] = "none"
        /\ \A i \in old : Free(t, i)
        /\ Becomes(t, [x EXCEPT !.phase = "done",
                                !.mine = [i \in Images |->
                                            IF i \in old
                                            THEN [Seen(t, i) EXCEPT !.status = "deleted",
                                                                    !.progress = Null]
                                            ELSE @[i]]])
        /\ UNCHANGED <<lastReport, metricsRecent>>

Commit(t) ==
    LET x == request[t]
    IN  /\ x.pc = "tx"
        /\ ~x.patches
        /\ x.phase = "done"
        /\ device' = SeenDevice(t)
        /\ install' = [i \in Images |-> Seen(t, i)]
        /\ request' = [request EXCEPT ![t] = Idle(x.body)]
        /\ UNCHANGED <<lastReport, metricsRecent, faults, ghosts>>

-----------------------------------------------------------------------------
(* The transaction is rolled back; the cache entries stay.                 *)
RollBack(t) ==
    /\ request' = [request EXCEPT ![t] = Idle(request[t].body)]
    /\ alone' = None
    /\ UNCHANGED <<device, install, lastReport, metricsRecent, uncached>>

(* The image install was created by another report meanwhile, or there is  *)
(* no status to give it.                                                   *)
PostFails(t, i) ==
    /\ request[t].step[i] = "post"
    /\ install[i] # None \/ UpdateBody(request[t].body, i).status = Undefined
    /\ RollBack(t)
    /\ UNCHANGED faults

(* Request t has an update that waits for a row of request u.              *)
WaitsFor(t, u) ==
    LET x == request[t]
    IN  /\ t # u
        /\ x.pc = "tx"
        /\ \/ x.patches /\ Differs(x, SeenDevice(t)) /\ HoldsDevice(u)
           \/ \E i \in Images : x.step[i] \in {"post", "patch"} /\ Holds(u, i)
           \/ x.phase = "upsert" /\ \E i \in OldInstalls(t) : Holds(u, i)

(* The database ends one of the transactions that wait in a circle.        *)
Deadlock(t) ==
    /\ \E T \in SUBSET Requests :
         t \in T /\ \A u \in T : \E v \in T : WaitsFor(u, v)
    /\ RollBack(t)
    /\ UNCHANGED faults

(* UnauthorizedError for an unknown device, release or image, an id of     *)
(* version 2 that is no number, a database that does not answer, or an     *)
(* instance that stops.                                                    *)
Fail(t) ==
    /\ request[t].pc # "idle"
    /\ faults < MaxFaults
    /\ faults' = faults + 1
    /\ RollBack(t)

-----------------------------------------------------------------------------
(* Time passes.                                                            *)
EntryDue(i) ==
    /\ lastReport[i] # None
    /\ ~lastReport[i].due
    /\ lastReport' = [lastReport EXCEPT ![i] = [@ EXCEPT !.due = TRUE]]
    /\ UNCHANGED <<device, install, metricsRecent, request, faults, ghosts>>

(* IMAGE_INSTALL_CACHE_TIMEOUT_SECONDS after the last update.              *)
EntryExpires(i) ==
    /\ lastReport[i] # None
    /\ lastReport' = [lastReport EXCEPT ![i] = None]
    /\ UNCHANGED <<device, install, metricsRecent, request, faults, ghosts>>

MetricsDue ==
    /\ metricsRecent
    /\ metricsRecent' = FALSE
    /\ UNCHANGED <<device, install, lastReport, request, faults, ghosts>>

-----------------------------------------------------------------------------
Step(t) ==
    \/ CheckMetrics(t)
    \/ SetMetrics(t)
    \/ Fetch(t) \/ ResolveRelease(t)
    \/ PatchDevice(t)
    \/ ReadInstalls(t)
    \/ \E i \in Images : Post(t, i)
    \/ \E i \in Images : GetReport(t, i)
    \/ \E i \in Images : SetReport(t, i)
    \/ \E i \in Images : PatchInstall(t, i)
    \/ DeleteOld(t)
    \/ Commit(t)
    \/ \E i \in Images : PostFails(t, i)
    \/ Deadlock(t)

Next ==
    \/ \E t \in Requests, b \in Reports : Receive(t, b) \/ ReceiveV2(t, b)
    \/ \E t \in Requests : Step(t)
    \/ \E t \in Requests : Fail(t)
    \/ \E i \in Images : EntryDue(i)
    \/ \E i \in Images : EntryExpires(i)
    \/ MetricsDue

Spec == Init /\ [][Next]_vars

-----------------------------------------------------------------------------
(* The image installs are those of report b, which may leave out a status. *)
(* The progress of a download is left out: it is throttled on purpose.     *)
InstallStored(b, i) ==
    IF i \in Reported(b)
    THEN /\ install[i] # None
         /\ install[i].release = b.apps[i].release
         /\ Normalized(b.apps[i].status) \in {Undefined, install[i].status}
    ELSE install[i] # None => install[i].status = "deleted"

Stored(b) ==
    /\ b.fields \in {Undefined, device.fields}
    /\ b.metrics \in {Undefined, device.metrics}
    /\ b.apps # None => \A i \in Images : InstallStored(b, i)

(* The last report was answered with 200 and ran by itself.                *)
Undisturbed == alone # None /\ request[alone].pc = "idle"

(* Whatever reports that overlapped, that were rolled back after they set  *)
(* a cache entry, or that took effect in another order have left behind in *)
(* the tables and caches, one report that runs by itself and that no cache *)
(* entry suppresses puts it right.                                         *)
ReportIsStored ==
    Undisturbed /\ uncached => Stored(request[alone].body)

(* Rows, cache entries and requests are well-formed, whichever reports     *)
(* overlap, and ReportIsStored.                                            *)
ReportInv == TypeOK /\ ReportIsStored
=============================================================================
