# Verification of open-balena-api

TLA+ models of the parts of open-balena-api whose correctness depends on more
than one actor: API instances that share a database and a Redis, the devices
that poll, report and log, the queue and the timers between them, and requests
that run at the same time. TLC checks the models on small instances, TLAPS
proves the main invariants for every instance. Paths below are relative to the
repository.

## 1. The system and its parts

open-balena-api is a stateless Node.js service, run in several instances.
PostgreSQL holds the fleet (applications, releases, images, devices and what
each device should and does run). It is accessed through Pine.js, which
validates the rules of `src/balena.sbvr` and lets features attach *hooks* to
the stages of a request (POSTPARSE, PRERUN, POSTRUN, POSTRUN-ERROR), all
inside one READ COMMITTED transaction. Redis holds caches, a message queue,
the device logs, job locks and rate limits. Within an instance JavaScript runs
each callback to its end, so two calls interleave at their awaits only; across
instances and in the database they interleave anywhere.

| Component (`src/features/...`) | State | Operations | Interacts with | What is hard | What makes it correct |
|---|---|---|---|---|---|
| device-heartbeat | `api_heartbeat_state` of a device; a Redis write cache; the queue of expiry messages | a state GET marks online and schedules the expiry; consumers move a silent device to timeout and then offline | device-state emits `get-state`; RSMQ; the device model | unawaited scheduling, stale cache entries, redelivery, crashes | an online device always has an expiry pending; a silent one ends offline, a polling one online |
| ci-cd: release versioning, tracking | `revision` and finality of releases, target release of an application | POST and PATCH of releases | release rules of `balena.sbvr`; advisory locks | rows read before a lock, several locks, reads without a lock | revisions are unique; a final release stays final; the target is the latest release |
| device-logs: write | the buffer of a write request | a chunk of lines, a flush, back-pressure | logs backend | a timer that is not set, failures half way | each line is stored once, in order, or counted by a warning; the buffer is bounded |
| device-logs: Redis, read | list, channel and subscribers counter of a device; stream of a reader | publish, subscribe, unsubscribe, history | write, Redis pub/sub | two connections that are not awaited, readers that come and go, outages | the counter covers every subscriber; no message is missed |
| device-logs: Loki | tail subscriptions | push, query, tail | Loki | reconnects | as for Redis |
| device-state: report (PATCH) | image installs and reported fields of devices, caches of reports | state patch v2, v3, tags | device-state hooks, metrics | caches written before the commit, upserts that race | what a device reports last is what is stored |
| device-state: target (GET) | existence and frozen cache | state get v2, v3, fleet | heartbeat (event), cascade of targets | two-level caches, absence cached | a device is told the release its pin, application and host app say |
| ci-cd: service installs | `service_install` rows, a task queue | hooks on create, move and pin of devices; the task | devices, applications, supervisor | task against hooks, continuations of a task | each device has the installs of its target release |
| devices | application of a device | create, move, delete | service installs, image installs | lists read before the update | nothing of the old application stays |
| hostapp, supervisor-app | target host OS and supervisor release | hooks on create, provisioning and PATCH | device types, releases | read and write in one request | the target is of the device's type, never a downgrade |
| vars-schema, device-proxy, vpn | variables, the VPN instance of a device | change of a variable, update request to a device, connect and disconnect | target state | devices looked up before or after a commit, requests sent once, late disconnects | a device with an outdated state is told or known to be missed; requests go to the instance that holds the tunnel |
| contracts | device types, architectures and aliases in the database | periodic synchronization | scheduler | no transaction, failures half way, overlapping runs | a run without trouble repairs what earlier ones left |
| releases, applications | pins and targets | delete, unpin | cascade-delete | check before delete | nothing is pinned to a release that is gone |
| images, registry | image locations, tokens, registry | delete image, delete task, token | registry service | check before delete, retries | no layer in use is deleted; a token grants what its owner may do |
| device-provisioning, api-keys | devices, their keys | register, deny conflicting registrations, delete | auth, caches | aborted requests, answers cached before a change | no half-made device; a registered device is not refused for ever |
| infra: scheduler, cache | job locks and runs; two-level memoized reads | schedule; get, delete | all of the above | expiry of a lock, stale local copies | the lock is a lease; both levels come to agree with the database |

The other parts are listed in `PROJECT.json` with the reason they are not
modelled; section 6 sums them up.

## 2. Modules

| Module | Models | Composes or extends |
|---|---|---|
| `DeviceHeartbeat` | `src/features/device-heartbeat/index.ts` | |
| `Revisions` | abstract: what release versioning promises | |
| `ReleaseVersioning` | `src/features/ci-cd/hooks/release-versioning.ts`, `track-latest-release.ts` | implements `Revisions` |
| `ReleaseTracking` | what the target of an application promises | `ReleaseVersioning` and a history variable: whether requests came one after the other |
| `LogWriteStream` | `handleStreamingWrite` of `src/features/device-logs/lib/store.ts` | |
| `DeviceLogs` | `lib/backends/redis.ts` and the streaming reads of `lib/read.ts` | `LogWriteStream`: its `Publish` is a conjunct of `PublishLogs` |
| `StateReport` | `src/features/device-state/routes/state-patch-v2.ts`, `state-patch-v3.ts`, `state-patch-utils.ts` | |
| `DeviceStatus` | computed fields of `src/features/devices/models/device-additions.ts` | operators over the tables of `StateReport` |
| `SystemApps` | `hostapp/hooks/target-hostapp.ts`, `supervisor-app/hooks/supervisor-app.ts` as functions | |
| `Fleet` | PATCH and POST of device, PATCH of application with all their hooks; the task `create_service_installs` | `SystemApps` |
| `TargetState` | `state-get-v2.ts`, `state-get-v3.ts`, `fleet-state-get-v3.ts`, `state-get-utils.ts` as functions | |
| `TargetUpdates` | hooks that announce a change (`vars-update-trigger.ts`, `app-update-trigger.ts`, `device-update-trigger.ts`), `device-proxy.ts`, `vpn/services.ts`, devices that poll | `TargetState` |
| `Registry` | `registry/registry.ts`, deletion of images and the task `delete_registry_images` | `TargetUpdates`: pulls what the target states name |
| `Access` | `device-provisioning`, the memoizer of `infra/cache`, `device-state/middleware.ts` | |
| `Lease` | abstract: what a job lock promises | |
| `Scheduler` | `src/infra/scheduler/index.ts` | implements `Lease` |
| `ContractSync` | `src/features/contracts` | `Scheduler`: the job it executes |
| `MC*` | constants for TLC | |
| `*Proofs` | theorems about the module of that name | `ReleaseVersioningProofs` also about `ReleaseTracking`, `DeviceLogsProofs` about `LogWriteStream`, `FleetProofs` about `SystemApps`, `RegistryProofs` about `TargetUpdates` and `TargetState`, `SchedulerProofs` about `ContractSync` and `Lease` |

A definition preceded by a comment *Mutant:* is a deliberately broken variant
of the one that follows it. It is part of no specification; it is there to show
that a property fails when the code is wrong in that way.

### DeviceHeartbeat

`db`, `cache` and `queue` are the committed state of the devices, the Redis
entries and the RSMQ queue; a member of `Handlers` is a running
`captureEventFor`, of `Background` a `scheduleChangeOfStateForDevice` that
`consume` left running, of `Consumers` a `consume()` loop. Every await ends a
step:

| Code | Actions |
|---|---|
| `captureEventFor` | `Poll`, `ReadState`, `UpdateOnline`, then the schedule |
| `scheduleChangeOfStateForDevice` | `DeleteOld`, `Send`, `SetCache` |
| `consume` | `Receive`, `UpdateExpired`, `ScheduleOffline`, `DeleteCache`, `Acknowledge` |
| delays and expiries | `Due`, `Redeliver`, `ExpireCache`, `UpdatedAtGrowsStale` |
| catch blocks, crashes | `ReadFails`, `ScheduleReadFails`, `DeleteFails`, `HandlerFails`, `ConsumerFails` |

Abstractions. Time is events. RSMQ ids are never reused, and deleting an id
that is gone does nothing; the model forgets an id wherever it is held when its
message is deleted, and can then give it to a new message, which keeps the ids
finite. `MaxQueued` makes a new poll wait while too many messages exist, a
bound of the model. `PromptCalls` says that no call outlasts a message's delay
or visibility timeout; only `heartbeat_liveness` assumes it.

### ReleaseVersioning

A transaction (`Txs`) is a request. `mine` and `mineApp` are its uncommitted
rows: a query sees them over the committed `release` and `target`; a write waits
for rows other transactions wrote. `locks` are the advisory locks of
`getAdvisoryLockForApp`.

| Code | Actions |
|---|---|
| POST release (POSTPARSE, POSTRUN) | `Create`, then tracking |
| PATCH release, POSTPARSE and PRERUN | `Receive`, `Prerun`, `NullRevisions` |
| the UPDATE | `Run` |
| PATCH release, POSTRUN | `Lock` (one per application, in the order of ids), `Assign` (one per release) |
| `updateLatestRelease` | `Track` (the read), `SetTarget` (the write) |
| end of the transaction | `Commit`, `Rollback` |

Abstractions. A semver is one value; `good` merges the build status, passing
tests and not being invalidated, which tracking only uses together. Releases
are started in the order of their ids, and finalization in one request keeps
that order. The tracking hook of a PATCH runs its queries after the first lock
and before the first revision: the order in which Pine.js runs the two POSTRUN
hooks that wait for each other's queries. The SBVR rules are validated with
each write. `revN` metadata given by a user can only make a request fail, which
`Rollback` covers. Deletion of a release is left out.

`Revisions` is what a reader of the release table is promised: a variable
`numbered` (the version and revision of each final release) and one action,
`Number`, by which one commit numbers its releases in the order of their ids,
each after the last. `Numbered` maps the committed table to it, without the
versions that a PATCH may take a release out of (`Stays`); every step but
`Commit` stutters.

### LogWriteStream and DeviceLogs

Lines are numbered as they arrive; an item of `buffer`, `inflight` and `feed`
is a line or a suppression warning, which records the range of lines it
replaces (the code prints how many). `feed` is all that was ever pushed to the
Redis list; the list is its tail of `RetentionLimit` items.

| Code | Actions |
|---|---|
| 'data' listener | `Data` (a chunk of lines) |
| `tryPublish`, up to the answer | `TryPublish` |
| its end, `publishLogs` script | `Publish`, `PublishLogs` |
| `handleStoreErrors` | `PublishFails` |
| `subscribe`, `unsubscribe` | parts of `Open` and `Close` |
| `handleStreamingRead` | `Open`, `ReadHistory`, `FlushHistory`, `HistoryFails`, `Close`, `Drain` |
| `handleMessage`, `onLog` | `HandleMessage` |
| Redis scripts and commands | `ExecuteCommand`, `ExecuteChannelCommand`, `ExpireCounter` |
| `connected` | `Disconnect`, `Reconnect` |
| an instance stops | `Crash` |

Abstractions. `up` is one flag per instance for its connections to Redis. With
`REDIS_LOGS_COMPRESSION_ENABLED` messages are decompressed off the main thread,
so an instance in `Compressing` may handle them out of order. The replica the
read-only connection may use is taken to be up to date. A lost pub/sub
connection that loses messages, the batch POST `store`, the `start` filter of a
read, the expiry of the list, a publish the Redis client sends twice and a
crash of the instance that serves the write request are left out. `joined` is a
history variable: the position of `feed` at which a reader's subscription was
in place.

### StateReport

The reports of one device (the rows of two devices are disjoint). `device` and
`install` are the committed rows, `lastReport` and `metricsRecent` the Redis
caches that decide what is written, a member of `Requests` is a running PATCH
with its uncommitted rows.

| Code | Actions |
|---|---|
| `statePatchV3` up to the transaction | `Receive`, `CheckMetrics`, `SetMetrics`, `Fetch` |
| `statePatchV2`, which looks the release up inside the transaction | `ReceiveV2`, `CheckMetrics`, `SetMetrics`, `Fetch`, `ResolveRelease` |
| the updates of the transaction, side by side | `PatchDevice`; `ReadInstalls`, then `Post` or `GetReport`, `SetReport`, `PatchInstall` for each image, then `DeleteOld` |
| end of the transaction | `Commit`, `PostFails`, `Deadlock`, `Fail` |
| cache timeouts | `EntryDue`, `EntryExpires`, `MetricsDue` |

Abstractions. The reported fields of the device (with the running release and
the update status) are one value and the metrics another. A report names an
image once. What `fetchData` looks up does not change while a report runs; a
report that names an unknown release or image is one that fails. Validation,
truncation and the limits of numbers are left out. `alone` and `uncached` are
history variables: the request that has been the only one since it started, and
whether the caches held nothing equal to its report then. A report carries the
version of the endpoint it is sent to.

`DeviceStatus` evaluates *overall status* and *overall progress* over what the
reports leave in `install`, for every combination of the other fields they read
(`Circumstance`): it has no steps of its own.

### SystemApps and Fleet

`SystemApps` holds the queries of the host app and supervisor hooks: which
release matches a reported version and variant (`OSRelease`, `SupervisorRelease`),
whether a new target is an upgrade, how a report progresses the target. A version
is a number that ranks it. `Fleet` runs them inside requests:

| Code | Actions |
|---|---|
| PATCH device: POSTPARSE; PRERUN of `moving.ts`, `service-installs.ts`, `supervisor-app.ts` | `ReceivePatch`, `PreRun`, `SetSupervisor` |
| the UPDATE; POSTRUN of `target-hostapp.ts`, `service-installs.ts` | `Update`, `PostRun`, `Insert` |
| POST device, PATCH application | `PostDevice`, `PatchApplication`, `Insert` |
| end of the transaction, the end listeners | `Commit`, `FailRequest`, `Notify` |
| task `create_service_installs` | `StartTask`, `FindMissing`, `InsertMissing`, `TimeIsUp`, `CommitTask`, `FinishTask`; `TaskConflict`, `DeadlockTask`, `RetryTask`, `CrashWorker` |
| devices, releases | `Report`, `Invalidate` |

A statement waits for rows other transactions wrote; PRERUN reads before it holds
them. `serial` is a history variable: no two requests have overlapped. The
promises about complete and left-over installs are only kept for those (see
section 4), those about host app targets and notifications always.

The query that returns the devices a task still has to serve has no order, so two
tasks may insert for the same devices in different orders and deadlock. The
database aborts one of them (`DeadlockTask`) and the task queue, which is external
and backs off for seconds, tries it again (`RetryTask`); the model lets the next
attempt start once the transaction that got the keys has ended. Without that
delay two tasks could abort each other for ever.

### TargetState, TargetUpdates and Registry

A target state is a function of the tables (`Db`): applications, their services
with image, environment and update strategy, and the configuration. Versions 2
and 3 and the fleet state are assembled by separate code, and by separate
operators here. Environments and labels are reduced to one variable and one label
each, with the order in which rows override each other. `TargetUpdates` adds who
is told of a change: `WriteVar`, `LookUp`, `LookUpFails` and `DeletePreRun`,
`DeleteCommit`, `DeleteRollback` for variables; `PatchDevice`, `PatchApplication`;
`Post`, `PostApp` for `requestDevices`; `StartPoll`, `EndPoll`, `Report` for
devices; `ClientConnect`, `LoseLink`, `ClientDisconnect` for the VPN. `missed` is a
history variable of the devices that a change was not announced to because they
were not connected, the request was lost, the lookup failed, or the filter of the
hook leaves them out.

`Registry` adds the token endpoint (`Token`, with the memoized lookups and
`Expire`) and the deletion of images (`DeleteImages`, `StartTask`, `DeleteRepo`,
`EndTask`, `TimeOut`, `FailTask`). A scope is reduced to the kinds that
`authorizeRequest` tells apart. JWTs, certificates and the deletion of objects by
pages are left out.

### Access

One uuid. The existence cache has a memory level per instance (`local`) and a
level in Redis (`shared`); `wire` holds the commands an instance has sent to
Redis, in order. `Look`, `Arrive`, `Query`, `Store` are a memoized lookup, which
later callers join; `Register` to `Respond` the registration with its
transaction; `DeleteDevice` and `InvalidateDevice`, `DeleteKey` and
`InvalidateKey` a deletion and its listener after the commit; `Drop` a command
that Redis fails; `Crash` the end of a process.

### Lease, Scheduler and ContractSync

`Lease` says what a job lock is for: nobody enters while another holds it, a
lease may run out under its holder, and a client gives back its own lease only.
`Scheduler` has one handler per instance, from the timer (`Fire`) over `Lock`,
`Check` (against a replica that lags), `Post` (the record of the run), the job,
and `PatchSuccess` or `PatchError` to `Unlock`, each with its failure. Its lock,
the handlers past `Lock` and those whose lock ran out refine `Lease`
(`IsLease`). `ContractSync` fills in the job: `Fetch`, `MapType` for each type in
order, `Upsert` for each entry with its aliases, and their failures, which are
`JobStumbles` steps of the scheduler.

## 3. Runs

| Run | Instance | Shows |
|---|---|---|
| `heartbeat_safety` | 1 device, 1 handler, 1 background call, 2 consumers, 3 message ids; calls arbitrarily slow; a failed cache read or deletion | `OnlineWillExpire`, `TimeoutWillGoOffline`: no handler or consumer loses the expiry of a device |
| `heartbeat_liveness` | the same with 1 consumer, prompt calls, one crash of a handler or consumer, update cache timeout set | `SilentDeviceGoesOffline`, `PollingDeviceComesBack` |
| `release_finalize` | 2 applications, 4 releases, 2 requests that create drafts and final releases and finalize 2 at a time as another version | `UniqueRevision`, `LockInv` (`LocksNeverCycle`), `IsSerial` (the refinement of `Revisions`) |
| `release_retag` | 2 requests that finalize, retag and judge 2 releases | `FinalStaysFinal`; `TargetIsLatestInTurn` for requests that did not overlap |
| `logs_write` | 10 lines in chunks of up to 3, buffer limit 2, outages, failures | `LinesAccountedFor`, `BufferWillFlush`, `BufferBounded`, `EveryLineIsPublished` |
| `logs_stream` | the writer's instance and 2 reading instances, 3 readers (one alone on its instance, two sharing one, one of these with a history), a crash | `StreamInv` (`SubscribersCounted`), `NothingMissed` |
| `report_overlap` | 2 reports at a time, one of them of version 2, 2 images, an update that replaces one image by the other, one failure | `ReportInv` (`ReportIsStored`: one undisturbed, uncached report repairs all that went before), `ProgressFitsStatus` |
| `fleet_installs` | tasks on, 2 workers, batches of 2, up to 3 requests that move, move and pin, pin, unpin and register devices and change the target of their fleet, one fault | `FleetInv` (`InstallsComplete`), `NoSilentChange`, `EverythingEnds` |
| `fleet_os` | tasks off, 2 overlapping requests (3 in all), reports of OS and supervisor versions, upgrades, device types, drafts, invalidation | `OsTargetNotOlder`, `InstallsComplete`, `NothingLeftBehind`, `SupervisorNotDowngraded` |
| `target_state` | 2 devices (one is patched, one only has variables), 2 fleets, a host app with an updater; any 2 of: change and deletion of variables, moves, pins, target releases, tokens, deletion of images; one failure, lost link or timeout; 2 VPN instances | `StaleDeviceIsTold`, `ConnectionIsKnown`, `VersionsAgree`, `FleetStateIsWhatDevicesGet`, `TargetIsPullable`, `PullsOwnImages`, `RegistryInv` (`NoImageForgotten`) |
| `access` | 2 instances, 2 registrations with the same key, 1 deletion, 1 crash or failed Redis command | `AccessInv` (`WholeOrNothing`), `CachesSettle`, `RegistrationEnds` |
| `scheduler` | 2 instances, 2 slots, 2 runs, 1 fault, 3 contracts of 3 types in 2 versions | `Exclusive`, `OncePerSlot`, `SyncInv` (`CleanRunSynchronizes`), `IsLease`, `RunsEnd` |

The invariants named `...Inv` are the type invariant of their module together
with the one in parentheses.

Why the bounds are enough to be interesting:

- *Heartbeat.* Devices share nothing but the queue, whose messages are
  independent, so one device is where the races are. Three ids let a message be
  handled, replaced and redelivered at once; two consumers let the same message
  be handled twice. `MaxQueued = 1` still allows a poll while one message is
  pending. The theorems of section 5 remove all of these bounds.
- *Releases.* Two requests suffice for every pairwise race; two applications
  for two locks in two orders; four releases for a PATCH of a pair in each.
  `release_finalize` has two releases per application, hence revisions 0 and 1
  (`MaxRevision = 1`): a request that would number a release a third time cannot
  go on and rolls back. With one application and two releases, `MaxRevision = 3` of
  `release_retag` leaves room for such repetitions.
- *Logs.* With a buffer limit of 2 and chunks of 3 the buffer overflows within
  one chunk, and ten lines pass several cycles of pause, warning and flush. In
  `logs_stream` a buffer limit and retention of 1 make warnings and the trimming
  of the history happen with two lines.
- *Reports.* Two requests give every pairwise race, conflict on insertion and
  deadlock; the three reports differ in the device fields, name different images
  and include one with metrics only, so that each cache is hit and missed.

- *Fleet.* `serial` properties need three requests at most: one to get into a
  special case (pinned, moved, registered), one that changes the fleet, one more.
  Two workers on one task bag conflict, time out and are restarted with a fault
  each; a batch of 2 with services of up to 2 makes a task need several turns. The
  catalogue has a version in a tag, drafts and a draft of the same version.
- *Target state.* Two changes, of any of the kinds, overlap with each other, two
  devices and one fault: every pair of a change and a stale lookup. A pinned and
  a tracking device, a gated service and labels on either level make each rule of
  the states apply. The deleted images are those a scope, a pin and an
  updated fleet name. Only the first device is patched (`DevicePatches`) and may lose
  its link to the VPN (`Unreliable`); the second is pinned to a release of another fleet
  and is there for the changes that concern one device or some devices of a fleet.
- *Access.* A lookup, the change that overtakes it and the answer stored late need
  one instance; the second is the one whose memory nothing invalidates.
- *Scheduler.* Two handlers and one fault give every overlap after a lock that
  ran out; the second version of the contracts adds an entry, a reference and an
  alias to what a failed run may have left half done.

Runs of safety and action properties declare the requests, transactions, handlers or
consumers symmetric (`MCSymmetry`): no definition tells them apart. Runs with a
liveness property do not.

The theorems of section 5 remove the bounds of every safety property.

Deadlock is checked in the release and report runs. The others may stop: in
`heartbeat_safety` slow calls may fill the message slots, in `heartbeat_liveness`
a device falls silent, and the rest end when their lines, requests, slots or
readers are used up.

### Fairness

- *Heartbeat:* weak fairness of each running call and consumer (promises settle
  and the loop calls itself again), of the delay and visibility timeout of a
  message, and of the ageing of `updatedAt` (time passes); strong fairness of a
  device's poll, because a device that is not silenced polls on whatever else
  goes on and the model may close the door on a poll now and then (`MaxQueued`
  and the slots). No fairness for failures, the expiry of a cache entry or
  silence.
- *Logs:* weak fairness of the timer and of the answer of the backend (success
  or failure). `EveryLineIsPublished` assumes that the backend stays available
  from some point on; nothing obliges it to.

- *Fleet:* weak fairness of the steps of a request that has been received and of
  the workers: the queue hands out tasks as long as there are any.
- *Access:* weak fairness of timers that run out, of Redis answering, of lookups,
  listeners and registrations that have begun. Nothing obliges anyone to send a
  request, and no fairness is assumed of failures or aborts.
- *Scheduler:* weak fairness of each handler's own steps and those of its job; not
  of time, of the timer or of the replica.

The other properties are safety properties and assume no fairness.

## 4. Limits of what holds

The properties say under which condition the code keeps them. Where a condition is
not obvious, this is what happens without it:

- *Heartbeat.* `PollingDeviceComesBack` needs the update cache timeout. With the
  default (none), a state GET that read the cache before the offline handling
  deleted the entry puts an online entry back, which suppresses the database write
  of the following GETs; the device stays offline as long as it polls often
  enough for the entry not to expire, although the comment at
  `src/features/device-heartbeat/index.ts:333` says the two get back in sync.
- *Releases.* `UniqueRevision` needs that no PATCH changes a version
  (`KeepsVersion`): a retag that read a draft just before another request finalized
  it takes the new revision along to the other version without the advisory lock.
  A finalization repeated while the first is running revises the release a second
  time (`release-versioning.ts:257` lists it before the lock): revisions are unique, but
  a committed one may change to a larger one of the same version and leave a gap. `IsSerial`
  allows it, as `Number` may number a release again, and holds under `KeepsVersion`
  or, in the run, for the versions no PATCH takes a release out of.
  `TargetIsLatest` needs requests in turn: `updateLatestRelease` reads the latest
  release and writes it without a lock. Row locks taken before and after the
  advisory lock may make two requests wait for each other; the database ends one.
- *Logs.* `SubscribersCounted` needs that the reading instances keep their
  connection: a reader opened during an outage is not counted but decrements the
  counter when it closes (`redis.ts:231`). `NothingMissed` is checked for lines of
  different milliseconds: buffered messages are appended from the first with a
  *greater* millisecond than the last of the history (`read.ts:207`). A line that is
  published before the history is read may be written twice.
- *Reports.* `ReportIsStored` needs a report that no cache entry equals:
  `deleteOldImageInstalls` (`state-patch-utils.ts:340`) marks rows as deleted but
  leaves their entries, so a later report equal to the entry is answered with 200
  and skipped until the entry expires. Overall progress does not ask for the heartbeat as
  overall status does, which `ProgressFitsStatus` spells out.
- *Service installs.* Of two overlapping requests, one may work from a target the
  other just replaced; `InstallsComplete` and `NothingLeftBehind` are about requests
  in turn. With tasks disabled a request that both moves and pins a device
  (`service-installs.ts:322`) takes the path of the move.
- *System apps.* A registration that names a target host app is not compared with the OS
  it reports, neither the release with the version in its tag, so `OsTargetNotOlder` is
  about devices registered without a choice of their own.
- *Notifications.* The variables of an image are announced to devices that
  have installed it, not to those about to (`vars-update-trigger.ts:256`); a new
  target is not announced to devices that still report to run it
  (`app-update-trigger.ts:21`); nothing announces a new release of an updater or a variable
  of a host app or supervisor. All are in `missed`: the next poll finds the change.
- *Access.* The deny check of a registration answers from the cache: after a
  deletion on another instance the device is refused until the entry expires, which
  `CachesSettle` bounds (`gracefully-deny-conflicting-registrations.ts:62`). Deleting a
  device leaves the row of its API key.

## 5. Theorems

| Theorem | Statement | Assumptions |
|---|---|---|
| `DeviceHeartbeatProofs!TypeCorrect` | `Spec => []TypeOK` | `HeartbeatAssumption` |
| `DeviceHeartbeatProofs!OnlineExpires` | `Spec => [](CallsComplete => OnlineWillExpire)` | |
| `DeviceHeartbeatProofs!TimeoutExpires` | `Spec => [](CallsComplete => TimeoutWillGoOffline)` | |
| `ReleaseVersioningProofs!TypeCorrect` | `Spec => []TypeOK` | `ReleaseAssumption`, `FiniteAssumption` |
| `ReleaseVersioningProofs!RevisionsUnique` | `KeepsVersion => (Spec => []UniqueRevision)` | |
| `ReleaseVersioningProofs!RevisionsSerial` | `KeepsVersion => (Spec => IsSerial)` | also `NumberedAssumption` |
| `ReleaseVersioningProofs!LocksInOrder` | `Spec => []LockInv` | |
| `ReleaseVersioningProofs!FinalReleasesStayFinal` | `Spec => FinalStaysFinal` | |
| `ReleaseVersioningProofs!TargetsFollow` | `TrackingSpec => []TargetIsLatestInTurn` | |
| `DeviceLogsProofs!LinesKept` | `WriteSpec => []LinesAccountedFor` | `WriteAssumption` |
| `DeviceLogsProofs!FlushAhead` | `WriteSpec => []BufferWillFlush` | |
| `DeviceLogsProofs!Bounded` | `WriteSpec => []BufferBounded` | |
| `DeviceLogsProofs!SubscribersAreCounted` | `ReadersConnected => (Spec => []StreamInv)` | also `ReadAssumption` |
| `DeviceLogsProofs!NothingIsMissed` | `ReadersConnected /\ LinesApart => (Spec => []NothingMissed)` | also `ReadAssumption` |
| `StateReportProofs!ReportsAreStored` | `Spec => []ReportInv` | `ReportAssumption`, `RowAssumption` |
| `StateReportProofs!ProgressAndStatusAgree` | `Spec => []ProgressFitsStatus` | also `PercentAssumption` |
| `FleetProofs!OsIsNotDowngraded` | `Spec => []OsTargetNotOlder` | `FleetAssumption`, `RegistrationAssumption` |
| `FleetProofs!NewTargetsAreTold` | `Spec => []NoSilentChange` | `FleetAssumption`, `RegistrationAssumption` |
| `FleetProofs!SupervisorIsNotDowngraded` | `Spec => SupervisorNotDowngraded` | `FleetAssumption`, `RegistrationAssumption` |
| `FleetProofs!InstallsAreComplete` | `Immediate => (Spec => []InstallsComplete)` | `FleetAssumption`, `RegistrationAssumption`, `TablesAssumption` |
| `FleetProofs!MovesLeaveNothingBehind` | `Immediate => (Spec => []NothingLeftBehind)` | `FleetAssumption`, `RegistrationAssumption`, `TablesAssumption` |
| `FleetProofs!FleetIsConsistent` | `Async \/ Immediate => (Spec => []FleetInv)` | `FleetAssumption`, `RegistrationAssumption`, `TablesAssumption`, `FiniteAssumption` |
| `RegistryProofs!VersionsOfStateAgree` | `Spec => []VersionsAgree` | `OneImagePerService`, `TargetAssumption`, `UpdatesAssumption`, `RegistryAssumption` |
| `RegistryProofs!FleetStateIsFaithful` | `Spec => []FleetStateIsWhatDevicesGet` | the same |
| `RegistryProofs!TargetsCanBePulled` | `Spec => []TargetIsPullable` | the same |
| `RegistryProofs!DevicesPullTheirImages` | `Spec => []PullsOwnImages` | the same |
| `RegistryProofs!ConnectionsAreKnown` | `Spec => []ConnectionIsKnown` | the same |
| `RegistryProofs!StaleDevicesAreTold` | `Spec => []StaleDeviceIsTold` | the same |
| `RegistryProofs!RepositoriesAreDeleted` | `Spec => []RegistryInv` | the same |
| `AccessProofs!RegistrationIsWhole` | `Spec => []AccessInv` | `AccessAssumption` |
| `SchedulerProofs!SyncIsScheduled` | `Spec => SchedulerSpec` (of `ContractSync`) | `SchedulerAssumption`, `ContractAssumption` |
| `SchedulerProofs!HandlersExclude` | `Spec => []Exclusive` | |
| `SchedulerProofs!LockIsLease` | `Spec => IsLease` | |
| `SchedulerProofs!RunsOncePerSlot` | `Spec => []OncePerSlot` | |
| `SchedulerProofs!CleanRunsSynchronize` | `Spec => []SyncInv` | |

They hold for any number of devices, requests, applications, releases, images,
messages, lines, handlers and failures. The assumptions are typing of the constants,
and conditions the database or the code keeps on them: a release has one image per
service (a unique key), a pin and a target are releases of the application (a rule of
`balena.sbvr`), the tables TLC starts from obey the rules later writes are checked
against, contracts come with what they refer to, devices and applications are
finitely many, reported progress is a percentage. The runs that extend a module
evaluate its assumptions. What goes beyond that stands in the statement:

- `CallsComplete` excludes handlers and consumers that stop half way (an instance that
  stops after writing online leaves nothing pending); `heartbeat_liveness` shows what
  remains true with them.
- `KeepsVersion` is exactly what a retag violates.
- `PercentAssumption` is a promise of the supervisor: the API stores the download
  progress it is sent (`state-patch-utils.ts:226`) and would average any numbers.
- `ReadersConnected`, `LinesApart`: the reading instances keep their connection, and no
  two lines share a millisecond; section 4 says what happens otherwise.
- `Immediate`: tasks are off, which is the default (`src/lib/config.ts:91`), and no
  request both moves and pins a device. `Async`: tasks are on; `FleetIsConsistent`
  covers both, and `InstallsComplete` is part of its `FleetInv`.

### The arguments

- *Heartbeat.* That an online device has an expiry pending is not inductive: a
  handler deletes the message its cache entry names, so one must know which
  message that is. `ReferencesOK` says that an id held anywhere names a queued
  message of the same device, and that an entry that says online names a timeout
  message; hence a handler that did not write online deletes only a timeout
  message, and only when it is about to send another.
- *Revisions.* Between the read of the next revision and the commit another
  transaction could commit the same one. The invariant carries the argument of
  the lock: a transaction with uncommitted revised rows holds the lock of their
  application (`Covered`), rows under one lock are unique together with the
  committed ones (`LockedUnique`), and a row belongs to one transaction at a time
  (`Exclusive`). The rule of `balena.sbvr` is not used: the lock alone suffices.
- *Revisions in series.* The refinement of `Revisions` asks more: how the revisions a
  request has given and not committed (`Fresh`) stand to the committed ones
  (`Exceeds`, `NoGap`), to one another (`Ascends`), and to the releases it has yet
  to revise, which all come later in the list (`Precedes`). That is the invariant
  `Series`. `KeepsRevision` and `Drafts` say that no revision is taken away and that
  what is listed has no finalization date, so that the list is in the order of ids. A
  commit of another request leaves `Series` alone because it cannot change the
  committed revisions of an application whose lock it does not hold
  (`CommitSeries`); the commit of the request itself is `Number` of its fresh
  releases (`CommitNumbers`).
- *Locks.* A request takes its locks in the order of ids (`InOrder`): what it waits for is
  greater than what it holds, so along a circle of waiting requests ids would increase
  for ever; the maximum of a finite set closes the argument.
- *Final releases, targets.* A revision that a PATCH sets to null is on the list of those
  to be assigned (`FInv`), a transaction commits with an empty list only, and a row has
  one writer. For requests in turn the release a target names is the latest at the
  start (`Latest0`); then (`Follows`) a release that tracking may choose is never ahead of
  the target in sight unless `updateLatestRelease` is still to come.
- *Log write.* The items of `feed`, `inflight` and `buffer` continue each other
  (`Buffered`, `Published`); `Scheduling` relates the timer, `publishScheduled`
  and the batch in flight, and `BackPressure` the pause and the buffer. Lemmas
  say that concatenation and the truncation to the limit preserve `Continues`.
- *Log read.* Every open stream is either in the counter or its increment is on its way
  (`CountInv`, over the commands in each connection). For `NothingMissed` the invariant follows each item of the feed: what a
  reader has been sent, what waits for it in its connection, and the history it read
  cover the feed from where it joined, in order and without a gap.
- *State reports.* The report that runs by itself (`OnTrack`): what it has not looked at
  yet is still not suppressed, as only it sets cache entries; what it has dealt with is
  as it reported, as no other transaction is open.
- *Progress and status.* The overall progress is an average, a fold over a set of image
  installs. That the sum of n percentages lies between 0 and 100 n is shown for the
  recursive function the fold is, without induction: of the subsets of the finite
  set of images without such a sum there would be a smallest one (`Minimal`), which an
  image less would contradict (`SumExtends`). What is left is that each case
  of the status leads to the case of the progress it stands for (`FitsStatus`), whatever
  the rows are.
- *Fleet.* A transaction holds the rows it wrote, so what they were copied from is still
  in the table when it commits (`RInv`). That makes the OS targets monotone row by row,
  and every device in `missed` the business of a request (`Covered`). The supervisor is
  compared in PRERUN with a row that an overlapping request might still change; for
  requests in turn the comparison still holds at the update (`SInv`). For service installs
  the invariant (`IInv`) says at each stage of a request in turn which installs are
  to be deleted and inserted, such that at the commit they are those of the targets;
  `Stage` has one case per step. With tasks, `AInv` says who will see to each install
  of a target (`Served`): it is in the table, or the device is in a queued task, or a
  worker has it among what it is about to look up, insert or hand on (`Delivers`), or
  the request that has not committed will post a task for the device (`TasksFor`; the
  batches of a call cover its devices, `BatchesCover`). A step of a worker passes each
  install on to the next of these (`WorkerServes`), a failure puts the task back whole;
  when nothing is queued or under way only the table is left. `TInv` has the types of
  requests, workers and of the bag of tasks.
- *Target states.* That the versions of a state agree follows from the rules of the
  tables alone (`GoodDb`). `StaleDeviceIsTold` needs that a change of the state of a device
  is one of the changes the hooks concern themselves with (`Concerned`), and that a
  device whose state is outdated has an announcement ahead that covers it (`Covers`),
  wherever the lookup of devices stands (`FreshInv`). `LinkInv` has the shape of the
  connections that are leaving, `OwnInv` that tokens, cached answers included,
  grant images of the device's own target.
- *Access.* A transaction that has not committed has left no trace, the one that inserted
  the device holds its uuid, and key and device come together (`WInv`).
- *Scheduler.* Each action is first shown to have one of four effects on the lock,
  on who is inside and on who is overdue (`Stays`, `Enters`, `Leaves`, `RunsOut`;
  lemma `SchedulerStep`). `Exclusive` is then inductive: a handler enters only when
  the key is free, and by the invariant whoever is inside then is overdue. The same
  four cases are the steps of `Lease`, which gives the refinement; that the job
  only takes steps of the scheduler carries both over to `ContractSync`. While nothing
  failed or lagged, the recorded runs are of different slots and before those that are
  due (`CInv`). A run that works alone and without trouble (`CleanRuns` of `SInv`) has, at each point, the
  part of the contracts it passed in the database, whatever earlier runs left there.

Only model-checked: liveness (`SilentDeviceGoesOffline`, `PollingDeviceComesBack`,
`EveryLineIsPublished`, `EverythingEnds`, `CachesSettle`, `RegistrationEnds`,
`RunsEnd`; the prover does not reason about fairness or ENABLED), and
`UniqueRevision` and `IsSerial` for PATCHes that change a version while they finalize
(the instance of `release_finalize`; the theorems cover those that only finalize).

## 6. Not modelled, and what is next

Not modelled, with the reason:

- the Loki backend and log metrics (what a reconnected tail delivers is decided by
  the service behind it), the batch POST of logs (no buffer), the non-streaming read;
- the delay before a repeated empty state answer (`getStateDelayingEmpty`), which only
  postpones a refusal; the PATCH of tags, a single transaction of upserts;
- deletion of releases and applications: the check and the deletion share a
  transaction and rest on the foreign keys of the database;
- requests of a user to a device through the proxy, VPN authentication: pure I/O
  and single reads;
- auth, permissions, API key and actor creation outside a registration:
  cryptography, static role tables, single transactions;
- device types, device and OS configuration (reads of external files), handles,
  slugs, names, tags, field sizes (stateless validation under a uniqueness
  constraint), translations, generated types, configuration and start-up.

What would add most next: a log feed (an append-only sequence that each subscriber
reads in order, but for the repetition section 4 names) as an abstract specification
for `DeviceLogs` to implement, for which `NothingIsMissed` has the lemmas; and a
hypothesis weaker than `KeepsVersion` for the two theorems about revisions.

## 7. Running

    tlc -config logs_write.cfg LogWriteStream
    tlc -config heartbeat_safety.cfg MCDeviceHeartbeat
    tlapm DeviceLogsProofs.tla

`PROJECT.json` names the module and configuration of each run, the mutant that
shows each property can fail, and the source lines of each definition.
