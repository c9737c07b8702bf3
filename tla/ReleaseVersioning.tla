------------------------- MODULE ReleaseVersioning -------------------------
(***************************************************************************)
(* Release revisions and the release an application tracks: the hooks of   *)
(* src/features/ci-cd/hooks/release-versioning.ts and                      *)
(* track-latest-release.ts, run inside the database transaction of the     *)
(* POST or PATCH of a release.                                             *)
(*                                                                         *)
(* Transactions are READ COMMITTED: a query sees what is committed and the *)
(* transaction's own writes, a write waits for the row to be free of other *)
(* transactions' writes, and advisory locks are held until the end.  The   *)
(* SBVR rules are validated by queries of the same kind after each write,  *)
(* and nothing else in the database keeps revisions unique.                *)
(***************************************************************************)
EXTENDS Integers, FiniteSets

CONSTANTS
    Apps,          \* application ids; advisory locks are taken in their order
    Releases,      \* release ids, in the order of start_timestamp
    Semvers,       \* major, minor, patch and prerelease of a semver
    Variants,
    Txs,           \* concurrent requests
    None,
    NewReleases,   \* what a POST may ask for
    Patches,       \* what a PATCH may ask for
    PatchTargets,  \* the sets of releases a PATCH may be addressed to
    TrackingApps,  \* applications with should_track_latest_release
    MaxRevision

(* A row of release.  final is is_finalized_at__date # null; good is       *)
(* status = success, is_passing_tests and not is_invalidated.              *)
Row ==
    [app : Apps, sem : Semvers, var : Variants,
     rev : Nat \cup {None}, final : BOOLEAN, good : BOOLEAN]

(* The body of a POST, and of a PATCH: a field that is not given is None.  *)
NewRelease ==
    [app : Apps, sem : Semvers, var : Variants, is_final : BOOLEAN, good : BOOLEAN]

Patch ==
    [app : Apps \cup {None}, sem : Semvers \cup {None}, var : Variants \cup {None},
     is_final : BOOLEAN \cup {None}, good : BOOLEAN \cup {None}]

NoPatch ==
    [app |-> None, sem |-> None, var |-> None, is_final |-> None, good |-> None]

ASSUME ReleaseAssumption ==
    /\ Apps \subseteq Nat
    /\ Releases \subseteq Nat
    /\ None \notin Apps \cup Releases \cup Semvers \cup Variants \cup Txs \cup Nat \cup BOOLEAN
    /\ None \notin Row
    /\ NewReleases \subseteq NewRelease
    /\ Patches \subseteq Patch
    /\ PatchTargets \subseteq SUBSET Releases
    /\ TrackingApps \subseteq Apps
    /\ MaxRevision \in Nat

ASSUME FiniteAssumption == IsFiniteSet(Apps) /\ IsFiniteSet(Releases) /\ IsFiniteSet(Txs)

(* The PATCHes may finalize a release and change its state, but leave what *)
(* its version is made of alone.                                           *)
KeepsVersion ==
    \A p \in Patches : p.app = None /\ p.sem = None /\ p.var = None

VARIABLES
    release,   \* the committed release table
    target,    \* application.should_be_running__release, as committed
    locks,     \* advisory lock of an application: the holder or None
    pc,        \* what the transaction does next
    req,       \* the PATCH it serves
    ids,       \* the releases it is addressed to
    todo,      \* releasesToSetRevision, as read before the update
    mine,      \* its uncommitted rows of release
    touched,   \* request.affectedIds of its last update of release
    tracked,   \* the release it read as the latest of an application
    mineApp    \* its uncommitted application targets

vars == <<release, target, locks, pc, req, ids, todo, mine, touched, tracked, mineApp>>

TypeOK ==
    /\ release \in [Releases -> Row \cup {None}]
    /\ target \in [Apps -> Releases \cup {None}]
    /\ locks \in [Apps -> Txs \cup {None}]
    /\ pc \in [Txs -> {"idle", "prerun", "null", "nullTrack", "nullApp", "run", "lock",
                       "assign", "track", "app", "postTrack", "postApp", "commit"}]
    /\ req \in [Txs -> Patch]
    /\ ids \in [Txs -> SUBSET Releases]
    /\ todo \in [Txs -> [Releases -> Row \cup {None}]]
    /\ mine \in [Txs -> [Releases -> Row \cup {None}]]
    /\ touched \in [Txs -> SUBSET Releases]
    /\ tracked \in [Txs -> [Apps -> Releases \cup {None}]]
    /\ mineApp \in [Txs -> [Apps -> Releases \cup {None}]]

NoRows == [r \in Releases |-> None]
NoTargets == [a \in Apps |-> None]

Init ==
    /\ release = NoRows
    /\ target = NoTargets
    /\ locks = [a \in Apps |-> None]
    /\ pc = [t \in Txs |-> "idle"]
    /\ req = [t \in Txs |-> NoPatch]
    /\ ids = [t \in Txs |-> {}]
    /\ todo = [t \in Txs |-> NoRows]
    /\ mine = [t \in Txs |-> NoRows]
    /\ touched = [t \in Txs |-> {}]
    /\ tracked = [t \in Txs |-> NoTargets]
    /\ mineApp = [t \in Txs |-> NoTargets]

-----------------------------------------------------------------------------
(* What a query of transaction t sees.                                     *)
Seen(t, r) == IF mine[t][r] # None THEN mine[t][r] ELSE release[r]

SeenTarget(t, a) == IF mineApp[t][a] # None THEN mineApp[t][a] ELSE target[a]

Free(t, r) == \A u \in Txs \ {t} : mine[u][r] = None

FreeApp(t, a) == \A u \in Txs \ {t} : mineApp[u][a] = None

SameVersion(x, y) == x.app = y.app /\ x.sem = y.sem /\ x.var = y.var

(* trackableReleaseFilter *)
Trackable(x) == x # None /\ x.rev # None /\ x.good

(* The two rules of balena.sbvr that the writes can break, on rows f and   *)
(* targets g.                                                              *)
Clash(x, y) ==
    /\ x # None /\ y # None
    /\ x.rev # None /\ x.rev = y.rev
    /\ SameVersion(x, y)

UniqueIn(f) == \A r, q \in Releases : r # q => ~Clash(f[r], f[q])

TargetsOf(f, g) ==
    \A a \in Apps : g[a] # None => f[g[a]] # None /\ f[g[a]].app = a

RulesHold(t, rows) ==
    LET f == [r \in Releases |-> IF rows[r] # None THEN rows[r] ELSE release[r]]
    IN  UniqueIn(f) /\ TargetsOf(f, [a \in Apps |-> SeenTarget(t, a)])

(* Update the rows of rs to rows, once no other transaction has an update  *)
(* of them in flight; a rule that does not hold rolls back.                *)
Write(t, rs, rows, next) ==
    /\ \A r \in rs : Free(t, r)
    /\ RulesHold(t, rows)
    /\ mine' = [mine EXCEPT ![t] = rows]
    /\ touched' = [touched EXCEPT ![t] = rs]
    /\ pc' = [pc EXCEPT ![t] = next]
    /\ UNCHANGED <<release, target>>

-----------------------------------------------------------------------------
(* POST /release: insert the row; the versioning hook runs for a final one.*)
Create(t, r, new) ==
    /\ pc[t] = "idle"
    /\ release[r] = None
    /\ \A u \in Txs : mine[u][r] = None
    /\ LET row == [app |-> new.app, sem |-> new.sem, var |-> new.var,
                   rev |-> None, final |-> FALSE, good |-> new.good]
       IN  /\ Write(t, {r}, [mine[t] EXCEPT ![r] = row], IF new.is_final THEN "lock" ELSE "commit")
           /\ todo' = [todo EXCEPT ![t] = IF new.is_final THEN [@ EXCEPT ![r] = row] ELSE @]
    /\ req' = [req EXCEPT ![t] = [NoPatch EXCEPT !.is_final = new.is_final]]
    /\ ids' = [ids EXCEPT ![t] = {r}]
    /\ UNCHANGED <<locks, tracked, mineApp>>

(* PATCH /release: the releases it is addressed to are read first.         *)
Receive(t, rs, p) ==
    /\ pc[t] = "idle"
    /\ pc' = [pc EXCEPT ![t] = "prerun"]
    /\ req' = [req EXCEPT ![t] = p]
    /\ ids' = [ids EXCEPT ![t] = {r \in rs : release[r] # None}]
    /\ UNCHANGED <<release, target, locks, todo, mine, touched, tracked, mineApp>>

(* setReleasesToSetRevision: drafts that become final, and final releases  *)
(* a part of whose version changes.                                        *)
ChangesVersion(p, row) ==
    \/ p.app # None /\ p.app # row.app
    \/ p.sem # None /\ p.sem # row.sem
    \/ p.var # None /\ p.var # row.var

ToSetRevision(t, r) ==
    /\ r \in ids[t]
    /\ \/ req[t].is_final = TRUE /\ Seen(t, r).rev = None
       \/ Seen(t, r).rev # None /\ ChangesVersion(req[t], Seen(t, r))

Prerun(t) ==
    /\ pc[t] = "prerun"
    /\ req[t].is_final = FALSE => \A r \in ids[t] : Seen(t, r).rev = None
    /\ todo' = [todo EXCEPT ![t] =
                  [r \in Releases |-> IF ToSetRevision(t, r) THEN Seen(t, r) ELSE None]]
    /\ pc' = [pc EXCEPT ![t] =
                IF {req[t].app, req[t].sem, req[t].var} # {None}
                THEN "null" ELSE "run"]
    /\ UNCHANGED <<release, target, locks, req, ids, mine, touched, tracked, mineApp>>

Listed(t) == {r \in Releases : todo[t][r] # None}

(* "set the revision to null so that we don't end up with duplicates"      *)
ToNull(t) == {r \in Listed(t) : Seen(t, r).rev # None}

NullRevisions(t) ==
    /\ pc[t] = "null"
    /\ Write(t, ToNull(t),
             [r \in Releases |-> IF r \in ToNull(t) THEN [Seen(t, r) EXCEPT !.rev = None]
                                 ELSE mine[t][r]],
             IF ToNull(t) # {} THEN "nullTrack" ELSE "run")
    /\ UNCHANGED <<locks, req, ids, todo, tracked, mineApp>>

(* The update of the request itself (update_timestamp is always set).      *)
Given(x, old) == IF x = None THEN old ELSE x

Patched(row, p) ==
    [row EXCEPT !.app = Given(p.app, @), !.sem = Given(p.sem, @),
                !.var = Given(p.var, @), !.good = Given(p.good, @)]

(* Mutants: the target is only updated with a revision; a revision is only *)
(* given to a release the PATCH finalizes.                                 *)
RunWithoutTracking(t) ==
    /\ pc[t] = "run"
    /\ Write(t, ids[t],
             [r \in Releases |-> IF r \in ids[t] THEN Patched(Seen(t, r), req[t])
                                 ELSE mine[t][r]],
             IF Listed(t) # {} THEN "lock" ELSE "commit")
    /\ UNCHANGED <<locks, req, ids, todo, tracked, mineApp>>

RunRevisingDrafts(t) ==
    /\ pc[t] = "run"
    /\ Write(t, ids[t],
             [r \in Releases |-> IF r \in ids[t] THEN Patched(Seen(t, r), req[t])
                                 ELSE mine[t][r]],
             IF req[t].is_final = TRUE /\ Listed(t) # {} THEN "lock"
             ELSE IF req[t].good # None /\ ids[t] # {} THEN "postTrack" ELSE "commit")
    /\ UNCHANGED <<locks, req, ids, todo, tracked, mineApp>>

Run(t) ==
    /\ pc[t] = "run"
    /\ Write(t, ids[t],
             [r \in Releases |-> IF r \in ids[t] THEN Patched(Seen(t, r), req[t])
                                 ELSE mine[t][r]],
             IF Listed(t) # {} THEN "lock"
             ELSE IF req[t].good # None /\ ids[t] # {} THEN "postTrack" ELSE "commit")
    /\ UNCHANGED <<locks, req, ids, todo, tracked, mineApp>>

-----------------------------------------------------------------------------
(* POSTRUN: the version the listed release is given a revision of is the   *)
(* patched one, or the one read before the update.                         *)
VersionOf(t, r) ==
    [app |-> Given(req[t].app, todo[t][r].app),
     sem |-> Given(req[t].sem, todo[t][r].sem),
     var |-> Given(req[t].var, todo[t][r].var)]

AppsToLock(t) == {VersionOf(t, r).app : r \in Listed(t)}

(* Mutant: the locks are taken in any order.                               *)
LockNextOfAny(t, a) ==
    /\ a \in AppsToLock(t)
    /\ locks[a] # t

LockNext(t, a) ==
    /\ a \in AppsToLock(t)
    /\ locks[a] # t
    /\ \A b \in AppsToLock(t) : b < a => locks[b] = t

(* The hook of track-latest-release.ts runs beside this one: its queries    *)
(* come after the first lock on the connection, before the first revision. *)
AfterLocks(t) == IF req[t].good # None THEN "postTrack" ELSE "assign"

(* Mutant: the lock is not waited for.                                     *)
LockWithoutWaiting(t, a) ==
    /\ pc[t] = "lock"
    /\ LockNext(t, a)
    /\ locks' = [locks EXCEPT ![a] = t]
    /\ pc' = [pc EXCEPT ![t] =
                IF \A b \in AppsToLock(t) \ {a} : locks[b] = t THEN AfterLocks(t) ELSE "lock"]
    /\ UNCHANGED <<release, target, req, ids, todo, mine, touched, tracked, mineApp>>

(* getAdvisoryLockForApp, "lift all locks upfront".                        *)
Lock(t, a) ==
    /\ pc[t] = "lock"
    /\ LockNext(t, a)
    /\ locks[a] = None
    /\ locks' = [locks EXCEPT ![a] = t]
    /\ pc' = [pc EXCEPT ![t] =
                IF \A b \in AppsToLock(t) \ {a} : locks[b] = t THEN AfterLocks(t) ELSE "lock"]
    /\ UNCHANGED <<release, target, req, ids, todo, mine, touched, tracked, mineApp>>

(* getNextRevision *)
IsNextRevision(t, version, n) ==
    LET used == {Seen(t, q).rev : q \in {s \in Releases : /\ Seen(t, s) # None
                                                          /\ Seen(t, s).rev # None
                                                          /\ SameVersion(Seen(t, s), version)}}
    IN  /\ \A m \in used : m < n
        /\ n = 0 \/ n - 1 \in used

(* Listed releases are taken by application, finalization date and id.     *)
Earlier(t, q, r) ==
    LET x == todo[t][q]
        y == todo[t][r]
    IN  \/ x.app < y.app
        \/ x.app = y.app /\ x.final /\ ~y.final
        \/ x.app = y.app /\ x.final = y.final /\ q < r

(* Mutant: the list is ordered by application only.                        *)
NextOfApp(t, r) ==
    /\ r \in Listed(t)
    /\ \A q \in Listed(t) \ {r} : todo[t][r].app <= todo[t][q].app

NextListed(t, r) ==
    /\ r \in Listed(t)
    /\ \A q \in Listed(t) \ {r} : Earlier(t, r, q)

Finalizes(t, r) == req[t].is_final = TRUE /\ ~todo[t][r].final

Revised(row, n, finalize) == [row EXCEPT !.rev = n, !.final = row.final \/ finalize]

(* Give the next listed release its revision, and leave the list.          *)
Assign(t, r) ==
    /\ pc[t] = "assign"
    /\ NextListed(t, r)
    /\ \E n \in 0 .. MaxRevision :
         /\ IsNextRevision(t, VersionOf(t, r), n)
         /\ Write(t, {r}, [mine[t] EXCEPT ![r] = Revised(Seen(t, r), n, Finalizes(t, r))],
                  "track")
    /\ todo' = [todo EXCEPT ![t][r] = None]
    /\ UNCHANGED <<locks, req, ids, tracked, mineApp>>

-----------------------------------------------------------------------------
(* updateLatestRelease, called by the hook of each update of a revision    *)
(* and of the request itself: read the latest trackable release of the     *)
(* applications that own the updated ones ...                              *)
Latest(t, a, r) ==
    /\ r \in Releases
    /\ Trackable(Seen(t, r)) /\ Seen(t, r).app = a
    /\ \A q \in Releases : Trackable(Seen(t, q)) /\ Seen(t, q).app = a => q <= r

TrackApps(t) == {Seen(t, r).app : r \in touched[t]} \cap TrackingApps

Track(t) ==
    /\ pc[t] \in {"nullTrack", "track", "postTrack"}
    /\ tracked' = [tracked EXCEPT ![t] =
                     [a \in Apps |->
                        IF a \in TrackApps(t) /\ \E r \in Releases : Latest(t, a, r)
                        THEN CHOOSE r \in Releases : Latest(t, a, r) ELSE None]]
    /\ pc' = [pc EXCEPT ![t] =
                CASE pc[t] = "nullTrack" -> "nullApp"
                  [] pc[t] = "track" -> "app"
                  [] OTHER -> "postApp"]
    /\ UNCHANGED <<release, target, locks, req, ids, todo, mine, touched, mineApp>>

(* ... and make it the target of each.                                     *)
SetTarget(t) ==
    /\ pc[t] \in {"nullApp", "app", "postApp"}
    /\ \A a \in Apps : tracked[t][a] # None => FreeApp(t, a)
    /\ mineApp' = [mineApp EXCEPT ![t] =
                     [a \in Apps |-> Given(tracked[t][a], mineApp[t][a])]]
    /\ TargetsOf([r \in Releases |-> Seen(t, r)],
                 [a \in Apps |-> Given(tracked[t][a], SeenTarget(t, a))])
    /\ tracked' = [tracked EXCEPT ![t] = NoTargets]
    /\ pc' = [pc EXCEPT ![t] =
                CASE pc[t] = "nullApp" -> "run"
                  [] pc[t] # "nullApp" /\ Listed(t) # {} -> "assign"
                  [] OTHER -> "commit"]
    /\ UNCHANGED <<release, target, locks, req, ids, todo, mine, touched>>

-----------------------------------------------------------------------------
(* The end of a transaction: its rows and locks are released.              *)
End(t) ==
    /\ locks' = [a \in Apps |-> IF locks[a] = t THEN None ELSE locks[a]]
    /\ pc' = [pc EXCEPT ![t] = "idle"]
    /\ req' = [req EXCEPT ![t] = NoPatch]
    /\ ids' = [ids EXCEPT ![t] = {}]
    /\ todo' = [todo EXCEPT ![t] = NoRows]
    /\ mine' = [mine EXCEPT ![t] = NoRows]
    /\ touched' = [touched EXCEPT ![t] = {}]
    /\ tracked' = [tracked EXCEPT ![t] = NoTargets]
    /\ mineApp' = [mineApp EXCEPT ![t] = NoTargets]

Commit(t) ==
    /\ pc[t] = "commit"
    /\ release' = [r \in Releases |-> Seen(t, r)]
    /\ target' = [a \in Apps |-> SeenTarget(t, a)]
    /\ End(t)

(* A hook that throws, a rule that does not hold, a deadlock the database  *)
(* resolves, a lost connection: the transaction is rolled back.            *)
Rollback(t) ==
    /\ pc[t] # "idle"
    /\ End(t)
    /\ UNCHANGED <<release, target>>

Next ==
    \E t \in Txs :
        \/ \E r \in Releases, new \in NewReleases : Create(t, r, new)
        \/ \E rs \in PatchTargets, p \in Patches : Receive(t, rs, p)
        \/ Prerun(t)
        \/ NullRevisions(t)
        \/ Run(t)
        \/ \E a \in Apps : Lock(t, a)
        \/ \E r \in Releases : Assign(t, r)
        \/ Track(t)
        \/ SetTarget(t)
        \/ Commit(t)
        \/ Rollback(t)

Spec == Init /\ [][Next]_vars

-----------------------------------------------------------------------------
(* No two final releases of an application have the same semver, variant   *)
(* and revision: the rule of balena.sbvr on revisions, which the advisory  *)
(* lock of release-versioning.ts is there to keep.                         *)
UniqueRevision == UniqueIn(release)

(* A release that was committed as final stays final: a PATCH that sets a  *)
(* draft, or that changes the version while another one finalizes, never   *)
(* leaves it without a revision (preventChangingFinalToDraft, and the      *)
(* revisions set to null before a change of version).                      *)
FinalStaysFinal ==
    [][\A r \in Releases :
          release[r] # None /\ release[r].rev # None => release'[r].rev # None]_vars

(* Once no request is in flight, an application that tracks the latest     *)
(* release runs the most recently started trackable one, if it has one     *)
(* (updateLatestRelease).                                                  *)
TargetIsLatest ==
    (\A t \in Txs : pc[t] = "idle") =>
        \A a \in TrackingApps, r \in Releases :
            Trackable(release[r]) /\ release[r].app = a
                => target[a] # None /\ target[a] >= r

(* Transaction t waits for an advisory lock u holds.                       *)
WaitsForLock(t, u) ==
    pc[t] = "lock" /\ \E a \in Apps : LockNext(t, a) /\ locks[a] = u

(* The advisory locks alone never make transactions wait for each other in *)
(* a circle: "so that the advisory locks are picked in a consistent order  *)
(* across requests so that we can avoid deadlocks".                        *)
LocksNeverCycle ==
    \A T \in (SUBSET Txs) \ {{}} :
        \E t \in T : \A u \in T \ {t} : ~WaitsForLock(t, u)

(* Requests and locks are well-formed, and LocksNeverCycle.                *)
LockInv == TypeOK /\ LocksNeverCycle

-----------------------------------------------------------------------------
(* No PATCH takes a release out of the version of row x.                   *)
Stays(x) ==
    \A p \in Patches :
        p.app \in {None, x.app} /\ p.sem \in {None, x.sem} /\ p.var \in {None, x.var}

(* What a reader sees of the final releases of the versions that stay.     *)
Numbered ==
    [r \in Releases |->
       LET x == release[r]
       IN  IF x # None /\ x.rev # None /\ Stays(x)
           THEN [version |-> <<x.app, x.sem, x.var>>, rev |-> x.rev]
           ELSE None]

ASSUME NumberedAssumption == None \notin [version : Apps \X Semvers \X Variants, rev : Nat]

R == INSTANCE Revisions WITH numbered <- Numbered

(* However the requests interleave that create and finalize releases, one  *)
(* or several at once, and whichever of them roll back, the revisions of a *)
(* version come out as if the commits had numbered them one at a time,     *)
(* each after the last, in the order of the releases: never two alike,     *)
(* never one below an older one, and none left out but where a release     *)
(* that two requests finalize is numbered again.                           *)
IsSerial == R!RevisionsSpec
=============================================================================
