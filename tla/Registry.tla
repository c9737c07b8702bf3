------------------------------ MODULE Registry ------------------------------
(***************************************************************************)
(* The token endpoint of the registry, which decides what a caller may     *)
(* pull and push, and the deletion of the repositories of deleted images   *)
(* by the task delete_registry_images.  Both work on the images that the   *)
(* target states of TargetUpdates ask devices to pull.                     *)
(*                                                                         *)
(* The lookups of the token endpoint are memoized, misses included, for a  *)
(* time; the entries are keyed by what is looked up and, where it matters, *)
(* by the permissions of the caller.                                       *)
(***************************************************************************)
EXTENDS TargetUpdates

CONSTANTS
    Builder,       \* the caller with the builder's token
    ResinOs,       \* the caller with the code of the resinOS registry
    User,          \* a user, who may read and push every image
    Guest,         \* a caller without credentials
    Scopes,        \* the scopes that are asked for: a name and actions on it
    Deletable,     \* the sets of images a DELETE may be about
    MultiStage,    \* images whose build has a cache in the registry
    AttemptLimit   \* attempts of a task

(* What a caller names: an image by its location, the image of a fleet and *)
(* of a version of it, a supervisor or OS repository, or a legacy name.    *)
ASSUME RegistryAssumption ==
    /\ {Builder, ResinOs, User, Guest} \cap (Devices \cup {Unset}) = {}
    /\ \A s \in Scopes :
         /\ s.name.kind \in {"v2", "alias", "resinos", "supervisor", "legacy"}
         /\ s.name.kind = "v2" => s.name.image \in Images
         /\ s.name.kind = "alias" => s.name.app \in Apps /\ s.name.version \in Maybe(Releases)
    /\ Deletable \subseteq SUBSET Images /\ MultiStage \subseteq Images
    /\ Succeeded \subseteq Releases
    /\ AttemptLimit \in Nat \ {0}

VARIABLES
    idCache,     \* resolveImageId: location -> found, or Unset
    readCache,   \* resolveReadAccess: caller and image -> may read, or Unset
    aliasCache,  \* resolveImageLocation: caller and scope -> set of images, or Unset
    token,       \* the last token that was given
    been,        \* applications each device has belonged to (ghost)
    tasks,       \* delete_registry_images tasks that wait
    worker,      \* the task that is being executed
    repo,        \* repositories in the registry
    abandoned    \* images of tasks that have used up their attempts (ghost)

registryVars == <<idCache, readCache, aliasCache, token, been, tasks, worker, repo, abandoned>>
cacheVars == <<idCache, readCache, aliasCache, token, been>>
taskVars == <<tasks, worker, repo, abandoned>>
vars == <<updateVars, registryVars>>

Callers == Devices \cup {Builder, ResinOs, User, Guest}
Actions == {"pull", "push"}
Names == {s.name : s \in Scopes}
AliasScopes == {s \in Names : s.kind = "alias"}
V2Images == {s.image : s \in {t \in Names : t.kind = "v2"}}

(* An image has a repository of its own and may have one for the cache of  *)
(* its multi-stage build.                                                  *)
Repos == (Images \X {"own"}) \cup (MultiStage \X {"cache"})

NoToken == [subject |-> Unset, scope |-> Unset, image |-> {}, actions |-> {}]

----------------------------------------------------------------------------
(* Permissions of the callers. *)

(* A lookup that only considers the application a device belongs to.       *)
CanReadOwn(c, i) ==
    \/ c = User
    \/ c \in Devices /\ \E r \in Releases : i \in ImagesOf[r] \cap images /\ device[c].app = AppOf[r]

(* resolveReadAccess: an application that owns a release of the image.     *)
CanRead(c, i) ==
    \/ c = User
    \/ c \in Devices /\ \E r \in Releases : i \in ImagesOf[r] \cap images /\ CanAccessApp(Db, c, AppOf[r])

(* image.read, which image installs and pinned releases give too.          *)
CanReadImage(c, i) ==
    \/ c = User
    \/ /\ c \in Devices
       /\ \/ i \in installs[c]
          \/ \E r \in Releases : i \in ImagesOf[r] \cap images /\ CanAccessRelease(Db, c, r)

----------------------------------------------------------------------------
(* The token endpoint. *)

Cached(entry, value) == IF entry = Unset THEN value ELSE entry

(* A normalizer that left the permissions out would share the entries of   *)
(* all callers.                                                            *)
ReadKeyOfImage(c, i) == <<User, i>>

(* The key of an entry of resolveReadAccess.                               *)
ReadKey(c, i) == <<c, i>>

ImageId(i) == Cached(idCache[i], i \in images)
ReadAccess(c, i) == Cached(readCache[ReadKey(c, i)], CanRead(c, i))
WriteAccess(c, i) == c = User /\ i \in images

(* resolveAccess: the actions granted on an image, and the entries that    *)
(* are added to the caches by looking it up.                               *)
ResolveAccess(c, i, requested) ==
    requested \cap ((IF ImageId(i) /\ ReadAccess(c, i) THEN {"pull"} ELSE {})
                     \cup (IF ImageId(i) /\ WriteAccess(c, i) THEN {"push"} ELSE {}))

(* resolveImageLocation: an image of a successful release of the           *)
(* application with a single service, which is the one asked for or the    *)
(* one the application should be running.                                  *)
ImageLocation(c, s) ==
    {i \in Images : \E r \in Succeeded :
        /\ AppOf[r] = s.app /\ ImagesOf[r] \cap images = {i}
        /\ r = IF s.version = Unset THEN target[s.app] ELSE s.version
        /\ CanReadImage(c, i)}

Located(c, s) == Cached(aliasCache[<<c, s>>], ImageLocation(c, s))

(* authorizeRequest for one scope.                                         *)
Granted(c, s, requested) ==
    LET standard == requested \cap (IF c = ResinOs THEN Actions ELSE {"pull"})
    IN  CASE c = Builder -> requested \cap (IF s.kind \in {"resinos", "supervisor"} THEN {"pull"} ELSE Actions)
          [] c # Builder /\ s.kind \in {"resinos", "supervisor"} -> standard
          [] c # Builder /\ s.kind = "v2" -> ResolveAccess(c, s.image, requested)
          [] c # Builder /\ s.kind = "alias" /\ Located(c, s) # {} -> requested \cap {"pull"}
          [] c # Builder /\ s.kind = "alias" /\ Located(c, s) = {} /\ s.version # Unset -> {}
          [] c # Builder /\ s.kind = "alias" /\ Located(c, s) = {} /\ s.version = Unset ->
                requested \cap {"pull"}
          [] c # Builder /\ s.kind = "legacy" -> requested \cap {"pull"}

(* The images a token is about.                                            *)
About(c, s) ==
    CASE s.kind = "v2" -> {s.image}
      [] s.kind = "alias" /\ c # Builder -> Located(c, s)
      [] OTHER -> {}

(* getSubject: a device whose key it is, else the user whose key or token  *)
(* it is.  A device names itself.                                          *)
Subject(c) == IF c \in Devices \cup {User} THEN c ELSE Unset

(* GET token.  The caches keep what was looked up.                         *)
Token(c, s, requested) ==
    /\ started < MaxStarted
    /\ started' = started + 1
    /\ token' = [subject |-> Subject(c), scope |-> s, image |-> About(c, s), actions |-> Granted(c, s, requested)]
    /\ idCache' = IF s.kind = "v2" /\ c # Builder
                  THEN [idCache EXCEPT ![s.image] = ImageId(s.image)] ELSE idCache
    /\ readCache' = IF s.kind = "v2" /\ c # Builder /\ "pull" \in requested /\ ImageId(s.image)
                    THEN [readCache EXCEPT ![ReadKey(c, s.image)] = ReadAccess(c, s.image)]
                    ELSE readCache
    /\ aliasCache' = IF s.kind = "alias" /\ c # Builder
                     THEN [aliasCache EXCEPT ![<<c, s>>] = Located(c, s)] ELSE aliasCache
    /\ UNCHANGED <<dbVars, deviceVars, missed, work, faults, been, taskVars>>

(* Entries expire.                                                         *)
Expire ==
    /\ \/ /\ \E i \in V2Images : idCache[i] # Unset /\ idCache' = [idCache EXCEPT ![i] = Unset]
          /\ UNCHANGED <<readCache, aliasCache>>
       \/ /\ \E k \in DOMAIN readCache :
                readCache[k] # Unset /\ readCache' = [readCache EXCEPT ![k] = Unset]
          /\ UNCHANGED <<idCache, aliasCache>>
       \/ /\ \E k \in DOMAIN aliasCache :
                aliasCache[k] # Unset /\ aliasCache' = [aliasCache EXCEPT ![k] = Unset]
          /\ UNCHANGED <<idCache, readCache>>
    /\ UNCHANGED <<updateVars, token, been, taskVars>>

----------------------------------------------------------------------------
(* The deletion of images. *)

NoWorker == [images |-> {}, remaining |-> {}, attempt |-> 0]
NewTask(S) == [images |-> S, attempt |-> 1]

(* DELETE image: the rows and the task that cleans up are one transaction. *)
(* The image installs go with the image, and no device is told.            *)
DeleteImages(S) ==
    /\ started < MaxStarted
    /\ S # {} /\ S \subseteq images
    /\ images' = images \ S
    /\ installs' = [d \in Devices |-> installs[d] \ S]
    /\ missed' = missed \cup {d \in Devices : ImagesIn(Target(d)) \cap S # {}}
    /\ tasks' = tasks \cup {NewTask(S)}
    /\ started' = started + 1
    /\ UNCHANGED <<device, target, var, running, vpnVars, work, told, polling, got, faults,
                   cacheVars, worker, repo, abandoned>>

(* deleteRegistryImages: locations that an image still uses are left alone.*)
StartTask(t) ==
    /\ t \in tasks /\ worker = NoWorker
    /\ worker' = [images |-> t.images, remaining |-> t.images \ images, attempt |-> t.attempt]
    /\ tasks' = tasks \ {t}
    /\ UNCHANGED <<updateVars, cacheVars, repo, abandoned>>

(* listCacheRepos *)
CacheRepos(i) == {r \in repo : r[1] = i /\ r[2] = "cache"}

DeleteRepoManifests(r) == repo' = repo \ {r}

(* The repositories of an image are deleted one after the other, its own   *)
(* one last.                                                               *)
DeleteRepo(i) ==
    /\ i \in worker.remaining
    /\ IF CacheRepos(i) # {}
       THEN /\ \E r \in CacheRepos(i) : DeleteRepoManifests(r)
            /\ UNCHANGED worker
       ELSE /\ DeleteRepoManifests(<<i, "own">>)
            /\ worker' = [worker EXCEPT !.remaining = worker.remaining \ {i}]
    /\ UNCHANGED <<updateVars, cacheVars, tasks, abandoned>>

EndTask ==
    /\ worker # NoWorker /\ worker.remaining = {}
    /\ worker' = NoWorker
    /\ UNCHANGED <<updateVars, cacheVars, tasks, repo, abandoned>>

(* A timeout that drops the rest.                                          *)
TimeOutQuietly ==
    /\ worker.remaining # {} /\ faults < MaxFaults
    /\ worker' = NoWorker
    /\ faults' = faults + 1
    /\ UNCHANGED <<dbVars, deviceVars, missed, work, started, cacheVars, tasks, repo, abandoned>>

(* The task takes too long: a new one is created for what remains.         *)
TimeOut ==
    /\ worker.remaining # {} /\ faults < MaxFaults
    /\ tasks' = tasks \cup {NewTask(worker.remaining)}
    /\ worker' = NoWorker
    /\ faults' = faults + 1
    /\ UNCHANGED <<dbVars, deviceVars, missed, work, started, cacheVars, repo, abandoned>>

(* A deletion fails, or the instance stops: the task is tried again, all   *)
(* of it, as long as it has attempts left.                                 *)
FailTask ==
    /\ worker # NoWorker /\ faults < MaxFaults
    /\ IF worker.attempt < AttemptLimit
       THEN /\ tasks' = tasks \cup {[images |-> worker.images, attempt |-> worker.attempt + 1]}
            /\ UNCHANGED abandoned
       ELSE /\ abandoned' = abandoned \cup worker.images
            /\ UNCHANGED tasks
    /\ worker' = NoWorker
    /\ faults' = faults + 1
    /\ UNCHANGED <<dbVars, deviceVars, missed, work, started, cacheVars, repo>>

----------------------------------------------------------------------------
Init ==
    /\ UpdatesInit
    /\ idCache = [i \in V2Images |-> Unset]
    /\ readCache = [k \in Callers \X V2Images |-> Unset]
    /\ aliasCache = [k \in Callers \X AliasScopes |-> Unset]
    /\ token = NoToken
    /\ been = [d \in Devices |-> {device[d].app}]
    /\ tasks = {} /\ worker = NoWorker /\ repo = Repos /\ abandoned = {}

Next ==
    \/ /\ UpdatesNext
       /\ been' = [d \in Devices |-> been[d] \cup {device'[d].app}]
       /\ UNCHANGED <<idCache, readCache, aliasCache, token, taskVars>>
    \/ \E c \in Callers, s \in Scopes : Token(c, s.name, s.actions)
    \/ Expire
    \/ \E S \in Deletable : DeleteImages(S)
    \/ \E t \in tasks : StartTask(t)
    \/ \E i \in Images : DeleteRepo(i)
    \/ EndTask \/ TimeOut \/ FailTask

Spec == Init /\ [][Next]_vars

----------------------------------------------------------------------------
(* Tables, caches, tokens and tasks are well-formed.                       *)
TypeOK ==
    /\ UpdatesTypeOK
    /\ idCache \in [V2Images -> Maybe(BOOLEAN)]
    /\ readCache \in [Callers \X V2Images -> Maybe(BOOLEAN)]
    /\ aliasCache \in [Callers \X AliasScopes -> Maybe(SUBSET Images)]
    /\ token.subject \in Devices \cup {User, Unset} /\ token.image \subseteq Images /\ token.actions \subseteq Actions
    /\ tasks \subseteq [images : SUBSET Images, attempt : 1 .. AttemptLimit]
    /\ worker.remaining \subseteq worker.images
    /\ repo \subseteq Repos /\ abandoned \subseteq Images

(* Every image that the target state of a device names is one its token    *)
(* lets it pull, up to what the caches still hold: the state query checks   *)
(* the permissions row by row, the token endpoint the application only.    *)
TargetIsPullable ==
    \A d \in Devices : \A i \in ImagesIn(Target(d)) : i \in images /\ CanRead(d, i)

(* A token that lets a device pull an image is about an image of  *)
(* an application it is or has been in, or of a public one for its device  *)
(* type: entries of the caches outlive a move, but never serve another.    *)
PullsOwnImages ==
    token.subject \in Devices /\ token.scope # Unset /\ "pull" \in token.actions =>
        \A i \in token.image : \E r \in Releases :
            /\ i \in ImagesOf[r]
            /\ \/ AppOf[r] \in been[token.subject]
               \/ IsPublic[AppOf[r]] /\ TypeOf[AppOf[r]] = TypeOf[token.subject]

(* The repositories of a deleted image, that of its build cache included,  *)
(* are gone, or a task that waits or runs is going to delete them, however *)
(* tasks time out, fail and are retried; only a task that has used up its  *)
(* attempts leaves some behind.                                            *)
NoImageForgotten ==
    \A i \in {r[1] : r \in repo} \ images :
        \/ \E t \in tasks : i \in t.images
        \/ i \in worker.remaining
        \/ i \in abandoned

(* Tables, caches, tokens and tasks are well-formed, and NoImageForgotten. *)
RegistryInv == TypeOK /\ NoImageForgotten
=============================================================================
