---------------------------- MODULE ContractSync ----------------------------
(***************************************************************************)
(* The synchronization of device type contracts into the database          *)
(* (src/features/contracts), as the job that Scheduler executes.           *)
(*                                                                         *)
(* A run fetches the contracts into a directory of its instance, where     *)
(* earlier ones stay.  It then goes through the types of contracts in a    *)
(* fixed order, so that what a contract refers to is there before it; for  *)
(* each type it looks up which entries exist and what the references are,  *)
(* and then updates or creates the entries one by one, with their aliases. *)
(* What fails is skipped.  None of this is a transaction, and two runs     *)
(* overlap when the lock runs out.                                         *)
(***************************************************************************)
EXTENDS Scheduler, SequencesExt

CONSTANTS
    Slugs,         \* of the contracts of all types
    ContractType,  \* [Slugs -> Types]
    Required,      \* SUBSET Slugs: what must be there to be referred to
    Versions,      \* the contents of the repositories over time: a sequence of
                   \*   [Slugs -> contract or None]
    InstanceOf     \* [Handlers -> instances]

(* The order of the types in synchronizeContracts.                         *)
TypeOrder == <<"arch.sw", "hw.device-manufacturer", "hw.device-family", "hw.device-type">>
TypeNames == {"arch.sw", "hw.device-manufacturer", "hw.device-family", "hw.device-type"}
Contract == [data : Nat, refs : SUBSET Slugs, aliases : SUBSET Slugs]

Before(t, s) ==
    \E i, j \in DOMAIN TypeOrder :
        i < j /\ ContractType[t] = TypeOrder[i] /\ ContractType[s] = TypeOrder[j]

(* The repositories are complete, and contracts refer to types whose turn  *)
(* is earlier, as the sync settings (init.ts) have it.                     *)
ASSUME ContractAssumption ==
    /\ ContractType \in [Slugs -> TypeNames]
    /\ Required \subseteq Slugs
    /\ Versions \in Seq([Slugs -> Contract \cup {None}]) /\ Versions # <<>>
    /\ None \notin Contract
    /\ \A n \in DOMAIN Versions : \A s \in Slugs : Versions[n][s] # None =>
            \A t \in Versions[n][s].refs : Versions[n][t] # None /\ Before(t, s)
    /\ InstanceOf \in [Handlers -> Range(InstanceOf)]

VARIABLES
    version,    \* the position of the repositories in Versions
    files,      \* contracts in the directory of an instance
    db,         \* the entries in the database
    sync,       \* progress of the run of a handler
    clean       \* runs that nothing has disturbed (ghost)

syncVars == <<version, files, db, sync, clean>>
vars == <<schedulerVars, syncVars>>

Instances == Range(InstanceOf)
Entry == Contract \cup {None}
NoSync == [stage |-> 0, existing |-> [s \in Slugs |-> None], mapped |-> [s \in Slugs |-> None]]

Working(h) == pc[h] = "job"

----------------------------------------------------------------------------
(* The repositories change.                                                *)
Publish ==
    /\ version < Len(Versions)
    /\ version' = version + 1
    /\ UNCHANGED <<schedulerVars, files, db, sync, clean>>

(* fetchContractsLocally: files that are no longer there stay behind.      *)
Extracted(i) ==
    [s \in Slugs |-> IF Versions[version][s] # None THEN Versions[version][s] ELSE files[i][s]]

Fetch(h) ==
    /\ Working(h) /\ sync[h].stage = 0
    /\ files' = [files EXCEPT ![InstanceOf[h]] = Extracted(InstanceOf[h])]
    /\ sync' = [sync EXCEPT ![h].stage = 1]
    /\ UNCHANGED <<schedulerVars, version, db, clean>>

FetchFails(h) ==
    /\ JobStumbles(h) /\ sync[h].stage = 0
    /\ sync' = [sync EXCEPT ![h].stage = 1]
    /\ clean' = {}
    /\ UNCHANGED <<version, files, db>>

----------------------------------------------------------------------------
(* getContracts, mapModel and the lookup of the existing entries for the   *)
(* type whose turn it is.                                                  *)
OfType(h) == {s \in Slugs : ContractType[s] = TypeOrder[sync[h].stage]}

Mapped(h, s) ==
    LET contract == files[InstanceOf[h]][s]
    IN  IF s \notin OfType(h) \/ contract = None THEN None
        ELSE [contract EXCEPT !.refs = {t \in contract.refs : db[t] # None}]

Todo(h) == {s \in Slugs : sync[h].mapped[s] # None}

(* The entries of one type are all done before the next type is looked up. *)
Turn(h) == sync[h].stage \in 1 .. Len(TypeOrder) /\ Todo(h) = {}

MapType(h) ==
    /\ Working(h) /\ Turn(h)
    /\ sync' = [sync EXCEPT ![h] =
                  [stage |-> sync[h].stage + 1,
                   existing |-> [s \in Slugs |-> IF s \in OfType(h) THEN db[s] ELSE None],
                   mapped |-> [s \in Slugs |-> Mapped(h, s)]]]
    /\ UNCHANGED <<schedulerVars, version, files, db, clean>>

(* The type is skipped.                                                    *)
MapTypeFails(h) ==
    /\ JobStumbles(h) /\ Turn(h)
    /\ sync' = [sync EXCEPT ![h].stage = sync[h].stage + 1]
    /\ clean' = {}
    /\ UNCHANGED <<version, files, db>>

----------------------------------------------------------------------------
(* upsertEntries *)

(* The entry as the database accepts it: a PATCH of one that was there, or *)
(* a POST of one that was not, which conflicts if it is there by now.      *)
Accepts(h, s) ==
    LET c == files[InstanceOf[h]][s]
    IN  /\ c.refs \cap Required \subseteq sync[h].mapped[s].refs
        /\ sync[h].existing[s] = None => db[s] = None

AliasesOf(e) == IF e = None THEN {} ELSE e.aliases

(* An upsert that takes the aliases of an existing entry to be there.      *)
MissingAliasesOfNew(h, s) ==
    IF sync[h].existing[s] = None THEN sync[h].mapped[s].aliases ELSE {}

(* The aliases that are created: those the entry did not have when it was  *)
(* looked up.                                                              *)
MissingAliases(h, s) == sync[h].mapped[s].aliases \ AliasesOf(sync[h].existing[s])

Written(h, s, added) ==
    [sync[h].mapped[s] EXCEPT !.aliases = AliasesOf(db[s]) \cup added]

Done(h, s) == sync' = [sync EXCEPT ![h].mapped[s] = None]

(* The aliases are created one after the other, up to one that exists.     *)
Upsert(h, s) ==
    /\ Working(h) /\ s \in Todo(h)
    /\ IF Accepts(h, s)
       THEN \E added \in SUBSET MissingAliases(h, s) :
                /\ added # MissingAliases(h, s) => MissingAliases(h, s) \cap AliasesOf(db[s]) # {}
                /\ db' = [db EXCEPT ![s] = Written(h, s, added)]
       ELSE UNCHANGED db
    /\ Done(h, s)
    /\ UNCHANGED <<schedulerVars, version, files, clean>>

(* One of the calls fails: the entry is there without all of its aliases,  *)
(* or not at all.                                                          *)
UpsertFails(h, s) ==
    /\ JobStumbles(h) /\ s \in Todo(h)
    /\ \/ UNCHANGED db
       \/ /\ Accepts(h, s)
          /\ \E added \in SUBSET MissingAliases(h, s) : db' = [db EXCEPT ![s] = Written(h, s, added)]
    /\ Done(h, s)
    /\ clean' = {}
    /\ UNCHANGED <<version, files>>

----------------------------------------------------------------------------
Init ==
    /\ SchedulerInit
    /\ version = 1
    /\ files = [i \in Instances |-> [s \in Slugs |-> None]]
    /\ db = [s \in Slugs |-> None]
    /\ sync = [h \in Handlers |-> NoSync]
    /\ clean = {}

(* A run starts clean if it is the only one.                               *)
StartSync(h) ==
    /\ Post(h)
    /\ clean' = IF \E g \in Handlers : Working(g) THEN {} ELSE {h}
    /\ sync' = [sync EXCEPT ![h] = NoSync]
    /\ UNCHANGED <<version, files, db>>

(* synchronizeContracts never throws.                                      *)
EndSync(h) ==
    /\ sync[h].stage > Len(TypeOrder) /\ Todo(h) = {}
    /\ JobEnds(h)
    /\ UNCHANGED syncVars

Sync(h) ==
    \/ Fetch(h) \/ MapType(h) \/ EndSync(h)
    \/ \E s \in Slugs : Upsert(h, s)

SyncFails(h) == FetchFails(h) \/ MapTypeFails(h) \/ \E s \in Slugs : UpsertFails(h, s)

(* The other steps of the scheduler leave the job alone.                   *)
Beside(h) ==
    /\ UNCHANGED <<version, files, db, sync>>
    /\ clean' = IF pc[h] = "success" THEN clean \ {h} ELSE clean

Next ==
    \/ Publish
    \/ (Tick \/ Replicate \/ RunOut) /\ UNCHANGED syncVars
    \/ \E h \in Handlers : (Fire(h) \/ Proceed(h) \/ Fail(h)) /\ Beside(h)
    \/ \E h \in Handlers : StartSync(h) \/ Sync(h) \/ SyncFails(h)

Spec == Init /\ [][Next]_vars

(* The event loop goes on with what was started; calls end or fail.        *)
Progress(h) == (Proceed(h) /\ Beside(h)) \/ Sync(h)

FairSpec == Spec /\ \A h \in Handlers : WF_vars(Progress(h))

----------------------------------------------------------------------------
(* Entries, directories and the progress of runs are well-formed.          *)
TypeOK ==
    /\ SchedulerTypeOK
    /\ version \in 1 .. Len(Versions)
    /\ files \in [Instances -> [Slugs -> Entry]]
    /\ db \in [Slugs -> Entry]
    /\ \A h \in Handlers :
        /\ sync[h].stage \in 0 .. Len(TypeOrder) + 1
        /\ sync[h].existing \in [Slugs -> Entry] /\ sync[h].mapped \in [Slugs -> Entry]
    /\ clean \subseteq Handlers

(* A run that had no company and no failures leaves every contract it has  *)
(* in the database, with what it refers to and all of its aliases,         *)
(* whatever runs before it have left undone or half done.                  *)
CleanRunSynchronizes ==
    \A h \in clean : pc[h] = "success" =>
        \A s \in Slugs :
            LET contract == files[InstanceOf[h]][s]
            IN  contract # None =>
                    /\ db[s] # None
                    /\ db[s].data = contract.data /\ db[s].refs = contract.refs
                    /\ contract.aliases \subseteq db[s].aliases

(* Entries, directories and runs are well-formed, however runs overlap and *)
(* fail, and CleanRunSynchronizes.                                         *)
SyncInv == TypeOK /\ CleanRunSynchronizes
=============================================================================
