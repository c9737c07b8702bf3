--------------------------- MODULE SchedulerProofs ---------------------------
(***************************************************************************)
(* Proofs about the lock of a scheduled job, for any number of instances,  *)
(* slots, runs and failures.  The handlers of ContractSync are handlers of *)
(* Scheduler; those exclude each other up to a lock that runs out; and the *)
(* lock refines Lease.                                                     *)
(***************************************************************************)
EXTENDS ContractSync, TLAPS

(* What a step of a handler may do to its position, to the lock and to the *)
(* handlers that are overdue.  The invariants follow from these cases, as  *)
(* no other variable is read by Inside, lock and overdue.                  *)
Stays == lock' = lock /\ overdue' = overdue /\ Inside' = Inside

Enters(h) ==
    /\ lock = None /\ h \notin Inside
    /\ lock' = h /\ overdue' = overdue /\ Inside' = Inside \cup {h}

Leaves(h) ==
    /\ h \in Inside
    /\ lock' = lock \/ (lock = h /\ lock' = None)
    /\ overdue' = overdue \ {h} /\ Inside' = Inside \ {h}

PcOK == pc \in [Handlers -> Steps]

-----------------------------------------------------------------------------
(* A handler that goes from one step under the lock to another, or from    *)
(* one outside to another, does not change who is inside.                  *)
LEMMA MoveStays ==
    ASSUME PcOK, NEW h \in Handlers, NEW s \in Steps,
           pc' = [pc EXCEPT ![h] = s],
           pc[h] \in {"idle", "lock"} <=> s \in {"idle", "lock"}
    PROVE  Inside' = Inside
BY DEF PcOK, Inside

LEMMA MoveEnters ==
    ASSUME PcOK, NEW h \in Handlers, NEW s \in Steps,
           pc' = [pc EXCEPT ![h] = s], s \notin {"idle", "lock"}
    PROVE  Inside' = Inside \cup {h}
BY DEF PcOK, Inside

LEMMA MoveLeaves ==
    ASSUME PcOK, NEW h \in Handlers,
           pc' = [pc EXCEPT ![h] = "idle"]
    PROVE  Inside' = Inside \ {h}
BY DEF PcOK, Inside, Steps

(* The position of every handler stays one of the steps.                   *)
LEMMA MoveTyped ==
    ASSUME PcOK, NEW h \in Handlers, NEW s \in Steps, pc' = [pc EXCEPT ![h] = s]
    PROVE  PcOK'
BY DEF PcOK

-----------------------------------------------------------------------------
(* A step of a handler is one of the three cases.                          *)
Effect(h) == Stays \/ Enters(h) \/ Leaves(h)

LEMMA HandlerStep ==
    ASSUME PcOK, NEW h \in Handlers,
           Fire(h) \/ Proceed(h) \/ Fail(h) \/ Post(h) \/ JobStumbles(h) \/ JobEnds(h) \/ JobThrows(h)
    PROVE  PcOK' /\ Effect(h)
<1>1. CASE Fire(h)
  <2>1. pc[h] = "idle" /\ pc' = [pc EXCEPT ![h] = "lock"] /\ lock' = lock /\ overdue' = overdue
    BY <1>1 DEF Fire
  <2>2. "lock" \in Steps
    BY DEF Steps
  <2> QED
    BY <2>1, <2>2, MoveStays, MoveTyped DEF Effect, Stays
<1>2. CASE Lock(h)
  <2>1. /\ pc[h] = "lock" /\ lock = None /\ lock' = h
        /\ pc' = [pc EXCEPT ![h] = "check"] /\ overdue' = overdue
    BY <1>2 DEF Lock
  <2>2. "check" \in Steps /\ h \notin Inside
    BY <2>1 DEF Steps, Inside
  <2> QED
    BY <2>1, <2>2, MoveEnters, MoveTyped DEF Effect, Enters
<1>3. CASE LockFails(h)
  <2>1. pc[h] = "lock" /\ pc' = [pc EXCEPT ![h] = "idle"] /\ lock' = lock /\ overdue' = overdue
    BY <1>3 DEF LockFails
  <2>2. "idle" \in Steps
    BY DEF Steps
  <2> QED
    BY <2>1, <2>2, MoveStays, MoveTyped DEF Effect, Stays
<1>4. CASE \/ Check(h) \/ SetInfo(h) \/ StartFails(h) \/ Post(h) \/ PostUnanswered(h)
           \/ JobEnds(h) \/ JobThrows(h) \/ PatchSuccess(h) \/ PatchSuccessFails(h)
           \/ PatchError(h) \/ PatchErrorFails(h) \/ UpdateJobInfo(h) \/ UpdateJobInfoFails(h)
  <2>1. lock' = lock /\ overdue' = overdue
    BY <1>4 DEF Check, SetInfo, StartFails, Post, PostUnanswered, JobEnds, JobThrows, PatchSuccess,
                PatchSuccessFails, PatchError, PatchErrorFails, UpdateJobInfo, UpdateJobInfoFails
  <2>2. PICK s \in Steps \ {"idle", "lock"} : pc' = [pc EXCEPT ![h] = s]
    BY <1>4 DEF Check, SetInfo, StartFails, Post, PostUnanswered, JobEnds, JobThrows, PatchSuccess,
                PatchSuccessFails, PatchError, PatchErrorFails, UpdateJobInfo, UpdateJobInfoFails, Steps
  <2>3. pc[h] \notin {"idle", "lock"}
    BY <1>4 DEF Check, SetInfo, StartFails, Post, PostUnanswered, JobEnds, JobThrows, PatchSuccess,
                PatchSuccessFails, PatchError, PatchErrorFails, UpdateJobInfo, UpdateJobInfoFails
  <2> QED
    BY <2>1, <2>2, <2>3, MoveStays, MoveTyped DEF Effect, Stays
<1>5. CASE JobStumbles(h)
  BY <1>5 DEF JobStumbles, Effect, Stays, Inside, PcOK
<1>6. CASE Unlock(h) \/ UnlockFails(h) \/ Crash(h)
  <2>1. /\ h \in Inside
        /\ lock' = lock \/ (lock = h /\ lock' = None)
        /\ overdue' = overdue \ {h}
        /\ pc' = [pc EXCEPT ![h] = "idle"]
    BY <1>6 DEF Unlock, UnlockFails, Crash, Inside
  <2>2. "idle" \in Steps
    BY DEF Steps
  <2> QED
    BY <2>1, <2>2, MoveLeaves, MoveTyped DEF Effect, Leaves
<1> QED
  BY <1>1, <1>2, <1>3, <1>4, <1>5, <1>6 DEF Proceed, Fail

(* A step of the scheduler is one of the cases for a handler, or the lock  *)
(* runs out.                                                               *)
RunsOut ==
    /\ lock # None /\ lock' = None
    /\ overdue' = overdue \cup (Inside \cap {lock}) /\ Inside' = Inside
    /\ lock \in Inside => faults' = faults + 1

LEMMA SchedulerStep ==
    ASSUME PcOK, [SchedulerNext]_schedulerVars
    PROVE  PcOK' /\ (Stays \/ RunsOut \/ \E h \in Handlers : Enters(h) \/ Leaves(h))
<1>1. CASE Tick \/ Replicate
  BY <1>1 DEF Tick, Replicate, Stays, Inside, PcOK
<1>2. CASE RunOut
  BY <1>2 DEF RunOut, RunsOut, Fault, Inside, PcOK
<1>3. CASE UNCHANGED schedulerVars
  BY <1>3 DEF schedulerVars, Stays, Inside, PcOK
<1>4. ASSUME NEW h \in Handlers,
             Fire(h) \/ Proceed(h) \/ Fail(h) \/ Post(h) \/ JobStumbles(h) \/ JobEnds(h) \/ JobThrows(h)
      PROVE  PcOK' /\ (Stays \/ RunsOut \/ \E g \in Handlers : Enters(g) \/ Leaves(g))
  BY <1>4, HandlerStep DEF Effect
<1> QED
  BY <1>1, <1>2, <1>3, <1>4 DEF SchedulerNext

LEMMA Start == SchedulerInit => PcOK /\ Inside = {}
BY DEF SchedulerInit, PcOK, Inside, Steps

-----------------------------------------------------------------------------
LEMMA SyncStepIsScheduled ==
    ASSUME [Next]_vars
    PROVE  [SchedulerNext]_schedulerVars
<1>1. CASE UNCHANGED vars
  BY <1>1 DEF vars
<1>2. CASE Publish
  BY <1>2 DEF Publish
<1>3. CASE (Tick \/ Replicate \/ RunOut) /\ UNCHANGED syncVars
  BY <1>3 DEF SchedulerNext
<1>4. ASSUME NEW h \in Handlers, (Fire(h) \/ Proceed(h) \/ Fail(h)) /\ Beside(h)
      PROVE  SchedulerNext
  BY <1>4 DEF SchedulerNext
<1>5. ASSUME NEW h \in Handlers, StartSync(h) \/ Sync(h) \/ SyncFails(h)
      PROVE  [SchedulerNext]_schedulerVars
  <2>1. CASE StartSync(h) \/ EndSync(h) \/ SyncFails(h)
    <3>1. Post(h) \/ JobEnds(h) \/ JobStumbles(h)
      BY <2>1 DEF StartSync, EndSync, SyncFails, FetchFails, MapTypeFails, UpsertFails
    <3> QED
      BY <3>1 DEF SchedulerNext
  <2>2. CASE Fetch(h) \/ MapType(h) \/ \E s \in Slugs : Upsert(h, s)
    BY <2>2 DEF Fetch, MapType, Upsert
  <2> QED
    BY <1>5, <2>1, <2>2 DEF Sync
<1> QED
  BY <1>1, <1>2, <1>3, <1>4, <1>5 DEF Next

(* The handlers of the contract synchronization are handlers of the        *)
(* scheduler: whatever src/features/contracts does between the start and   *)
(* the end of the job, the steps around it are those of the scheduler.     *)
THEOREM SyncIsScheduled == Spec => SchedulerSpec
<1>1. Init => SchedulerInit
  BY DEF Init
<1>2. [Next]_vars => [SchedulerNext]_schedulerVars
  BY SyncStepIsScheduled
<1> QED
  BY <1>1, <1>2, PTL DEF Spec, SchedulerSpec

(* Handlers exclude each other: of those that work, all but the holder of  *)
(* the lock have outlived theirs.  A handler only enters when the key is   *)
(* free, and by the invariant nobody who is not overdue works then.        *)
THEOREM HandlersExclude == Spec => []Exclusive
<1> DEFINE IInv == PcOK /\ Exclusive
<1>1. SchedulerInit => IInv
  BY Start DEF Exclusive
<1>2. IInv /\ [SchedulerNext]_schedulerVars => IInv'
  <2> SUFFICES ASSUME PcOK, Exclusive, [SchedulerNext]_schedulerVars
               PROVE  PcOK' /\ Exclusive'
    OBVIOUS
  <2>1. PcOK' /\ (Stays \/ RunsOut \/ \E h \in Handlers : Enters(h) \/ Leaves(h))
    BY SchedulerStep
  <2>2. CASE Stays
    BY <2>1, <2>2 DEF Stays, Exclusive
  <2>3. CASE RunsOut
    BY <2>1, <2>3 DEF RunsOut, Exclusive
  <2>4. ASSUME NEW h \in Handlers, Enters(h)
        PROVE  Exclusive'
    <3>1. None \notin Inside
      BY SchedulerAssumption DEF Inside
    <3>2. Inside \ overdue = {}
      BY <2>4, <3>1 DEF Enters, Exclusive
    <3> QED
      BY <2>4, <3>2 DEF Enters, Exclusive
  <2>5. ASSUME NEW h \in Handlers, Leaves(h)
        PROVE  Exclusive'
    BY <2>5 DEF Leaves, Exclusive
  <2> QED
    BY <2>1, <2>2, <2>3, <2>4, <2>5
<1>3. SchedulerSpec => []IInv
  BY <1>1, <1>2, PTL DEF SchedulerSpec
<1> QED
  BY <1>3, SyncIsScheduled, PTL

(* The lock of src/infra/scheduler implements Lease: every step of a       *)
(* handler enters, leaves, lets the lease run out or changes nothing of    *)
(* it, and an unlock never gives back the lease of another.                *)
THEOREM LockIsLease == Spec => IsLease
<1>1. SchedulerInit => L!LeaseInit
  BY Start DEF SchedulerInit, L!LeaseInit
<1>2. PcOK /\ [SchedulerNext]_schedulerVars => [L!LeaseNext]_(L!leaseVars)
  <2> SUFFICES ASSUME PcOK, [SchedulerNext]_schedulerVars
               PROVE  [L!LeaseNext]_(L!leaseVars)
    OBVIOUS
  <2>1. Stays \/ RunsOut \/ \E h \in Handlers : Enters(h) \/ Leaves(h)
    BY SchedulerStep
  <2>2. CASE Stays
    BY <2>2 DEF Stays, L!leaseVars
  <2>3. CASE RunsOut
    BY <2>3 DEF RunsOut, L!LeaseNext, L!RunOut
  <2>4. ASSUME NEW h \in Handlers, Enters(h) \/ Leaves(h)
        PROVE  L!LeaseNext
    BY <2>4 DEF Enters, Leaves, L!LeaseNext, L!Enter, L!Leave
  <2> QED
    BY <2>1, <2>2, <2>3, <2>4
<1>3. SchedulerInit => PcOK
  BY Start
<1>4. PcOK /\ [SchedulerNext]_schedulerVars => PcOK'
  BY SchedulerStep
<1>5. SchedulerSpec => L!LeaseSpec
  BY <1>1, <1>2, <1>3, <1>4, PTL DEF SchedulerSpec, L!LeaseSpec
<1> QED
  BY <1>5, SyncIsScheduled, PTL DEF IsLease

-----------------------------------------------------------------------------
(***************************************************************************)
(* Once per slot.  A handler that records a run holds the lock, and either *)
(* still works or has recorded a next invocation after the slot of its     *)
(* run; so the handler that is let in next, and reads that invocation,     *)
(* finds the job due only if it was fired for a later slot.                *)
(***************************************************************************)
Recorded(r) == runs[r].status # "none"
HasRun == {"job", "success", "info", "error"}
Works == HasRun \cup {"errorInfo"}

(* Nothing is dated after the current slot, and a handler that has started *)
(* a run knows it.                                                         *)
Timely ==
    /\ \A h \in Handlers : pc[h] # "idle" => fireDate[h] # None
    /\ \A h \in Handlers : fireDate[h] # None => fireDate[h] <= now
    /\ info # None => info <= now + 1
    /\ \A r \in RunIds : Recorded(r) => runs[r].slot <= now
    /\ \A h \in Handlers : pc[h] \in HasRun => run[h] \in RunIds /\ Recorded(run[h])

TInv == SchedulerTypeOK /\ Timely

LEMMA TInvInit == SchedulerInit => TInv
<1> SUFFICES ASSUME SchedulerInit PROVE TInv
  OBVIOUS
<1> USE SchedulerAssumption
<1>1. NoRun \in Run /\ NoRun.status = "none"
  BY DEF NoRun, Run, Slots
<1>2. SchedulerTypeOK
  <2>1. 0 \in Slots /\ 0 \in 0 .. MaxFaults /\ "idle" \in Steps
    BY DEF Slots, Steps
  <2>2. lagged \in BOOLEAN
    BY DEF SchedulerInit
  <2> QED BY <1>1, <2>1, <2>2 DEF SchedulerInit, SchedulerTypeOK
<1>3. Timely
  BY <1>1 DEF SchedulerInit, Timely, Recorded, HasRun
<1> QED BY <1>2, <1>3 DEF TInv

LEMMA TInvStep ==
    ASSUME TInv, [SchedulerNext]_schedulerVars
    PROVE  TInv'
<1> USE SchedulerAssumption
<1>0. SchedulerTypeOK /\ Timely
  BY DEF TInv
<1>1. CASE Tick \/ Replicate \/ RunOut
  <2>1. CASE Tick
    BY <1>0, <2>1 DEF Tick, runVars, TInv, SchedulerTypeOK, Timely, Recorded, HasRun, Slots, Run, RunIds
  <2>2. CASE Replicate
    BY <1>0, <2>2 DEF Replicate, runVars, TInv, SchedulerTypeOK, Timely, Recorded, HasRun
  <2>3. CASE RunOut
    BY <1>0, <2>3 DEF RunOut, Fault, Inside, timeVars, runVars, TInv, SchedulerTypeOK, Timely,
                      Recorded, HasRun
  <2> QED BY <1>1, <2>1, <2>2, <2>3
<1>2. CASE UNCHANGED schedulerVars
  BY <1>0, <1>2 DEF schedulerVars, TInv, SchedulerTypeOK, Timely, Recorded, HasRun
<1>3. ASSUME NEW h \in Handlers, Fire(h) PROVE TInv'
  BY <1>0, <1>3 DEF Fire, runVars, TInv, SchedulerTypeOK, Timely, Recorded, HasRun, Steps, Slots
<1>4. ASSUME NEW h \in Handlers, Lock(h) \/ LockFails(h) \/ Check(h) \/ StartFails(h) PROVE TInv'
  <2>1. PICK s \in {"idle", "check", "setInfo", "post", "errorInfo", "unlock"} :
          pc' = [pc EXCEPT ![h] = s]
    BY <1>4 DEF Lock, LockFails, Check, StartFails
  <2>5. lagged' \in BOOLEAN
    BY <1>0, <1>4, Zenon DEF Lock, LockFails, Check, StartFails, timeVars, SchedulerTypeOK
  <2>2. /\ lock' \in Handlers \cup {None} /\ faults' \in 0 .. MaxFaults
        /\ pc[h] # "idle"
        /\ UNCHANGED <<now, fireDate, info, replica, runVars, overdue>>
    BY <1>0, <1>4 DEF Lock, LockFails, Check, StartFails, Fault, timeVars, SchedulerTypeOK
  <2>3. SchedulerTypeOK'
    BY <1>0, <2>1, <2>2, <2>5 DEF runVars, SchedulerTypeOK, Steps
  <2>4. Timely'
    BY <1>0, <2>1, <2>2 DEF runVars, SchedulerTypeOK, Timely, Recorded, HasRun
  <2> QED BY <2>3, <2>4 DEF TInv
<1>5. ASSUME NEW h \in Handlers, SetInfo(h) \/ UpdateJobInfo(h) PROVE TInv'
  BY <1>0, <1>5 DEF SetInfo, UpdateJobInfo, NextInvocation, runVars, TInv, SchedulerTypeOK, Timely,
                    Recorded, HasRun, Steps, Slots
<1>6. ASSUME NEW h \in Handlers, Post(h) PROVE TInv'
  <2>1. fireDate[h] \in Slots /\ fireDate[h] <= now
    BY <1>0, <1>6 DEF Post, SchedulerTypeOK, Timely
  <2>2. [status |-> "running", slot |-> fireDate[h]] \in Run
    BY <2>1 DEF Run
  <2>3. PICK r \in RunIds :
          /\ runs' = [runs EXCEPT ![r] = [status |-> "running", slot |-> fireDate[h]]]
          /\ run' = [run EXCEPT ![h] = r]
    BY <1>6 DEF Post
  <2>4. SchedulerTypeOK'
    BY <1>0, <1>6, <2>2, <2>3 DEF Post, timeVars, SchedulerTypeOK, Steps
  <2>5. Timely'
    BY <1>0, <1>6, <2>1, <2>3 DEF Post, timeVars, SchedulerTypeOK, Timely, Recorded, HasRun
  <2> QED BY <2>4, <2>5 DEF TInv
<1>7. ASSUME NEW h \in Handlers, PostUnanswered(h) PROVE TInv'
  <2>1. fireDate[h] \in Slots /\ fireDate[h] <= now
    BY <1>0, <1>7 DEF PostUnanswered, SchedulerTypeOK, Timely
  <2>2. [status |-> "running", slot |-> fireDate[h]] \in Run
    BY <2>1 DEF Run
  <2>3. PICK r \in RunIds :
          /\ runs' = [runs EXCEPT ![r] = [status |-> "running", slot |-> fireDate[h]]]
          /\ lost' = lost \cup {r}
    BY <1>7 DEF PostUnanswered
  <2>4. SchedulerTypeOK'
    BY <1>0, <1>7, <2>2, <2>3 DEF PostUnanswered, Fault, timeVars, SchedulerTypeOK, Steps
  <2>5. Timely'
    BY <1>0, <1>7, <2>1, <2>3 DEF PostUnanswered, timeVars, SchedulerTypeOK, Timely, Recorded, HasRun
  <2> QED BY <2>4, <2>5 DEF TInv
<1>8. ASSUME NEW h \in Handlers, JobEnds(h) \/ JobThrows(h) \/ JobStumbles(h) \/ UpdateJobInfoFails(h)
      PROVE  TInv'
  BY <1>0, <1>8 DEF JobEnds, JobThrows, JobStumbles, UpdateJobInfoFails, Fault, timeVars, runVars, TInv,
                    SchedulerTypeOK, Timely, Recorded, HasRun, Steps
<1>9. ASSUME NEW h \in Handlers,
             PatchSuccess(h) \/ PatchSuccessFails(h) \/ PatchError(h) \/ PatchErrorFails(h)
      PROVE  TInv'
  <2>1. run[h] \in RunIds /\ runs[run[h]] \in Run /\ runs[run[h]].slot \in Slots
    BY <1>0, <1>9 DEF PatchSuccess, PatchSuccessFails, PatchError, PatchErrorFails, SchedulerTypeOK,
                      Timely, HasRun, Run
  <2>2. \A s \in {"success", "error"} : [status |-> s, slot |-> runs[run[h]].slot] \in Run
    BY <2>1 DEF Run
  <2>3. /\ runs' = runs \/ \E s \in {"success", "error"} :
                             runs' = [runs EXCEPT ![run[h]] = [status |-> s, slot |-> runs[run[h]].slot]]
        /\ run' = run /\ lost' \in {lost, lost \cup {run[h]}} /\ faults' \in 0 .. MaxFaults
        /\ UNCHANGED <<timeVars, lock, overdue>>
        /\ \E s \in {"info", "error", "errorInfo", "unlock"} : pc' = [pc EXCEPT ![h] = s]
        /\ pc[h] \in HasRun
    BY <1>0, <1>9 DEF PatchSuccess, PatchSuccessFails, PatchError, PatchErrorFails, Fault, SchedulerTypeOK,
                      HasRun
  <2>4. SchedulerTypeOK'
    BY <1>0, <2>1, <2>2, <2>3 DEF timeVars, SchedulerTypeOK, Steps
  <2>5. Timely'
    <3>1. \A r \in RunIds : Recorded(r)' <=> Recorded(r)
      BY <1>0, <2>1, <2>3 DEF Timely, Recorded, SchedulerTypeOK
    <3>2. \A r \in RunIds : runs'[r].slot = runs[r].slot
      BY <1>0, <2>1, <2>3 DEF SchedulerTypeOK
    <3> QED BY <1>0, <2>1, <2>3, <3>1, <3>2 DEF timeVars, SchedulerTypeOK, Timely, HasRun
  <2> QED BY <2>4, <2>5 DEF TInv
<1>10. ASSUME NEW h \in Handlers, Unlock(h) \/ UnlockFails(h) \/ Crash(h) PROVE TInv'
  BY <1>0, <1>10 DEF Unlock, UnlockFails, Crash, Fault, timeVars, TInv, SchedulerTypeOK, Timely,
                     Recorded, HasRun, Steps
<1> QED
  BY <1>1, <1>2, <1>3, <1>4, <1>5, <1>6, <1>7, <1>8, <1>9, <1>10 DEF SchedulerNext, Proceed, Fail

-----------------------------------------------------------------------------
Calm == faults = 0 /\ ~lagged

(* What holds of the recorded runs as long as nothing has failed.          *)
Alone == overdue = {} /\ Inside \subseteq {lock}

Passed ==
    \A r \in RunIds : Recorded(r) =>
        \/ info # None /\ runs[r].slot < info
        \/ \E h \in Handlers : pc[h] \in Works

Due ==
    \A h \in Handlers, r \in RunIds : Recorded(r) =>
        /\ pc[h] # "setInfo"
        /\ pc[h] = "post" => runs[r].slot < fireDate[h]

Distinct ==
    \A r, q \in RunIds : Recorded(r) /\ Recorded(q) /\ runs[r].slot = runs[q].slot => r = q

CInv == TInv /\ (Calm => Alone /\ Passed /\ Due /\ Distinct)

LEMMA CInvInit == SchedulerInit => CInv
<1> SUFFICES ASSUME SchedulerInit PROVE CInv
  OBVIOUS
<1>1. \A r \in RunIds : ~Recorded(r)
  BY DEF SchedulerInit, Recorded, NoRun
<1>2. Alone
  BY Start DEF SchedulerInit, Alone
<1> QED BY <1>1, <1>2, TInvInit DEF CInv, Passed, Due, Distinct

(* A calm step comes from a calm state, and takes no lock from a handler.  *)
LEMMA AloneStep ==
    ASSUME CInv, [SchedulerNext]_schedulerVars, Calm'
    PROVE  Calm /\ Alone'
<1> USE SchedulerAssumption
<1>0. SchedulerTypeOK /\ PcOK
  BY DEF CInv, TInv, SchedulerTypeOK, PcOK
<1>1. Calm
  <2> SUFFICES faults' \in {faults, faults + 1} /\ (lagged => lagged')
    BY <1>0 DEF Calm, SchedulerTypeOK
  <2>1. CASE Tick \/ Replicate \/ RunOut \/ UNCHANGED schedulerVars
    BY <2>1 DEF Tick, Replicate, RunOut, schedulerVars, timeVars, Fault
  <2>2. ASSUME NEW h \in Handlers,
               \/ Fire(h) \/ Lock(h) \/ LockFails(h) \/ SetInfo(h) \/ StartFails(h) \/ Post(h)
               \/ PostUnanswered(h) \/ JobEnds(h) \/ JobThrows(h) \/ JobStumbles(h)
        PROVE  faults' \in {faults, faults + 1} /\ (lagged => lagged')
    BY <2>2 DEF Fire, Lock, LockFails, SetInfo, StartFails, Post, PostUnanswered, JobEnds,
                JobThrows, JobStumbles, timeVars, Fault
  <2>3. ASSUME NEW h \in Handlers,
               \/ PatchSuccess(h) \/ PatchSuccessFails(h) \/ PatchError(h) \/ PatchErrorFails(h)
               \/ UpdateJobInfo(h) \/ UpdateJobInfoFails(h) \/ Unlock(h) \/ UnlockFails(h) \/ Crash(h)
        PROVE  faults' \in {faults, faults + 1} /\ (lagged => lagged')
    BY <2>3 DEF PatchSuccess, PatchSuccessFails, PatchError, PatchErrorFails, UpdateJobInfo,
                UpdateJobInfoFails, Unlock, UnlockFails, Crash, timeVars, Fault
  <2>4. ASSUME NEW h \in Handlers, Check(h)
        PROVE  faults' \in {faults, faults + 1} /\ (lagged => lagged')
    BY <2>4, Zenon DEF Check
  <2> QED BY <2>1, <2>2, <2>3, <2>4 DEF SchedulerNext, Proceed, Fail
<1>2. Alone
  BY <1>1 DEF CInv
<1>3. PcOK' /\ (Stays \/ RunsOut \/ \E h \in Handlers : Enters(h) \/ Leaves(h))
  BY <1>0, SchedulerStep
<1>4. None \notin Inside
  BY DEF Inside
<1>5. CASE Stays
  BY <1>1, <1>2, <1>5 DEF Stays, Alone
<1>6. CASE RunsOut
  <2>1. lock \notin Inside
    BY <1>0, <1>1, <1>6 DEF RunsOut, Calm, SchedulerTypeOK
  <2> QED BY <1>1, <1>2, <1>6, <2>1 DEF RunsOut, Alone
<1>7. ASSUME NEW h \in Handlers, Enters(h) PROVE Alone'
  BY <1>2, <1>4, <1>7 DEF Enters, Alone
<1>8. ASSUME NEW h \in Handlers, Leaves(h) PROVE Alone'
  BY <1>2, <1>8 DEF Leaves, Alone
<1> QED BY <1>1, <1>3, <1>5, <1>6, <1>7, <1>8

(* A step that leaves the records and the next invocation alone, and moves *)
(* one handler within the steps that work or within those that do not.     *)
LEMMA RecordsKept ==
    ASSUME TInv, Passed, Due, Distinct, NEW h \in Handlers, NEW s \in Steps \ {"setInfo", "post"},
           info' = info, fireDate' = [fireDate EXCEPT ![h] = fireDate'[h]],
           pc' = [pc EXCEPT ![h] = s], pc[h] \in Works => s \in Works,
           \A r \in RunIds : (Recorded(r)' <=> Recorded(r)) /\ runs'[r].slot = runs[r].slot
    PROVE  Passed' /\ Due' /\ Distinct'
<1>1. /\ pc'[h] = s /\ \A g \in Handlers \ {h} : pc'[g] = pc[g] /\ fireDate'[g] = fireDate[g]
      /\ \A g \in Handlers : pc[g] \in Works => pc'[g] \in Works
  BY DEF TInv, SchedulerTypeOK
<1>2. Passed'
  BY <1>1 DEF Passed
<1>3. Due'
  BY <1>1 DEF Due
<1>4. Distinct'
  BY DEF Distinct
<1> QED BY <1>2, <1>3, <1>4

LEMMA CInvStep ==
    ASSUME CInv, [SchedulerNext]_schedulerVars
    PROVE  CInv'
<1> USE SchedulerAssumption
<1>0. TInv'
  BY TInvStep DEF CInv
<1> SUFFICES ASSUME Calm'
             PROVE  Alone' /\ Passed' /\ Due' /\ Distinct'
  BY <1>0 DEF CInv
<1>1. Calm /\ Alone'
  BY AloneStep
<1>2. TInv /\ SchedulerTypeOK /\ Timely /\ Alone /\ Passed /\ Due /\ Distinct
  BY <1>1 DEF CInv, TInv
<1>3. faults = 0 /\ faults' = 0 /\ ~lagged /\ ~lagged'
  BY <1>1 DEF Calm
<1>4. ASSUME Fault PROVE FALSE
  BY <1>3, <1>4 DEF Fault
(* The handler under the lock is the only one.                             *)
<1>5. \A g, h \in Handlers : pc[g] \notin {"idle", "lock"} /\ pc[h] \notin {"idle", "lock"} => g = h
  BY <1>2 DEF Alone, Inside
<1>6. CASE Tick \/ Replicate \/ RunOut \/ UNCHANGED schedulerVars
  BY <1>1, <1>2, <1>6 DEF Tick, Replicate, RunOut, schedulerVars, timeVars, runVars, Passed, Due, Distinct, Recorded
<1>7. ASSUME NEW h \in Handlers, Fire(h) \/ Lock(h) \/ LockFails(h) \/ Unlock(h)
      PROVE  Passed' /\ Due' /\ Distinct'
  <2>1. /\ pc[h] \notin Works /\ info' = info /\ runs' = runs
        /\ fireDate' = [fireDate EXCEPT ![h] = fireDate'[h]]
    BY <1>2, <1>7 DEF Fire, Lock, LockFails, Unlock, timeVars, runVars, Works, HasRun, SchedulerTypeOK
  <2>2. PICK s \in Steps \ {"setInfo", "post"} : pc' = [pc EXCEPT ![h] = s]
    BY <1>7 DEF Fire, Lock, LockFails, Unlock, Steps
  <2> QED BY <1>2, <2>1, <2>2, RecordsKept DEF Recorded
<1>8. ASSUME NEW h \in Handlers, Check(h) PROVE Passed' /\ Due' /\ Distinct'
  <2>1. replica = info /\ UNCHANGED <<info, runs, fireDate, now>>
    BY <1>3, <1>8 DEF Check, runVars
  <2>2. pc[h] = "check" /\ \A g \in Handlers \ {h} : pc'[g] = pc[g] /\ pc[g] \in {"idle", "lock"}
    BY <1>2, <1>5, <1>8 DEF Check, SchedulerTypeOK
  <2>3. \A r \in RunIds : Recorded(r) => info # None /\ runs[r].slot < info
    BY <1>2, <2>2 DEF Passed, Works, HasRun
  <2>4. Passed' /\ Distinct'
    BY <1>2, <2>1, <2>3 DEF Passed, Distinct, Recorded
  <2>5. /\ pc'[h] = "setInfo" => info = None
        /\ pc'[h] = "post" => info # None /\ info <= fireDate[h]
    BY <1>2, <1>8, <2>1 DEF Check, IsDue, NextInvocation, Timely, SchedulerTypeOK, Slots
  <2>6. fireDate[h] \in Slots /\ \A r \in RunIds : runs[r].slot \in Slots
    BY <1>2, <2>2 DEF Timely, SchedulerTypeOK, Run
  <2>7. Due'
    BY <1>2, <2>1, <2>2, <2>3, <2>5, <2>6 DEF Due, Recorded, SchedulerTypeOK, Slots
  <2> QED BY <2>4, <2>7
<1>9. ASSUME NEW h \in Handlers, SetInfo(h) PROVE Passed' /\ Due' /\ Distinct'
  <2>1. \A r \in RunIds : ~Recorded(r)
    BY <1>2, <1>9 DEF SetInfo, Due
  <2>2. \A r \in RunIds : ~Recorded(r)'
    BY <1>9, <2>1 DEF SetInfo, runVars, Recorded
  <2> QED BY <2>2 DEF Passed, Due, Distinct
<1>10. ASSUME NEW h \in Handlers, Post(h) PROVE Passed' /\ Due' /\ Distinct'
  <2>1. PICK r \in RunIds :
          Unused(r) /\ runs' = [runs EXCEPT ![r] = [status |-> "running", slot |-> fireDate[h]]]
    BY <1>10 DEF Post
  <2>2. pc[h] = "post" /\ pc'[h] = "job" /\ \A g \in Handlers \ {h} : pc'[g] \in {"idle", "lock"}
    BY <1>2, <1>5, <1>10 DEF Post, SchedulerTypeOK
  <2>3. \A q \in RunIds : Recorded(q) => runs[q].slot < fireDate[h]
    BY <1>2, <2>2 DEF Due
  <2>4. fireDate[h] \in Slots /\ \A q \in RunIds : runs[q].slot \in Slots
    BY <1>2, <2>2 DEF Timely, SchedulerTypeOK, Run
  <2>5. \A q \in RunIds \ {r} : runs'[q] = runs[q]
    BY <1>2, <2>1 DEF SchedulerTypeOK
  <2>6. runs'[r].slot = fireDate[h]
    BY <1>2, <2>1 DEF SchedulerTypeOK
  <2>7. Distinct'
    BY <1>2, <2>3, <2>4, <2>5, <2>6 DEF Distinct, Recorded, Slots
  <2> QED BY <2>2, <2>7 DEF Passed, Due, Works, HasRun
<1>11. ASSUME NEW h \in Handlers, JobEnds(h) \/ JobThrows(h) \/ PatchSuccess(h) \/ PatchError(h)
      PROVE  Passed' /\ Due' /\ Distinct'
  <2>1. info' = info /\ fireDate' = [fireDate EXCEPT ![h] = fireDate'[h]] /\ pc[h] \in HasRun
    BY <1>2, <1>11 DEF JobEnds, JobThrows, PatchSuccess, PatchError, timeVars, HasRun, SchedulerTypeOK
  <2>2. PICK s \in Steps \ {"setInfo", "post"} : pc' = [pc EXCEPT ![h] = s] /\ s \in Works
    BY <1>11 DEF JobEnds, JobThrows, PatchSuccess, PatchError, Steps, Works, HasRun
  <2>3. run[h] \in RunIds /\ Recorded(run[h])
    BY <1>2, <2>1 DEF Timely
  <2>4. runs' = runs \/ \E x \in {"success", "error"} :
                            runs' = [runs EXCEPT ![run[h]] = [status |-> x, slot |-> runs[run[h]].slot]]
    BY <1>11 DEF JobEnds, JobThrows, PatchSuccess, PatchError, runVars
  <2>5. \A r \in RunIds : (Recorded(r)' <=> Recorded(r)) /\ runs'[r].slot = runs[r].slot
    BY <1>2, <2>3, <2>4 DEF Recorded, SchedulerTypeOK
  <2> QED BY <1>2, <2>1, <2>2, <2>5, RecordsKept
<1>12. ASSUME NEW h \in Handlers, UpdateJobInfo(h) PROVE Passed' /\ Due' /\ Distinct'
  <2>1. info' = now + 1 /\ UNCHANGED <<runs, fireDate>>
    BY <1>12 DEF UpdateJobInfo, NextInvocation, runVars
  <2>2. pc'[h] = "unlock" /\ \A g \in Handlers \ {h} : pc'[g] = pc[g]
    BY <1>2, <1>12 DEF UpdateJobInfo, SchedulerTypeOK
  <2>3. \A r \in RunIds : Recorded(r) => runs[r].slot < now + 1 /\ now + 1 # None
    BY <1>2 DEF Timely, SchedulerTypeOK, Slots, Run
  <2>4. Passed'
    BY <2>1, <2>3 DEF Passed, Recorded
  <2> QED BY <1>2, <2>1, <2>2, <2>4 DEF Due, Distinct, Recorded
<1>13. ASSUME NEW h \in Handlers, Fail(h) \/ JobStumbles(h) PROVE FALSE
  BY <1>3, <1>4, <1>13 DEF Fail, StartFails, PostUnanswered, PatchSuccessFails, PatchErrorFails,
                     UpdateJobInfoFails, UnlockFails, Crash, JobStumbles
<1> QED
  BY <1>1, <1>6, <1>7, <1>8, <1>9, <1>10, <1>11, <1>12, <1>13 DEF SchedulerNext, Proceed

(* As long as nothing fails and no lookup is stale, the job is executed at *)
(* most once for each slot, on however many instances its timer fires      *)
(* (checkJobShouldExecute under the lock, src/infra/scheduler/index.ts).   *)
THEOREM RunsOncePerSlot == Spec => []OncePerSlot
<1>1. CInv => OncePerSlot
  BY DEF CInv, Calm, Distinct, Recorded, OncePerSlot
<1>2. SchedulerSpec => []CInv
  BY CInvInit, CInvStep, PTL DEF SchedulerSpec
<1> QED
  BY <1>1, <1>2, SyncIsScheduled, PTL

-----------------------------------------------------------------------------
(***************************************************************************)
(* A clean run synchronizes.  Nobody else writes while it works, so what   *)
(* it looked up stays true, the entries of the types that had their turn   *)
(* are in the database, and those are all an entry refers to.              *)
(***************************************************************************)
SyncRec ==
    [stage : 0 .. Len(TypeOrder) + 1, existing : [Slugs -> Entry], mapped : [Slugs -> Entry]]

SyncType ==
    /\ version \in 1 .. Len(Versions)
    /\ files \in [Instances -> [Slugs -> Entry]]
    /\ db \in [Slugs -> Entry]
    /\ sync \in [Handlers -> SyncRec]
    /\ clean \subseteq Handlers

(* What a directory holds is complete, whichever versions it is from.      *)
FilesComplete ==
    \A i \in Instances, s \in Slugs : files[i][s] # None =>
        \A t \in files[i][s].refs : t \in Slugs /\ files[i][t] # None /\ Before(t, s)

Position(s) == CHOOSE n \in 1 .. 4 : TypeOrder[n] = ContractType[s]

Synced(h, s) ==
    LET contract == files[InstanceOf[h]][s]
    IN  contract # None =>
            /\ db[s] # None
            /\ db[s].data = contract.data /\ db[s].refs = contract.refs
            /\ contract.aliases \subseteq db[s].aliases

(* The entries whose turn has come are in the database, or are still to be *)
(* written as the contract has them, over what was looked up.              *)
Underway(h) ==
    /\ sync[h].stage = 0 => Todo(h) = {}
    /\ \A s \in Slugs : Position(s) < sync[h].stage =>
         IF s \in Todo(h)
         THEN sync[h].mapped[s] = files[InstanceOf[h]][s] /\ sync[h].existing[s] = db[s]
         ELSE Synced(h, s)
    /\ \A s \in Todo(h) : Position(s) < sync[h].stage

Only == \A h \in clean : clean = {h} /\ \A g \in Handlers \ {h} : ~Working(g)

CleanRuns ==
    \A h \in clean :
        /\ Working(h) => Underway(h)
        /\ pc[h] = "success" => \A s \in Slugs : Synced(h, s)

SInv == TInv /\ SyncType /\ FilesComplete /\ Only /\ CleanRuns

LEMMA TypeOrderFacts ==
    /\ Len(TypeOrder) = 4 /\ DOMAIN TypeOrder = 1 .. 4
    /\ \A m, n \in 1 .. 4 : TypeOrder[m] = TypeOrder[n] => m = n
    /\ \A x \in TypeNames : \E n \in 1 .. 4 : TypeOrder[n] = x
<1>1. Len(TypeOrder) = 4 /\ DOMAIN TypeOrder = 1 .. 4
  BY DEF TypeOrder
<1>2. /\ TypeOrder[1] = "arch.sw" /\ TypeOrder[2] = "hw.device-manufacturer"
      /\ TypeOrder[3] = "hw.device-family" /\ TypeOrder[4] = "hw.device-type"
  BY DEF TypeOrder
<1>3. \A n \in 1 .. 4 : n = 1 \/ n = 2 \/ n = 3 \/ n = 4
  OBVIOUS
<1>4. \A m, n \in 1 .. 4 : TypeOrder[m] = TypeOrder[n] => m = n
  BY <1>2, <1>3
<1>5. \A x \in TypeNames : \E n \in 1 .. 4 : TypeOrder[n] = x
  <2>1. 1 \in 1 .. 4 /\ 2 \in 1 .. 4 /\ 3 \in 1 .. 4 /\ 4 \in 1 .. 4
    OBVIOUS
  <2> QED BY <1>2, <2>1 DEF TypeNames
<1> QED BY <1>1, <1>4, <1>5

LEMMA PositionOf ==
    ASSUME NEW s \in Slugs
    PROVE  /\ Position(s) \in 1 .. 4
           /\ \A n \in 1 .. 4 : TypeOrder[n] = ContractType[s] <=> n = Position(s)
<1>1. ContractType[s] \in TypeNames
  BY ContractAssumption
<1>2. \E n \in 1 .. 4 : TypeOrder[n] = ContractType[s]
  BY <1>1, TypeOrderFacts
<1>3. Position(s) \in 1 .. 4 /\ TypeOrder[Position(s)] = ContractType[s]
  BY <1>2 DEF Position
<1> QED BY <1>3, TypeOrderFacts

LEMMA BeforePosition ==
    ASSUME NEW t \in Slugs, NEW s \in Slugs, Before(t, s)
    PROVE  Position(t) < Position(s)
<1>1. PICK m, n \in 1 .. 4 : m < n /\ ContractType[t] = TypeOrder[m] /\ ContractType[s] = TypeOrder[n]
  BY TypeOrderFacts DEF Before
<1> QED BY <1>1, PositionOf

LEMMA InstanceOfType == \A h \in Handlers : InstanceOf[h] \in Instances
BY ContractAssumption DEF Instances

LEMMA VersionType ==
    ASSUME SyncType
    PROVE  /\ Versions[version] \in [Slugs -> Entry] /\ version \in DOMAIN Versions
           /\ \A s \in Slugs : Versions[version][s] # None =>
                \A t \in Versions[version][s].refs : Versions[version][t] # None /\ Before(t, s)
<1>1. version \in DOMAIN Versions
  BY ContractAssumption DEF SyncType
<1> QED BY <1>1, ContractAssumption DEF Entry

LEMMA SInvInit == Init => SInv
<1> SUFFICES ASSUME Init PROVE SInv
  OBVIOUS
<1>1. TInv
  BY TInvInit DEF Init
<1>2. NoSync \in SyncRec
  BY TypeOrderFacts DEF NoSync, SyncRec, Entry
<1>3. 1 \in 1 .. Len(Versions)
  BY ContractAssumption
<1>4. SyncType
  BY <1>2, <1>3 DEF Init, SyncType, Entry
<1>5. FilesComplete
  BY DEF Init, FilesComplete
<1> QED BY <1>1, <1>4, <1>5 DEF Init, SInv, Only, CleanRuns

(* Steps beside the job: none of them starts or ends one.                  *)
LEMMA BesideStep ==
    ASSUME SInv, UNCHANGED <<files, db, sync>>, clean' \subseteq clean,
           \A g \in Handlers : Working(g)' => Working(g),
           \A g \in clean' : pc'[g] = "success" => pc[g] = "success"
    PROVE  FilesComplete' /\ Only' /\ CleanRuns'
<1>1. FilesComplete'
  BY DEF SInv, FilesComplete
<1>2. Only'
  <2> SUFFICES ASSUME NEW h \in clean'
               PROVE  clean' = {h} /\ \A g \in Handlers \ {h} : ~Working(g)'
    BY DEF Only
  <2> QED BY DEF SInv, Only
<1>3. CleanRuns'
  <2> SUFFICES ASSUME NEW h \in clean'
               PROVE  /\ Working(h)' => Underway(h)'
                      /\ pc'[h] = "success" => \A s \in Slugs : Synced(h, s)'
    BY DEF CleanRuns
  <2>1. h \in clean /\ h \in Handlers
    BY DEF SInv, SyncType
  <2>2. Underway(h) => Underway(h)'
    BY DEF Underway, Todo, Synced
  <2>3. \A s \in Slugs : Synced(h, s) => Synced(h, s)'
    BY DEF Synced
  <2> QED BY <2>1, <2>2, <2>3 DEF SInv, CleanRuns
<1> QED BY <1>1, <1>2, <1>3

(* A step after which no run is clean has nothing to keep of one.          *)
LEMMA NoneClean ==
    ASSUME clean' = {}
    PROVE  Only' /\ CleanRuns'
BY DEF Only, CleanRuns

LEMMA StageOf ==
    ASSUME SyncType, NEW h \in Handlers
    PROVE  sync[h] \in SyncRec /\ sync[h].stage \in 0 .. 5
BY TypeOrderFacts DEF SyncType, SyncRec

LEMMA StageStep ==
    ASSUME SyncType, NEW h \in Handlers, NEW n \in 0 .. 5, sync' = [sync EXCEPT ![h].stage = n]
    PROVE  /\ sync' \in [Handlers -> SyncRec]
           /\ sync'[h].stage = n /\ sync'[h].mapped = sync[h].mapped
BY TypeOrderFacts DEF SyncType, SyncRec

LEMMA FetchStep ==
    ASSUME SInv, NEW h \in Handlers, Fetch(h)
    PROVE  SyncType' /\ FilesComplete' /\ Only' /\ CleanRuns'
<1>0. SyncType /\ FilesComplete /\ Only /\ CleanRuns
  BY DEF SInv
<1> DEFINE i == InstanceOf[h]
<1>1. /\ Working(h) /\ sync[h].stage = 0 /\ files' = [files EXCEPT ![i] = Extracted(i)]
      /\ sync' = [sync EXCEPT ![h].stage = 1] /\ UNCHANGED <<schedulerVars, version, db, clean>>
  BY DEF Fetch
<1>2. i \in Instances
  BY InstanceOfType
<1>3. Extracted(i) \in [Slugs -> Entry]
  BY <1>0, <1>2, VersionType DEF Extracted, SyncType
<1>4. sync' \in [Handlers -> SyncRec] /\ sync'[h].stage = 1 /\ sync'[h].mapped = sync[h].mapped
  <2>1. 1 \in 0 .. 5
    OBVIOUS
  <2> QED BY <1>0, <1>1, <2>1, StageStep
<1>5. SyncType'
  BY <1>0, <1>1, <1>3, <1>4 DEF SyncType
<1>6. FilesComplete'
  <2> SUFFICES ASSUME NEW j \in Instances, NEW s \in Slugs, files'[j][s] # None,
                      NEW t \in files'[j][s].refs
               PROVE  t \in Slugs /\ files'[j][t] # None /\ Before(t, s)
    BY DEF FilesComplete
  <2>1. CASE j # i
    BY <1>0, <1>1, <2>1 DEF FilesComplete, SyncType
  <2>2. CASE j = i
    <3>1. files'[j] = Extracted(i)
      BY <1>0, <1>1, <1>2, <2>2 DEF SyncType
    <3>2. CASE Versions[version][s] # None
      <4>1. Versions[version][s] \in Contract /\ files'[j][s] = Versions[version][s]
        BY <1>0, <3>1, <3>2, VersionType DEF Extracted, Entry
      <4>2. t \in Slugs
        BY <4>1 DEF Contract
      <4> QED BY <1>0, <3>1, <3>2, <4>1, <4>2, VersionType DEF Extracted
    <3>3. CASE Versions[version][s] = None
      <4>1. files'[j][s] = files[i][s]
        BY <3>1, <3>3 DEF Extracted
      <4>2. t \in Slugs /\ files[i][t] # None /\ Before(t, s)
        BY <1>0, <1>2, <4>1 DEF FilesComplete
      <4> QED BY <3>1, <4>2 DEF Extracted
    <3> QED BY <3>2, <3>3
  <2> QED BY <2>1, <2>2
<1>7. \A g \in Handlers : Working(g)' <=> Working(g)
  BY <1>1 DEF Working, schedulerVars
<1>8. Only'
  BY <1>0, <1>1, <1>7 DEF Only
<1>9. CleanRuns'
  <2> SUFFICES ASSUME NEW g \in clean'
               PROVE  /\ Working(g)' => Underway(g)'
                      /\ pc'[g] = "success" => \A s \in Slugs : Synced(g, s)'
    BY DEF CleanRuns
  <2>1. g = h
    BY <1>0, <1>1 DEF Only, SyncType
  <2>2. pc'[g] # "success"
    BY <1>1, <2>1 DEF Working, schedulerVars
  <2>3. Todo(h) = {}
    BY <1>0, <1>1, <2>1 DEF CleanRuns, Underway
  <2>4. Todo(h)' = {}
    BY <1>4, <2>3 DEF Todo
  <2>5. \A s \in Slugs : ~(Position(s) < 1)
    BY PositionOf
  <2> QED BY <1>4, <2>1, <2>2, <2>4, <2>5 DEF Underway
<1> QED BY <1>5, <1>6, <1>8, <1>9

LEMMA MapTypeStep ==
    ASSUME SInv, NEW h \in Handlers, MapType(h)
    PROVE  SyncType' /\ FilesComplete' /\ Only' /\ CleanRuns'
<1>0. SyncType /\ FilesComplete /\ Only /\ CleanRuns
  BY DEF SInv
<1> DEFINE F == files[InstanceOf[h]]
           n == sync[h].stage
           new == [stage |-> n + 1,
                   existing |-> [s \in Slugs |-> IF s \in OfType(h) THEN db[s] ELSE None],
                   mapped |-> [s \in Slugs |-> Mapped(h, s)]]
<1>1. /\ Working(h) /\ n \in 1 .. 4 /\ Todo(h) = {} /\ sync' = [sync EXCEPT ![h] = new]
      /\ UNCHANGED <<schedulerVars, version, files, db, clean>>
  BY TypeOrderFacts DEF MapType, Turn
<1>2. F \in [Slugs -> Entry]
  BY <1>0, InstanceOfType DEF SyncType
<1>3. \A s \in Slugs : Mapped(h, s) \in Entry
  <2> SUFFICES ASSUME NEW s \in Slugs, F[s] # None, s \in OfType(h)
               PROVE  [F[s] EXCEPT !.refs = {t \in F[s].refs : db[t] # None}] \in Contract
    BY DEF Mapped, Entry
  <2>1. F[s] \in Contract
    BY <1>2 DEF Entry
  <2> HIDE DEF F
  <2> QED BY <2>1 DEF Contract
<1>4. new \in SyncRec
  <2>1. n + 1 \in 0 .. Len(TypeOrder) + 1
    BY <1>1, TypeOrderFacts
  <2>2. new.existing \in [Slugs -> Entry]
    BY <1>0 DEF SyncType, Entry
  <2> HIDE DEF n
  <2> QED BY <1>3, <2>1, <2>2 DEF SyncRec
<1>5. SyncType'
  BY <1>0, <1>1, <1>4 DEF SyncType
<1>6. FilesComplete'
  BY <1>0, <1>1 DEF FilesComplete
<1>7. \A g \in Handlers : Working(g)' <=> Working(g)
  BY <1>1 DEF Working, schedulerVars
<1>8. Only'
  BY <1>0, <1>1, <1>7 DEF Only
<1>9. CleanRuns'
  <2> SUFFICES ASSUME NEW g \in clean'
               PROVE  /\ Working(g)' => Underway(g)'
                      /\ pc'[g] = "success" => \A s \in Slugs : Synced(g, s)'
    BY DEF CleanRuns
  <2>1. g = h
    BY <1>0, <1>1 DEF Only, SyncType
  <2>2. pc'[g] # "success"
    BY <1>1, <2>1 DEF Working, schedulerVars
  <2>3. Underway(h)
    BY <1>0, <1>1, <2>1 DEF CleanRuns
  <2>4. \A s \in Slugs : Position(s) < n => Synced(h, s)
    BY <1>1, <2>3 DEF Underway
  <2>5. sync'[h] = new
    BY <1>0, <1>1 DEF SyncType
  <2>6. \A s \in Slugs : s \in OfType(h) <=> Position(s) = n
    BY <1>1, PositionOf DEF OfType
  <2>7. ASSUME NEW s \in Slugs, Position(s) = n, F[s] # None PROVE Mapped(h, s) = F[s]
    <3>1. \A t \in F[s].refs : t \in Slugs /\ F[t] # None /\ Position(t) < n
      BY <1>0, <2>7, InstanceOfType, BeforePosition DEF FilesComplete
    <3>2. \A t \in F[s].refs : db[t] # None
      BY <2>4, <3>1 DEF Synced
    <3>3. F[s] \in Contract
      BY <1>2, <2>7 DEF Entry
    <3>4. {t \in F[s].refs : db[t] # None} = F[s].refs
      BY <3>2
    <3>5. Mapped(h, s) = [F[s] EXCEPT !.refs = F[s].refs]
      BY <2>6, <2>7, <3>4 DEF Mapped
    <3> HIDE DEF F
    <3> QED BY <3>3, <3>5 DEF Contract
  <2>8. \A s \in Slugs : Mapped(h, s) # None => Position(s) = n /\ F[s] # None
    BY <2>6 DEF Mapped
  <2>9. /\ \A s \in Slugs : sync'[h].mapped[s] = Mapped(h, s)
        /\ \A s \in Slugs : Position(s) = n => sync'[h].existing[s] = db[s]
        /\ sync'[h].stage = n + 1
    BY <2>5, <2>6
  <2>10. \A s \in Slugs : Synced(h, s)' <=> Synced(h, s)
    BY <1>1 DEF Synced
  <2>11. \A s \in Slugs : s \in Todo(h)' <=> Mapped(h, s) # None
    BY <2>9 DEF Todo
  <2>12. ASSUME NEW s \in Slugs, Position(s) < n + 1
         PROVE  IF s \in Todo(h)'
                THEN sync'[h].mapped[s] = files'[InstanceOf[h]][s] /\ sync'[h].existing[s] = db'[s]
                ELSE Synced(h, s)'
    <3>1. CASE s \in Todo(h)'
      BY <1>1, <2>7, <2>8, <2>9, <2>11, <3>1
    <3>2. CASE s \notin Todo(h)' /\ Position(s) < n
      BY <2>4, <2>10, <3>2
    <3>3. CASE s \notin Todo(h)' /\ Position(s) = n
      <4>1. F[s] = None
        BY <2>7, <2>11, <3>3
      <4> QED BY <2>10, <3>3, <4>1 DEF Synced
    <3> QED BY <1>1, <2>12, <3>1, <3>2, <3>3, PositionOf
  <2>13. \A s \in Todo(h)' : s \in Slugs /\ Position(s) < n + 1
    BY <1>1, <2>8, <2>11 DEF Todo
  <2>14. n + 1 # 0
    BY <1>1
  <2> HIDE DEF n, F
  <2> QED BY <2>1, <2>2, <2>9, <2>12, <2>13, <2>14 DEF Underway
<1> QED BY <1>5, <1>6, <1>8, <1>9

LEMMA WrittenIs ==
    ASSUME SyncType, NEW h \in Handlers, NEW s \in Todo(h), NEW added \in SUBSET MissingAliases(h, s)
    PROVE  /\ sync[h].mapped[s] \in Contract /\ AliasesOf(db[s]) \subseteq Slugs
           /\ Written(h, s, added) \in Contract
           /\ Written(h, s, added).data = sync[h].mapped[s].data
           /\ Written(h, s, added).refs = sync[h].mapped[s].refs
           /\ Written(h, s, added).aliases = AliasesOf(db[s]) \cup added
<1>1. s \in Slugs /\ sync[h].mapped[s] \in Contract
  BY StageOf DEF Todo, SyncRec, Entry
<1>2. AliasesOf(db[s]) \subseteq Slugs
  <2>1. db[s] \in Entry
    BY <1>1 DEF SyncType
  <2> QED BY <2>1 DEF AliasesOf, Entry, Contract
<1>3. added \subseteq Slugs
  BY <1>1 DEF MissingAliases, Contract
<1> DEFINE m == sync[h].mapped[s]
<1> HIDE DEF m
<1>4. m \in Contract /\ Written(h, s, added) = [m EXCEPT !.aliases = AliasesOf(db[s]) \cup added]
  BY <1>1 DEF Written, m
<1> QED BY <1>1, <1>2, <1>3, <1>4 DEF Contract, m

LEMMA DoneIs ==
    ASSUME SyncType, NEW h \in Handlers, NEW s \in Todo(h), Done(h, s)
    PROVE  /\ sync' \in [Handlers -> SyncRec]
           /\ sync'[h].stage = sync[h].stage /\ sync'[h].existing = sync[h].existing
           /\ \A t \in Slugs : sync'[h].mapped[t] = IF t = s THEN None ELSE sync[h].mapped[t]
           /\ Todo(h)' = Todo(h) \ {s}
<1>1. s \in Slugs /\ sync[h] \in SyncRec
  BY StageOf DEF Todo
<1>2. /\ sync' \in [Handlers -> SyncRec]
      /\ sync'[h].stage = sync[h].stage /\ sync'[h].existing = sync[h].existing
      /\ sync'[h].mapped = [sync[h].mapped EXCEPT ![s] = None]
  BY <1>1 DEF Done, SyncType, SyncRec, Entry
<1>3. \A t \in Slugs : sync'[h].mapped[t] = IF t = s THEN None ELSE sync[h].mapped[t]
  BY <1>1, <1>2 DEF SyncRec
<1> QED BY <1>2, <1>3 DEF Todo

LEMMA UpsertStep ==
    ASSUME SInv, NEW h \in Handlers, NEW s \in Slugs, Upsert(h, s)
    PROVE  SyncType' /\ FilesComplete' /\ Only' /\ CleanRuns'
<1>0. SyncType /\ FilesComplete /\ Only /\ CleanRuns
  BY DEF SInv
<1>1. /\ Working(h) /\ s \in Todo(h) /\ Done(h, s)
      /\ UNCHANGED <<schedulerVars, version, files, clean>>
  BY DEF Upsert
<1>2. db' \in [Slugs -> Entry] /\ \A t \in Slugs \ {s} : db'[t] = db[t]
  <2>1. CASE Accepts(h, s)
    <3>1. PICK added \in SUBSET MissingAliases(h, s) : db' = [db EXCEPT ![s] = Written(h, s, added)]
      BY <2>1 DEF Upsert
    <3>2. Written(h, s, added) \in Entry
      BY <1>0, <1>1, WrittenIs DEF Entry
    <3> QED BY <1>0, <3>1, <3>2 DEF SyncType
  <2>2. CASE ~Accepts(h, s)
    BY <1>0, <2>2 DEF Upsert, SyncType
  <2> QED BY <2>1, <2>2
<1>3. SyncType'
  BY <1>0, <1>1, <1>2, DoneIs DEF SyncType
<1>4. FilesComplete'
  BY <1>0, <1>1 DEF FilesComplete
<1>5. \A g \in Handlers : Working(g)' <=> Working(g)
  BY <1>1 DEF Working, schedulerVars
<1>6. Only'
  BY <1>0, <1>1, <1>5 DEF Only
<1>7. CleanRuns'
  <2> SUFFICES ASSUME NEW g \in clean'
               PROVE  /\ Working(g)' => Underway(g)'
                      /\ pc'[g] = "success" => \A t \in Slugs : Synced(g, t)'
    BY DEF CleanRuns
  <2>1. g = h
    BY <1>0, <1>1 DEF Only, SyncType
  <2>2. pc'[g] # "success"
    BY <1>1, <2>1 DEF Working, schedulerVars
  <2>3. Underway(h)
    BY <1>0, <1>1, <2>1 DEF CleanRuns
  <2> DEFINE F == files[InstanceOf[h]]
             m == sync[h].mapped[s]
  <2>4. Position(s) < sync[h].stage /\ m = F[s] /\ sync[h].existing[s] = db[s]
    BY <1>1, <2>3 DEF Underway
  <2>5. Accepts(h, s)
    BY <2>4 DEF Accepts
  <2>6. PICK added \in SUBSET MissingAliases(h, s) :
          /\ added # MissingAliases(h, s) => MissingAliases(h, s) \cap AliasesOf(db[s]) # {}
          /\ db' = [db EXCEPT ![s] = Written(h, s, added)]
    BY <2>5 DEF Upsert
  <2>7. MissingAliases(h, s) = m.aliases \ AliasesOf(db[s])
    BY <2>4 DEF MissingAliases
  <2>8. added = m.aliases \ AliasesOf(db[s])
    BY <2>6, <2>7
  <2>9. db'[s] = Written(h, s, added) /\ db'[s] \in Contract /\ db'[s].data = m.data
        /\ db'[s].refs = m.refs /\ db'[s].aliases = AliasesOf(db[s]) \cup added
    BY <1>0, <1>1, <2>6, WrittenIs DEF SyncType
  <2>10. Synced(h, s)'
    <3>1. db'[s] # None /\ m.aliases \subseteq db'[s].aliases
      BY <2>8, <2>9, ContractAssumption
    <3> QED BY <1>1, <2>4, <2>9, <3>1 DEF Synced
  <2>11. \A t \in Slugs \ {s} : Synced(h, t) => Synced(h, t)'
    BY <1>1, <1>2 DEF Synced
  <2>12. /\ Todo(h)' = Todo(h) \ {s} /\ sync'[h].stage = sync[h].stage
         /\ \A t \in Slugs \ {s} : /\ sync'[h].mapped[t] = sync[h].mapped[t]
                                   /\ sync'[h].existing[t] = sync[h].existing[t]
    BY <1>0, <1>1, DoneIs
  <2>13. ASSUME NEW t \in Slugs, Position(t) < sync[h].stage
         PROVE  IF t \in Todo(h)'
                THEN sync'[h].mapped[t] = files'[InstanceOf[h]][t] /\ sync'[h].existing[t] = db'[t]
                ELSE Synced(h, t)'
    <3>1. CASE t = s
      BY <2>10, <2>12, <3>1
    <3>2. CASE t # s /\ t \in Todo(h)
      BY <1>1, <1>2, <2>3, <2>12, <2>13, <3>2 DEF Underway
    <3>3. CASE t # s /\ t \notin Todo(h)
      BY <2>3, <2>11, <2>12, <2>13, <3>3 DEF Underway
    <3> QED BY <3>1, <3>2, <3>3
  <2>14. sync[h].stage = 0 => Todo(h)' = {}
    BY <2>3, <2>12 DEF Underway
  <2>15. \A t \in Todo(h)' : Position(t) < sync[h].stage
    BY <2>3, <2>12 DEF Underway
  <2> QED BY <2>1, <2>2, <2>12, <2>13, <2>14, <2>15 DEF Underway
<1> QED BY <1>3, <1>4, <1>6, <1>7

LEMMA StartSyncStep ==
    ASSUME SInv, NEW h \in Handlers, StartSync(h)
    PROVE  SyncType' /\ FilesComplete' /\ Only' /\ CleanRuns'
<1>0. SyncType /\ FilesComplete /\ TInv
  BY DEF SInv
<1>1. /\ Post(h) /\ sync' = [sync EXCEPT ![h] = NoSync] /\ UNCHANGED <<version, files, db>>
      /\ clean' = IF \E g \in Handlers : Working(g) THEN {} ELSE {h}
  BY DEF StartSync
<1>2. NoSync \in SyncRec
  BY TypeOrderFacts DEF NoSync, SyncRec, Entry
<1>3. SyncType'
  BY <1>0, <1>1, <1>2 DEF SyncType
<1>4. FilesComplete'
  BY <1>0, <1>1 DEF FilesComplete
<1>5. CASE clean' = {}
  BY <1>3, <1>4, <1>5, NoneClean
<1>6. CASE clean' = {h} /\ \A g \in Handlers : ~Working(g)
  <2>1. pc'[h] = "job" /\ \A g \in Handlers \ {h} : ~Working(g)'
    BY <1>0, <1>1, <1>6 DEF Post, Working, TInv, SchedulerTypeOK
  <2>2. sync'[h] = NoSync
    BY <1>0, <1>1 DEF SyncType
  <2>3. Todo(h)' = {} /\ sync'[h].stage = 0
    BY <2>2 DEF Todo, NoSync
  <2>4. \A s \in Slugs : ~(Position(s) < 0)
    BY PositionOf
  <2>5. Underway(h)'
    BY <2>3, <2>4 DEF Underway
  <2> QED BY <1>3, <1>4, <1>6, <2>1, <2>5 DEF Only, CleanRuns
<1> QED BY <1>1, <1>5, <1>6

LEMMA EndSyncStep ==
    ASSUME SInv, NEW h \in Handlers, EndSync(h)
    PROVE  SyncType' /\ FilesComplete' /\ Only' /\ CleanRuns'
<1>0. SyncType /\ FilesComplete /\ Only /\ CleanRuns /\ TInv
  BY DEF SInv
<1>1. sync[h].stage > 4 /\ Todo(h) = {} /\ JobEnds(h) /\ UNCHANGED syncVars
  BY TypeOrderFacts DEF EndSync
<1>2. pc[h] = "job" /\ pc'[h] = "success" /\ \A g \in Handlers \ {h} : pc'[g] = pc[g]
  BY <1>0, <1>1 DEF JobEnds, TInv, SchedulerTypeOK
<1>3. SyncType' /\ FilesComplete'
  BY <1>0, <1>1 DEF syncVars, SyncType, FilesComplete
<1>4. Only'
  BY <1>0, <1>1, <1>2 DEF Only, Working, syncVars
<1>5. CleanRuns'
  <2> SUFFICES ASSUME NEW g \in clean'
               PROVE  /\ Working(g)' => Underway(g)'
                      /\ pc'[g] = "success" => \A t \in Slugs : Synced(g, t)'
    BY DEF CleanRuns
  <2>1. g = h /\ g \in clean
    BY <1>0, <1>1, <1>2 DEF Only, Working, syncVars, SyncType
  <2>2. Underway(h)
    BY <1>0, <1>2, <2>1 DEF CleanRuns, Working
  <2>3. \A s \in Slugs : Position(s) < sync[h].stage
    BY <1>0, <1>1, PositionOf, StageOf
  <2>4. \A s \in Slugs : Synced(h, s)
    BY <1>1, <2>2, <2>3 DEF Underway
  <2>5. \A s \in Slugs : Synced(h, s)'
    BY <1>1, <2>4 DEF Synced, syncVars
  <2> QED BY <1>2, <2>1, <2>5 DEF Working
<1> QED BY <1>3, <1>4, <1>5

LEMMA SyncFailsStep ==
    ASSUME SInv, NEW h \in Handlers, SyncFails(h)
    PROVE  SyncType' /\ FilesComplete' /\ Only' /\ CleanRuns'
<1>0. SyncType /\ FilesComplete
  BY DEF SInv
<1>1. clean' = {} /\ UNCHANGED <<version, files>>
  BY DEF SyncFails, FetchFails, MapTypeFails, UpsertFails
<1>2. FilesComplete'
  BY <1>0, <1>1 DEF FilesComplete
<1>3. sync' \in [Handlers -> SyncRec] /\ db' \in [Slugs -> Entry]
  <2>1. CASE FetchFails(h)
    <3>1. 1 \in 0 .. 5 /\ sync' = [sync EXCEPT ![h].stage = 1] /\ db' = db
      BY <2>1 DEF FetchFails
    <3>2. sync' \in [Handlers -> SyncRec]
      BY <1>0, <3>1, StageStep
    <3> QED BY <1>0, <3>1, <3>2 DEF SyncType
  <2>2. CASE MapTypeFails(h)
    <3>1. sync[h].stage + 1 \in 0 .. 5 /\ sync' = [sync EXCEPT ![h].stage = sync[h].stage + 1] /\ db' = db
      BY <1>0, <2>2, StageOf, TypeOrderFacts DEF MapTypeFails, Turn
    <3>2. sync' \in [Handlers -> SyncRec]
      BY <1>0, <3>1, StageStep
    <3> QED BY <1>0, <3>1, <3>2 DEF SyncType
  <2>3. ASSUME NEW s \in Slugs, UpsertFails(h, s)
        PROVE  sync' \in [Handlers -> SyncRec] /\ db' \in [Slugs -> Entry]
    <3>1. s \in Todo(h) /\ Done(h, s)
      BY <2>3 DEF UpsertFails
    <3>2. CASE db' = db
      BY <1>0, <3>1, <3>2, DoneIs DEF SyncType
    <3>3. ASSUME NEW added \in SUBSET MissingAliases(h, s), db' = [db EXCEPT ![s] = Written(h, s, added)]
          PROVE  db' \in [Slugs -> Entry]
      <4>1. Written(h, s, added) \in Entry
        BY <1>0, <3>1, WrittenIs DEF Entry
      <4> QED BY <1>0, <3>3, <4>1 DEF SyncType
    <3> QED BY <1>0, <2>3, <3>1, <3>2, <3>3, DoneIs DEF UpsertFails
  <2> QED BY <2>1, <2>2, <2>3 DEF SyncFails
<1>4. SyncType'
  BY <1>0, <1>1, <1>3 DEF SyncType
<1> QED BY <1>1, <1>2, <1>4, NoneClean

LEMMA SInvStep ==
    ASSUME SInv, [Next]_vars
    PROVE  SInv'
<1>0. SyncType /\ FilesComplete /\ Only /\ CleanRuns /\ TInv
  BY DEF SInv
<1>1. TInv'
  <2>1. [SchedulerNext]_schedulerVars
    BY SyncStepIsScheduled
  <2> QED BY <1>0, <2>1, TInvStep
<1> SUFFICES SyncType' /\ FilesComplete' /\ Only' /\ CleanRuns'
  BY <1>1 DEF SInv
<1>2. CASE UNCHANGED vars
  <2>1. UNCHANGED <<pc, version, files, db, sync, clean>>
    BY <1>2 DEF vars, syncVars, schedulerVars
  <2>2. SyncType'
    BY <1>0, <2>1 DEF SyncType
  <2> QED BY <2>1, <2>2, BesideStep DEF Working
<1>3. CASE Publish
  <2>1. UNCHANGED <<pc, files, db, sync, clean>> /\ version < Len(Versions) /\ version' = version + 1
    BY <1>3 DEF Publish, schedulerVars
  <2>2. version' \in 1 .. Len(Versions)
    BY <1>0, <2>1, ContractAssumption DEF SyncType
  <2>3. SyncType'
    BY <1>0, <2>1, <2>2 DEF SyncType
  <2> QED BY <2>1, <2>3, BesideStep DEF Working
<1>4. CASE (Tick \/ Replicate \/ RunOut) /\ UNCHANGED syncVars
  <2>1. UNCHANGED <<pc, version, files, db, sync, clean>>
    BY <1>4 DEF Tick, Replicate, RunOut, syncVars
  <2>2. SyncType'
    BY <1>0, <2>1 DEF SyncType
  <2> QED BY <2>1, <2>2, BesideStep DEF Working
<1>5. ASSUME NEW h \in Handlers, (Fire(h) \/ Proceed(h) \/ Fail(h)) /\ Beside(h)
      PROVE  SyncType' /\ FilesComplete' /\ Only' /\ CleanRuns'
  <2>1. UNCHANGED <<version, files, db, sync>> /\ clean' = IF pc[h] = "success" THEN clean \ {h} ELSE clean
    BY <1>5 DEF Beside
  <2>2. PICK x \in Steps \ {"job", "success"} : pc' = [pc EXCEPT ![h] = x]
    BY <1>5 DEF Fire, Proceed, Fail, Lock, LockFails, Check, SetInfo, PatchSuccess, PatchError, UpdateJobInfo,
                Unlock, StartFails, PostUnanswered, PatchSuccessFails, PatchErrorFails, UpdateJobInfoFails,
                UnlockFails, Crash, Steps
  <2>3. \A g \in Handlers : pc'[g] \in {"job", "success"} => pc'[g] = pc[g]
    BY <1>0, <2>2 DEF TInv, SchedulerTypeOK
  <2>4. SyncType' /\ clean' \subseteq clean /\ clean \subseteq Handlers
    BY <1>0, <2>1 DEF SyncType
  <2> QED BY <2>1, <2>3, <2>4, BesideStep DEF Working
<1>6. ASSUME NEW h \in Handlers, StartSync(h) \/ Sync(h) \/ SyncFails(h)
      PROVE  SyncType' /\ FilesComplete' /\ Only' /\ CleanRuns'
  BY <1>6, StartSyncStep, FetchStep, MapTypeStep, UpsertStep, EndSyncStep, SyncFailsStep DEF Sync
<1> QED BY <1>2, <1>3, <1>4, <1>5, <1>6 DEF Next

(* A run that had no company and no failures leaves every contract of its  *)
(* directory in the database, with what it refers to and all its aliases,  *)
(* for any repositories and whatever the runs before it left half done     *)
(* (synchronizeContracts and upsertEntries, src/features/contracts).       *)
THEOREM CleanRunsSynchronize == Spec => []SyncInv
<1>1. SInv => SyncInv
  <2> SUFFICES ASSUME SInv PROVE TypeOK /\ CleanRunSynchronizes
    BY DEF SyncInv
  <2>1. SyncType /\ CleanRuns /\ SchedulerTypeOK
    BY DEF SInv, TInv
  <2>2. TypeOK
    BY <2>1, StageOf, TypeOrderFacts DEF TypeOK, SyncType, SyncRec
  <2>3. CleanRunSynchronizes
    BY <2>1 DEF CleanRunSynchronizes, CleanRuns, Synced
  <2> QED BY <2>2, <2>3
<1> QED
  BY <1>1, SInvInit, SInvStep, PTL DEF Spec
=============================================================================
