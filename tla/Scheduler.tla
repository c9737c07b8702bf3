------------------------------ MODULE Scheduler ------------------------------
(***************************************************************************)
(* A scheduled job (src/infra/scheduler/index.ts).  Every instance of the  *)
(* API has a timer that fires in each slot of the schedule; its handler    *)
(* takes a lock in Redis, looks up whether the job is due, records a run   *)
(* and executes the job.  The lock has a time to live, the lookup reads a  *)
(* replica of Redis, and every call may fail.                              *)
(*                                                                         *)
(* Time is counted in slots of the schedule; job.nextInvocation() is the   *)
(* slot after the current one.                                             *)
(***************************************************************************)
EXTENDS Integers, FiniteSets

CONSTANTS
    Handlers,      \* invocations of the job, at most one per timer
    None,
    MaxSlot,       \* bound on the slots of the schedule
    MaxRuns,       \* bound on the recorded runs
    MaxFaults      \* bound on failures, crashes and locks that run out

ASSUME SchedulerAssumption ==
    /\ None \notin Handlers \cup Nat
    /\ MaxSlot \in Nat /\ MaxRuns \in Nat /\ MaxFaults \in Nat

VARIABLES
    now,        \* the current slot
    pc,         \* where a handler is
    fireDate,   \* the slot a handler was fired for
    lock,       \* the handler whose value the lock key holds, or None
    info,       \* nextInvocation in Redis, or None
    replica,    \* the same as the replica of Redis has it
    run,        \* scheduled_job_run of a handler, or 0
    runs,       \* the scheduled_job_runs, in the order of their creation
    lost,       \* runs whose handler cannot record their end (ghost)
    overdue,    \* handlers whose lock has run out (ghost)
    lagged,     \* a handler was misled by the replica (ghost)
    faults

timeVars == <<now, fireDate, info, replica, lagged>>
runVars == <<run, runs, lost>>
schedulerVars == <<now, pc, fireDate, lock, info, replica, run, runs, lost, overdue, lagged, faults>>

Steps == {"idle", "lock", "check", "setInfo", "post", "job", "success", "info", "error",
          "errorInfo", "unlock"}
RunIds == 1 .. MaxRuns
Slots == 0 .. MaxSlot
Run == [status : {"none", "running", "success", "error"}, slot : Slots]
NoRun == [status |-> "none", slot |-> 0]

SchedulerTypeOK ==
    /\ now \in Slots
    /\ pc \in [Handlers -> Steps]
    /\ fireDate \in [Handlers -> Slots \cup {None}]
    /\ lock \in Handlers \cup {None}
    /\ info \in 1 .. MaxSlot + 1 \cup {None} /\ replica \in 1 .. MaxSlot + 1 \cup {None}
    /\ run \in [Handlers -> RunIds \cup {0}]
    /\ runs \in [RunIds -> Run]
    /\ lost \subseteq RunIds /\ overdue \subseteq Handlers
    /\ lagged \in BOOLEAN /\ faults \in 0 .. MaxFaults

SchedulerInit ==
    /\ now = 0
    /\ pc = [h \in Handlers |-> "idle"]
    /\ fireDate = [h \in Handlers |-> None]
    /\ lock = None /\ info = None /\ replica = None
    /\ run = [h \in Handlers |-> 0]
    /\ runs = [r \in RunIds |-> NoRun]
    /\ lost = {} /\ overdue = {} /\ lagged = FALSE /\ faults = 0

Inside == {h \in Handlers : pc[h] \notin {"idle", "lock"}}

Fault == faults < MaxFaults /\ faults' = faults + 1

NextInvocation == now + 1

----------------------------------------------------------------------------
(* Time passes, the replica catches up.                                    *)
Tick ==
    /\ now < MaxSlot
    /\ now' = now + 1
    /\ UNCHANGED <<pc, fireDate, lock, info, replica, runVars, overdue, lagged, faults>>

Replicate ==
    /\ replica # info
    /\ replica' = info
    /\ UNCHANGED <<now, pc, fireDate, lock, info, runVars, overdue, lagged, faults>>

(* The timer of an instance fires once in each slot.                       *)
Fire(h) ==
    /\ pc[h] = "idle" /\ fireDate[h] # now
    /\ fireDate' = [fireDate EXCEPT ![h] = now]
    /\ pc' = [pc EXCEPT ![h] = "lock"]
    /\ UNCHANGED <<now, lock, info, replica, runVars, overdue, lagged, faults>>

(* A lock that an instance may take again while its key is still there.    *)
LockAgain(h) ==
    /\ pc[h] = "lock" /\ lock \in {None, h}
    /\ lock' = h
    /\ pc' = [pc EXCEPT ![h] = "check"]
    /\ UNCHANGED <<timeVars, runVars, overdue, faults>>

(* locker.lock, or its failure: another has the lock and keeps it for the  *)
(* attempts that are made, or Redis does not answer.                       *)
Lock(h) ==
    /\ pc[h] = "lock" /\ lock = None
    /\ lock' = h
    /\ pc' = [pc EXCEPT ![h] = "check"]
    /\ UNCHANGED <<timeVars, runVars, overdue, faults>>

LockFails(h) ==
    /\ pc[h] = "lock"
    /\ IF lock = None THEN Fault ELSE UNCHANGED faults
    /\ pc' = [pc EXCEPT ![h] = "idle"]
    /\ UNCHANGED <<timeVars, lock, runVars, overdue>>

----------------------------------------------------------------------------
(* checkJobShouldExecute *)

(* A check that takes an invocation that is still to come for a due one.   *)
IsDueByNext(value, h) == value = None \/ value <= NextInvocation

IsDue(value, h) ==
    value = None \/ value <= fireDate[h] \/ value > NextInvocation

Check(h) ==
    /\ pc[h] = "check"
    /\ pc' = [pc EXCEPT ![h] = CASE replica = None -> "setInfo"
                                 [] replica # None /\ IsDue(replica, h) -> "post"
                                 [] OTHER -> "unlock"]
    /\ lagged' = (lagged \/ replica # info)
    /\ UNCHANGED <<now, fireDate, lock, info, replica, runVars, overdue, faults>>

SetInfo(h) ==
    /\ pc[h] = "setInfo"
    /\ info' = NextInvocation
    /\ pc' = [pc EXCEPT ![h] = "post"]
    /\ UNCHANGED <<now, fireDate, lock, replica, runVars, overdue, lagged, faults>>

(* Any of the calls before the job starts fails.                           *)
StartFails(h) ==
    /\ pc[h] \in {"check", "setInfo", "post"} /\ Fault
    /\ pc' = [pc EXCEPT ![h] = "errorInfo"]
    /\ UNCHANGED <<timeVars, lock, runVars, overdue>>

----------------------------------------------------------------------------
(* The run. *)

Unused(r) == runs[r].status = "none" /\ \A q \in 1 .. r - 1 : runs[q].status # "none"

Post(h) ==
    /\ pc[h] = "post"
    /\ \E r \in RunIds :
        /\ Unused(r)
        /\ runs' = [runs EXCEPT ![r] = [status |-> "running", slot |-> fireDate[h]]]
        /\ run' = [run EXCEPT ![h] = r]
    /\ pc' = [pc EXCEPT ![h] = "job"]
    /\ UNCHANGED <<timeVars, lock, lost, overdue, faults>>

(* The run is recorded, but the handler never learns its id.               *)
PostUnanswered(h) ==
    /\ pc[h] = "post" /\ Fault
    /\ \E r \in RunIds :
        /\ Unused(r)
        /\ runs' = [runs EXCEPT ![r] = [status |-> "running", slot |-> fireDate[h]]]
        /\ lost' = lost \cup {r}
    /\ pc' = [pc EXCEPT ![h] = "errorInfo"]
    /\ UNCHANGED <<timeVars, lock, run, overdue>>

JobEnds(h) ==
    /\ pc[h] = "job"
    /\ pc' = [pc EXCEPT ![h] = "success"]
    /\ UNCHANGED <<timeVars, lock, runVars, overdue, faults>>

JobThrows(h) ==
    /\ pc[h] = "job"
    /\ pc' = [pc EXCEPT ![h] = "error"]
    /\ UNCHANGED <<timeVars, lock, runVars, overdue, faults>>

(* A call that the job makes fails, and the job goes on without it.        *)
JobStumbles(h) ==
    /\ pc[h] = "job" /\ Fault
    /\ UNCHANGED <<timeVars, pc, lock, runVars, overdue>>

PatchSuccess(h) ==
    /\ pc[h] = "success"
    /\ runs' = [runs EXCEPT ![run[h]] = [status |-> "success", slot |-> runs[run[h]].slot]]
    /\ pc' = [pc EXCEPT ![h] = "info"]
    /\ UNCHANGED <<timeVars, lock, run, lost, overdue, faults>>

(* A failure that is not caught before the lock is released.               *)
PatchSuccessFailsQuietly(h) ==
    /\ pc[h] = "success" /\ Fault
    /\ pc' = [pc EXCEPT ![h] = "unlock"]
    /\ UNCHANGED <<timeVars, lock, runVars, overdue>>

(* The update fails, or only its answer is lost.                           *)
PatchSuccessFails(h) ==
    /\ pc[h] = "success" /\ Fault
    /\ \/ runs' = [runs EXCEPT ![run[h]] = [status |-> "success", slot |-> runs[run[h]].slot]]
       \/ UNCHANGED runs
    /\ pc' = [pc EXCEPT ![h] = "error"]
    /\ UNCHANGED <<timeVars, lock, run, lost, overdue>>

(* The catch block: a run that is recorded as a success stays one.         *)
PatchError(h) ==
    /\ pc[h] = "error"
    /\ runs' = IF runs[run[h]].status = "success" THEN runs
               ELSE [runs EXCEPT ![run[h]] = [status |-> "error", slot |-> runs[run[h]].slot]]
    /\ pc' = [pc EXCEPT ![h] = "errorInfo"]
    /\ UNCHANGED <<timeVars, lock, run, lost, overdue, faults>>

(* The catch block throws in turn, as when an outage that made the first   *)
(* update fail goes on: what is left is to unlock.                         *)
PatchErrorFails(h) ==
    /\ pc[h] = "error"
    /\ IF faults = 0 THEN Fault ELSE UNCHANGED faults
    /\ lost' = lost \cup {run[h]}
    /\ pc' = [pc EXCEPT ![h] = "unlock"]
    /\ UNCHANGED <<timeVars, lock, run, runs, overdue>>

UpdateJobInfo(h) ==
    /\ pc[h] \in {"info", "errorInfo"}
    /\ info' = NextInvocation
    /\ pc' = [pc EXCEPT ![h] = "unlock"]
    /\ UNCHANGED <<now, fireDate, lock, replica, runVars, overdue, lagged, faults>>

UpdateJobInfoFails(h) ==
    /\ pc[h] \in {"info", "errorInfo"} /\ Fault
    /\ pc' = [pc EXCEPT ![h] = IF pc[h] = "info" THEN "error" ELSE "unlock"]
    /\ UNCHANGED <<timeVars, lock, runVars, overdue>>

----------------------------------------------------------------------------
(* The end of the lock. *)

(* An unlock that deletes the key whatever it holds.                       *)
UnlockAnyway(h) ==
    /\ pc[h] = "unlock"
    /\ lock' = None
    /\ overdue' = overdue \ {h}
    /\ run' = [run EXCEPT ![h] = 0]
    /\ pc' = [pc EXCEPT ![h] = "idle"]
    /\ UNCHANGED <<timeVars, runs, lost, faults>>

(* unlock deletes the key only if it still holds the value of this lock.   *)
Unlock(h) ==
    /\ pc[h] = "unlock"
    /\ lock' = IF lock = h THEN None ELSE lock
    /\ overdue' = overdue \ {h}
    /\ run' = [run EXCEPT ![h] = 0]
    /\ pc' = [pc EXCEPT ![h] = "idle"]
    /\ UNCHANGED <<timeVars, runs, lost, faults>>

UnlockFails(h) ==
    /\ pc[h] = "unlock" /\ Fault
    /\ overdue' = overdue \ {h}
    /\ run' = [run EXCEPT ![h] = 0]
    /\ pc' = [pc EXCEPT ![h] = "idle"]
    /\ UNCHANGED <<timeVars, lock, runs, lost>>

(* The lock outlives a handler that has gone, and must not be outlived by  *)
(* one that works.                                                         *)
RunOut ==
    /\ lock # None
    /\ IF lock \in Inside THEN Fault ELSE UNCHANGED faults
    /\ lock' = None
    /\ overdue' = overdue \cup (Inside \cap {lock})
    /\ UNCHANGED <<timeVars, pc, runVars>>

(* The instance stops.                                                     *)
Crash(h) ==
    /\ h \in Inside /\ Fault
    /\ lost' = IF run[h] = 0 THEN lost ELSE lost \cup {run[h]}
    /\ overdue' = overdue \ {h}
    /\ run' = [run EXCEPT ![h] = 0]
    /\ pc' = [pc EXCEPT ![h] = "idle"]
    /\ UNCHANGED <<timeVars, lock, runs>>

(* What a handler does but for the job itself and the record it starts.    *)
Proceed(h) ==
    \/ Lock(h) \/ LockFails(h) \/ Check(h) \/ SetInfo(h)
    \/ PatchSuccess(h) \/ PatchError(h) \/ UpdateJobInfo(h) \/ Unlock(h)

Fail(h) ==
    \/ StartFails(h) \/ PostUnanswered(h) \/ PatchSuccessFails(h) \/ PatchErrorFails(h)
    \/ UpdateJobInfoFails(h) \/ UnlockFails(h) \/ Crash(h)

SchedulerNext ==
    \/ Tick \/ Replicate \/ RunOut
    \/ \E h \in Handlers : \/ Fire(h) \/ Proceed(h) \/ Fail(h)
                           \/ Post(h) \/ JobStumbles(h) \/ JobEnds(h) \/ JobThrows(h)

SchedulerSpec == SchedulerInit /\ [][SchedulerNext]_schedulerVars

----------------------------------------------------------------------------
(* Handlers work one at a time: of those that have got the lock, only one  *)
(* has not outlived it, and the lock is still that one's.                  *)
Exclusive == Inside \ overdue \subseteq {lock}

L == INSTANCE Lease WITH Clients <- Handlers, holder <- lock, inside <- Inside, overdue <- overdue

(* The lock keeps the promise of a lease: no step of a handler takes away  *)
(* a lease that is not its own.                                            *)
IsLease == L!LeaseSpec

(* As long as nothing has failed and the replica has misled nobody, the    *)
(* job is executed at most once for each slot, on however many instances   *)
(* the timer fires.                                                        *)
OncePerSlot ==
    faults = 0 /\ ~lagged =>
        \A r, q \in RunIds :
            runs[r].status # "none" /\ runs[q].status # "none" /\ runs[r].slot = runs[q].slot => r = q

(* A run does not stay recorded as running, unless its instance went down  *)
(* or neither of the two updates of the record could be made.              *)
RunsEnd ==
    \A r \in RunIds : runs[r].status = "running" ~> runs[r].status # "running" \/ r \in lost
==============================================================================
