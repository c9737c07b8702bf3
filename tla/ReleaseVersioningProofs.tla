---------------------- MODULE ReleaseVersioningProofs ----------------------
(***************************************************************************)
(* Proofs about ReleaseVersioning for every set of applications, releases, *)
(* versions and concurrent requests: revisions stay unique as long as no   *)
(* PATCH changes what the version of a release is made of, the advisory    *)
(* locks never close a circle, a final release stays final, while requests *)
(* come one after the other targets follow the latest release, and the     *)
(* requests implement Revisions, the numbering of one commit after the     *)
(* other.                                                                  *)
(***************************************************************************)
EXTENDS ReleaseTracking, FiniteSetTheorems, TLAPS

LEMMA SeenType ==
    ASSUME TypeOK, NEW t \in Txs, NEW r \in Releases
    PROVE  Seen(t, r) \in Row \cup {None}
BY DEF TypeOK, Seen

LEMMA PatchedType ==
    ASSUME NEW row \in Row, NEW p \in Patch
    PROVE  Patched(row, p) \in Row
BY ReleaseAssumption DEF Patched, Given, Row, Patch

LEMMA RevisedType ==
    ASSUME NEW row \in Row, NEW n \in 0 .. MaxRevision, NEW f
    PROVE  Revised(row, n, f) \in Row
<1> DEFINE final == row.final \/ f
<1>1. final \in BOOLEAN
  OBVIOUS
<1>2. Revised(row, n, f) = [row EXCEPT !.rev = n, !.final = final]
  BY DEF Revised
<1> HIDE DEF final
<1>3. n \in Nat \cup {None}
  BY ReleaseAssumption
<1>4. [row EXCEPT !.rev = n] \in Row
  BY <1>3 DEF Row
<1>5. [[row EXCEPT !.rev = n] EXCEPT !.final = final] \in Row
  BY <1>1, <1>4 DEF Row
<1> QED BY <1>2, <1>5

LEMMA NoPatchType == NoPatch \in Patch
BY DEF NoPatch, Patch

LEMMA EndType ==
    ASSUME TypeOK, NEW t \in Txs, End(t),
           release' \in [Releases -> Row \cup {None}],
           target' \in [Apps -> Releases \cup {None}]
    PROVE  TypeOK'
BY NoPatchType DEF TypeOK, End, NoRows, NoTargets

PcStates ==
    {"idle", "prerun", "null", "nullTrack", "nullApp", "run", "lock",
     "assign", "track", "app", "postTrack", "postApp", "commit"}

LEMMA WriteType ==
    ASSUME TypeOK, NEW t \in Txs, NEW rs \in SUBSET Releases,
           NEW rows \in [Releases -> Row \cup {None}],
           NEW next \in PcStates,
           Write(t, rs, rows, next)
    PROVE  /\ release' \in [Releases -> Row \cup {None}]
           /\ target' \in [Apps -> Releases \cup {None}]
           /\ pc' \in [Txs -> PcStates]
           /\ mine' \in [Txs -> [Releases -> Row \cup {None}]]
           /\ touched' \in [Txs -> SUBSET Releases]
BY DEF TypeOK, Write, PcStates

(* The releases a transaction works on exist, in the table or among its    *)
(* own rows.                                                               *)
Present ==
    \A t \in Txs, r \in Releases :
        r \in ids[t] \/ todo[t][r] # None => Seen(t, r) # None

TInv == TypeOK /\ Present

LEMMA TInvInit == Init => TInv
<1> SUFFICES ASSUME Init PROVE TInv
  OBVIOUS
<1>1. TypeOK
  BY NoPatchType DEF Init, TypeOK, NoRows, NoTargets
<1>2. Present
  BY DEF Init, Present, NoRows
<1> QED BY <1>1, <1>2 DEF TInv

(* Every step keeps the tables, the locks and the transactions well-formed.*)
LEMMA TInvType == TInv /\ [Next]_vars => TypeOK'
<1> SUFFICES ASSUME TInv, [Next]_vars PROVE TypeOK'
  OBVIOUS
<1> USE ReleaseAssumption
<1>0. TypeOK /\ Present
  BY DEF TInv
<1>1. ASSUME NEW t \in Txs, NEW r \in Releases, NEW new \in NewReleases, Create(t, r, new)
      PROVE  TypeOK'
  <2> DEFINE row == [app |-> new.app, sem |-> new.sem, var |-> new.var,
                     rev |-> None, final |-> FALSE, good |-> new.good]
             rows == [mine[t] EXCEPT ![r] = row]
             next == IF new.is_final THEN "lock" ELSE "commit"
  <2>1. row \in Row
    BY DEF Row, NewRelease
  <2>2. [NoPatch EXCEPT !.is_final = new.is_final] \in Patch
    BY DEF NoPatch, Patch, NewRelease
  <2>3. Write(t, {r}, rows, next)
    BY <1>1 DEF Create
  <2>4. rows \in [Releases -> Row \cup {None}] /\ next \in PcStates
    BY <1>0, <2>1 DEF TypeOK, PcStates
  <2>5. todo' \in [Txs -> [Releases -> Row \cup {None}]]
    <3>1. todo' = [todo EXCEPT ![t] = IF new.is_final THEN [todo[t] EXCEPT ![r] = row] ELSE todo[t]]
      BY <1>0, <1>1 DEF Create, TypeOK
    <3>2. (IF new.is_final THEN [todo[t] EXCEPT ![r] = row] ELSE todo[t])
             \in [Releases -> Row \cup {None}]
      BY <1>0, <2>1 DEF TypeOK
    <3> HIDE DEF row
    <3> QED BY <1>0, <3>1, <3>2 DEF TypeOK
  <2> HIDE DEF row, rows, next
  <2>6. /\ release' \in [Releases -> Row \cup {None}]
        /\ target' \in [Apps -> Releases \cup {None}]
        /\ pc' \in [Txs -> PcStates]
        /\ mine' \in [Txs -> [Releases -> Row \cup {None}]]
        /\ touched' \in [Txs -> SUBSET Releases]
    BY <1>0, <2>3, <2>4, WriteType
  <2>7. req' \in [Txs -> Patch]
    BY <1>0, <1>1, <2>2 DEF Create, TypeOK
  <2>8. /\ ids' \in [Txs -> SUBSET Releases]
        /\ locks' = locks /\ tracked' = tracked /\ mineApp' = mineApp
    BY <1>0, <1>1 DEF Create, TypeOK
  <2> QED BY <1>0, <2>5, <2>6, <2>7, <2>8 DEF TypeOK, PcStates
<1>2. ASSUME NEW t \in Txs, NEW rs \in PatchTargets, NEW p \in Patches, Receive(t, rs, p)
      PROVE  TypeOK'
  BY <1>0, <1>2 DEF Receive, TypeOK
<1>3. ASSUME NEW t \in Txs, Prerun(t)
      PROVE  TypeOK'
  <2>1. [r \in Releases |-> IF ToSetRevision(t, r) THEN Seen(t, r) ELSE None]
           \in [Releases -> Row \cup {None}]
    BY <1>0, SeenType
  <2> QED BY <1>0, <1>3, <2>1 DEF Prerun, TypeOK
<1>4. ASSUME NEW t \in Txs, NullRevisions(t)
      PROVE  TypeOK'
  <2> DEFINE rows == [r \in Releases |-> IF r \in ToNull(t) THEN [Seen(t, r) EXCEPT !.rev = None]
                                         ELSE mine[t][r]]
             next == IF ToNull(t) # {} THEN "nullTrack" ELSE "run"
  <2>1. ASSUME NEW r \in ToNull(t) PROVE [Seen(t, r) EXCEPT !.rev = None] \in Row
    <3>1. Seen(t, r) \in Row
      BY <1>0, SeenType DEF ToNull, Listed, Present
    <3> QED BY <3>1 DEF Row
  <2>2. rows \in [Releases -> Row \cup {None}] /\ next \in PcStates
    BY <1>0, <2>1 DEF TypeOK, PcStates
  <2>3. Write(t, ToNull(t), rows, next) /\ ToNull(t) \in SUBSET Releases
    BY <1>4 DEF NullRevisions, ToNull, Listed
  <2> HIDE DEF rows, next
  <2>4. /\ release' \in [Releases -> Row \cup {None}]
        /\ target' \in [Apps -> Releases \cup {None}]
        /\ pc' \in [Txs -> PcStates]
        /\ mine' \in [Txs -> [Releases -> Row \cup {None}]]
        /\ touched' \in [Txs -> SUBSET Releases]
    BY <1>0, <2>2, <2>3, WriteType
  <2> QED BY <1>0, <1>4, <2>4 DEF NullRevisions, TypeOK, PcStates
<1>5. ASSUME NEW t \in Txs, Run(t)
      PROVE  TypeOK'
  <2> DEFINE rows == [r \in Releases |-> IF r \in ids[t] THEN Patched(Seen(t, r), req[t])
                                         ELSE mine[t][r]]
             next == IF Listed(t) # {} THEN "lock"
                     ELSE IF req[t].good # None /\ ids[t] # {} THEN "postTrack" ELSE "commit"
  <2>1. ASSUME NEW r \in ids[t] PROVE Patched(Seen(t, r), req[t]) \in Row
    <3>1. Seen(t, r) \in Row /\ req[t] \in Patch
      BY <1>0, SeenType DEF Present, TypeOK
    <3> QED BY <3>1, PatchedType
  <2>2. rows \in [Releases -> Row \cup {None}] /\ next \in PcStates
    BY <1>0, <2>1 DEF TypeOK, PcStates
  <2>3. Write(t, ids[t], rows, next) /\ ids[t] \in SUBSET Releases
    BY <1>0, <1>5 DEF Run, TypeOK
  <2> HIDE DEF rows, next
  <2>4. /\ release' \in [Releases -> Row \cup {None}]
        /\ target' \in [Apps -> Releases \cup {None}]
        /\ pc' \in [Txs -> PcStates]
        /\ mine' \in [Txs -> [Releases -> Row \cup {None}]]
        /\ touched' \in [Txs -> SUBSET Releases]
    BY <1>0, <2>2, <2>3, WriteType
  <2> QED BY <1>0, <1>5, <2>4 DEF Run, TypeOK, PcStates
<1>6. ASSUME NEW t \in Txs, NEW a \in Apps, Lock(t, a)
      PROVE  TypeOK'
  BY <1>0, <1>6 DEF Lock, AfterLocks, TypeOK
<1>7. ASSUME NEW t \in Txs, NEW r \in Releases, Assign(t, r)
      PROVE  TypeOK'
  <2>1. PICK n \in 0 .. MaxRevision :
          Write(t, {r}, [mine[t] EXCEPT ![r] = Revised(Seen(t, r), n, Finalizes(t, r))], "track")
    BY <1>7 DEF Assign
  <2> DEFINE row == Revised(Seen(t, r), n, Finalizes(t, r))
             rows == [mine[t] EXCEPT ![r] = row]
  <2>2. row \in Row
    <3>1. Seen(t, r) \in Row
      BY <1>0, <1>7, SeenType DEF Assign, NextListed, Listed, Present
    <3> QED BY <3>1, RevisedType
  <2>3. rows \in [Releases -> Row \cup {None}] /\ "track" \in PcStates
    BY <1>0, <2>2 DEF TypeOK, PcStates
  <2>4. Write(t, {r}, rows, "track") /\ {r} \in SUBSET Releases
    BY <2>1
  <2> HIDE DEF row, rows
  <2>5. /\ release' \in [Releases -> Row \cup {None}]
        /\ target' \in [Apps -> Releases \cup {None}]
        /\ pc' \in [Txs -> PcStates]
        /\ mine' \in [Txs -> [Releases -> Row \cup {None}]]
        /\ touched' \in [Txs -> SUBSET Releases]
    BY <1>0, <2>3, <2>4, WriteType
  <2> QED BY <1>0, <1>7, <2>5 DEF Assign, TypeOK, PcStates
<1>8. ASSUME NEW t \in Txs, Track(t)
      PROVE  TypeOK'
  <2>1. [a \in Apps |-> IF a \in TrackApps(t) /\ \E r \in Releases : Latest(t, a, r)
                        THEN CHOOSE r \in Releases : Latest(t, a, r) ELSE None]
           \in [Apps -> Releases \cup {None}]
    OBVIOUS
  <2> QED BY <1>0, <1>8, <2>1 DEF Track, TypeOK
<1>9. ASSUME NEW t \in Txs, SetTarget(t)
      PROVE  TypeOK'
  <2>1. [a \in Apps |-> Given(tracked[t][a], mineApp[t][a])] \in [Apps -> Releases \cup {None}]
    BY <1>0 DEF TypeOK, Given
  <2>2. NoTargets \in [Apps -> Releases \cup {None}]
    BY DEF NoTargets
  <2> QED BY <1>0, <1>9, <2>1, <2>2 DEF SetTarget, TypeOK
<1>10. ASSUME NEW t \in Txs, Commit(t)
       PROVE  TypeOK'
  <2>1. release' \in [Releases -> Row \cup {None}]
    BY <1>0, <1>10, SeenType DEF Commit
  <2>2. target' \in [Apps -> Releases \cup {None}]
    BY <1>0, <1>10 DEF Commit, SeenTarget, TypeOK
  <2> QED BY <1>0, <1>10, <2>1, <2>2, EndType DEF Commit
<1>11. ASSUME NEW t \in Txs, Rollback(t)
       PROVE  TypeOK'
  BY <1>0, <1>11, EndType DEF Rollback, TypeOK
<1>12. CASE UNCHANGED vars
  BY <1>0, <1>12 DEF vars, TypeOK
<1> QED BY <1>1, <1>2, <1>3, <1>4, <1>5, <1>6, <1>7, <1>8, <1>9, <1>10, <1>11, <1>12 DEF Next

(* The rows of the updates.                                                *)
NewRow(new) ==
    [app |-> new.app, sem |-> new.sem, var |-> new.var,
     rev |-> None, final |-> FALSE, good |-> new.good]

LEMMA NewRowType == ASSUME NEW new \in NewReleases PROVE NewRow(new) \in Row
BY ReleaseAssumption DEF NewRow, Row, NewRelease

LEMMA CreateEffect ==
    ASSUME TInv, NEW t \in Txs, NEW r \in Releases, NEW new \in NewReleases, Create(t, r, new)
    PROVE  /\ release' = release /\ locks' = locks
           /\ release[r] = None /\ \A u \in Txs : mine[u][r] = None
           /\ mine' = [mine EXCEPT ![t] = [mine[t] EXCEPT ![r] = NewRow(new)]]
           /\ pc'[t] \in {"lock", "commit"}
           /\ \A u \in Txs \ {t} : pc'[u] = pc[u] /\ todo'[u] = todo[u] /\ ids'[u] = ids[u]
           /\ todo'[t] = [todo[t] EXCEPT ![r] = NewRow(new)] \/ todo'[t] = todo[t]
           /\ ids'[t] = {r}
           /\ req' = [req EXCEPT ![t] = [NoPatch EXCEPT !.is_final = new.is_final]]
BY DEF Create, Write, NewRow, TInv, TypeOK

LEMMA NullEffect ==
    ASSUME TInv, NEW t \in Txs, NullRevisions(t)
    PROVE  /\ release' = release
           /\ mine' = [mine EXCEPT ![t] =
                         [r \in Releases |-> IF r \in ToNull(t) THEN [Seen(t, r) EXCEPT !.rev = None]
                                             ELSE mine[t][r]]]
           /\ ids' = ids /\ todo' = todo
           /\ \A r \in ToNull(t) : [Seen(t, r) EXCEPT !.rev = None] # None
<1>1. ASSUME NEW r \in ToNull(t) PROVE [Seen(t, r) EXCEPT !.rev = None] # None
  <2>1. Seen(t, r) \in Row
    BY SeenType DEF ToNull, Listed, Present, TInv
  <2>2. [Seen(t, r) EXCEPT !.rev = None] \in Row
    BY <2>1 DEF Row
  <2> QED BY <2>2, ReleaseAssumption
<1> QED BY <1>1 DEF NullRevisions, Write, TInv, TypeOK

LEMMA RunEffect ==
    ASSUME TInv, NEW t \in Txs, Run(t)
    PROVE  /\ release' = release /\ locks' = locks
           /\ mine' = [mine EXCEPT ![t] =
                         [r \in Releases |-> IF r \in ids[t] THEN Patched(Seen(t, r), req[t])
                                             ELSE mine[t][r]]]
           /\ ids' = ids /\ todo' = todo /\ req' = req
           /\ \A r \in ids[t] : /\ Seen(t, r) \in Row
                                /\ Patched(Seen(t, r), req[t]) \in Row
                                /\ \A u \in Txs \ {t} : mine[u][r] = None
           /\ pc'[t] \in {"lock", "postTrack", "commit"}
           /\ pc'[t] = "postTrack" => Listed(t) = {}
           /\ \A u \in Txs \ {t} : pc'[u] = pc[u]
<1>1. ASSUME NEW r \in ids[t]
      PROVE  Seen(t, r) \in Row /\ Patched(Seen(t, r), req[t]) \in Row
  <2>1. Seen(t, r) \in Row /\ req[t] \in Patch
    BY SeenType DEF Present, TInv, TypeOK
  <2> QED BY <2>1, PatchedType
<1>2. \A r \in ids[t], u \in Txs \ {t} : mine[u][r] = None
  BY DEF Run, Write, Free
<1> QED BY <1>1, <1>2 DEF Run, Write, TInv, TypeOK

LEMMA AssignEffect ==
    ASSUME TInv, NEW t \in Txs, NEW r \in Releases, Assign(t, r)
    PROVE  /\ release' = release /\ locks' = locks
           /\ pc[t] = "assign" /\ todo[t][r] # None
           /\ Seen(t, r) \in Row
           /\ \A u \in Txs \ {t} : mine[u][r] = None
           /\ \E n \in 0 .. MaxRevision :
                /\ IsNextRevision(t, VersionOf(t, r), n)
                /\ Revised(Seen(t, r), n, Finalizes(t, r)) \in Row
                /\ mine' = [mine EXCEPT ![t] =
                              [mine[t] EXCEPT ![r] = Revised(Seen(t, r), n, Finalizes(t, r))]]
           /\ ids' = ids /\ todo' = [todo EXCEPT ![t] = [todo[t] EXCEPT ![r] = None]] /\ req' = req
           /\ pc'[t] = "track"
           /\ \A u \in Txs \ {t} : pc'[u] = pc[u]
<1>1. Seen(t, r) \in Row /\ todo[t][r] # None
  BY SeenType DEF Assign, NextListed, Listed, Present, TInv
<1>2. \A u \in Txs \ {t} : mine[u][r] = None
  BY DEF Assign, Write, Free
<1>3. ASSUME NEW n \in 0 .. MaxRevision
      PROVE  Revised(Seen(t, r), n, Finalizes(t, r)) \in Row
  BY <1>1, RevisedType
<1> QED BY <1>1, <1>2, <1>3 DEF Assign, Write, TInv, TypeOK

(* A row that is in sight stays in sight: rows are only replaced, and what *)
(* a rollback takes away belongs to the transaction that ends.             *)
LEMMA TInvPresent == TInv /\ [Next]_vars => Present'
<1> SUFFICES ASSUME TInv, [Next]_vars PROVE Present'
  OBVIOUS
<1> USE ReleaseAssumption
<1>0. TypeOK /\ Present /\ TypeOK'
  BY TInvType DEF TInv
<1>1. ASSUME NEW t \in Txs, NEW r \in Releases, NEW new \in NewReleases, Create(t, r, new)
      PROVE  Present'
  BY <1>0, <1>1, CreateEffect, NewRowType DEF Present, Seen, TypeOK
<1>2. ASSUME NEW t \in Txs, NEW rs \in PatchTargets, NEW p \in Patches, Receive(t, rs, p)
      PROVE  Present'
  BY <1>0, <1>2 DEF Receive, Present, Seen, TypeOK
<1>3. ASSUME NEW t \in Txs, Prerun(t)
      PROVE  Present'
  BY <1>0, <1>3 DEF Prerun, ToSetRevision, Present, Seen, TypeOK
<1>4. ASSUME NEW t \in Txs, NullRevisions(t)
      PROVE  Present'
  <2> DEFINE nulled(q) == [Seen(t, q) EXCEPT !.rev = None]
  <2>1. /\ release' = release /\ ids' = ids /\ todo' = todo
        /\ \A q \in ToNull(t) : nulled(q) # None
        /\ mine' = [mine EXCEPT ![t] =
                      [q \in Releases |-> IF q \in ToNull(t) THEN nulled(q) ELSE mine[t][q]]]
    BY <1>4, NullEffect
  <2> HIDE DEF nulled
  <2>2. \A u \in Txs, q \in Releases : mine[u][q] # None => mine'[u][q] # None
    BY <1>0, <2>1 DEF TypeOK
  <2> QED BY <1>0, <2>1, <2>2 DEF Present, Seen
<1>5. ASSUME NEW t \in Txs, Run(t)
      PROVE  Present'
  <2> DEFINE patched(q) == Patched(Seen(t, q), req[t])
  <2>1. /\ release' = release /\ ids' = ids /\ todo' = todo
        /\ \A q \in ids[t] : patched(q) # None
        /\ mine' = [mine EXCEPT ![t] =
                      [q \in Releases |-> IF q \in ids[t] THEN patched(q) ELSE mine[t][q]]]
    BY <1>5, RunEffect
  <2> HIDE DEF patched
  <2>2. \A u \in Txs, q \in Releases : mine[u][q] # None => mine'[u][q] # None
    BY <1>0, <2>1 DEF TypeOK
  <2> QED BY <1>0, <2>1, <2>2 DEF Present, Seen
<1>6. ASSUME NEW t \in Txs, NEW a \in Apps, Lock(t, a)
      PROVE  Present'
  BY <1>0, <1>6 DEF Lock, Present, Seen
<1>7. ASSUME NEW t \in Txs, NEW r \in Releases, Assign(t, r)
      PROVE  Present'
  <2>1. PICK n \in 0 .. MaxRevision :
          /\ Revised(Seen(t, r), n, Finalizes(t, r)) \in Row
          /\ mine' = [mine EXCEPT ![t] =
                        [mine[t] EXCEPT ![r] = Revised(Seen(t, r), n, Finalizes(t, r))]]
    BY <1>7, AssignEffect
  <2>2. Revised(Seen(t, r), n, Finalizes(t, r)) # None
    BY <2>1
  <2>3. release' = release /\ ids' = ids /\ todo' = [todo EXCEPT ![t] = [todo[t] EXCEPT ![r] = None]]
    BY <1>7, AssignEffect
  <2> QED BY <1>0, <2>1, <2>2, <2>3 DEF Present, Seen, TypeOK
<1>8. ASSUME NEW t \in Txs, Track(t) PROVE Present'
  BY <1>0, <1>8 DEF Track, Present, Seen
<1>9. ASSUME NEW t \in Txs, SetTarget(t) PROVE Present'
  BY <1>0, <1>9 DEF SetTarget, Present, Seen
<1>10. ASSUME NEW t \in Txs, Commit(t) PROVE Present'
  BY <1>0, <1>10 DEF Commit, End, Present, Seen, NoRows, TypeOK
<1>11. ASSUME NEW t \in Txs, Rollback(t) PROVE Present'
  BY <1>0, <1>11 DEF Rollback, End, Present, Seen, NoRows, TypeOK
<1>12. CASE UNCHANGED vars
  BY <1>0, <1>12 DEF vars, Present, Seen
<1> QED BY <1>1, <1>2, <1>3, <1>4, <1>5, <1>6, <1>7, <1>8, <1>9, <1>10, <1>11, <1>12 DEF Next

LEMMA TInvStep == TInv /\ [Next]_vars => TInv'
BY TInvType, TInvPresent DEF TInv

(* The release table, the application targets, the advisory locks and the  *)
(* state of every request in flight always hold values the hooks expect.   *)
THEOREM TypeCorrect == Spec => []TypeOK
<1>1. TInv => TypeOK
  BY DEF TInv
<1> QED BY <1>1, TInvInit, TInvStep, PTL DEF Spec

-----------------------------------------------------------------------------
(***************************************************************************)
(* Uniqueness of revisions.  The rule on the committed table alone is not  *)
(* inductive: it must be known what the uncommitted rows of a transaction  *)
(* hold.  A row has one writer, who keeps its version; a revision that     *)
(* differs from the committed one is covered by the advisory lock of the   *)
(* application; and what the holder of that lock sees of the application   *)
(* has no duplicates, its own rows included.                               *)
(***************************************************************************)
Exclusive ==
    \A t, u \in Txs, r \in Releases :
        t # u /\ mine[t][r] # None => mine[u][r] = None

OwnVersion ==
    \A t \in Txs, r \in Releases :
        mine[t][r] # None /\ release[r] # None => SameVersion(mine[t][r], release[r])

Covered ==
    \A t \in Txs, r \in Releases :
        mine[t][r] # None /\ mine[t][r].rev # None =>
            \/ release[r] # None /\ release[r].rev = mine[t][r].rev
            \/ locks[mine[t][r].app] = t

LockedUnique ==
    \A t \in Txs, r, q \in Releases :
        r # q /\ Clash(Seen(t, r), Seen(t, q)) => locks[Seen(t, r).app] # t

RowInv == Exclusive /\ OwnVersion /\ Covered /\ LockedUnique /\ UniqueRevision

LEMMA RowApps ==
    ASSUME TypeOK
    PROVE  /\ \A t \in Txs, r \in Releases : mine[t][r] # None => mine[t][r].app \in Apps
           /\ \A r \in Releases : release[r] # None => release[r].app \in Apps
<1>1. ASSUME NEW x \in Row PROVE x.app \in Apps
  BY DEF Row
<1> QED BY <1>1 DEF TypeOK

(* A revision seen by a transaction without the lock is the committed one. *)
LEMMA SeenWithoutLock ==
    ASSUME TypeOK, RowInv, NEW t \in Txs, NEW r \in Releases,
           Seen(t, r) # None, Seen(t, r).rev # None, locks[Seen(t, r).app] # t
    PROVE  release[r] # None /\ release[r].rev = Seen(t, r).rev /\ SameVersion(Seen(t, r), release[r])
BY DEF RowInv, Covered, OwnVersion, Seen, SameVersion

(* An update that gives no revision: it copies rows, or inserts a draft.   *)
Copies(t, rs) ==
    /\ release' = release /\ locks' = locks
    /\ \A u \in Txs \ {t} : mine'[u] = mine[u]
    /\ \A r \in Releases \ rs : mine'[t][r] = mine[t][r]
    /\ \A r \in rs : /\ \A u \in Txs \ {t} : mine[u][r] = None
                     /\ mine'[t][r] # None
                     /\ \/ /\ Seen(t, r) # None
                           /\ SameVersion(mine'[t][r], Seen(t, r))
                           /\ mine'[t][r].rev = Seen(t, r).rev
                        \/ release[r] = None /\ mine'[t][r].rev = None

LEMMA CopyRows ==
    ASSUME TypeOK, TypeOK', RowInv, NEW t \in Txs, NEW rs \in SUBSET Releases, Copies(t, rs)
    PROVE  RowInv'
<1>1. Exclusive'
  BY DEF Copies, RowInv, Exclusive
<1>2. OwnVersion'
  BY DEF Copies, RowInv, OwnVersion, Seen, SameVersion
<1>3. Covered'
  BY DEF Copies, RowInv, Covered, Seen, SameVersion
<1>4. LockedUnique'
  <2>1. ASSUME NEW u \in Txs, NEW r \in Releases, Seen(u, r)' # None, Seen(u, r)'.rev # None
        PROVE  Seen(u, r) # None /\ Seen(u, r).rev = Seen(u, r)'.rev /\ SameVersion(Seen(u, r), Seen(u, r)')
    BY <2>1 DEF Copies, Seen, SameVersion
  <2> QED BY <2>1 DEF Copies, RowInv, LockedUnique, Clash, SameVersion
<1>5. UniqueRevision'
  BY DEF Copies, RowInv, UniqueRevision, UniqueIn
<1> QED BY <1>1, <1>2, <1>3, <1>4, <1>5 DEF RowInv

(* Who takes a free lock has given no revision in the application yet.     *)
LEMMA TakeLock ==
    ASSUME TypeOK, RowInv, NEW t \in Txs, NEW a \in Apps, locks[a] = None,
           locks' = [locks EXCEPT ![a] = t], release' = release, mine' = mine
    PROVE  RowInv'
<1> USE ReleaseAssumption
<1>1. Exclusive' /\ OwnVersion' /\ UniqueRevision'
  BY DEF RowInv, Exclusive, OwnVersion, UniqueRevision, UniqueIn
<1>2. \A u \in Txs, b \in Apps : locks[b] = u => locks'[b] = u
  BY DEF TypeOK
<1>3. Covered'
  <2>1. \A u \in Txs, r \in Releases : mine[u][r] # None => mine[u][r].app \in Apps
    BY RowApps
  <2> QED BY <1>2, <2>1 DEF RowInv, Covered
<1>4. LockedUnique'
  <2> SUFFICES ASSUME NEW u \in Txs, NEW r \in Releases, NEW q \in Releases,
                      r # q, Clash(Seen(u, r), Seen(u, q)), locks'[Seen(u, r).app] = u
               PROVE  FALSE
    BY DEF LockedUnique, Seen
  <2>1. locks[Seen(u, r).app] # u
    BY DEF RowInv, LockedUnique
  <2>2. Seen(u, r).app \in Apps
    BY SeenType DEF Clash, Row
  <2>3. Seen(u, r).app = Seen(u, q).app /\ Seen(u, q) # None /\ Seen(u, q).rev # None
    BY DEF Clash, SameVersion
  <2>4. /\ release[r] # None /\ release[r].rev = Seen(u, r).rev
        /\ SameVersion(Seen(u, r), release[r])
    BY <2>1, SeenWithoutLock DEF Clash
  <2>5. /\ release[q] # None /\ release[q].rev = Seen(u, q).rev
        /\ SameVersion(Seen(u, q), release[q])
    BY <2>1, <2>3, SeenWithoutLock
  <2>6. Clash(release[r], release[q])
    BY <2>4, <2>5 DEF Clash, SameVersion
  <2> QED BY <2>6 DEF RowInv, UniqueRevision, UniqueIn
<1> QED BY <1>1, <1>3, <1>4 DEF RowInv

(* The holder of the lock of a release's application gives it a revision   *)
(* that no release of the same version it sees has.                        *)
LEMMA GiveRevision ==
    ASSUME TypeOK, TypeOK', RowInv, NEW t \in Txs, NEW r \in Releases, NEW row \in Row,
           release' = release, locks' = locks,
           Seen(t, r) # None, SameVersion(row, Seen(t, r)), locks[row.app] = t,
           \A u \in Txs \ {t} : mine[u][r] = None,
           mine' = [mine EXCEPT ![t] = [mine[t] EXCEPT ![r] = row]],
           \A q \in Releases : Seen(t, q) # None /\ SameVersion(Seen(t, q), row)
                                  => Seen(t, q).rev # row.rev
    PROVE  RowInv'
<1> USE ReleaseAssumption
<1>1. /\ mine'[t][r] = row
      /\ \A q \in Releases \ {r} : mine'[t][q] = mine[t][q]
      /\ \A u \in Txs \ {t} : mine'[u] = mine[u]
  BY DEF TypeOK
<1>2. Exclusive'
  BY <1>1 DEF RowInv, Exclusive
<1>3. OwnVersion'
  BY <1>1 DEF RowInv, OwnVersion, Seen, SameVersion
<1>4. Covered'
  BY <1>1 DEF RowInv, Covered
<1>5. LockedUnique'
  <2>1. /\ Seen(t, r)' = row
        /\ \A q \in Releases \ {r} : Seen(t, q)' = Seen(t, q)
        /\ \A u \in Txs \ {t}, q \in Releases : Seen(u, q)' = Seen(u, q)
    BY <1>1 DEF Seen
  <2> QED BY <2>1 DEF RowInv, LockedUnique, Clash, SameVersion
<1>6. UniqueRevision'
  BY DEF RowInv, UniqueRevision, UniqueIn
<1> QED BY <1>2, <1>3, <1>4, <1>5, <1>6 DEF RowInv

(* A commit publishes revisions that are unique by what the lock covers.   *)
LEMMA CommitRows ==
    ASSUME TypeOK, TypeOK', RowInv, NEW t \in Txs,
           release' = [r \in Releases |-> Seen(t, r)],
           locks' = [a \in Apps |-> IF locks[a] = t THEN None ELSE locks[a]],
           mine' = [mine EXCEPT ![t] = NoRows]
    PROVE  RowInv'
<1> USE ReleaseAssumption
<1>1. /\ \A r \in Releases : mine'[t][r] = None
      /\ \A u \in Txs \ {t} : mine'[u] = mine[u]
      /\ \A u \in Txs \ {t}, a \in Apps : locks'[a] = u <=> locks[a] = u
      /\ \A a \in Apps : locks'[a] # t
  BY DEF TypeOK, NoRows
<1>2. \A u \in Txs, r \in Releases : mine'[u][r] # None => release'[r] = release[r]
  BY <1>1 DEF RowInv, Exclusive, Seen
<1>3. Exclusive'
  <2> SUFFICES ASSUME NEW u \in Txs, NEW v \in Txs, NEW r \in Releases,
                      u # v, mine'[u][r] # None
               PROVE  mine'[v][r] = None
    BY DEF Exclusive
  <2>1. CASE v = t
    BY <1>1, <2>1
  <2>2. CASE v # t
    <3>1. u # t
      BY <1>1
    <3>2. mine'[u] = mine[u] /\ mine'[v] = mine[v]
      BY <1>1, <2>2, <3>1
    <3> QED BY <3>2 DEF RowInv, Exclusive
  <2> QED BY <2>1, <2>2
<1>4. OwnVersion'
  BY <1>1, <1>2 DEF RowInv, OwnVersion
<1>5. Covered'
  <2>1. \A u \in Txs, r \in Releases : mine[u][r] # None => mine[u][r].app \in Apps
    BY RowApps
  <2> QED BY <1>1, <1>2, <2>1 DEF RowInv, Covered
<1>6. UniqueRevision'
  <2> SUFFICES ASSUME NEW r \in Releases, NEW q \in Releases, r # q,
                      Clash(Seen(t, r), Seen(t, q))
               PROVE  FALSE
    BY DEF UniqueRevision, UniqueIn
  <2>1. locks[Seen(t, r).app] # t /\ locks[Seen(t, q).app] # t
    BY DEF RowInv, LockedUnique, Clash, SameVersion
  <2>2. /\ release[r] # None /\ release[r].rev = Seen(t, r).rev
        /\ SameVersion(Seen(t, r), release[r])
    BY <2>1, SeenWithoutLock DEF Clash
  <2>3. /\ release[q] # None /\ release[q].rev = Seen(t, q).rev
        /\ SameVersion(Seen(t, q), release[q])
    BY <2>1, SeenWithoutLock DEF Clash
  <2>4. Clash(release[r], release[q])
    BY <2>2, <2>3 DEF Clash, SameVersion
  <2> QED BY <2>4 DEF RowInv, UniqueRevision, UniqueIn
<1>7. LockedUnique'
  <2> SUFFICES ASSUME NEW u \in Txs, NEW r \in Releases, NEW q \in Releases, r # q,
                      Clash(Seen(u, r)', Seen(u, q)'), locks'[Seen(u, r)'.app] = u
               PROVE  FALSE
    BY DEF LockedUnique
  <2>1. Seen(u, r)' \in Row /\ Seen(u, q)' \in Row
    BY DEF Clash, TypeOK, Seen
  <2>2. u # t /\ locks[Seen(u, r)'.app] = u
    BY <1>1, <2>1 DEF Row
  <2>3. ASSUME NEW s \in Releases, Seen(u, s)' # None, Seen(u, s)'.rev # None,
               locks[Seen(u, s)'.app] = u
        PROVE  Seen(u, s) # None /\ Seen(u, s).rev = Seen(u, s)'.rev /\ SameVersion(Seen(u, s), Seen(u, s)')
    <3>1. CASE mine[u][s] # None
      BY <1>1, <2>2, <3>1 DEF Seen, SameVersion
    <3>2. CASE mine[u][s] = None
      <4>1. Seen(u, s)' = Seen(t, s) /\ Seen(u, s) = release[s]
        BY <1>1, <2>2, <3>2 DEF Seen
      <4>2. locks[Seen(t, s).app] # t
        BY <2>2, <2>3, <4>1
      <4> QED BY <2>3, <4>1, <4>2, SeenWithoutLock DEF SameVersion
    <3> QED BY <3>1, <3>2
  <2>4. Clash(Seen(u, r), Seen(u, q)) /\ Seen(u, r).app = Seen(u, r)'.app
    BY <2>2, <2>3 DEF Clash, SameVersion
  <2> QED BY <2>2, <2>4 DEF RowInv, LockedUnique
<1> QED BY <1>3, <1>4, <1>5, <1>6, <1>7 DEF RowInv

(* A rollback forgets rows and releases locks.                             *)
LEMMA RollbackRows ==
    ASSUME TypeOK, RowInv, NEW t \in Txs, release' = release,
           locks' = [a \in Apps |-> IF locks[a] = t THEN None ELSE locks[a]],
           mine' = [mine EXCEPT ![t] = NoRows]
    PROVE  RowInv'
<1> USE ReleaseAssumption
<1>1. /\ \A r \in Releases : mine'[t][r] = None
      /\ \A u \in Txs \ {t} : mine'[u] = mine[u]
      /\ \A u \in Txs \ {t}, a \in Apps : locks'[a] = u <=> locks[a] = u
      /\ \A a \in Apps : locks'[a] # t
  BY DEF TypeOK, NoRows
<1>2. \A u \in Txs, r \in Releases : mine[u][r] # None => mine[u][r].app \in Apps
  BY RowApps
<1>3. Exclusive' /\ OwnVersion' /\ UniqueRevision'
  BY <1>1 DEF RowInv, Exclusive, OwnVersion, UniqueRevision, UniqueIn
<1>4. Covered'
  BY <1>1, <1>2 DEF RowInv, Covered
<1>5. LockedUnique'
  <2>1. \A u \in Txs \ {t}, r \in Releases : Seen(u, r)' = Seen(u, r)
    BY <1>1 DEF Seen
  <2>2. \A u \in Txs, r \in Releases : Seen(u, r)' # None => Seen(u, r)'.app \in Apps
    BY <1>1, RowApps DEF Seen
  <2> QED BY <1>1, <2>1, <2>2 DEF RowInv, LockedUnique, Clash
<1> QED BY <1>3, <1>4, <1>5 DEF RowInv

(* What the steps of a request know: the version read before the update is *)
(* still the version, and the locks cover every release left to revise.    *)
Fixed ==
    \A t \in Txs : pc[t] # "null" /\ req[t].app = None /\ req[t].sem = None /\ req[t].var = None

TodoVersion ==
    \A t \in Txs, r \in Releases : todo[t][r] # None => SameVersion(todo[t][r], Seen(t, r))

TodoLocked ==
    \A t \in Txs, r \in Releases :
        pc[t] \in {"assign", "track", "app", "postTrack", "postApp"} /\ todo[t][r] # None
            => locks[todo[t][r].app] = t

UInv == TInv /\ RowInv /\ Fixed /\ TodoVersion /\ TodoLocked

LEMMA UInvInit == Init => UInv
<1> SUFFICES ASSUME Init PROVE UInv
  OBVIOUS
<1>1. TInv
  BY TInvInit
<1>2. RowInv
  BY DEF Init, RowInv, Exclusive, OwnVersion, Covered, LockedUnique, UniqueRevision,
         UniqueIn, Clash, Seen, NoRows
<1>3. Fixed /\ TodoVersion /\ TodoLocked
  BY DEF Init, Fixed, TodoVersion, TodoLocked, NoPatch, NoRows
<1> QED BY <1>1, <1>2, <1>3 DEF UInv

(* No step makes a PATCH change a version.                                 *)
LEMMA FixedStep == KeepsVersion /\ TInv /\ Fixed /\ [Next]_vars => Fixed'
<1> SUFFICES ASSUME KeepsVersion, TInv, Fixed, [Next]_vars PROVE Fixed'
  OBVIOUS
<1>0. TypeOK
  BY DEF TInv
<1>1. ASSUME NEW t \in Txs, NEW r \in Releases, NEW new \in NewReleases, Create(t, r, new)
      PROVE  Fixed'
  <2>1. pc'[t] \in {"lock", "commit"} /\ \A u \in Txs \ {t} : pc'[u] = pc[u]
    BY <1>1, CreateEffect
  <2>2. req' = [req EXCEPT ![t] = [NoPatch EXCEPT !.is_final = new.is_final]]
    BY <1>1, CreateEffect
  <2> QED BY <1>0, <2>1, <2>2 DEF Fixed, NoPatch, TypeOK
<1>2. ASSUME NEW t \in Txs, NEW rs \in PatchTargets, NEW p \in Patches, Receive(t, rs, p)
      PROVE  Fixed'
  BY <1>0, <1>2 DEF Receive, Fixed, KeepsVersion, TypeOK
<1>3. ASSUME NEW t \in Txs, Prerun(t) PROVE Fixed'
  BY <1>0, <1>3 DEF Prerun, Fixed, TypeOK
<1>4. ASSUME NEW t \in Txs, NullRevisions(t) PROVE Fixed'
  BY <1>4 DEF NullRevisions, Fixed
<1>5. ASSUME NEW t \in Txs, Run(t) PROVE Fixed'
  BY <1>5, RunEffect DEF Fixed
<1>6. ASSUME NEW t \in Txs, NEW a \in Apps, Lock(t, a) PROVE Fixed'
  BY <1>0, <1>6 DEF Lock, AfterLocks, Fixed, TypeOK
<1>7. ASSUME NEW t \in Txs, NEW r \in Releases, Assign(t, r) PROVE Fixed'
  BY <1>7, AssignEffect DEF Fixed
<1>8. ASSUME NEW t \in Txs, Track(t) PROVE Fixed'
  BY <1>0, <1>8 DEF Track, Fixed, TypeOK
<1>9. ASSUME NEW t \in Txs, SetTarget(t) PROVE Fixed'
  BY <1>0, <1>9 DEF SetTarget, Fixed, TypeOK
<1>10. ASSUME NEW t \in Txs, Commit(t) \/ Rollback(t) PROVE Fixed'
  BY <1>0, <1>10 DEF Commit, Rollback, End, Fixed, NoPatch, TypeOK
<1>11. CASE UNCHANGED vars
  BY <1>11 DEF vars, Fixed
<1> QED BY <1>1, <1>2, <1>3, <1>4, <1>5, <1>6, <1>7, <1>8, <1>9, <1>10, <1>11 DEF Next

LEMMA QuietRows ==
    ASSUME RowInv, UNCHANGED <<release, mine, locks>>
    PROVE  RowInv'
BY DEF RowInv, Exclusive, OwnVersion, Covered, LockedUnique, UniqueRevision, UniqueIn, Clash, Seen

LEMMA PatchedKeeps ==
    ASSUME NEW row \in Row, NEW p \in Patch, p.app = None, p.sem = None, p.var = None
    PROVE  SameVersion(Patched(row, p), row) /\ Patched(row, p).rev = row.rev
BY DEF Patched, Given, SameVersion, Row

LEMMA RevisedKeeps ==
    ASSUME NEW row \in Row, NEW n, NEW f
    PROVE  SameVersion(Revised(row, n, f), row) /\ Revised(row, n, f).rev = n
BY DEF Revised, SameVersion, Row

(* The new revision differs from the others in sight.                      *)
LEMMA AssignRows ==
    ASSUME UInv, UInv => TypeOK', NEW t \in Txs, NEW r \in Releases, Assign(t, r)
    PROVE  RowInv'
<1> USE ReleaseAssumption
<1>0. TypeOK /\ TypeOK' /\ TInv /\ RowInv
  BY DEF UInv, TInv
<1>1. /\ release' = release /\ locks' = locks
      /\ pc[t] = "assign" /\ todo[t][r] # None
      /\ Seen(t, r) \in Row
      /\ \A u \in Txs \ {t} : mine[u][r] = None
  BY <1>0, AssignEffect
<1>2. PICK n \in 0 .. MaxRevision :
        /\ IsNextRevision(t, VersionOf(t, r), n)
        /\ Revised(Seen(t, r), n, Finalizes(t, r)) \in Row
        /\ mine' = [mine EXCEPT ![t] =
                      [mine[t] EXCEPT ![r] = Revised(Seen(t, r), n, Finalizes(t, r))]]
  BY <1>0, AssignEffect
<1> DEFINE row == Revised(Seen(t, r), n, Finalizes(t, r))
<1>3. SameVersion(row, Seen(t, r)) /\ row.rev = n /\ row \in Row
  BY <1>1, <1>2, RevisedKeeps
<1>4. SameVersion(todo[t][r], Seen(t, r)) /\ locks[todo[t][r].app] = t
  BY <1>1 DEF UInv, TodoVersion, TodoLocked
<1>5. SameVersion(VersionOf(t, r), todo[t][r])
  BY DEF VersionOf, Given, SameVersion, UInv, Fixed
<1> HIDE DEF row
<1>6. ASSUME NEW q \in Releases, Seen(t, q) # None, SameVersion(Seen(t, q), row)
      PROVE  Seen(t, q).rev # row.rev
  <2>1. SameVersion(Seen(t, q), VersionOf(t, r))
    BY <1>3, <1>4, <1>5, <1>6 DEF SameVersion
  <2>2. n \in Nat /\ n # None
    OBVIOUS
  <2>3. CASE Seen(t, q).rev = None
    BY <1>3, <2>2, <2>3
  <2>4. CASE Seen(t, q).rev # None
    <3>1. Seen(t, q).rev < n
      BY <1>2, <1>6, <2>1, <2>4 DEF IsNextRevision
    <3> QED BY <1>3, <2>2, <3>1
  <2> QED BY <2>3, <2>4
<1>7. locks[row.app] = t
  BY <1>3, <1>4 DEF SameVersion
<1>8. Seen(t, r) # None
  BY <1>1
<1>9. mine' = [mine EXCEPT ![t] = [mine[t] EXCEPT ![r] = row]]
  BY <1>2 DEF row
<1>10. \A q \in Releases : Seen(t, q) # None /\ SameVersion(Seen(t, q), row)
                               => Seen(t, q).rev # row.rev
  BY <1>6
<1>11. row \in Row /\ SameVersion(row, Seen(t, r)) /\ release' = release /\ locks' = locks
  BY <1>1, <1>3
<1>12. \A u \in Txs \ {t} : mine[u][r] = None
  BY <1>1
<1> QED BY <1>0, <1>7, <1>8, <1>9, <1>10, <1>11, <1>12, GiveRevision

LEMMA RowInvStep ==
    ASSUME UInv, TInv', [Next]_vars
    PROVE  RowInv'
<1> USE ReleaseAssumption
<1>0. TypeOK /\ TypeOK' /\ TInv /\ RowInv
  BY DEF UInv, TInv
<1>1. ASSUME NEW t \in Txs, NEW r \in Releases, NEW new \in NewReleases, Create(t, r, new)
      PROVE  RowInv'
  <2>0. /\ release' = release /\ locks' = locks
        /\ release[r] = None /\ \A u \in Txs : mine[u][r] = None
    BY <1>0, <1>1, CreateEffect
  <2>1. mine' = [mine EXCEPT ![t] = [mine[t] EXCEPT ![r] = NewRow(new)]]
    BY <1>1 DEF Create, Write, NewRow
  <2>2. NewRow(new) # None /\ NewRow(new).rev = None
    BY NewRowType DEF NewRow
  <2>3. /\ mine'[t][r] = NewRow(new)
        /\ \A q \in Releases \ {r} : mine'[t][q] = mine[t][q]
        /\ \A u \in Txs \ {t} : mine'[u] = mine[u]
    BY <1>0, <2>1 DEF TypeOK
  <2>4. \A q \in {r} : /\ \A u \in Txs \ {t} : mine[u][q] = None
                       /\ mine'[t][q] # None
                       /\ \/ /\ Seen(t, q) # None
                             /\ SameVersion(mine'[t][q], Seen(t, q))
                             /\ mine'[t][q].rev = Seen(t, q).rev
                          \/ release[q] = None /\ mine'[t][q].rev = None
    BY <2>0, <2>2, <2>3
  <2>5. {r} \in SUBSET Releases
    OBVIOUS
  <2>6. Copies(t, {r})
    BY <2>0, <2>3, <2>4 DEF Copies
  <2> QED BY <1>0, <2>5, <2>6, CopyRows
<1>2. ASSUME NEW t \in Txs, NEW rs \in PatchTargets, NEW p \in Patches, Receive(t, rs, p)
      PROVE  RowInv'
  BY <1>0, <1>2, QuietRows DEF Receive
<1>3. ASSUME NEW t \in Txs, Prerun(t) PROVE RowInv'
  BY <1>0, <1>3, QuietRows DEF Prerun
<1>4. ASSUME NEW t \in Txs, NullRevisions(t) PROVE RowInv'
  BY <1>4 DEF NullRevisions, UInv, Fixed
<1>5. ASSUME NEW t \in Txs, Run(t) PROVE RowInv'
  <2> DEFINE patched(q) == Patched(Seen(t, q), req[t])
  <2>1. /\ release' = release /\ locks' = locks
        /\ mine' = [mine EXCEPT ![t] =
                      [q \in Releases |-> IF q \in ids[t] THEN patched(q) ELSE mine[t][q]]]
        /\ \A q \in ids[t] : /\ Seen(t, q) \in Row
                             /\ patched(q) \in Row
                             /\ \A u \in Txs \ {t} : mine[u][q] = None
    BY <1>0, <1>5, RunEffect
  <2>2. \A q \in ids[t] : SameVersion(patched(q), Seen(t, q)) /\ patched(q).rev = Seen(t, q).rev
    <3>1. req[t] \in Patch /\ req[t].app = None /\ req[t].sem = None /\ req[t].var = None
      BY <1>0 DEF UInv, Fixed, TypeOK
    <3> QED BY <2>1, <3>1, PatchedKeeps
  <2> HIDE DEF patched
  <2>3. /\ \A q \in ids[t] : mine'[t][q] = patched(q)
        /\ \A q \in Releases \ ids[t] : mine'[t][q] = mine[t][q]
        /\ \A u \in Txs \ {t} : mine'[u] = mine[u]
        /\ ids[t] \in SUBSET Releases
    BY <1>0, <2>1 DEF TypeOK
  <2>4. \A q \in ids[t] : patched(q) # None /\ Seen(t, q) # None
    BY <2>1
  <2>5. \A q \in ids[t] : /\ \A u \in Txs \ {t} : mine[u][q] = None
                          /\ mine'[t][q] # None
                          /\ \/ /\ Seen(t, q) # None
                                /\ SameVersion(mine'[t][q], Seen(t, q))
                                /\ mine'[t][q].rev = Seen(t, q).rev
                             \/ release[q] = None /\ mine'[t][q].rev = None
    BY <2>1, <2>2, <2>3, <2>4
  <2>6. Copies(t, ids[t])
    BY <2>1, <2>3, <2>5 DEF Copies
  <2> QED BY <1>0, <2>3, <2>6, CopyRows
<1>6. ASSUME NEW t \in Txs, NEW a \in Apps, Lock(t, a) PROVE RowInv'
  BY <1>0, <1>6, TakeLock DEF Lock
<1>7. ASSUME NEW t \in Txs, NEW r \in Releases, Assign(t, r) PROVE RowInv'
  BY <1>0, <1>7, AssignRows
<1>8. ASSUME NEW t \in Txs, Track(t) PROVE RowInv'
  BY <1>0, <1>8, QuietRows DEF Track
<1>9. ASSUME NEW t \in Txs, SetTarget(t) PROVE RowInv'
  BY <1>0, <1>9, QuietRows DEF SetTarget
<1>10. ASSUME NEW t \in Txs, Commit(t) PROVE RowInv'
  BY <1>0, <1>10, CommitRows DEF Commit, End
<1>11. ASSUME NEW t \in Txs, Rollback(t) PROVE RowInv'
  BY <1>0, <1>11, RollbackRows DEF Rollback, End
<1>12. CASE UNCHANGED vars
  BY <1>0, <1>12, QuietRows DEF vars
<1> QED BY <1>1, <1>2, <1>3, <1>4, <1>5, <1>6, <1>7, <1>8, <1>9, <1>10, <1>11, <1>12 DEF Next

LEMMA TodoVersionStep ==
    ASSUME UInv, TInv', [Next]_vars
    PROVE  TodoVersion'
<1> USE ReleaseAssumption
<1>0. TypeOK /\ TypeOK' /\ TInv /\ RowInv /\ Present /\ TodoVersion
  BY DEF UInv, TInv
<1>1. ASSUME NEW t \in Txs, NEW r \in Releases, NEW new \in NewReleases, Create(t, r, new)
      PROVE  TodoVersion'
  <2>1. /\ release' = release
        /\ release[r] = None /\ \A u \in Txs : mine[u][r] = None
        /\ \A u \in Txs \ {t} : todo'[u] = todo[u]
        /\ todo'[t] = [todo[t] EXCEPT ![r] = NewRow(new)] \/ todo'[t] = todo[t]
    BY <1>0, <1>1, CreateEffect
  <2>2. mine' = [mine EXCEPT ![t] = [mine[t] EXCEPT ![r] = NewRow(new)]]
    BY <1>1 DEF Create, Write, NewRow
  <2>3. /\ mine'[t][r] = NewRow(new) /\ NewRow(new) # None
        /\ \A q \in Releases \ {r} : mine'[t][q] = mine[t][q]
        /\ \A u \in Txs \ {t} : mine'[u] = mine[u]
    BY <1>0, <2>2, NewRowType DEF TypeOK
  <2>4. \A u \in Txs : todo[u][r] = None
    BY <1>0, <2>1 DEF Present, Seen
  <2>5. ASSUME NEW u \in Txs, NEW q \in Releases, todo'[u][q] # None
        PROVE  SameVersion(todo'[u][q], Seen(u, q)')
    <3>1. CASE q = r
      <4>1. u = t /\ todo'[t][r] = NewRow(new)
        BY <1>0, <2>1, <2>4, <2>5, <3>1 DEF TypeOK
      <4> QED BY <2>3, <3>1, <4>1 DEF Seen, SameVersion
    <3>2. CASE q # r
      <4>1. todo'[u][q] = todo[u][q]
        <5>1. CASE u = t
          <6>1. [todo[t] EXCEPT ![r] = NewRow(new)][q] = todo[t][q]
            BY <1>0, <3>2 DEF TypeOK
          <6> QED BY <2>1, <5>1, <6>1
        <5>2. CASE u # t
          BY <2>1, <5>2
        <5> QED BY <5>1, <5>2
      <4>2. Seen(u, q)' = Seen(u, q)
        BY <2>1, <2>3, <3>2 DEF Seen
      <4>3. SameVersion(todo[u][q], Seen(u, q))
        BY <1>0, <2>5, <4>1 DEF TodoVersion
      <4> QED BY <4>1, <4>2, <4>3 DEF SameVersion
    <3> QED BY <3>1, <3>2
  <2> QED BY <2>5 DEF TodoVersion
<1>2. ASSUME NEW t \in Txs, NEW rs \in PatchTargets, NEW p \in Patches, Receive(t, rs, p)
      PROVE  TodoVersion'
  BY <1>0, <1>2 DEF Receive, TodoVersion, Seen
<1>3. ASSUME NEW t \in Txs, Prerun(t) PROVE TodoVersion'
  BY <1>0, <1>3 DEF Prerun, TodoVersion, Seen, SameVersion, TypeOK
<1>4. ASSUME NEW t \in Txs, NullRevisions(t) PROVE TodoVersion'
  BY <1>4 DEF NullRevisions, UInv, Fixed
<1>5. ASSUME NEW t \in Txs, Run(t) PROVE TodoVersion'
  <2> DEFINE patched(q) == Patched(Seen(t, q), req[t])
  <2>1. /\ release' = release /\ todo' = todo
        /\ mine' = [mine EXCEPT ![t] =
                      [q \in Releases |-> IF q \in ids[t] THEN patched(q) ELSE mine[t][q]]]
        /\ \A q \in ids[t] : Seen(t, q) \in Row /\ patched(q) # None
    BY <1>0, <1>5, RunEffect
  <2>2. \A q \in ids[t] : SameVersion(patched(q), Seen(t, q))
    <3>1. req[t] \in Patch /\ req[t].app = None /\ req[t].sem = None /\ req[t].var = None
      BY <1>0 DEF UInv, Fixed, TypeOK
    <3> QED BY <2>1, <3>1, PatchedKeeps
  <2> HIDE DEF patched
  <2>3. ASSUME NEW u \in Txs, NEW q \in Releases, Seen(u, q) # None
        PROVE  SameVersion(Seen(u, q), Seen(u, q)')
    <3>1. CASE u = t /\ q \in ids[t]
      <4>1. Seen(u, q)' = patched(q)
        BY <1>0, <2>1, <3>1 DEF Seen, TypeOK
      <4> QED BY <2>2, <3>1, <4>1 DEF SameVersion
    <3>2. CASE ~(u = t /\ q \in ids[t])
      <4>1. mine'[u][q] = mine[u][q]
        BY <1>0, <2>1, <3>2 DEF TypeOK
      <4> QED BY <2>1, <4>1 DEF Seen, SameVersion
    <3> QED BY <3>1, <3>2
  <2> QED BY <1>0, <2>1, <2>3 DEF TodoVersion, Present, SameVersion
<1>6. ASSUME NEW t \in Txs, NEW a \in Apps, Lock(t, a) PROVE TodoVersion'
  BY <1>0, <1>6 DEF Lock, TodoVersion, Seen
<1>7. ASSUME NEW t \in Txs, NEW r \in Releases, Assign(t, r) PROVE TodoVersion'
  <2>1. /\ release' = release
        /\ todo' = [todo EXCEPT ![t] = [todo[t] EXCEPT ![r] = None]]
    BY <1>0, <1>7, AssignEffect
  <2>2. PICK row \in Row : mine' = [mine EXCEPT ![t] = [mine[t] EXCEPT ![r] = row]]
    BY <1>0, <1>7, AssignEffect
  <2>3. ASSUME NEW u \in Txs, NEW q \in Releases, todo'[u][q] # None
        PROVE  SameVersion(todo'[u][q], Seen(u, q)')
    <3>1. ~(u = t /\ q = r) /\ todo'[u][q] = todo[u][q]
      BY <1>0, <2>1, <2>3 DEF TypeOK
    <3>2. mine'[u][q] = mine[u][q]
      BY <1>0, <2>2, <3>1 DEF TypeOK
    <3> QED BY <1>0, <2>1, <2>3, <3>1, <3>2 DEF TodoVersion, Seen
  <2> QED BY <2>3 DEF TodoVersion
<1>8. ASSUME NEW t \in Txs, Track(t) PROVE TodoVersion'
  BY <1>0, <1>8 DEF Track, TodoVersion, Seen
<1>9. ASSUME NEW t \in Txs, SetTarget(t) PROVE TodoVersion'
  BY <1>0, <1>9 DEF SetTarget, TodoVersion, Seen
<1>10. ASSUME NEW t \in Txs, Commit(t) PROVE TodoVersion'
  <2>1. /\ release' = [r \in Releases |-> Seen(t, r)]
        /\ \A r \in Releases : todo'[t][r] = None
        /\ \A u \in Txs \ {t} : todo'[u] = todo[u] /\ mine'[u] = mine[u]
    BY <1>0, <1>10 DEF Commit, End, NoRows, TypeOK
  <2>2. ASSUME NEW u \in Txs, NEW r \in Releases, todo'[u][r] # None
        PROVE  SameVersion(todo'[u][r], Seen(u, r)')
    <3>1. u # t /\ todo'[u][r] = todo[u][r] /\ mine'[u][r] = mine[u][r]
      BY <2>1, <2>2
    <3>2. Seen(u, r) # None /\ SameVersion(todo[u][r], Seen(u, r))
      BY <1>0, <2>2, <3>1 DEF TodoVersion, Present
    <3>3. CASE mine[u][r] # None
      BY <3>1, <3>2, <3>3 DEF Seen
    <3>4. CASE mine[u][r] = None
      <4>1. Seen(u, r) = release[r] /\ Seen(u, r)' = Seen(t, r)
        BY <2>1, <3>1, <3>4 DEF Seen
      <4>2. SameVersion(Seen(t, r), release[r])
        BY <1>0, <3>2, <4>1 DEF RowInv, OwnVersion, Seen, SameVersion
      <4> QED BY <3>1, <3>2, <4>1, <4>2 DEF SameVersion
    <3> QED BY <3>3, <3>4
  <2> QED BY <2>2 DEF TodoVersion
<1>11. ASSUME NEW t \in Txs, Rollback(t) PROVE TodoVersion'
  <2>1. /\ release' = release
        /\ \A r \in Releases : todo'[t][r] = None
        /\ \A u \in Txs \ {t} : todo'[u] = todo[u] /\ mine'[u] = mine[u]
    BY <1>0, <1>11 DEF Rollback, End, NoRows, TypeOK
  <2>2. ASSUME NEW u \in Txs, NEW r \in Releases, todo'[u][r] # None
        PROVE  SameVersion(todo'[u][r], Seen(u, r)')
    <3>1. u # t /\ todo'[u][r] = todo[u][r] /\ mine'[u][r] = mine[u][r]
      BY <2>1, <2>2
    <3>2. Seen(u, r)' = Seen(u, r)
      BY <2>1, <3>1 DEF Seen
    <3>3. SameVersion(todo[u][r], Seen(u, r))
      BY <1>0, <2>2, <3>1 DEF TodoVersion
    <3> QED BY <3>1, <3>2, <3>3 DEF SameVersion
  <2> QED BY <2>2 DEF TodoVersion
<1>12. CASE UNCHANGED vars
  BY <1>0, <1>12 DEF vars, TodoVersion, Seen
<1> QED BY <1>1, <1>2, <1>3, <1>4, <1>5, <1>6, <1>7, <1>8, <1>9, <1>10, <1>11, <1>12 DEF Next

LEMMA TodoLockedStep ==
    ASSUME UInv, TInv', [Next]_vars
    PROVE  TodoLocked'
<1> USE ReleaseAssumption
<1>0. TypeOK /\ TypeOK' /\ TInv /\ TodoLocked /\ Fixed
  BY DEF UInv, TInv
<1>1. ASSUME NEW t \in Txs, NEW r \in Releases, NEW new \in NewReleases, Create(t, r, new)
      PROVE  TodoLocked'
  <2>1. /\ locks' = locks /\ pc'[t] \in {"lock", "commit"}
        /\ \A u \in Txs \ {t} : pc'[u] = pc[u] /\ todo'[u] = todo[u]
    BY <1>0, <1>1, CreateEffect
  <2>2. ASSUME NEW u \in Txs, NEW q \in Releases, todo'[u][q] # None,
               pc'[u] \in {"assign", "track", "app", "postTrack", "postApp"}
        PROVE  locks'[todo'[u][q].app] = u
    <3>1. u # t
      BY <2>1, <2>2
    <3>2. pc'[u] = pc[u] /\ todo'[u] = todo[u] /\ locks' = locks
      BY <2>1, <3>1
    <3> QED BY <1>0, <2>2, <3>2 DEF TodoLocked
  <2> QED BY <2>2 DEF TodoLocked
<1>2. ASSUME NEW t \in Txs, NEW rs \in PatchTargets, NEW p \in Patches, Receive(t, rs, p)
      PROVE  TodoLocked'
  BY <1>0, <1>2 DEF Receive, TodoLocked, TypeOK
<1>3. ASSUME NEW t \in Txs, Prerun(t) PROVE TodoLocked'
  BY <1>0, <1>3 DEF Prerun, TodoLocked, TypeOK
<1>4. ASSUME NEW t \in Txs, NullRevisions(t) PROVE TodoLocked'
  BY <1>0, <1>4 DEF NullRevisions, Fixed
<1>5. ASSUME NEW t \in Txs, Run(t) PROVE TodoLocked'
  BY <1>0, <1>5, RunEffect DEF TodoLocked, Listed
<1>6. ASSUME NEW t \in Txs, NEW a \in Apps, Lock(t, a) PROVE TodoLocked'
  <2>1. /\ todo' = todo /\ locks' = [locks EXCEPT ![a] = t]
        /\ \A u \in Txs \ {t} : pc'[u] = pc[u]
        /\ locks[a] = None
        /\ pc'[t] = "lock" \/ \A b \in AppsToLock(t) \ {a} : locks[b] = t
    BY <1>0, <1>6 DEF Lock, TypeOK
  <2>2. ASSUME NEW u \in Txs, NEW r \in Releases, todo'[u][r] # None,
               pc'[u] \in {"assign", "track", "app", "postTrack", "postApp"}
        PROVE  locks'[todo'[u][r].app] = u
    <3>0. todo[u][r] \in Row
      <4>1. todo[u] \in [Releases -> Row \cup {None}] /\ todo[u][r] # None
        BY <1>0, <2>1, <2>2 DEF TypeOK
      <4> QED BY <4>1
    <3>1. todo[u][r].app \in Apps
      BY <3>0 DEF Row
    <3>2. CASE u = t
      <4>1. todo[t][r].app \in AppsToLock(t)
        BY <1>0, <2>1, <2>2, <3>2 DEF AppsToLock, Listed, VersionOf, Given, Fixed
      <4> QED BY <1>0, <2>1, <2>2, <3>1, <3>2, <4>1 DEF TypeOK
    <3>3. CASE u # t
      BY <1>0, <2>1, <2>2, <3>1, <3>3 DEF TodoLocked, TypeOK
    <3> QED BY <3>2, <3>3
  <2> QED BY <2>2 DEF TodoLocked
<1>7. ASSUME NEW t \in Txs, NEW r \in Releases, Assign(t, r) PROVE TodoLocked'
  <2>1. /\ locks' = locks /\ pc[t] = "assign"
        /\ todo' = [todo EXCEPT ![t] = [todo[t] EXCEPT ![r] = None]]
        /\ \A u \in Txs \ {t} : pc'[u] = pc[u]
    BY <1>0, <1>7, AssignEffect
  <2> QED BY <1>0, <2>1 DEF TodoLocked, TypeOK
<1>8. ASSUME NEW t \in Txs, Track(t) PROVE TodoLocked'
  BY <1>0, <1>8 DEF Track, TodoLocked, TypeOK
<1>9. ASSUME NEW t \in Txs, SetTarget(t) PROVE TodoLocked'
  BY <1>0, <1>9 DEF SetTarget, TodoLocked, TypeOK
<1>10. ASSUME NEW t \in Txs, Commit(t) \/ Rollback(t) PROVE TodoLocked'
  <2>1. /\ \A r \in Releases : todo'[t][r] = None
        /\ \A u \in Txs \ {t} : todo'[u] = todo[u] /\ pc'[u] = pc[u]
        /\ locks' = [a \in Apps |-> IF locks[a] = t THEN None ELSE locks[a]]
    <3>1. End(t)
      BY <1>10 DEF Commit, Rollback
    <3> QED BY <1>0, <3>1 DEF End, NoRows, TypeOK
  <2>2. \A u \in Txs, r \in Releases : todo[u][r] # None => todo[u][r].app \in Apps
    <3>1. ASSUME NEW x \in Row PROVE x.app \in Apps
      BY DEF Row
    <3> QED BY <1>0, <3>1 DEF TypeOK
  <2> QED BY <1>0, <2>1, <2>2 DEF TodoLocked
<1>11. CASE UNCHANGED vars
  BY <1>0, <1>11 DEF vars, TodoLocked
<1> QED BY <1>1, <1>2, <1>3, <1>4, <1>5, <1>6, <1>7, <1>8, <1>9, <1>10, <1>11 DEF Next

LEMMA UInvStep == KeepsVersion /\ UInv /\ [Next]_vars => UInv'
<1> SUFFICES ASSUME KeepsVersion, UInv, [Next]_vars PROVE UInv'
  OBVIOUS
<1>1. TInv'
  BY TInvStep DEF UInv
<1>2. Fixed'
  BY FixedStep DEF UInv
<1> QED BY <1>1, <1>2, RowInvStep, TodoVersionStep, TodoLockedStep DEF UInv

(* However many requests create and finalize releases at once, no two      *)
(* final releases of an application are committed with the same semver,    *)
(* variant and revision, as long as no PATCH changes a version.            *)
THEOREM RevisionsUnique == KeepsVersion => (Spec => []UniqueRevision)
<1> SUFFICES ASSUME KeepsVersion PROVE Spec => []UniqueRevision
  OBVIOUS
<1>1. UInv /\ [Next]_vars => UInv'
  BY UInvStep
<1>2. UInv => UniqueRevision
  BY DEF UInv, RowInv
<1> QED BY <1>1, <1>2, UInvInit, PTL DEF Spec

-----------------------------------------------------------------------------
(***************************************************************************)
(* The order of the advisory locks.  A transaction takes its locks from    *)
(* the smallest application up, so the one it waits for is larger than any *)
(* it holds, and along a chain of waiting transactions the applications    *)
(* grow: a circle is impossible.                                           *)
(***************************************************************************)
HoldsNone == {"idle", "prerun", "null", "nullTrack", "nullApp", "run"}

(* Before its update a transaction has no lock, and while it takes locks,  *)
(* those it has are the first ones.                                        *)
InOrder ==
    \A t \in Txs, a \in Apps :
        locks[a] = t =>
            /\ pc[t] \notin HoldsNone
            /\ pc[t] = "lock" => \A b \in AppsToLock(t) : b < a => locks[b] = t

OInv == TInv /\ InOrder

LEMMA OInvInit == Init => OInv
<1> SUFFICES ASSUME Init PROVE OInv
  OBVIOUS
<1>1. InOrder
  BY ReleaseAssumption DEF Init, InOrder
<1> QED BY <1>1, TInvInit DEF OInv

LEMMA AppsToLockType ==
    ASSUME TypeOK, NEW u \in Txs
    PROVE  \A b \in AppsToLock(u) : b \in Apps
<1>1. ASSUME NEW r \in Releases, todo[u][r] # None PROVE VersionOf(u, r).app \in Apps
  <2>1. todo[u][r] \in Row /\ req[u] \in Patch
    BY <1>1 DEF TypeOK
  <2>2. todo[u][r].app \in Apps /\ req[u].app \in Apps \cup {None}
    BY <2>1 DEF Row, Patch
  <2> QED BY <2>2 DEF VersionOf, Given
<1> QED BY <1>1 DEF AppsToLock, Listed

(* A step that takes no lock keeps the order, if it changes what is to be  *)
(* locked only in a transaction that holds nothing, or is past its locks.  *)
LEMMA OrderKept ==
    ASSUME TypeOK, InOrder, NEW t \in Txs, locks' = locks,
           \A u \in Txs \ {t} : pc'[u] = pc[u] /\ todo'[u] = todo[u] /\ req'[u] = req[u],
           pc[t] \in HoldsNone \/ pc'[t] \notin HoldsNone \cup {"lock"}
    PROVE  InOrder'
<1> SUFFICES ASSUME NEW u \in Txs, NEW a \in Apps, locks'[a] = u
             PROVE  /\ pc'[u] \notin HoldsNone
                    /\ pc'[u] = "lock" => \A b \in AppsToLock(u)' : b < a => locks'[b] = u
  BY DEF InOrder
<1>1. CASE u = t
  BY <1>1 DEF InOrder
<1>2. CASE u # t
  <2>1. AppsToLock(u)' = AppsToLock(u)
    BY <1>2 DEF AppsToLock, VersionOf, Listed
  <2> QED BY <1>2, <2>1 DEF InOrder
<1> QED BY <1>1, <1>2

LEMMA InOrderStep == OInv /\ [Next]_vars => InOrder'
<1> SUFFICES ASSUME OInv, [Next]_vars PROVE InOrder'
  OBVIOUS
<1> USE ReleaseAssumption
<1>0. TypeOK /\ TInv /\ InOrder /\ TypeOK'
  BY TInvType DEF OInv, TInv
<1>1. ASSUME NEW t \in Txs, NEW r \in Releases, NEW new \in NewReleases, Create(t, r, new)
      PROVE  InOrder'
  <2>1. pc[t] \in HoldsNone
    BY <1>1 DEF Create, HoldsNone
  <2>2. locks' = locks /\ \A u \in Txs \ {t} : pc'[u] = pc[u] /\ todo'[u] = todo[u]
    BY <1>0, <1>1, CreateEffect
  <2>3. \A u \in Txs \ {t} : req'[u] = req[u]
    BY <1>0, <1>1 DEF Create, TypeOK
  <2> QED BY <1>0, <2>1, <2>2, <2>3, OrderKept
<1>2. ASSUME NEW t \in Txs, NEW rs \in PatchTargets, NEW p \in Patches, Receive(t, rs, p)
      PROVE  InOrder'
  BY <1>0, <1>2, OrderKept DEF Receive, HoldsNone, TypeOK
<1>3. ASSUME NEW t \in Txs, Prerun(t) PROVE InOrder'
  BY <1>0, <1>3, OrderKept DEF Prerun, HoldsNone, TypeOK
<1>4. ASSUME NEW t \in Txs, NullRevisions(t) PROVE InOrder'
  <2>1. pc[t] \in HoldsNone /\ UNCHANGED <<locks, req, todo>>
    BY <1>4 DEF NullRevisions, HoldsNone
  <2>2. \A u \in Txs \ {t} : pc'[u] = pc[u]
    BY <1>0, <1>4 DEF NullRevisions, Write, TypeOK
  <2> QED BY <1>0, <2>1, <2>2, OrderKept
<1>5. ASSUME NEW t \in Txs, Run(t) PROVE InOrder'
  <2>1. pc[t] \in HoldsNone /\ UNCHANGED <<locks, req, todo>>
    BY <1>5 DEF Run, HoldsNone
  <2>2. \A u \in Txs \ {t} : pc'[u] = pc[u]
    BY <1>0, <1>5, RunEffect
  <2> QED BY <1>0, <2>1, <2>2, OrderKept
<1>6. ASSUME NEW t \in Txs, NEW a \in Apps, Lock(t, a) PROVE InOrder'
  <2>1. /\ locks[a] = None /\ locks' = [locks EXCEPT ![a] = t]
        /\ pc[t] = "lock" /\ pc'[t] \notin HoldsNone
        /\ \A u \in Txs \ {t} : pc'[u] = pc[u]
        /\ \A b \in AppsToLock(t) : b < a => locks[b] = t
        /\ UNCHANGED <<todo, req>>
    BY <1>0, <1>6 DEF Lock, LockNext, AfterLocks, HoldsNone, TypeOK
  <2>2. \A b \in Apps, u \in Txs : locks[b] = u => locks'[b] = u
    BY <1>0, <2>1 DEF TypeOK
  <2> SUFFICES ASSUME NEW u \in Txs, NEW c \in Apps, locks'[c] = u
               PROVE  /\ pc'[u] \notin HoldsNone
                      /\ pc'[u] = "lock" => \A b \in AppsToLock(u)' : b < c => locks'[b] = u
    BY DEF InOrder
  <2>3. AppsToLock(u)' = AppsToLock(u)
    BY <2>1 DEF AppsToLock, VersionOf, Listed
  <2>4. \A b \in AppsToLock(u) : b \in Apps
    BY <1>0, AppsToLockType
  <2>5. CASE c = a
    <3>1. u = t
      BY <1>0, <2>1, <2>5 DEF TypeOK
    <3> QED BY <2>1, <2>2, <2>3, <2>4, <2>5, <3>1
  <2>6. CASE c # a
    <3>1. locks[c] = u
      BY <1>0, <2>1, <2>6 DEF TypeOK
    <3>2. pc[u] \notin HoldsNone /\ (pc[u] = "lock" => \A b \in AppsToLock(u) : b < c => locks[b] = u)
      BY <1>0, <3>1 DEF InOrder
    <3> QED BY <2>1, <2>2, <2>3, <2>4, <3>2
  <2> QED BY <2>5, <2>6
<1>7. ASSUME NEW t \in Txs, NEW r \in Releases, Assign(t, r) PROVE InOrder'
  <2>1. /\ locks' = locks /\ pc[t] = "assign" /\ pc'[t] = "track" /\ req' = req
        /\ todo' = [todo EXCEPT ![t] = [todo[t] EXCEPT ![r] = None]]
        /\ \A u \in Txs \ {t} : pc'[u] = pc[u]
    BY <1>0, <1>7, AssignEffect
  <2>2. \A u \in Txs \ {t} : todo'[u] = todo[u]
    BY <1>0, <2>1 DEF TypeOK
  <2>3. pc'[t] \notin HoldsNone \cup {"lock"}
    BY <2>1 DEF HoldsNone
  <2> QED BY <1>0, <2>1, <2>2, <2>3, OrderKept
<1>8. ASSUME NEW t \in Txs, Track(t) \/ SetTarget(t) PROVE InOrder'
  <2>1. UNCHANGED <<locks, req, todo>> /\ \A u \in Txs \ {t} : pc'[u] = pc[u]
    BY <1>0, <1>8 DEF Track, SetTarget, TypeOK
  <2>2. pc[t] \in HoldsNone \/ pc'[t] \notin HoldsNone \cup {"lock"}
    BY <1>0, <1>8 DEF Track, SetTarget, HoldsNone, TypeOK
  <2> QED BY <1>0, <2>1, <2>2, OrderKept
<1>9. ASSUME NEW t \in Txs, Commit(t) \/ Rollback(t) PROVE InOrder'
  <2>1. End(t)
    BY <1>9 DEF Commit, Rollback
  <2>2. /\ \A u \in Txs \ {t} : pc'[u] = pc[u] /\ todo'[u] = todo[u] /\ req'[u] = req[u]
        /\ locks' = [a \in Apps |-> IF locks[a] = t THEN None ELSE locks[a]]
    BY <1>0, <2>1 DEF End, TypeOK
  <2> SUFFICES ASSUME NEW u \in Txs, NEW a \in Apps, locks'[a] = u
               PROVE  /\ pc'[u] \notin HoldsNone
                      /\ pc'[u] = "lock" => \A b \in AppsToLock(u)' : b < a => locks'[b] = u
    BY DEF InOrder
  <2>3. u # t /\ locks[a] = u
    BY <2>2
  <2>4. AppsToLock(u)' = AppsToLock(u)
    BY <2>2, <2>3 DEF AppsToLock, VersionOf, Listed
  <2>5. \A b \in AppsToLock(u) : b \in Apps
    BY <1>0, AppsToLockType
  <2> QED BY <1>0, <2>2, <2>3, <2>4, <2>5 DEF InOrder
<1>10. CASE UNCHANGED vars
  BY <1>0, <1>10 DEF vars, InOrder, AppsToLock, VersionOf, Listed
<1> QED BY <1>1, <1>2, <1>3, <1>4, <1>5, <1>6, <1>7, <1>8, <1>9, <1>10 DEF Next

(* A nonempty finite set of numbers has a largest one: no strictly smaller *)
(* set of larger ones is left.                                             *)
LEMMA Largest ==
    ASSUME NEW W, W \subseteq Nat, IsFiniteSet(W), W # {}
    PROVE  \E a \in W : \A b \in W : b <= a
<1> DEFINE Above(a) == {b \in W : b > a}
           Family == {Above(a) : a \in W}
<1>1. Family \subseteq FiniteSubsetsOf(W) /\ Family # {}
  <2>1. ASSUME NEW a \in W PROVE Above(a) \in FiniteSubsetsOf(W)
    <3>1. Above(a) \subseteq W
      OBVIOUS
    <3> HIDE DEF Above
    <3>2. IsFiniteSet(Above(a))
      BY <3>1, FS_Subset
    <3> QED BY <3>1, <3>2 DEF FiniteSubsetsOf
  <2> HIDE DEF Above
  <2> QED BY <2>1
<1>2. IsWellFoundedOn(StrictSubsetOrdering(W), FiniteSubsetsOf(W))
  BY FS_StrictSubsetOrderingWellFounded
<1>3. \E x \in Family : \A y \in Family : ~(<<y, x>> \in StrictSubsetOrdering(W))
  <2> HIDE DEF Family
  <2> QED BY <1>1, <1>2, WFMin
<1>4. PICK a \in W : \A b \in W : ~(<<Above(b), Above(a)>> \in StrictSubsetOrdering(W))
  BY <1>3
<1>5. ASSUME NEW b \in W, b > a PROVE FALSE
  <2>1. ASSUME NEW c \in Above(b) PROVE c \in Above(a)
    <3>1. a \in Nat /\ b \in Nat /\ c \in Nat /\ c \in W /\ c > b
      OBVIOUS
    <3>2. c > a
      BY <1>5, <3>1
    <3> QED BY <3>1, <3>2
  <2>2. b \in Above(a) /\ b \notin Above(b)
    BY <1>5
  <2>3. Above(a) \in SUBSET W /\ Above(b) \in SUBSET W
    OBVIOUS
  <2> HIDE DEF Above
  <2> QED BY <1>4, <2>1, <2>2, <2>3 DEF StrictSubsetOrdering
<1> QED BY <1>5

LEMMA OrderMeansNoCycle == OInv => LocksNeverCycle
<1> SUFFICES ASSUME OInv, NEW T \in (SUBSET Txs) \ {{}},
                    \A t \in T : \E u \in T \ {t} : WaitsForLock(t, u)
             PROVE  FALSE
  BY DEF LocksNeverCycle
<1> USE ReleaseAssumption, FiniteAssumption
<1> DEFINE Wanted(t, a) == pc[t] = "lock" /\ LockNext(t, a) /\ locks[a] \in T \ {t}
           W == {a \in Apps : \E t \in T : Wanted(t, a)}
<1>1. \A t \in T : \E a \in W : Wanted(t, a)
  BY DEF WaitsForLock
<1>2. W # {} /\ W \subseteq Nat /\ IsFiniteSet(W)
  BY <1>1, FS_Subset
<1>3. PICK a \in W : \A b \in W : b <= a
  <2> HIDE DEF W
  <2> QED BY <1>2, Largest
<1>4. PICK t \in T : Wanted(t, a)
  OBVIOUS
<1>5. PICK u \in T : locks[a] = u
  BY <1>4
<1>6. PICK b \in W : Wanted(u, b)
  BY <1>1
<1>7. pc[u] = "lock" /\ b \in AppsToLock(u) /\ locks[b] # u
  BY <1>6 DEF LockNext
<1>8. b < a \/ b = a
  BY <1>2, <1>3
<1>9. a \in Apps /\ u \in Txs
  OBVIOUS
<1> QED BY <1>5, <1>7, <1>8, <1>9 DEF OInv, InOrder

(* However many requests finalize releases of however many applications,   *)
(* the advisory locks never make them wait for each other in a circle      *)
(* (getAdvisoryLockForApp in the order of the applications).               *)
THEOREM LocksInOrder == Spec => []LockInv
<1>1. OInv /\ [Next]_vars => OInv'
  BY TInvStep, InOrderStep DEF OInv
<1>2. OInv => LockInv
  BY OrderMeansNoCycle DEF OInv, TInv, LockInv
<1> QED BY <1>1, <1>2, OInvInit, PTL DEF Spec


-----------------------------------------------------------------------------
(***************************************************************************)
(* A final release stays final.  A transaction may have set the revision   *)
(* of a final release to null, but then the release is still on its list   *)
(* of those to be revised, and it does not commit before the list is       *)
(* empty.  Since a row has one writer, what it read is what is committed.  *)
(***************************************************************************)
Begins ==
    \A t \in Txs, r \in Releases :
        pc[t] \in {"idle", "prerun"} => mine[t][r] = None /\ todo[t][r] = None

Finished == \A t \in Txs, r \in Releases : pc[t] = "commit" => todo[t][r] = None

(* Transaction t has, or will give, a revision to a final release.         *)
KeepsFinal(t, r) ==
    mine[t][r] # None /\ release[r] # None /\ release[r].rev # None =>
        mine[t][r].rev # None \/ todo[t][r] # None

FInv ==
    /\ TInv /\ Exclusive /\ Begins /\ Finished
    /\ \A t \in Txs, r \in Releases : KeepsFinal(t, r)

LEMMA FInvInit == Init => FInv
<1> SUFFICES ASSUME Init PROVE FInv
  OBVIOUS
<1>1. Exclusive /\ Begins /\ Finished /\ \A t \in Txs, r \in Releases : KeepsFinal(t, r)
  BY DEF Init, Exclusive, Begins, Finished, KeepsFinal, NoRows
<1> QED BY <1>1, TInvInit DEF FInv

(* A step of one transaction that commits nothing.                         *)
LEMMA OneWriter ==
    ASSUME FInv, NEW t \in Txs, release' = release,
           \A u \in Txs \ {t} : mine'[u] = mine[u] /\ todo'[u] = todo[u] /\ pc'[u] = pc[u],
           \A r \in Releases : mine'[t][r] # None =>
               mine[t][r] # None \/ \A u \in Txs \ {t} : mine[u][r] = None,
           \A r \in Releases : KeepsFinal(t, r)',
           \A r \in Releases : pc'[t] \in {"idle", "prerun"} => mine'[t][r] = None /\ todo'[t][r] = None,
           \A r \in Releases : pc'[t] = "commit" => todo'[t][r] = None
    PROVE  /\ Exclusive' /\ Begins' /\ Finished'
           /\ \A u \in Txs, r \in Releases : KeepsFinal(u, r)'
<1>1. Exclusive'
  <2> SUFFICES ASSUME NEW v \in Txs, NEW u \in Txs, NEW r \in Releases, v # u, mine'[v][r] # None
               PROVE  mine'[u][r] = None
    BY DEF Exclusive
  <2>1. CASE v = t
    BY <2>1 DEF FInv, Exclusive
  <2>2. CASE v # t /\ u = t
    BY <2>2 DEF FInv, Exclusive
  <2>3. CASE v # t /\ u # t
    BY <2>3 DEF FInv, Exclusive
  <2> QED BY <2>1, <2>2, <2>3
<1>2. Begins'
  BY DEF FInv, Begins
<1>3. Finished'
  BY DEF FInv, Finished
<1>4. ASSUME NEW u \in Txs, NEW r \in Releases PROVE KeepsFinal(u, r)'
  BY DEF FInv, KeepsFinal
<1> QED BY <1>1, <1>2, <1>3, <1>4

(* A step of the transaction that commits.                                 *)
LEMMA OneCommits ==
    ASSUME FInv, NEW t \in Txs, release' = [r \in Releases |-> Seen(t, r)], pc'[t] = "idle",
           \A r \in Releases : mine'[t][r] = None /\ todo'[t][r] = None,
           \A u \in Txs \ {t} : pc'[u] = pc[u] /\ mine'[u] = mine[u] /\ todo'[u] = todo[u]
    PROVE  /\ Exclusive' /\ Begins' /\ Finished'
           /\ \A u \in Txs, r \in Releases : KeepsFinal(u, r)'
<1>1. Exclusive'
  <2> SUFFICES ASSUME NEW v \in Txs, NEW u \in Txs, NEW r \in Releases, v # u, mine'[v][r] # None
               PROVE  mine'[u][r] = None
    BY DEF Exclusive
  <2>1. v # t
    OBVIOUS
  <2> QED BY <2>1 DEF FInv, Exclusive
<1>2. Begins' /\ Finished'
  BY DEF FInv, Begins, Finished
<1>3. ASSUME NEW u \in Txs, NEW r \in Releases PROVE KeepsFinal(u, r)'
  <2>1. CASE u = t
    BY <2>1 DEF KeepsFinal
  <2>2. CASE u # t
    <3>1. mine[u][r] # None => release'[r] = release[r]
      BY <2>2 DEF FInv, Exclusive, Seen
    <3> QED BY <2>2, <3>1 DEF FInv, KeepsFinal
  <2> QED BY <2>1, <2>2
<1> QED BY <1>1, <1>2, <1>3

LEMMA PatchedRevision ==
    ASSUME NEW row \in Row, NEW p \in Patch
    PROVE  Patched(row, p).rev = row.rev
BY DEF Patched, Row

LEMMA FInvStep == FInv /\ [Next]_vars => FInv'
<1> SUFFICES ASSUME FInv, [Next]_vars PROVE FInv'
  OBVIOUS
<1> USE ReleaseAssumption
<1>0. TypeOK /\ TInv /\ TInv' /\ Begins /\ Finished /\ Exclusive
      /\ \A t \in Txs, r \in Releases : KeepsFinal(t, r)
  BY TInvStep DEF FInv, TInv
<1> DEFINE Goal == /\ Exclusive' /\ Begins' /\ Finished'
                   /\ \A u \in Txs, r \in Releases : KeepsFinal(u, r)'
<1>1. ASSUME NEW t \in Txs, NEW r \in Releases, NEW new \in NewReleases, Create(t, r, new)
      PROVE  Goal
  <2>1. /\ release' = release /\ release[r] = None /\ \A u \in Txs : mine[u][r] = None
        /\ \A u \in Txs \ {t} : pc'[u] = pc[u] /\ todo'[u] = todo[u]
    BY <1>0, <1>1, CreateEffect
  <2>2. /\ \A q \in Releases : q # r => mine'[t][q] = mine[t][q]
        /\ \A u \in Txs \ {t} : mine'[u] = mine[u]
    <3>1. mine' = [mine EXCEPT ![t] = [mine[t] EXCEPT ![r] = NewRow(new)]]
      BY <1>1 DEF Create, Write, NewRow
    <3> QED BY <1>0, <3>1 DEF TypeOK
  <2>3. pc[t] = "idle"
    BY <1>1 DEF Create
  <2>4. \A q \in Releases : KeepsFinal(t, q)'
    BY <1>0, <2>1, <2>2, <2>3 DEF KeepsFinal, Begins
  <2>5. \A q \in Releases : pc'[t] = "commit" => todo'[t][q] = None
    BY <1>0, <1>1, <2>3 DEF Create, Write, Begins, TypeOK
  <2>6. pc'[t] \notin {"idle", "prerun"}
    BY <1>0, <1>1, CreateEffect
  <2> QED BY <2>1, <2>2, <2>4, <2>5, <2>6, OneWriter
<1>2. ASSUME NEW t \in Txs, NEW rs \in PatchTargets, NEW p \in Patches, Receive(t, rs, p)
      PROVE  Goal
  <2>1. /\ UNCHANGED <<release, mine, todo>> /\ pc[t] = "idle" /\ pc'[t] = "prerun"
        /\ \A u \in Txs \ {t} : pc'[u] = pc[u]
    BY <1>0, <1>2 DEF Receive, TypeOK
  <2>2. \A q \in Releases : KeepsFinal(t, q)'
    BY <1>0, <2>1 DEF KeepsFinal
  <2>3. \A q \in Releases : mine'[t][q] = None /\ todo'[t][q] = None
    BY <1>0, <2>1 DEF Begins
  <2> QED BY <2>1, <2>2, <2>3, OneWriter
<1>3. ASSUME NEW t \in Txs, Prerun(t) PROVE Goal
  <2>1. /\ UNCHANGED <<release, mine>> /\ pc[t] = "prerun" /\ pc'[t] \in {"null", "run"}
        /\ \A u \in Txs \ {t} : pc'[u] = pc[u] /\ todo'[u] = todo[u]
    BY <1>0, <1>3 DEF Prerun, TypeOK
  <2>2. \A q \in Releases : KeepsFinal(t, q)'
    BY <1>0, <2>1 DEF KeepsFinal, Begins
  <2> QED BY <2>1, <2>2, OneWriter
<1>4. ASSUME NEW t \in Txs, NullRevisions(t) PROVE Goal
  <2> DEFINE nulled(q) == [Seen(t, q) EXCEPT !.rev = None]
  <2>1. /\ release' = release /\ todo' = todo
        /\ mine' = [mine EXCEPT ![t] =
                      [q \in Releases |-> IF q \in ToNull(t) THEN nulled(q) ELSE mine[t][q]]]
    BY <1>0, <1>4, NullEffect
  <2>2. pc'[t] \in {"nullTrack", "run"} /\ \A u \in Txs \ {t} : pc'[u] = pc[u]
    BY <1>0, <1>4 DEF NullRevisions, Write, TypeOK
  <2>3. \A q \in ToNull(t) : todo[t][q] # None /\ \A u \in Txs \ {t} : mine[u][q] = None
    BY <1>4 DEF NullRevisions, Write, Free, ToNull, Listed
  <2> HIDE DEF nulled
  <2>4. /\ \A u \in Txs \ {t} : mine'[u] = mine[u]
        /\ \A q \in Releases : q \notin ToNull(t) => mine'[t][q] = mine[t][q]
    BY <1>0, <2>1 DEF TypeOK
  <2>5. \A q \in Releases : KeepsFinal(t, q)'
    BY <1>0, <2>1, <2>3, <2>4 DEF KeepsFinal
  <2> QED BY <2>1, <2>2, <2>3, <2>4, <2>5, OneWriter
<1>5. ASSUME NEW t \in Txs, Run(t) PROVE Goal
  <2> DEFINE patched(q) == Patched(Seen(t, q), req[t])
  <2>1. /\ release' = release /\ todo' = todo
        /\ mine' = [mine EXCEPT ![t] =
                      [q \in Releases |-> IF q \in ids[t] THEN patched(q) ELSE mine[t][q]]]
        /\ \A q \in ids[t] : Seen(t, q) \in Row /\ \A u \in Txs \ {t} : mine[u][q] = None
        /\ pc'[t] \in {"lock", "postTrack", "commit"}
        /\ \A u \in Txs \ {t} : pc'[u] = pc[u]
    BY <1>0, <1>5, RunEffect
  <2>2. \A q \in ids[t] : patched(q).rev = Seen(t, q).rev
    BY <1>0, <2>1, PatchedRevision DEF TypeOK
  <2> HIDE DEF patched
  <2>3. /\ \A u \in Txs \ {t} : mine'[u] = mine[u]
        /\ \A q \in Releases : mine'[t][q] = IF q \in ids[t] THEN patched(q) ELSE mine[t][q]
    BY <1>0, <2>1 DEF TypeOK
  <2>4. \A q \in Releases : KeepsFinal(t, q)'
    BY <1>0, <2>1, <2>2, <2>3 DEF KeepsFinal, Seen
  <2>5. \A q \in Releases : pc'[t] = "commit" => todo'[t][q] = None
    BY <1>0, <1>5, <2>1 DEF Run, Write, Listed, TypeOK
  <2> QED BY <2>1, <2>3, <2>4, <2>5, OneWriter
<1>6. ASSUME NEW t \in Txs, NEW a \in Apps, Lock(t, a) PROVE Goal
  <2>1. /\ UNCHANGED <<release, mine, todo>> /\ pc'[t] \in {"lock", "postTrack", "assign"}
        /\ \A u \in Txs \ {t} : pc'[u] = pc[u]
    BY <1>0, <1>6 DEF Lock, AfterLocks, TypeOK
  <2>2. \A q \in Releases : KeepsFinal(t, q)'
    BY <1>0, <2>1 DEF KeepsFinal
  <2> QED BY <2>1, <2>2, OneWriter
<1>7. ASSUME NEW t \in Txs, NEW r \in Releases, Assign(t, r) PROVE Goal
  <2>1. PICK n \in 0 .. MaxRevision :
          mine' = [mine EXCEPT ![t] =
                        [mine[t] EXCEPT ![r] = Revised(Seen(t, r), n, Finalizes(t, r))]]
    BY <1>0, <1>7, AssignEffect
  <2>2. /\ release' = release /\ todo' = [todo EXCEPT ![t] = [todo[t] EXCEPT ![r] = None]]
        /\ Seen(t, r) \in Row /\ \A u \in Txs \ {t} : mine[u][r] = None
        /\ pc'[t] = "track" /\ \A u \in Txs \ {t} : pc'[u] = pc[u]
    BY <1>0, <1>7, AssignEffect
  <2>3. Revised(Seen(t, r), n, Finalizes(t, r)).rev = n /\ n # None
    BY <2>2, RevisedKeeps
  <2>4. /\ \A u \in Txs \ {t} : mine'[u] = mine[u] /\ todo'[u] = todo[u]
        /\ mine'[t][r].rev = n
        /\ \A q \in Releases : q # r => mine'[t][q] = mine[t][q] /\ todo'[t][q] = todo[t][q]
    BY <1>0, <2>1, <2>2, <2>3 DEF TypeOK
  <2>5. \A q \in Releases : KeepsFinal(t, q)'
    BY <1>0, <2>2, <2>3, <2>4 DEF KeepsFinal
  <2> QED BY <2>2, <2>4, <2>5, OneWriter
<1>8. ASSUME NEW t \in Txs, Track(t) \/ SetTarget(t) PROVE Goal
  <2>1. /\ UNCHANGED <<release, mine, todo>> /\ pc'[t] \notin {"idle", "prerun"}
        /\ \A u \in Txs \ {t} : pc'[u] = pc[u]
    BY <1>0, <1>8 DEF Track, SetTarget, TypeOK
  <2>2. \A q \in Releases : pc'[t] = "commit" => todo'[t][q] = None
    BY <1>0, <1>8 DEF Track, SetTarget, Listed, TypeOK
  <2>3. \A q \in Releases : KeepsFinal(t, q)'
    BY <1>0, <2>1 DEF KeepsFinal
  <2> QED BY <2>1, <2>2, <2>3, OneWriter
<1>9. ASSUME NEW t \in Txs, Rollback(t) PROVE Goal
  <2>1. /\ release' = release /\ pc'[t] = "idle"
        /\ \A q \in Releases : mine'[t][q] = None /\ todo'[t][q] = None
        /\ \A u \in Txs \ {t} : pc'[u] = pc[u] /\ mine'[u] = mine[u] /\ todo'[u] = todo[u]
    BY <1>0, <1>9 DEF Rollback, End, NoRows, TypeOK
  <2>2. \A q \in Releases : KeepsFinal(t, q)'
    BY <2>1 DEF KeepsFinal
  <2> QED BY <2>1, <2>2, OneWriter
<1>10. ASSUME NEW t \in Txs, Commit(t) PROVE Goal
  <2>1. /\ release' = [r \in Releases |-> Seen(t, r)] /\ pc'[t] = "idle"
        /\ \A q \in Releases : mine'[t][q] = None /\ todo'[t][q] = None
        /\ \A u \in Txs \ {t} : pc'[u] = pc[u] /\ mine'[u] = mine[u] /\ todo'[u] = todo[u]
    BY <1>0, <1>10 DEF Commit, End, NoRows, TypeOK
  <2> QED BY <2>1, OneCommits
<1>11. ASSUME UNCHANGED vars PROVE Goal
  BY <1>0, <1>11 DEF vars, Exclusive, Begins, Finished, KeepsFinal
<1>12. Goal
  BY <1>1, <1>2, <1>3, <1>4, <1>5, <1>6, <1>7, <1>8, <1>9, <1>10, <1>11 DEF Next
<1> QED BY <1>0, <1>12 DEF FInv

(* preventChangingFinalToDraft, and the revisions set to null before a     *)
(* change of version: however requests overlap, no commit leaves a final   *)
(* release without a revision, whatever the PATCHes change.                *)
THEOREM FinalReleasesStayFinal == Spec => FinalStaysFinal
<1>1. FInv /\ [Next]_vars =>
        [\A r \in Releases : release[r] # None /\ release[r].rev # None => release'[r].rev # None]_vars
  <2> SUFFICES ASSUME FInv, Next, NEW r \in Releases, release[r] # None, release[r].rev # None
               PROVE  release'[r].rev # None
    OBVIOUS
  <2>1. release' = release \/ \E t \in Txs : Commit(t)
    <3>1. ASSUME NEW t \in Txs, NEW q \in Releases, NEW new \in NewReleases, Create(t, q, new)
          PROVE  release' = release
      BY <3>1 DEF Create, Write
    <3>2. ASSUME NEW t \in Txs,
                 \/ \E rs \in PatchTargets, p \in Patches : Receive(t, rs, p)
                 \/ Prerun(t) \/ Track(t) \/ SetTarget(t) \/ Rollback(t)
                 \/ \E a \in Apps : Lock(t, a)
          PROVE  release' = release
      BY <3>2 DEF Receive, Prerun, Track, SetTarget, Rollback, Lock
    <3>3. ASSUME NEW t \in Txs, NullRevisions(t) \/ Run(t) PROVE release' = release
      BY <3>3 DEF NullRevisions, Run, Write
    <3>4. ASSUME NEW t \in Txs, NEW q \in Releases, Assign(t, q) PROVE release' = release
      BY <3>4 DEF Assign, Write
    <3> QED BY <3>1, <3>2, <3>3, <3>4 DEF Next
  <2>2. ASSUME NEW t \in Txs, Commit(t) PROVE release'[r].rev # None
    <3>1. release'[r] = Seen(t, r) /\ todo[t][r] = None
      BY <2>2 DEF Commit, FInv, Finished
    <3> QED BY <3>1 DEF FInv, KeepsFinal, Seen
  <2> QED BY <2>1, <2>2
<1> QED BY <1>1, FInvInit, FInvStep, PTL DEF Spec, FinalStaysFinal

-----------------------------------------------------------------------------
(***************************************************************************)
(* The target of an application, for requests one after the other.  At     *)
(* each stage of the one request in flight, a trackable release it sees is *)
(* not beyond the target it sees, or updateLatestRelease is still ahead    *)
(* for its application.  What makes a release trackable is a revision or   *)
(* its state, after which it runs; a change of application does not,       *)
(* because the revision of a release that moves is set to null first.      *)
(***************************************************************************)
AtLeast(x, r) == x # None /\ x >= r

Latest0 ==
    \A a \in TrackingApps, r \in Releases :
        Trackable(release[r]) /\ release[r].app = a => AtLeast(target[a], r)

(* The target transaction t sees, with the one it is about to write.       *)
Ahead(t, a) ==
    IF pc[t] \in {"nullApp", "app", "postApp"} THEN Given(tracked[t][a], SeenTarget(t, a))
    ELSE SeenTarget(t, a)

WillTrack(t, a) ==
    /\ a \in TrackApps(t)
    /\ \/ pc[t] \in {"nullTrack", "track", "postTrack"}
       \/ pc[t] = "lock" /\ req[t].good # None

Follows(t) ==
    \A a \in TrackingApps, r \in Releases :
        Trackable(Seen(t, r)) /\ Seen(t, r).app = a => AtLeast(Ahead(t, a), r) \/ WillTrack(t, a)

(* A release with a revision does not change its version in the update.    *)
NoRetag(t) ==
    \A r \in ids[t] :
        Seen(t, r).rev # None /\ ChangesVersion(req[t], Seen(t, r)) =>
            /\ pc[t] = "null" => r \in Listed(t)
            /\ pc[t] \notin {"nullTrack", "nullApp", "run"}

Serial == \A t, u \in Txs : pc[t] # "idle" /\ pc[u] # "idle" => t = u

BeginsApp == \A t \in Txs, a \in Apps : pc[t] = "idle" => mineApp[t][a] = None

InTurn == Serial /\ Latest0 /\ \A t \in Txs : pc[t] # "idle" => Follows(t) /\ NoRetag(t)

LInv == FInv /\ BeginsApp /\ (~overlapped => InTurn)

(* What is seen before anything is written.                                *)
LEMMA SeesCommitted ==
    ASSUME FInv, BeginsApp, NEW t \in Txs, pc[t] = "idle"
    PROVE  /\ \A r \in Releases : Seen(t, r) = release[r]
           /\ \A a \in Apps : SeenTarget(t, a) = target[a]
BY DEF FInv, Begins, BeginsApp, Seen, SeenTarget

(* A step that changes neither rows nor targets in the sight of t.         *)
LEMMA SameSight ==
    ASSUME NEW t \in Txs, release' = release, target' = target, mine'[t] = mine[t], mineApp'[t] = mineApp[t]
    PROVE  /\ \A r : Seen(t, r)' = Seen(t, r)
           /\ \A a : SeenTarget(t, a)' = SeenTarget(t, a)
BY DEF Seen, SeenTarget

LEMMA NewestExists ==
    ASSUME NEW t \in Txs, NEW a, NEW r \in Releases, Trackable(Seen(t, r)), Seen(t, r).app = a
    PROVE  \E q \in Releases : Latest(t, a, q)
<1> DEFINE W == {q \in Releases : Trackable(Seen(t, q)) /\ Seen(t, q).app = a}
<1>1. r \in W /\ W \subseteq Releases
  OBVIOUS
<1>2. IsFiniteSet(W) /\ W \subseteq Nat
  <2> HIDE DEF W
  <2> QED BY <1>1, FiniteAssumption, ReleaseAssumption, FS_Subset
<1>3. PICK q \in W : \A s \in W : s <= q
  <2> HIDE DEF W
  <2> QED BY <1>1, <1>2, Largest
<1> QED BY <1>3 DEF Latest


LEMMA BeginsAppStep == FInv /\ BeginsApp /\ [Next]_vars => BeginsApp'
<1> SUFFICES ASSUME FInv, BeginsApp, [Next]_vars PROVE BeginsApp'
  OBVIOUS
<1>0. TypeOK
  BY DEF FInv, TInv
<1>1. ASSUME NEW t \in Txs, NEW r \in Releases, NEW new \in NewReleases, Create(t, r, new)
      PROVE  BeginsApp'
  BY <1>0, <1>1 DEF Create, Write, BeginsApp, TypeOK
<1>2. ASSUME NEW t \in Txs, NEW rs \in PatchTargets, NEW p \in Patches, Receive(t, rs, p)
      PROVE  BeginsApp'
  BY <1>0, <1>2 DEF Receive, BeginsApp, TypeOK
<1>3. ASSUME NEW t \in Txs, Prerun(t) \/ Track(t) \/ SetTarget(t) PROVE BeginsApp'
  <2>1. /\ pc[t] # "idle" /\ pc'[t] # "idle"
        /\ \A u \in Txs \ {t} : pc'[u] = pc[u] /\ mineApp'[u] = mineApp[u]
    BY <1>0, <1>3 DEF Prerun, Track, SetTarget, TypeOK
  <2> QED BY <2>1 DEF BeginsApp
<1>4. ASSUME NEW t \in Txs, NullRevisions(t) \/ Run(t) PROVE BeginsApp'
  BY <1>0, <1>4 DEF NullRevisions, Run, Write, BeginsApp, TypeOK
<1>5. ASSUME NEW t \in Txs, NEW a \in Apps, Lock(t, a) PROVE BeginsApp'
  BY <1>0, <1>5 DEF Lock, AfterLocks, BeginsApp, TypeOK
<1>6. ASSUME NEW t \in Txs, NEW r \in Releases, Assign(t, r) PROVE BeginsApp'
  BY <1>0, <1>6 DEF Assign, Write, BeginsApp, TypeOK
<1>7. ASSUME NEW t \in Txs, Commit(t) \/ Rollback(t) PROVE BeginsApp'
  <2>1. End(t)
    BY <1>7 DEF Commit, Rollback
  <2>2. /\ \A a \in Apps : mineApp'[t][a] = None
        /\ \A u \in Txs \ {t} : pc'[u] = pc[u] /\ mineApp'[u] = mineApp[u]
    BY <1>0, <2>1 DEF End, NoTargets, TypeOK
  <2> QED BY <2>2 DEF BeginsApp
<1>8. ASSUME UNCHANGED vars PROVE BeginsApp'
  BY <1>8 DEF vars, BeginsApp
<1> QED BY <1>1, <1>2, <1>3, <1>4, <1>5, <1>6, <1>7, <1>8 DEF Next

(* The steps of the request in flight.                                     *)
Stage(t) == pc[t] # "idle" => Follows(t) /\ NoRetag(t)

LEMMA BeginsInTurn ==
    ASSUME FInv, BeginsApp, Latest0, NEW t \in Txs,
           \/ \E r \in Releases, new \in NewReleases : Create(t, r, new)
           \/ \E rs \in PatchTargets, p \in Patches : Receive(t, rs, p)
    PROVE  Stage(t)'
<1> USE ReleaseAssumption
<1>0. TypeOK /\ TInv /\ TrackingApps \subseteq Apps
  BY DEF FInv, TInv
<1>1. ASSUME NEW q \in Releases, NEW new \in NewReleases, Create(t, q, new)
      PROVE  Stage(t)'
  <2>1. /\ \A r \in Releases : Seen(t, r) = release[r]
        /\ \A a \in Apps : SeenTarget(t, a) = target[a]
    BY <1>1, SeesCommitted DEF Create
  <2>2. /\ release' = release /\ mine'[t] = [mine[t] EXCEPT ![q] = NewRow(new)]
        /\ target' = target /\ mineApp' = mineApp /\ pc'[t] \in {"lock", "commit"}
        /\ release[q] = None
    <3>1. release' = release /\ release[q] = None /\ pc'[t] \in {"lock", "commit"}
      BY <1>0, <1>1, CreateEffect
    <3>2. /\ mine' = [mine EXCEPT ![t] = [mine[t] EXCEPT ![q] = NewRow(new)]]
          /\ target' = target /\ mineApp' = mineApp
      BY <1>1 DEF Create, Write, NewRow
    <3> QED BY <1>0, <3>1, <3>2 DEF TypeOK
  <2>3. NewRow(new) # None /\ NewRow(new).rev = None
    BY NewRowType DEF NewRow
  <2>4. ASSUME NEW r \in Releases, r # q PROVE Seen(t, r)' = release[r]
    BY <1>0, <2>1, <2>2, <2>4 DEF Seen, TypeOK
  <2>5. Seen(t, q)' = NewRow(new)
    BY <1>0, <2>2, <2>3 DEF Seen, TypeOK
  <2>6. ASSUME NEW a \in Apps PROVE Ahead(t, a)' = target[a]
    BY <1>0, <2>1, <2>2, <2>6 DEF Ahead, SeenTarget
  <2>7. Follows(t)'
    <3> SUFFICES ASSUME NEW a \in TrackingApps, NEW r \in Releases,
                        Trackable(Seen(t, r))', Seen(t, r)'.app = a
                 PROVE  AtLeast(Ahead(t, a)', r)
      BY DEF Follows, AtLeast
    <3>1. r # q
      BY <2>3, <2>5 DEF Trackable
    <3>2. Trackable(release[r]) /\ release[r].app = a
      BY <2>4, <3>1 DEF Trackable
    <3>3. AtLeast(target[a], r)
      BY <3>2 DEF Latest0
    <3>4. Ahead(t, a)' = target[a]
      BY <1>0, <2>6
    <3> QED BY <3>3, <3>4
  <2>8. NoRetag(t)'
    BY <2>2 DEF NoRetag
  <2> QED BY <2>7, <2>8 DEF Stage
<1>2. ASSUME NEW rs \in PatchTargets, NEW p \in Patches, Receive(t, rs, p)
      PROVE  Stage(t)'
  <2>1. /\ \A r \in Releases : Seen(t, r) = release[r]
        /\ \A a \in Apps : SeenTarget(t, a) = target[a]
    BY <1>2, SeesCommitted DEF Receive
  <2>2. /\ release' = release /\ mine' = mine /\ target' = target /\ mineApp' = mineApp
        /\ pc'[t] = "prerun"
    BY <1>0, <1>2 DEF Receive, TypeOK
  <2>3. /\ \A r \in Releases : Seen(t, r)' = release[r]
        /\ \A a \in Apps : Ahead(t, a)' = target[a]
    BY <2>1, <2>2 DEF Seen, SeenTarget, Ahead
  <2>4. Follows(t)'
    <3> SUFFICES ASSUME NEW a \in TrackingApps, NEW r \in Releases,
                        Trackable(Seen(t, r))', Seen(t, r)'.app = a
                 PROVE  AtLeast(Ahead(t, a)', r)
      BY DEF Follows, AtLeast
    <3>1. Trackable(release[r]) /\ release[r].app = a
      BY <2>3 DEF Trackable
    <3>2. AtLeast(target[a], r)
      BY <3>1 DEF Latest0
    <3>3. Ahead(t, a)' = target[a]
      BY <1>0, <2>3
    <3> QED BY <3>2, <3>3
  <2>5. NoRetag(t)'
    BY <2>2 DEF NoRetag
  <2> QED BY <2>4, <2>5 DEF Stage
<1> QED BY <1>1, <1>2

(* An update of the releases in sight, before the lists of the request.    *)
LEMMA ReadsInTurn ==
    ASSUME FInv, NEW t \in Txs, Stage(t), Prerun(t) \/ \E b \in Apps : Lock(t, b)
    PROVE  Stage(t)'
<1> USE ReleaseAssumption
<1>0. TypeOK /\ TInv /\ TrackingApps \subseteq Apps
  BY DEF FInv, TInv
<1>1. UNCHANGED <<release, target, mine, mineApp, touched, req, ids, tracked>>
  BY DEF Prerun, Lock
<1>2. /\ \A r : Seen(t, r)' = Seen(t, r)
      /\ \A a : SeenTarget(t, a)' = SeenTarget(t, a)
  BY <1>1, SameSight
<1>3. TrackApps(t)' = TrackApps(t)
  BY <1>1, <1>2 DEF TrackApps
<1>4. ASSUME Prerun(t) PROVE Stage(t)'
  <2>1. /\ pc[t] = "prerun" /\ pc'[t] \in {"null", "run"}
        /\ pc'[t] = "run" => req[t].app = None /\ req[t].sem = None /\ req[t].var = None
        /\ todo'[t] = [r \in Releases |-> IF ToSetRevision(t, r) THEN Seen(t, r) ELSE None]
    <3> DEFINE given == {req[t].app, req[t].sem, req[t].var} # {None}
    <3>1. ~given => req[t].app = None /\ req[t].sem = None /\ req[t].var = None
      <4>1. \A x, y, z : {x, y, z} = {None} => x = None /\ y = None /\ z = None
        <5> TAKE x, y, z
        <5>1. x \in {x, y, z} /\ y \in {x, y, z} /\ z \in {x, y, z}
          OBVIOUS
        <5> QED BY ONLY <5>1, Zenon
      <4> QED BY <4>1
    <3>2. pc[t] = "prerun" /\ pc' = [pc EXCEPT ![t] = IF given THEN "null" ELSE "run"]
      BY <1>4 DEF Prerun
    <3> HIDE DEF given
    <3>3. pc'[t] = IF given THEN "null" ELSE "run"
      BY <1>0, <3>2 DEF TypeOK
    <3>4. todo'[t] = [r \in Releases |-> IF ToSetRevision(t, r) THEN Seen(t, r) ELSE None]
      BY <1>0, <1>4 DEF Prerun, TypeOK
    <3> QED BY <3>1, <3>2, <3>3, <3>4
  <2>2. Follows(t)'
    <3> SUFFICES ASSUME NEW a \in TrackingApps, NEW r \in Releases,
                        Trackable(Seen(t, r))', Seen(t, r)'.app = a
                 PROVE  AtLeast(Ahead(t, a)', r)
      BY DEF Follows, AtLeast
    <3>1. Trackable(Seen(t, r)) /\ Seen(t, r).app = a
      BY <1>2 DEF Trackable
    <3>2. AtLeast(Ahead(t, a), r)
      BY <2>1, <3>1 DEF Stage, Follows, WillTrack
    <3> QED BY <1>2, <2>1, <3>2 DEF Ahead
  <2>3. NoRetag(t)'
    <3> SUFFICES ASSUME NEW r \in ids[t], Seen(t, r).rev # None, ChangesVersion(req[t], Seen(t, r))
                 PROVE  pc'[t] = "null" /\ r \in Listed(t)'
      BY <1>1, <1>2 DEF NoRetag, ChangesVersion
    <3>1. pc'[t] = "null"
      BY <2>1 DEF ChangesVersion
    <3>2. r \in Releases /\ ToSetRevision(t, r) /\ Seen(t, r) # None
      BY <1>0 DEF ToSetRevision, TInv, TypeOK, Present
    <3> QED BY <2>1, <3>1, <3>2 DEF Listed
  <2> QED BY <2>2, <2>3 DEF Stage
<1>5. ASSUME NEW b \in Apps, Lock(t, b) PROVE Stage(t)'
  <2>1. /\ pc[t] = "lock"
        /\ pc'[t] = "lock" \/ pc'[t] = AfterLocks(t)
    BY <1>0, <1>5 DEF Lock, TypeOK
  <2>2. pc'[t] = "lock" \/ (req[t].good # None /\ pc'[t] = "postTrack")
                        \/ (req[t].good = None /\ pc'[t] = "assign")
    BY <2>1 DEF AfterLocks
  <2>3. Follows(t)'
    <3> SUFFICES ASSUME NEW a \in TrackingApps, NEW r \in Releases,
                        Trackable(Seen(t, r))', Seen(t, r)'.app = a
                 PROVE  AtLeast(Ahead(t, a)', r) \/ WillTrack(t, a)'
      BY DEF Follows, AtLeast
    <3>1. Trackable(Seen(t, r)) /\ Seen(t, r).app = a
      BY <1>2 DEF Trackable
    <3>2. AtLeast(Ahead(t, a), r) \/ WillTrack(t, a)
      BY <2>1, <3>1 DEF Stage, Follows
    <3>3. Ahead(t, a)' = Ahead(t, a)
      BY <1>2, <2>1, <2>2 DEF Ahead
    <3>4. WillTrack(t, a) => WillTrack(t, a)'
      BY <1>1, <1>3, <2>1, <2>2 DEF WillTrack
    <3> QED BY <3>2, <3>3, <3>4
  <2>4. NoRetag(t)'
    BY <2>2 DEF NoRetag
  <2> QED BY <2>3, <2>4 DEF Stage
<1> QED BY <1>4, <1>5

LEMMA NullsInTurn ==
    ASSUME FInv, NEW t \in Txs, Stage(t), NullRevisions(t)
    PROVE  Stage(t)'
<1> USE ReleaseAssumption
<1>0. TypeOK /\ TInv /\ TrackingApps \subseteq Apps /\ pc[t] = "null"
  BY DEF FInv, TInv, NullRevisions
<1> DEFINE nulled(q) == [Seen(t, q) EXCEPT !.rev = None]
<1>1. /\ UNCHANGED <<release, target, mineApp, req, ids, todo>>
      /\ pc'[t] \in {"nullTrack", "run"}
  BY <1>0 DEF NullRevisions, Write, TypeOK
<1>2. ASSUME NEW q \in ToNull(t) PROVE nulled(q) # None /\ nulled(q).rev = None
  <2>1. Seen(t, q) \in Row
    BY <1>0, SeenType DEF ToNull, Listed, Present, TInv
  <2> QED BY <1>0, <2>1, NullEffect DEF Row
<1>3. \A q \in Releases : mine'[t][q] = IF q \in ToNull(t) THEN nulled(q) ELSE mine[t][q]
  <2>1. mine' = [mine EXCEPT ![t] =
                   [q \in Releases |-> IF q \in ToNull(t) THEN nulled(q) ELSE mine[t][q]]]
    BY <1>0, NullEffect
  <2> HIDE DEF nulled
  <2> QED BY <1>0, <2>1 DEF TypeOK
<1>4. /\ \A q \in ToNull(t) : Seen(t, q)' = nulled(q)
      /\ \A q \in Releases : q \notin ToNull(t) => Seen(t, q)' = Seen(t, q)
  <2> HIDE DEF nulled
  <2> QED BY <1>1, <1>2, <1>3 DEF Seen, ToNull, Listed
<1> HIDE DEF nulled
<1>5. \A a : Ahead(t, a)' = SeenTarget(t, a)
  BY <1>1 DEF Ahead, SeenTarget
<1>6. Follows(t)'
  <2> SUFFICES ASSUME NEW a \in TrackingApps, NEW r \in Releases,
                      Trackable(Seen(t, r))', Seen(t, r)'.app = a
               PROVE  AtLeast(Ahead(t, a)', r)
    BY DEF Follows, AtLeast
  <2>1. r \notin ToNull(t)
    BY <1>2, <1>4 DEF Trackable
  <2>2. Trackable(Seen(t, r)) /\ Seen(t, r).app = a
    BY <1>4, <2>1 DEF Trackable
  <2>3. AtLeast(Ahead(t, a), r)
    BY <1>0, <2>2 DEF Stage, Follows, WillTrack
  <2> QED BY <1>0, <1>5, <2>3 DEF Ahead
<1>7. NoRetag(t)'
  <2> SUFFICES ASSUME NEW r \in ids[t], Seen(t, r)'.rev # None, ChangesVersion(req[t], Seen(t, r)')
               PROVE  FALSE
    BY <1>1 DEF NoRetag, ChangesVersion
  <2>1. r \in Releases /\ r \notin ToNull(t)
    BY <1>0, <1>2, <1>4 DEF TypeOK
  <2>2. Seen(t, r)' = Seen(t, r)
    BY <1>4, <2>1
  <2>3. r \in Listed(t)
    BY <1>0, <2>2 DEF Stage, NoRetag
  <2> QED BY <2>1, <2>2, <2>3 DEF ToNull
<1> QED BY <1>6, <1>7 DEF Stage

LEMMA PatchedApp ==
    ASSUME NEW row \in Row, NEW p \in Patch, ~ChangesVersion(p, row)
    PROVE  Patched(row, p).app = row.app
<1>1. Patched(row, p).app = Given(p.app, row.app)
  BY DEF Patched, Row
<1> QED BY <1>1 DEF Given, ChangesVersion

LEMMA PatchedGood ==
    ASSUME NEW row \in Row, NEW p \in Patch, p.good = None, Patched(row, p).good
    PROVE  row.good
<1>1. Patched(row, p).good = Given(p.good, row.good)
  BY DEF Patched, Row
<1> QED BY <1>1, Zenon DEF Given

LEMMA RunsInTurn ==
    ASSUME FInv, NEW t \in Txs, Stage(t), Run(t)
    PROVE  Stage(t)'
<1> USE ReleaseAssumption
<1>0. TypeOK /\ TInv /\ TrackingApps \subseteq Apps /\ pc[t] = "run"
  BY DEF FInv, TInv, Run
<1> DEFINE patched(q) == Patched(Seen(t, q), req[t])
<1>1. /\ UNCHANGED <<release, target, mineApp, req, ids>>
      /\ touched'[t] = ids[t]
      /\ pc'[t] \in {"lock", "postTrack", "commit"}
      /\ req[t].good # None /\ ids[t] # {} => pc'[t] \in {"lock", "postTrack"}
  BY <1>0 DEF Run, Write, TypeOK
<1>2. /\ mine' = [mine EXCEPT ![t] = [q \in Releases |-> IF q \in ids[t] THEN patched(q) ELSE mine[t][q]]]
      /\ \A q \in ids[t] : Seen(t, q) \in Row /\ patched(q) \in Row
  BY <1>0, RunEffect
<1>3. ASSUME NEW q \in ids[t]
      PROVE  /\ patched(q).rev = Seen(t, q).rev
             /\ ~ChangesVersion(req[t], Seen(t, q)) => patched(q).app = Seen(t, q).app
             /\ req[t].good = None /\ patched(q).good => Seen(t, q).good
  <2>1. Seen(t, q) \in Row /\ req[t] \in Patch
    BY <1>0, <1>2 DEF TypeOK
  <2>2. patched(q).rev = Seen(t, q).rev
    BY <2>1, PatchedRevision
  <2>3. ~ChangesVersion(req[t], Seen(t, q)) => patched(q).app = Seen(t, q).app
    BY <2>1, PatchedApp
  <2>4. req[t].good = None /\ patched(q).good => Seen(t, q).good
    BY <2>1, PatchedGood, Zenon
  <2> HIDE DEF patched
  <2> QED BY <2>2, <2>3, <2>4
<1> HIDE DEF patched
<1>4. /\ \A q \in ids[t] : Seen(t, q)' = patched(q) /\ patched(q) # None
      /\ \A q \in Releases : q \notin ids[t] => Seen(t, q)' = Seen(t, q)
  BY <1>0, <1>1, <1>2 DEF Seen, TypeOK
<1>5. \A a : Ahead(t, a)' = SeenTarget(t, a)
  BY <1>1 DEF Ahead, SeenTarget
<1>6. ASSUME NEW a \in TrackingApps, NEW r \in Releases, Trackable(Seen(t, r)), Seen(t, r).app = a
      PROVE  AtLeast(Ahead(t, a)', r)
  <2>1. AtLeast(Ahead(t, a), r)
    BY <1>0, <1>6 DEF Stage, Follows, WillTrack
  <2> QED BY <1>0, <1>5, <2>1 DEF Ahead
<1>7. Follows(t)'
  <2> SUFFICES ASSUME NEW a \in TrackingApps, NEW r \in Releases,
                      Trackable(Seen(t, r))', Seen(t, r)'.app = a
               PROVE  AtLeast(Ahead(t, a)', r) \/ WillTrack(t, a)'
    BY DEF Follows, AtLeast
  <2>1. CASE r \notin ids[t]
    <3>1. Trackable(Seen(t, r)) /\ Seen(t, r).app = a
      BY <1>4, <2>1 DEF Trackable
    <3> QED BY <1>6, <3>1
  <2>2. CASE r \in ids[t] /\ req[t].good = None
    <3>1. Seen(t, r).rev # None /\ Seen(t, r) \in Row /\ Seen(t, r).good
      BY <1>2, <1>3, <1>4, <2>2 DEF Trackable
    <3>2. ~ChangesVersion(req[t], Seen(t, r))
      BY <1>0, <2>2, <3>1 DEF Stage, NoRetag
    <3>3. Trackable(Seen(t, r)) /\ Seen(t, r).app = a
      BY <1>3, <1>4, <2>2, <3>1, <3>2 DEF Trackable
    <3> QED BY <1>6, <3>3
  <2>3. CASE r \in ids[t] /\ req[t].good # None
    <3>1. a \in TrackApps(t)'
      BY <1>1, <2>3 DEF TrackApps
    <3> QED BY <1>1, <2>3, <3>1 DEF WillTrack
  <2> QED BY <2>1, <2>2, <2>3
<1>8. NoRetag(t)'
  BY <1>1 DEF NoRetag
<1> QED BY <1>7, <1>8 DEF Stage

LEMMA AssignsInTurn ==
    ASSUME FInv, NEW t \in Txs, Stage(t), NEW r \in Releases, Assign(t, r)
    PROVE  Stage(t)'
<1> USE ReleaseAssumption
<1>0. TypeOK /\ TInv /\ TrackingApps \subseteq Apps /\ pc[t] = "assign"
  BY DEF FInv, TInv, Assign
<1>1. /\ UNCHANGED <<release, target, mineApp>> /\ touched'[t] = {r} /\ pc'[t] = "track"
  BY <1>0 DEF Assign, Write, TypeOK
<1>2. \A q \in Releases : q # r => mine'[t][q] = mine[t][q]
  <2>1. PICK n \in 0 .. MaxRevision :
          mine' = [mine EXCEPT ![t] =
                        [mine[t] EXCEPT ![r] = Revised(Seen(t, r), n, Finalizes(t, r))]]
    BY <1>0, AssignEffect
  <2> QED BY <1>0, <2>1 DEF TypeOK
<1>3. \A a : Ahead(t, a)' = SeenTarget(t, a)
  BY <1>1 DEF Ahead, SeenTarget
<1>4. Follows(t)'
  <2> SUFFICES ASSUME NEW a \in TrackingApps, NEW q \in Releases,
                      Trackable(Seen(t, q))', Seen(t, q)'.app = a
               PROVE  AtLeast(Ahead(t, a)', q) \/ WillTrack(t, a)'
    BY DEF Follows, AtLeast
  <2>1. CASE q = r
    <3>1. a \in TrackApps(t)'
      BY <1>1, <2>1 DEF TrackApps
    <3> QED BY <1>1, <3>1 DEF WillTrack
  <2>2. CASE q # r
    <3>1. Seen(t, q)' = Seen(t, q)
      BY <1>1, <1>2, <2>2 DEF Seen
    <3>2. AtLeast(Ahead(t, a), q)
      BY <1>0, <3>1 DEF Stage, Follows, WillTrack, Trackable
    <3> QED BY <1>0, <1>3, <3>2 DEF Ahead
  <2> QED BY <2>1, <2>2
<1>5. NoRetag(t)'
  BY <1>1 DEF NoRetag
<1> QED BY <1>4, <1>5 DEF Stage

(* updateLatestRelease.                                                    *)
LEMMA TracksInTurn ==
    ASSUME FInv, NEW t \in Txs, Stage(t), Track(t)
    PROVE  Stage(t)'
<1> USE ReleaseAssumption
<1>0. TypeOK /\ TrackingApps \subseteq Apps /\ pc[t] \in {"nullTrack", "track", "postTrack"}
  BY DEF FInv, TInv, Track
<1>1. /\ UNCHANGED <<release, target, mine, mineApp, req, ids>>
      /\ pc'[t] \in {"nullApp", "app", "postApp"} /\ (pc'[t] = "nullApp" => pc[t] = "nullTrack")
  BY <1>0 DEF Track, TypeOK
<1>2. /\ \A r : Seen(t, r)' = Seen(t, r)
      /\ \A a : SeenTarget(t, a)' = SeenTarget(t, a)
  BY <1>1, SameSight
<1>3. \A a \in Apps : tracked'[t][a] =
         IF a \in TrackApps(t) /\ \E r \in Releases : Latest(t, a, r)
         THEN CHOOSE r \in Releases : Latest(t, a, r) ELSE None
  BY <1>0 DEF Track, TypeOK
<1>4. Follows(t)'
  <2> SUFFICES ASSUME NEW a \in TrackingApps, NEW r \in Releases,
                      Trackable(Seen(t, r))', Seen(t, r)'.app = a
               PROVE  AtLeast(Ahead(t, a)', r)
    BY DEF Follows, AtLeast
  <2>1. Trackable(Seen(t, r)) /\ Seen(t, r).app = a
    BY <1>2 DEF Trackable
  <2>2. Ahead(t, a)' = Given(tracked'[t][a], SeenTarget(t, a))
    BY <1>1, <1>2 DEF Ahead
  <2>3. CASE a \in TrackApps(t)
    <3>1. \E q \in Releases : Latest(t, a, q)
      BY <2>1, NewestExists
    <3>2. tracked'[t][a] \in Releases /\ Latest(t, a, tracked'[t][a])
      BY <1>0, <1>3, <2>3, <3>1
    <3>3. r <= tracked'[t][a]
      BY <2>1, <3>2 DEF Latest
    <3> QED BY <2>2, <3>2, <3>3 DEF AtLeast, Given
  <2>4. CASE a \notin TrackApps(t)
    <3>1. AtLeast(Ahead(t, a), r)
      BY <1>0, <2>1, <2>4 DEF Stage, Follows, WillTrack
    <3>2. tracked'[t][a] = None
      BY <1>0, <1>3, <2>4
    <3> QED BY <1>0, <2>2, <3>1, <3>2 DEF Ahead, Given
  <2> QED BY <2>3, <2>4
<1>5. NoRetag(t)'
  BY <1>0, <1>1, <1>2 DEF NoRetag, Stage, ChangesVersion
<1> QED BY <1>4, <1>5 DEF Stage

LEMMA SetsInTurn ==
    ASSUME FInv, NEW t \in Txs, Stage(t), SetTarget(t)
    PROVE  Stage(t)'
<1> USE ReleaseAssumption
<1>0. TypeOK /\ TrackingApps \subseteq Apps /\ pc[t] \in {"nullApp", "app", "postApp"}
  BY DEF FInv, TInv, SetTarget
<1>1. /\ UNCHANGED <<release, target, mine, req, ids>>
      /\ pc'[t] \in {"run", "assign", "commit"} /\ (pc'[t] = "run" => pc[t] = "nullApp")
  BY <1>0 DEF SetTarget, TypeOK
<1>2. \A r : Seen(t, r)' = Seen(t, r)
  BY <1>1 DEF Seen
<1>3. \A a \in Apps : mineApp'[t][a] = Given(tracked[t][a], mineApp[t][a])
  BY <1>0 DEF SetTarget, TypeOK
<1>4. \A a \in Apps : Ahead(t, a)' = Ahead(t, a)
  BY <1>0, <1>1, <1>3 DEF Ahead, SeenTarget, Given
<1>5. Follows(t)'
  <2> SUFFICES ASSUME NEW a \in TrackingApps, NEW r \in Releases,
                      Trackable(Seen(t, r))', Seen(t, r)'.app = a
               PROVE  AtLeast(Ahead(t, a)', r)
    BY DEF Follows, AtLeast
  <2>1. AtLeast(Ahead(t, a), r)
    BY <1>0, <1>2 DEF Stage, Follows, WillTrack, Trackable
  <2> QED BY <1>0, <1>4, <2>1
<1>6. NoRetag(t)'
  BY <1>0, <1>1, <1>2 DEF NoRetag, Stage, ChangesVersion
<1> QED BY <1>5, <1>6 DEF Stage

(* What every step of a request does to the latest releases.               *)
LEMMA StepInTurn ==
    ASSUME FInv, BeginsApp, Latest0, NEW t \in Txs, Stage(t),
           \/ \E r \in Releases, new \in NewReleases : Create(t, r, new)
           \/ \E rs \in PatchTargets, p \in Patches : Receive(t, rs, p)
           \/ Prerun(t) \/ NullRevisions(t) \/ Run(t)
           \/ \E a \in Apps : Lock(t, a)
           \/ \E r \in Releases : Assign(t, r)
           \/ Track(t) \/ SetTarget(t) \/ Commit(t) \/ Rollback(t)
    PROVE  /\ Latest0' /\ Stage(t)'
           /\ \A u \in Txs \ {t} : pc'[u] = pc[u]
           /\ pc[t] # "idle" \/ pc'[t] # "idle"
<1>0. TypeOK /\ TrackingApps \subseteq Apps
  BY ReleaseAssumption DEF FInv, TInv
<1> DEFINE Others == /\ \A u \in Txs \ {t} : pc'[u] = pc[u]
                     /\ pc[t] # "idle" \/ pc'[t] # "idle"
           Kept == release' = release /\ target' = target
<1>1. Kept => Latest0'
  BY DEF Latest0
<1>2. ASSUME NEW r \in Releases, NEW new \in NewReleases, Create(t, r, new)
      PROVE  Kept /\ Others
  BY <1>0, <1>2 DEF Create, Write, TypeOK
<1>3. ASSUME NEW rs \in PatchTargets, NEW p \in Patches, Receive(t, rs, p)
      PROVE  Kept /\ Others
  BY <1>0, <1>3 DEF Receive, TypeOK
<1>4. ASSUME Prerun(t) \/ Track(t) \/ SetTarget(t)
      PROVE  Kept /\ Others
  BY <1>0, <1>4 DEF Prerun, Track, SetTarget, TypeOK
<1>5. ASSUME NullRevisions(t) \/ Run(t) PROVE Kept /\ Others
  BY <1>0, <1>5 DEF NullRevisions, Run, Write, TypeOK
<1>6. ASSUME NEW a \in Apps, Lock(t, a) PROVE Kept /\ Others
  BY <1>0, <1>6 DEF Lock, TypeOK
<1>7. ASSUME NEW r \in Releases, Assign(t, r) PROVE Kept /\ Others
  BY <1>0, <1>7 DEF Assign, Write, TypeOK
<1>8. ASSUME Commit(t) \/ Rollback(t) PROVE Others /\ Stage(t)'
  <2>1. End(t) /\ pc[t] # "idle"
    BY <1>8 DEF Commit, Rollback
  <2>2. Others /\ pc'[t] = "idle"
    BY <1>0, <2>1 DEF End, TypeOK
  <2> QED BY <2>2 DEF Stage
<1>9. ASSUME Rollback(t) PROVE Kept
  BY <1>9 DEF Rollback
<1>10. ASSUME Commit(t) PROVE Latest0'
  <2>1. /\ pc[t] = "commit"
        /\ \A r \in Releases : release'[r] = Seen(t, r)
        /\ \A a \in Apps : target'[a] = SeenTarget(t, a)
    BY <1>10 DEF Commit
  <2> SUFFICES ASSUME NEW a \in TrackingApps, NEW r \in Releases,
                      Trackable(release'[r]), release'[r].app = a
               PROVE  AtLeast(target'[a], r)
    BY DEF Latest0, Trackable, AtLeast
  <2>2. Trackable(Seen(t, r)) /\ Seen(t, r).app = a
    BY <2>1
  <2>3. AtLeast(Ahead(t, a), r)
    BY <2>1, <2>2 DEF Stage, Follows, WillTrack
  <2> QED BY <1>0, <2>1, <2>3 DEF Ahead
<1> HIDE DEF Others, Kept
<1>11. Latest0' /\ Others
  BY <1>1, <1>2, <1>3, <1>4, <1>5, <1>6, <1>7, <1>8, <1>9, <1>10
<1>12. Stage(t)'
  BY <1>8, BeginsInTurn, ReadsInTurn, NullsInTurn, RunsInTurn, AssignsInTurn, TracksInTurn, SetsInTurn
<1> QED BY <1>11, <1>12 DEF Others

(* The history variable tells that no two requests are in flight.          *)
LEMMA OverlapCounts ==
    ASSUME NEW t \in Txs, NEW u \in Txs, t # u,
           pc'[t] # "idle", pc'[u] # "idle"
    PROVE  Cardinality(Busy') > 1
<1>1. {t, u} \subseteq Busy' /\ IsFiniteSet(Busy')
  <2>1. Busy' \subseteq Txs
    BY DEF Busy
  <2> QED BY <2>1, FS_Subset, FiniteAssumption DEF Busy
<1>2. Cardinality({t, u}) = 2
  <2>1. IsFiniteSet({u}) /\ Cardinality({u}) = 1
    BY FS_Singleton
  <2>2. Cardinality({u} \cup {t}) = 2
    <3> DEFINE S == {u}
    <3>1. IsFiniteSet(S) /\ t \notin S /\ Cardinality(S) = 1
      BY <2>1
    <3> HIDE DEF S
    <3>2. Cardinality(S \cup {t}) = 2
      <4>1. Cardinality(S \cup {t}) = IF t \in S THEN Cardinality(S) ELSE Cardinality(S) + 1
        BY <3>1, FS_AddElement, Zenon
      <4> QED BY <3>1, <4>1
    <3> QED BY <3>2 DEF S
  <2>3. {u} \cup {t} = {t, u}
    OBVIOUS
  <2> QED BY <2>2, <2>3
<1>3. Cardinality({t, u}) <= Cardinality(Busy') /\ Cardinality(Busy') \in Nat
  BY <1>1, FS_Subset, FS_CardinalityType
<1> QED BY <1>2, <1>3

LEMMA LInvInit == TrackingInit => LInv
<1> SUFFICES ASSUME TrackingInit PROVE LInv
  OBVIOUS
<1>1. Init
  BY DEF TrackingInit
<1>2. FInv
  BY <1>1, FInvInit
<1>3. BeginsApp /\ Serial
  BY <1>1 DEF Init, BeginsApp, Serial, NoTargets
<1>4. Latest0
  BY <1>1 DEF Init, Latest0, NoRows, Trackable
<1>5. \A t \in Txs : pc[t] = "idle"
  BY <1>1 DEF Init
<1> QED BY <1>2, <1>3, <1>4, <1>5 DEF LInv, InTurn

LEMMA LInvStep ==
    ASSUME LInv, [TrackingNext]_<<vars, overlapped>>
    PROVE  LInv'
<1>0. FInv /\ BeginsApp
  BY DEF LInv
<1>1. CASE TrackingNext
  <2>1. Next
    BY <1>1 DEF TrackingNext
  <2>2. FInv' /\ BeginsApp'
    BY <1>0, <2>1, FInvStep, BeginsAppStep
  <2>3. ASSUME ~overlapped' PROVE ~overlapped /\ ~(Cardinality(Busy') > 1)
    BY <1>1, <2>3, Zenon DEF TrackingNext
  <2>4. ASSUME ~overlapped' PROVE InTurn'
    <3>1. Serial /\ Latest0 /\ \A u \in Txs : Stage(u)
      BY <2>3, <2>4 DEF LInv, InTurn, Stage
    <3>2. Serial'
      <4> SUFFICES ASSUME NEW v \in Txs, NEW u \in Txs, pc'[v] # "idle", pc'[u] # "idle", v # u
                   PROVE  FALSE
        BY DEF Serial
      <4>1. Cardinality(Busy') > 1
        BY <2>2, OverlapCounts
      <4> QED BY <2>3, <2>4, <4>1
    <3>3. PICK t \in Txs :
             \/ \E r \in Releases, new \in NewReleases : Create(t, r, new)
             \/ \E rs \in PatchTargets, p \in Patches : Receive(t, rs, p)
             \/ Prerun(t) \/ NullRevisions(t) \/ Run(t)
             \/ \E a \in Apps : Lock(t, a)
             \/ \E r \in Releases : Assign(t, r)
             \/ Track(t) \/ SetTarget(t) \/ Commit(t) \/ Rollback(t)
      BY <2>1 DEF Next
    <3>4. /\ Latest0' /\ Stage(t)'
          /\ \A u \in Txs \ {t} : pc'[u] = pc[u]
          /\ pc[t] # "idle" \/ pc'[t] # "idle"
      BY <1>0, <3>1, <3>3, StepInTurn
    <3>5. ASSUME NEW u \in Txs, pc'[u] # "idle" PROVE u = t
      BY <3>1, <3>2, <3>4, <3>5 DEF Serial
    <3> QED BY <3>2, <3>4, <3>5 DEF InTurn, Stage
  <2> QED BY <2>2, <2>4 DEF LInv
<1>2. CASE UNCHANGED <<vars, overlapped>>
  <2>1. UNCHANGED vars /\ overlapped' = overlapped
    BY <1>2
  <2>2. FInv' /\ BeginsApp'
    BY <1>0, <2>1, FInvStep, BeginsAppStep
  <2>3. InTurn => InTurn'
    <3>1. /\ \A t \in Txs : \A r : Seen(t, r)' = Seen(t, r)
          /\ \A t \in Txs : \A a : SeenTarget(t, a)' = SeenTarget(t, a)
          /\ UNCHANGED <<release, target, pc, req, ids, todo, touched, tracked>>
      BY <2>1 DEF vars, Seen, SeenTarget
    <3>2. \A t \in Txs : \A a : Ahead(t, a)' = Ahead(t, a)
      BY <3>1 DEF Ahead
    <3>3. \A t \in Txs : \A a : WillTrack(t, a)' <=> WillTrack(t, a)
      BY <3>1 DEF WillTrack, TrackApps
    <3>4. \A t \in Txs : Follows(t) => Follows(t)'
      BY <3>1, <3>2, <3>3 DEF Follows, Trackable
    <3>5. \A t \in Txs : NoRetag(t) => NoRetag(t)'
      BY <3>1 DEF NoRetag, ChangesVersion, Listed
    <3>6. (Serial => Serial') /\ (Latest0 => Latest0')
      BY <3>1 DEF Serial, Latest0
    <3> QED BY <3>1, <3>4, <3>5, <3>6 DEF InTurn
  <2> QED BY <2>1, <2>2, <2>3 DEF LInv
<1> QED BY <1>1, <1>2

(* updateLatestRelease, for any number of releases and applications: as    *)
(* long as requests came one after the other, between two of them an       *)
(* application that tracks the latest release runs the most recently       *)
(* started trackable one.                                                  *)
THEOREM TargetsFollow == TrackingSpec => []TargetIsLatestInTurn
<1>1. LInv /\ [TrackingNext]_<<vars, overlapped>> => LInv'
  BY LInvStep
<1>2. LInv => TargetIsLatestInTurn
  BY DEF LInv, InTurn, Latest0, AtLeast, TargetIsLatestInTurn, TargetIsLatest
<1> QED BY <1>1, <1>2, LInvInit, PTL DEF TrackingSpec

-----------------------------------------------------------------------------
(***************************************************************************)
(* The refinement of Revisions.  It must be known how the revisions that a *)
(* request has given but not committed stand to the committed ones, to one *)
(* another and to the releases it has yet to revise: a commit of another   *)
(* request does not disturb it, as the lock of the application keeps the   *)
(* committed revisions of the version as they are.                         *)
(***************************************************************************)
Fresh(t, r) ==
    /\ mine[t][r] # None /\ mine[t][r].rev # None
    /\ release[r] = None \/ release[r].rev # mine[t][r].rev

InVersion(q, x) == release[q] # None /\ release[q].rev # None /\ SameVersion(release[q], x)

Exceeds(t, r) ==
    \A q \in Releases : InVersion(q, mine[t][r]) => release[q].rev < mine[t][r].rev

Ascends(t, r) ==
    \A q \in Releases :
        Fresh(t, q) /\ q < r /\ SameVersion(mine[t][q], mine[t][r]) => mine[t][q].rev < mine[t][r].rev

NoGap(t, r) ==
    \/ mine[t][r].rev = 0
    \/ \E q \in Releases : InVersion(q, mine[t][r]) /\ release[q].rev = mine[t][r].rev - 1
    \/ \E q \in Releases : /\ Fresh(t, q) /\ q < r /\ SameVersion(mine[t][q], mine[t][r])
                           /\ mine[t][q].rev = mine[t][r].rev - 1

Precedes(t, r) ==
    \A q \in Releases :
        todo[t][q] # None => q # r /\ (SameVersion(todo[t][q], mine[t][r]) => r < q)

InSeries(t, r) == Exceeds(t, r) /\ Ascends(t, r) /\ NoGap(t, r) /\ Precedes(t, r)

Series == \A t \in Txs, r \in Releases : Fresh(t, r) => InSeries(t, r)

(* Without a version to change no revision is taken away, and a release    *)
(* without a revision has no finalization date that could change the order.*)
KeepsRevision ==
    \A t \in Txs, r \in Releases :
        mine[t][r] # None /\ release[r] # None /\ release[r].rev # None => mine[t][r].rev # None

Drafts ==
    /\ \A r \in Releases : release[r] # None /\ release[r].rev = None => ~release[r].final
    /\ \A t \in Txs, r \in Releases :
         /\ mine[t][r] # None /\ mine[t][r].rev = None => ~mine[t][r].final
         /\ todo[t][r] # None => ~todo[t][r].final

SInv == UInv /\ InOrder /\ KeepsRevision /\ Drafts /\ Series

LEMMA SInvInit == Init => SInv
<1> SUFFICES ASSUME Init PROVE SInv
  OBVIOUS
<1>1. UInv /\ InOrder
  BY UInvInit, OInvInit DEF OInv
<1>2. KeepsRevision /\ Drafts /\ Series
  BY DEF Init, KeepsRevision, Drafts, Series, Fresh, NoRows
<1> QED BY <1>1, <1>2 DEF SInv

(* A request that has given a revision holds the lock of the application,  *)
(* so it is past its update.                                               *)
LEMMA FreshHolds ==
    ASSUME TypeOK, RowInv, InOrder, NEW t \in Txs, NEW r \in Releases, Fresh(t, r)
    PROVE  /\ mine[t][r] \in Row /\ mine[t][r].app \in Apps
           /\ locks[mine[t][r].app] = t /\ pc[t] \notin HoldsNone
<1>1. mine[t][r] \in Row /\ mine[t][r].app \in Apps
  BY RowApps DEF Fresh, TypeOK
<1>2. locks[mine[t][r].app] = t
  BY DEF RowInv, Covered, Fresh
<1> QED BY <1>1, <1>2 DEF InOrder

(* A step that gives no revision.                                          *)
LEMMA SameSeries ==
    ASSUME Series, release' = release,
           \A u \in Txs, r \in Releases : Fresh(u, r)' =>
             /\ Fresh(u, r) /\ todo'[u] = todo[u]
             /\ mine'[u][r].rev = mine[u][r].rev /\ SameVersion(mine'[u][r], mine[u][r]),
           \A u \in Txs, r \in Releases : Fresh(u, r) => Fresh(u, r)' \/ \A q \in Releases : ~Fresh(u, q)'
    PROVE  Series'
<1> SUFFICES ASSUME NEW t \in Txs, NEW r \in Releases, Fresh(t, r)' PROVE InSeries(t, r)'
  BY DEF Series
<1>1. /\ InSeries(t, r) /\ Fresh(t, r)
      /\ mine'[t][r].rev = mine[t][r].rev /\ SameVersion(mine'[t][r], mine[t][r])
      /\ todo'[t] = todo[t]
  BY DEF Series
<1>2. \A q \in Releases : Fresh(t, q)' <=> Fresh(t, q)
  OBVIOUS
<1>3. \A q \in Releases : Fresh(t, q) =>
        mine'[t][q].rev = mine[t][q].rev /\ SameVersion(mine'[t][q], mine[t][q])
  BY <1>2
<1>4. \A q \in Releases : InVersion(q, mine[t][r])' <=> InVersion(q, mine[t][r])
  BY <1>1 DEF InVersion, SameVersion
<1>5. Exceeds(t, r)'
  BY <1>1, <1>4 DEF InSeries, Exceeds
<1>6. \A q \in Releases : Fresh(t, q) =>
        (SameVersion(mine'[t][q], mine'[t][r]) <=> SameVersion(mine[t][q], mine[t][r]))
  BY <1>1, <1>3 DEF SameVersion
<1>7. Ascends(t, r)'
  BY <1>1, <1>2, <1>3, <1>6 DEF InSeries, Ascends
<1>8. NoGap(t, r)'
  BY <1>1, <1>2, <1>3, <1>4, <1>6 DEF InSeries, NoGap
<1>9. Precedes(t, r)'
  BY <1>1 DEF InSeries, Precedes, SameVersion
<1> QED BY <1>5, <1>7, <1>8, <1>9 DEF InSeries

LEMMA AssignsFirst ==
    ASSUME NEW t \in Txs, NEW r \in Releases, Assign(t, r), NEW q \in Releases,
           todo[t][q] # None, q # r
    PROVE  Earlier(t, r, q)
BY DEF Assign, NextListed, Listed

(* The revision given is above all in sight, and the releases are taken in *)
(* their order.                                                            *)
LEMMA AssignSeries ==
    ASSUME SInv, TypeOK', NEW t \in Txs, NEW r \in Releases, Assign(t, r)
    PROVE  Series'
<1> USE ReleaseAssumption
<1>0. TypeOK /\ TInv /\ RowInv /\ InOrder
  BY DEF SInv, UInv, TInv
<1>1. /\ release' = release /\ todo[t][r] # None /\ Seen(t, r) \in Row
      /\ todo' = [todo EXCEPT ![t] = [todo[t] EXCEPT ![r] = None]]
  BY <1>0, AssignEffect
<1>2. PICK n \in 0 .. MaxRevision :
        /\ IsNextRevision(t, VersionOf(t, r), n)
        /\ Revised(Seen(t, r), n, Finalizes(t, r)) \in Row
        /\ mine' = [mine EXCEPT ![t] =
                      [mine[t] EXCEPT ![r] = Revised(Seen(t, r), n, Finalizes(t, r))]]
  BY <1>0, AssignEffect
<1> DEFINE row == Revised(Seen(t, r), n, Finalizes(t, r))
<1>3. SameVersion(row, Seen(t, r)) /\ row.rev = n /\ row \in Row
  BY <1>1, <1>2, RevisedKeeps
<1>4. /\ mine'[t][r] = row
      /\ \A q \in Releases \ {r} : mine'[t][q] = mine[t][q]
      /\ \A u \in Txs \ {t} : mine'[u] = mine[u]
  BY <1>0, <1>2 DEF TypeOK
<1>5. /\ todo'[t][r] = None
      /\ \A q \in Releases \ {r} : todo'[t][q] = todo[t][q]
      /\ \A u \in Txs \ {t} : todo'[u] = todo[u]
  BY <1>0, <1>1 DEF TypeOK
<1> HIDE DEF row
<1>6. n \in Nat /\ n # None /\ row # None
  BY <1>3
<1>7. SameVersion(todo[t][r], row) /\ SameVersion(VersionOf(t, r), row)
  <2>1. SameVersion(todo[t][r], Seen(t, r))
    BY <1>1 DEF SInv, UInv, TodoVersion
  <2>2. SameVersion(VersionOf(t, r), todo[t][r])
    BY DEF VersionOf, Given, SameVersion, SInv, UInv, Fixed
  <2> QED BY <1>3, <2>1, <2>2 DEF SameVersion
<1>8. ~Fresh(t, r)
  BY <1>1 DEF SInv, Series, InSeries, Precedes
(* What was given before is in sight, and of an earlier release.           *)
<1>9. ASSUME NEW q \in Releases, Fresh(t, q), SameVersion(mine[t][q], row)
      PROVE  q # r /\ q < r /\ mine[t][q].rev < n /\ mine[t][q].rev \in Nat
  <2>1. q # r /\ q < r
    BY <1>1, <1>7, <1>9 DEF SInv, Series, InSeries, Precedes, SameVersion
  <2>2. Seen(t, q) = mine[t][q] /\ Seen(t, q) # None /\ Seen(t, q).rev # None
    BY <1>9 DEF Fresh, Seen
  <2>3. SameVersion(Seen(t, q), VersionOf(t, r))
    BY <1>7, <1>9, <2>2 DEF SameVersion
  <2>4. mine[t][q].rev \in Nat
    BY <1>0, <1>9, FreshHolds DEF Fresh, Row
  <2> QED BY <1>2, <2>1, <2>2, <2>3, <2>4 DEF IsNextRevision
(* So are the committed revisions, or larger ones that replace them.       *)
<1>10. ASSUME NEW q \in Releases, InVersion(q, row)
       PROVE  release[q].rev < n
  <2>1. release[q] \in Row /\ release[q].rev \in Nat
    BY <1>0, <1>10 DEF TypeOK, InVersion, Row
  <2>2. CASE Fresh(t, q)
    <3>1. SameVersion(mine[t][q], release[q])
      BY <1>0, <1>10, <2>2 DEF RowInv, OwnVersion, Fresh, InVersion
    <3>2. SameVersion(mine[t][q], row) /\ InVersion(q, mine[t][q])
      BY <1>10, <3>1 DEF SameVersion, InVersion
    <3>3. release[q].rev < mine[t][q].rev
      BY <2>2, <3>2 DEF SInv, Series, InSeries, Exceeds
    <3> QED BY <1>6, <1>9, <2>1, <2>2, <3>2, <3>3
  <2>3. CASE ~Fresh(t, q)
    <3>1. Seen(t, q) # None /\ Seen(t, q).rev = release[q].rev /\ SameVersion(Seen(t, q), release[q])
      <4>1. CASE mine[t][q] = None
        BY <1>10, <4>1 DEF Seen, InVersion, SameVersion
      <4>2. CASE mine[t][q] # None
        <5>1. mine[t][q].rev # None
          BY <1>10, <4>2 DEF SInv, KeepsRevision, InVersion
        <5>2. mine[t][q].rev = release[q].rev
          BY <2>3, <4>2, <5>1 DEF Fresh
        <5>3. SameVersion(mine[t][q], release[q])
          BY <1>0, <1>10, <4>2 DEF RowInv, OwnVersion, InVersion
        <5> QED BY <4>2, <5>2, <5>3 DEF Seen
      <4> QED BY <4>1, <4>2
    <3>2. Seen(t, q).rev # None /\ SameVersion(Seen(t, q), VersionOf(t, r))
      BY <1>7, <1>10, <3>1 DEF SameVersion, InVersion
    <3>3. Seen(t, q).rev < n
      BY <1>2, <3>1, <3>2 DEF IsNextRevision
    <3> QED BY <3>1, <3>3
  <2> QED BY <2>2, <2>3
<1>11. \A u \in Txs, q \in Releases : u # t \/ q # r => (Fresh(u, q)' <=> Fresh(u, q))
  BY <1>1, <1>4 DEF Fresh
<1>12. Fresh(t, r)' => InSeries(t, r)'
  <2>1. Exceeds(t, r)'
    BY <1>1, <1>3, <1>4, <1>10 DEF Exceeds, InVersion
  <2>2. Ascends(t, r)'
    <3> SUFFICES ASSUME NEW q \in Releases, Fresh(t, q)', q < r, SameVersion(mine'[t][q], row)
                 PROVE  mine'[t][q].rev < n
      BY <1>3, <1>4 DEF Ascends
    <3>1. q # r
      OBVIOUS
    <3>2. Fresh(t, q) /\ mine'[t][q] = mine[t][q]
      BY <1>4, <1>11, <3>1
    <3> QED BY <1>9, <3>2
  <2>3. NoGap(t, r)'
    <3>1. CASE n = 0
      BY <1>3, <1>4, <3>1 DEF NoGap
    <3>2. CASE n # 0
      <4>1. PICK q \in Releases : /\ Seen(t, q) # None /\ Seen(t, q).rev = n - 1
                                  /\ SameVersion(Seen(t, q), VersionOf(t, r))
        BY <1>2, <3>2 DEF IsNextRevision
      <4>2. SameVersion(Seen(t, q), row)
        BY <1>7, <4>1 DEF SameVersion
      <4>3. n - 1 \in Nat /\ n - 1 # None
        BY <1>6, <3>2
      <4>4. CASE Fresh(t, q)
        <5>1. SameVersion(mine[t][q], row) /\ mine[t][q].rev = n - 1
          BY <4>1, <4>2, <4>4 DEF Fresh, Seen
        <5>2. q # r /\ q < r
          BY <1>9, <4>4, <5>1
        <5>3. Fresh(t, q)' /\ mine'[t][q] = mine[t][q]
          BY <1>4, <1>11, <4>4, <5>2
        <5> QED BY <1>3, <1>4, <5>1, <5>2, <5>3 DEF NoGap
      <4>5. CASE ~Fresh(t, q)
        <5>1. release[q] # None /\ release[q].rev = n - 1
          BY <4>1, <4>3, <4>5 DEF Fresh, Seen
        <5>2. SameVersion(release[q], row)
          BY <1>0, <4>2, <5>1 DEF RowInv, OwnVersion, Seen, SameVersion
        <5>3. InVersion(q, mine[t][r])'
          BY <1>1, <1>4, <4>3, <5>1, <5>2 DEF InVersion
        <5>4. mine'[t][r].rev - 1 = release'[q].rev
          BY <1>1, <1>3, <1>4, <5>1
        <5> QED BY <5>3, <5>4 DEF NoGap
      <4> QED BY <4>4, <4>5
    <3> QED BY <3>1, <3>2
  <2>4. Precedes(t, r)'
    <3> SUFFICES ASSUME NEW q \in Releases, todo'[t][q] # None
                 PROVE  q # r /\ (SameVersion(todo'[t][q], row) => r < q)
      BY <1>4 DEF Precedes
    <3>1. q # r /\ todo'[t][q] = todo[t][q]
      BY <1>5
    <3>2. Earlier(t, r, q)
      BY <1>1, <3>1, AssignsFirst
    <3>3. ~todo[t][q].final /\ ~todo[t][r].final
      BY <1>1, <3>1 DEF SInv, Drafts
    <3>4. todo[t][r].app = row.app /\ row.app \in Nat
      BY <1>3, <1>7 DEF SameVersion, Row
    <3>5. ASSUME SameVersion(todo[t][q], row) PROVE r < q
      <4>1. todo[t][q].app = todo[t][r].app
        BY <3>4, <3>5 DEF SameVersion
      <4> QED BY <3>2, <3>3, <3>4, <4>1 DEF Earlier
    <3> QED BY <3>1, <3>5
  <2> QED BY <2>1, <2>2, <2>3, <2>4 DEF InSeries
<1>13. ASSUME NEW u \in Txs, NEW q \in Releases, Fresh(u, q)', u # t \/ q # r
       PROVE  InSeries(u, q)'
  <2>1. Fresh(u, q) /\ InSeries(u, q) /\ mine'[u][q] = mine[u][q]
    BY <1>4, <1>11, <1>13 DEF SInv, Series
  <2>2. Exceeds(u, q)'
    BY <1>1, <2>1 DEF InSeries, Exceeds, InVersion
  <2>3. Ascends(u, q)'
    <3> SUFFICES ASSUME NEW s \in Releases, Fresh(u, s)', s < q,
                        SameVersion(mine'[u][s], mine[u][q])
                 PROVE  mine'[u][s].rev < mine[u][q].rev
      BY <2>1 DEF Ascends
    <3>1. CASE u = t /\ s = r
      <4>1. SameVersion(mine[t][q], row)
        BY <1>4, <3>1 DEF SameVersion
      <4>2. q < r
        BY <1>9, <2>1, <3>1, <4>1
      <4> QED BY <3>1, <4>2
    <3>2. CASE ~(u = t /\ s = r)
      <4>1. Fresh(u, s) /\ mine'[u][s] = mine[u][s]
        BY <1>4, <1>11, <3>2
      <4> QED BY <2>1, <4>1 DEF InSeries, Ascends
    <3> QED BY <3>1, <3>2
  <2>4. NoGap(u, q)'
    <3>1. \A s \in Releases : InVersion(s, mine[u][q])' <=> InVersion(s, mine[u][q])
      BY <1>1, <2>1 DEF InVersion
    <3>2. \A s \in Releases : Fresh(u, s) => Fresh(u, s)' /\ mine'[u][s] = mine[u][s]
      BY <1>4, <1>8, <1>11
    <3> QED BY <1>1, <2>1, <3>1, <3>2 DEF InSeries, NoGap, InVersion
  <2>5. Precedes(u, q)'
    <3> SUFFICES ASSUME NEW s \in Releases, todo'[u][s] # None
                 PROVE  s # q /\ (SameVersion(todo'[u][s], mine[u][q]) => q < s)
      BY <2>1 DEF Precedes
    <3>1. todo'[u][s] = todo[u][s]
      BY <1>5
    <3> QED BY <2>1, <3>1 DEF InSeries, Precedes
  <2> QED BY <2>2, <2>3, <2>4, <2>5 DEF InSeries
<1> QED BY <1>12, <1>13 DEF Series


(* A step that gives no revision of a request that holds no lock.          *)
LEMMA BeforeLocks ==
    ASSUME TypeOK, RowInv, InOrder, Series, NEW t \in Txs, pc[t] \in HoldsNone, release' = release,
           \A u \in Txs \ {t} : mine'[u] = mine[u] /\ todo'[u] = todo[u],
           \A r \in Releases :
             mine'[t][r] # None /\ mine'[t][r].rev # None =>
               release[r] # None /\ release[r].rev = mine'[t][r].rev
    PROVE  Series'
<1>1. \A r \in Releases : ~Fresh(t, r) /\ ~Fresh(t, r)'
  BY FreshHolds DEF Fresh
<1>2. \A u \in Txs \ {t}, r \in Releases : Fresh(u, r)' <=> Fresh(u, r)
  BY DEF Fresh
<1> QED BY <1>1, <1>2, SameSeries DEF SameVersion

(* A row without a new revision in sight is the committed one's.           *)
LEMMA NotFresh ==
    ASSUME TypeOK, RowInv, InOrder, NEW t \in Txs, NEW r \in Releases, pc[t] \in HoldsNone,
           Seen(t, r) # None, Seen(t, r).rev # None
    PROVE  release[r] # None /\ release[r].rev = Seen(t, r).rev
<1>1. ~Fresh(t, r)
  BY FreshHolds
<1> QED BY <1>1 DEF Fresh, Seen

LEMMA QuietSeries ==
    ASSUME KeepsRevision, Drafts, Series, UNCHANGED <<release, mine, todo>>
    PROVE  KeepsRevision' /\ Drafts' /\ Series'
<1>1. \A u \in Txs, r \in Releases : Fresh(u, r)' <=> Fresh(u, r)
  BY DEF Fresh
<1>2. Series'
  BY <1>1, SameSeries DEF SameVersion
<1> QED BY <1>2 DEF KeepsRevision, Drafts

LEMMA CreateSeries ==
    ASSUME SInv, NEW t \in Txs, NEW r \in Releases, NEW new \in NewReleases, Create(t, r, new)
    PROVE  KeepsRevision' /\ Drafts' /\ Series'
<1>0. TypeOK /\ TInv /\ RowInv /\ InOrder
  BY DEF SInv, UInv, TInv
<1>1. /\ release' = release /\ release[r] = None
      /\ mine' = [mine EXCEPT ![t] = [mine[t] EXCEPT ![r] = NewRow(new)]]
      /\ \A u \in Txs \ {t} : todo'[u] = todo[u]
      /\ todo'[t] = [todo[t] EXCEPT ![r] = NewRow(new)] \/ todo'[t] = todo[t]
  BY <1>0, CreateEffect
<1>2. NewRow(new).rev = None /\ NewRow(new).final = FALSE
  BY DEF NewRow
<1>3. /\ mine'[t][r] = NewRow(new)
      /\ \A q \in Releases \ {r} : mine'[t][q] = mine[t][q]
      /\ \A u \in Txs \ {t} : mine'[u] = mine[u]
  BY <1>0, <1>1 DEF TypeOK
<1>4. \A q \in Releases : todo'[t][q] \in {todo[t][q], NewRow(new)}
  BY <1>0, <1>1 DEF TypeOK
<1>5. KeepsRevision'
  BY <1>1, <1>3 DEF SInv, KeepsRevision
<1>6. Drafts'
  BY <1>1, <1>2, <1>3, <1>4 DEF SInv, Drafts
<1>7. pc[t] \in HoldsNone
  BY DEF Create, HoldsNone
<1>8. \A q \in Releases : mine'[t][q] # None /\ mine'[t][q].rev # None =>
        release[q] # None /\ release[q].rev = mine'[t][q].rev
  BY <1>0, <1>2, <1>3, <1>7, NotFresh DEF Seen
<1>9. Series'
  BY <1>0, <1>1, <1>3, <1>7, <1>8, BeforeLocks DEF SInv
<1> QED BY <1>5, <1>6, <1>9

(* No final release is listed: no PATCH changes a version.                 *)
LEMMA PrerunSeries ==
    ASSUME SInv, NEW t \in Txs, Prerun(t)
    PROVE  KeepsRevision' /\ Drafts' /\ Series'
<1>0. TypeOK /\ TInv /\ RowInv /\ InOrder
  BY DEF SInv, UInv, TInv
<1>1. /\ release' = release /\ mine' = mine
      /\ \A u \in Txs \ {t} : todo'[u] = todo[u]
      /\ \A r \in Releases : todo'[t][r] = IF ToSetRevision(t, r) THEN Seen(t, r) ELSE None
  BY <1>0 DEF Prerun, TypeOK
<1>2. \A r \in Releases : ToSetRevision(t, r) => Seen(t, r) # None /\ Seen(t, r).rev = None
  BY <1>0 DEF ToSetRevision, ChangesVersion, SInv, UInv, Fixed, TInv, Present
<1>3. \A r \in Releases : Seen(t, r) # None /\ Seen(t, r).rev = None => ~Seen(t, r).final
  BY DEF SInv, Drafts, Seen
<1>4. KeepsRevision'
  BY <1>1 DEF SInv, KeepsRevision
<1>5. Drafts'
  BY <1>1, <1>2, <1>3 DEF SInv, Drafts
<1>6. pc[t] \in HoldsNone
  BY DEF Prerun, HoldsNone
<1>7. \A q \in Releases : mine'[t][q] # None /\ mine'[t][q].rev # None =>
        release[q] # None /\ release[q].rev = mine'[t][q].rev
  BY <1>0, <1>1, <1>6, NotFresh DEF Seen
<1>8. Series'
  BY <1>0, <1>1, <1>6, <1>7, BeforeLocks DEF SInv
<1> QED BY <1>4, <1>5, <1>8

LEMMA PatchedFinal ==
    ASSUME NEW row \in Row, NEW p \in Patch
    PROVE  Patched(row, p).rev = row.rev /\ Patched(row, p).final = row.final
BY DEF Patched, Row

LEMMA RunSeries ==
    ASSUME SInv, NEW t \in Txs, Run(t)
    PROVE  KeepsRevision' /\ Drafts' /\ Series'
<1>0. TypeOK /\ TInv /\ RowInv /\ InOrder
  BY DEF SInv, UInv, TInv
<1>1. /\ release' = release /\ todo' = todo
      /\ mine' = [mine EXCEPT ![t] =
                    [r \in Releases |-> IF r \in ids[t] THEN Patched(Seen(t, r), req[t])
                                        ELSE mine[t][r]]]
      /\ \A r \in ids[t] : Seen(t, r) \in Row
  BY <1>0, RunEffect
<1>2. \A u \in Txs \ {t} : mine'[u] = mine[u]
  BY <1>1
<1>3. \A r \in Releases \ ids[t] : mine'[t][r] = mine[t][r]
  BY <1>0, <1>1 DEF TypeOK
<1>4. ASSUME NEW r \in ids[t]
      PROVE  /\ r \in Releases /\ Seen(t, r) # None
             /\ mine'[t][r].rev = Seen(t, r).rev /\ mine'[t][r].final = Seen(t, r).final
  <2>1. r \in Releases /\ mine'[t][r] = Patched(Seen(t, r), req[t]) /\ req[t] \in Patch
    BY <1>0, <1>1 DEF TypeOK
  <2>2. Seen(t, r) \in Row
    BY <1>1
  <2> QED BY <2>1, <2>2, PatchedFinal, ReleaseAssumption
<1>5. \A r \in Releases : /\ release[r] # None /\ release[r].rev # None /\ Seen(t, r) # None
                             => Seen(t, r).rev # None
                          /\ Seen(t, r) # None /\ Seen(t, r).rev = None => ~Seen(t, r).final
  BY DEF SInv, KeepsRevision, Drafts, Seen
<1>6. KeepsRevision'
  <2> SUFFICES ASSUME NEW u \in Txs, NEW r \in Releases,
                      mine'[u][r] # None, release[r] # None, release[r].rev # None
               PROVE  mine'[u][r].rev # None
    BY <1>1 DEF KeepsRevision
  <2>1. CASE u # t \/ r \notin ids[t]
    BY <1>2, <1>3, <2>1 DEF SInv, KeepsRevision
  <2>2. CASE u = t /\ r \in ids[t]
    BY <1>4, <1>5, <2>2
  <2> QED BY <2>1, <2>2
<1>7. Drafts'
  <2>1. ASSUME NEW u \in Txs, NEW r \in Releases, mine'[u][r] # None, mine'[u][r].rev = None
        PROVE  ~mine'[u][r].final
    <3>1. CASE u # t \/ r \notin ids[t]
      BY <1>2, <1>3, <2>1, <3>1 DEF SInv, Drafts
    <3>2. CASE u = t /\ r \in ids[t]
      BY <1>4, <1>5, <2>1, <3>2
    <3> QED BY <3>1, <3>2
  <2> QED BY <1>1, <2>1 DEF SInv, Drafts
<1>8. pc[t] \in HoldsNone
  BY DEF Run, HoldsNone
<1>9. ASSUME NEW q \in Releases, mine'[t][q] # None, mine'[t][q].rev # None
      PROVE  release[q] # None /\ release[q].rev = mine'[t][q].rev
  <2>1. Seen(t, q) # None /\ Seen(t, q).rev = mine'[t][q].rev
    BY <1>3, <1>4, <1>9 DEF Seen
  <2> QED BY <1>0, <1>8, <1>9, <2>1, NotFresh
<1>10. Series'
  BY <1>0, <1>1, <1>2, <1>8, <1>9, BeforeLocks DEF SInv
<1> QED BY <1>6, <1>7, <1>10

LEMMA AssignKeeps ==
    ASSUME SInv, NEW t \in Txs, NEW r \in Releases, Assign(t, r)
    PROVE  KeepsRevision' /\ Drafts'
<1>0. TypeOK /\ TInv
  BY DEF SInv, UInv, TInv
<1>1. /\ release' = release /\ Seen(t, r) \in Row
      /\ todo' = [todo EXCEPT ![t] = [todo[t] EXCEPT ![r] = None]]
  BY <1>0, AssignEffect
<1>2. PICK n \in 0 .. MaxRevision :
        mine' = [mine EXCEPT ![t] =
                   [mine[t] EXCEPT ![r] = Revised(Seen(t, r), n, Finalizes(t, r))]]
  BY <1>0, AssignEffect
<1>3. mine'[t][r].rev = n /\ n # None
  BY <1>0, <1>1, <1>2, RevisedKeeps, ReleaseAssumption DEF TypeOK
<1>4. \A u \in Txs, q \in Releases : u # t \/ q # r => mine'[u][q] = mine[u][q]
  BY <1>0, <1>2 DEF TypeOK
<1>5. \A u \in Txs, q \in Releases : todo'[u][q] # None => todo'[u][q] = todo[u][q]
  BY <1>0, <1>1 DEF TypeOK
<1>6. KeepsRevision'
  BY <1>1, <1>3, <1>4 DEF SInv, KeepsRevision
<1>7. Drafts'
  BY <1>1, <1>3, <1>4, <1>5 DEF SInv, Drafts
<1> QED BY <1>6, <1>7

(* The end of a request frees its rows.                                    *)
LEMMA EndEffect ==
    ASSUME TypeOK, NEW t \in Txs, End(t)
    PROVE  /\ \A r \in Releases : mine'[t][r] = None /\ todo'[t][r] = None
           /\ \A u \in Txs \ {t} : mine'[u] = mine[u] /\ todo'[u] = todo[u]
BY DEF End, TypeOK, NoRows

LEMMA RollbackSeries ==
    ASSUME SInv, NEW t \in Txs, Rollback(t)
    PROVE  KeepsRevision' /\ Drafts' /\ Series'
<1>0. TypeOK
  BY DEF SInv, UInv, TInv
<1>1. /\ release' = release
      /\ \A r \in Releases : mine'[t][r] = None /\ todo'[t][r] = None
      /\ \A u \in Txs \ {t} : mine'[u] = mine[u] /\ todo'[u] = todo[u]
  BY <1>0, EndEffect DEF Rollback
<1>2. /\ \A r \in Releases : ~Fresh(t, r)'
      /\ \A u \in Txs \ {t}, r \in Releases : Fresh(u, r)' <=> Fresh(u, r)
  BY <1>1 DEF Fresh
<1>3. Series'
  BY <1>1, <1>2, SameSeries DEF SInv, SameVersion
<1>4. KeepsRevision' /\ Drafts'
  BY <1>1 DEF SInv, KeepsRevision, Drafts
<1> QED BY <1>3, <1>4

(* A commit leaves the committed revisions of another request's versions   *)
(* alone.                                                                  *)
LEMMA CommitSeries ==
    ASSUME SInv, NEW t \in Txs, Commit(t)
    PROVE  KeepsRevision' /\ Drafts' /\ Series'
<1>0. TypeOK /\ RowInv /\ InOrder
  BY DEF SInv, UInv, TInv
<1>1. /\ \A r \in Releases : release'[r] = Seen(t, r)
      /\ \A r \in Releases : mine'[t][r] = None /\ todo'[t][r] = None
      /\ \A u \in Txs \ {t} : mine'[u] = mine[u] /\ todo'[u] = todo[u]
  BY <1>0, EndEffect DEF Commit
<1>2. \A u \in Txs \ {t}, r \in Releases : mine[u][r] # None => release'[r] = release[r]
  BY <1>0, <1>1 DEF RowInv, Exclusive, Seen
<1>3. KeepsRevision'
  BY <1>1, <1>2 DEF SInv, KeepsRevision
<1>4. Drafts'
  BY <1>1 DEF SInv, Drafts, Seen
<1>5. \A u \in Txs \ {t}, r \in Releases : Fresh(u, r)' <=> Fresh(u, r)
  BY <1>1, <1>2 DEF Fresh
<1>6. Series'
  <2> SUFFICES ASSUME NEW u \in Txs, NEW r \in Releases, Fresh(u, r)' PROVE InSeries(u, r)'
    BY DEF Series
  <2>1. u # t
    BY <1>1 DEF Fresh
  <2>2. Fresh(u, r) /\ InSeries(u, r) /\ mine'[u] = mine[u] /\ todo'[u] = todo[u]
    BY <1>1, <1>5, <2>1 DEF SInv, Series
  <2>3. locks[mine[u][r].app] # t
    BY <1>0, <2>1, <2>2, FreshHolds
  <2>4. ASSUME NEW q \in Releases, InVersion(q, mine[u][r])'
        PROVE  InVersion(q, mine[u][r]) /\ release[q].rev = release'[q].rev
    <3>1. Seen(t, q) # None /\ Seen(t, q).rev # None /\ SameVersion(Seen(t, q), mine[u][r])
      BY <1>1, <2>2, <2>4 DEF InVersion
    <3>2. locks[Seen(t, q).app] # t
      BY <2>3, <3>1 DEF SameVersion
    <3>3. /\ release[q] # None /\ release[q].rev = Seen(t, q).rev
          /\ SameVersion(Seen(t, q), release[q])
      BY <1>0, <3>1, <3>2, SeenWithoutLock
    <3> QED BY <1>1, <3>1, <3>3 DEF InVersion, SameVersion
  <2>5. ASSUME NEW q \in Releases, InVersion(q, mine[u][r])
        PROVE  InVersion(q, mine[u][r])' /\ release[q].rev = release'[q].rev
    <3>1. Seen(t, q) # None /\ Seen(t, q).rev # None /\ SameVersion(Seen(t, q), release[q])
      BY <1>0, <2>5 DEF SInv, KeepsRevision, RowInv, OwnVersion, InVersion, Seen, SameVersion
    <3>2. locks[Seen(t, q).app] # t
      BY <2>3, <2>5, <3>1 DEF SameVersion, InVersion
    <3>3. release[q].rev = Seen(t, q).rev
      BY <1>0, <3>1, <3>2, SeenWithoutLock
    <3> QED BY <1>1, <2>2, <2>5, <3>1, <3>3 DEF InVersion, SameVersion
  <2>6. Exceeds(u, r)'
    BY <2>2, <2>4 DEF InSeries, Exceeds
  <2>7. Ascends(u, r)'
    BY <1>5, <2>1, <2>2 DEF InSeries, Ascends
  <2>8. NoGap(u, r)'
    BY <1>5, <2>1, <2>2, <2>5 DEF InSeries, NoGap
  <2>9. Precedes(u, r)'
    BY <2>2 DEF InSeries, Precedes
  <2> QED BY <2>6, <2>7, <2>8, <2>9 DEF InSeries
<1> QED BY <1>3, <1>4, <1>6

LEMMA SInvStep == KeepsVersion /\ SInv /\ [Next]_vars => SInv'
<1> SUFFICES ASSUME KeepsVersion, SInv, [Next]_vars PROVE SInv'
  OBVIOUS
<1>0. /\ TInv /\ UInv' /\ InOrder' /\ TypeOK'
      /\ KeepsRevision /\ Drafts /\ Series
  BY UInvStep, InOrderStep DEF SInv, UInv, OInv, TInv
<1> SUFFICES KeepsRevision' /\ Drafts' /\ Series'
  BY <1>0 DEF SInv
<1>1. ASSUME NEW t \in Txs, NEW r \in Releases, NEW new \in NewReleases, Create(t, r, new)
      PROVE  KeepsRevision' /\ Drafts' /\ Series'
  BY <1>1, CreateSeries
<1>2. ASSUME NEW t \in Txs, NEW rs \in PatchTargets, NEW p \in Patches, Receive(t, rs, p)
      PROVE  KeepsRevision' /\ Drafts' /\ Series'
  BY <1>0, <1>2, QuietSeries DEF Receive
<1>3. ASSUME NEW t \in Txs, Prerun(t) PROVE KeepsRevision' /\ Drafts' /\ Series'
  BY <1>3, PrerunSeries
<1>4. ASSUME NEW t \in Txs, NullRevisions(t) PROVE FALSE
  BY <1>4 DEF NullRevisions, SInv, UInv, Fixed
<1>5. ASSUME NEW t \in Txs, Run(t) PROVE KeepsRevision' /\ Drafts' /\ Series'
  BY <1>5, RunSeries
<1>6. ASSUME NEW t \in Txs, NEW a \in Apps, Lock(t, a) PROVE KeepsRevision' /\ Drafts' /\ Series'
  BY <1>0, <1>6, QuietSeries DEF Lock
<1>7. ASSUME NEW t \in Txs, NEW r \in Releases, Assign(t, r)
      PROVE  KeepsRevision' /\ Drafts' /\ Series'
  BY <1>0, <1>7, AssignKeeps, AssignSeries
<1>8. ASSUME NEW t \in Txs, Track(t) \/ SetTarget(t) PROVE KeepsRevision' /\ Drafts' /\ Series'
  BY <1>0, <1>8, QuietSeries DEF Track, SetTarget
<1>9. ASSUME NEW t \in Txs, Commit(t) PROVE KeepsRevision' /\ Drafts' /\ Series'
  BY <1>9, CommitSeries
<1>10. ASSUME NEW t \in Txs, Rollback(t) PROVE KeepsRevision' /\ Drafts' /\ Series'
  BY <1>10, RollbackSeries
<1>11. CASE UNCHANGED vars
  BY <1>0, <1>11, QuietSeries DEF vars
<1> QED BY <1>1, <1>2, <1>3, <1>4, <1>5, <1>6, <1>7, <1>8, <1>9, <1>10, <1>11 DEF Next

(***************************************************************************)
(* The refinement itself: a commit numbers the releases whose revision it  *)
(* publishes, and every other step stutters.                               *)
(***************************************************************************)
VersionTuple(x) == <<x.app, x.sem, x.var>>

LEMMA NumberedRow ==
    ASSUME NEW x \in Row, x.rev # None
    PROVE  [version |-> VersionTuple(x), rev |-> x.rev] # None
<1>1. x.app \in Apps /\ x.sem \in Semvers /\ x.var \in Variants /\ x.rev \in Nat
  BY DEF Row
<1>2. VersionTuple(x) \in Apps \X Semvers \X Variants
  BY <1>1 DEF VersionTuple
<1> QED BY <1>1, <1>2, NumberedAssumption

LEMMA AllStay ==
    ASSUME KeepsVersion, NEW x PROVE Stays(x)
BY DEF KeepsVersion, Stays

LEMMA NumberedIs ==
    ASSUME KeepsVersion, TypeOK, TypeOK', NEW r \in Releases
    PROVE  /\ Numbered[r] = IF release[r] # None /\ release[r].rev # None
                            THEN [version |-> VersionTuple(release[r]), rev |-> release[r].rev]
                            ELSE None
           /\ Numbered'[r] = IF release'[r] # None /\ release'[r].rev # None
                             THEN [version |-> VersionTuple(release'[r]), rev |-> release'[r].rev]
                             ELSE None
           /\ release[r] # None /\ release[r].rev # None => Numbered[r] # None
           /\ release'[r] # None /\ release'[r].rev # None => Numbered'[r] # None
<1>1. Stays(release[r]) /\ Stays(release'[r])
  BY AllStay
<1>2. /\ Numbered[r] = IF release[r] # None /\ release[r].rev # None
                       THEN [version |-> VersionTuple(release[r]), rev |-> release[r].rev]
                       ELSE None
      /\ Numbered'[r] = IF release'[r] # None /\ release'[r].rev # None
                        THEN [version |-> VersionTuple(release'[r]), rev |-> release'[r].rev]
                        ELSE None
  BY <1>1 DEF Numbered, VersionTuple
<1>3. /\ release[r] # None => release[r] \in Row
      /\ release'[r] # None => release'[r] \in Row
  BY DEF TypeOK
<1> QED BY <1>2, <1>3, NumberedRow

LEMMA SameTuple ==
    ASSUME NEW x, NEW y
    PROVE  VersionTuple(x) = VersionTuple(y) <=> SameVersion(x, y)
BY DEF VersionTuple, SameVersion

LEMMA CommitNumbers ==
    ASSUME KeepsVersion, SInv, TypeOK', NEW t \in Txs, Commit(t)
    PROVE  R!Number({r \in Releases : Fresh(t, r)})
<1> DEFINE F == {r \in Releases : Fresh(t, r)}
<1>0. TypeOK /\ RowInv /\ KeepsRevision /\ Series
  BY DEF SInv, UInv, TInv
<1>1. \A r \in Releases : release'[r] = Seen(t, r)
  BY DEF Commit
<1>2. ASSUME NEW r \in Releases \ F PROVE Numbered'[r] = Numbered[r]
  <2>1. CASE mine[t][r] = None
    BY <1>0, <1>1, <2>1, NumberedIs DEF Seen
  <2>2. CASE mine[t][r] # None /\ mine[t][r].rev = None
    <3>1. release[r] = None \/ release[r].rev = None
      BY <1>0, <2>2 DEF KeepsRevision
    <3> QED BY <1>0, <1>1, <2>2, <3>1, NumberedIs DEF Seen
  <2>3. CASE mine[t][r] # None /\ mine[t][r].rev # None
    <3>1. release[r] # None /\ release[r].rev = mine[t][r].rev /\ release'[r] = mine[t][r]
      BY <1>1, <1>2, <2>3 DEF Fresh, Seen
    <3>2. VersionTuple(release'[r]) = VersionTuple(release[r])
      BY <1>0, <2>3, <3>1, SameTuple DEF RowInv, OwnVersion
    <3> QED BY <1>0, <2>3, <3>1, <3>2, NumberedIs
  <2> QED BY <2>1, <2>2, <2>3
<1>3. ASSUME NEW r \in F
      PROVE  /\ r \in Releases /\ release'[r] = mine[t][r] /\ InSeries(t, r)
             /\ Numbered'[r] = [version |-> VersionTuple(mine[t][r]), rev |-> mine[t][r].rev]
             /\ Numbered'[r] # None
  <2>1. Fresh(t, r) /\ release'[r] = mine[t][r] /\ InSeries(t, r)
    BY <1>0, <1>1 DEF Fresh, Seen, Series
  <2> QED BY <1>0, <2>1, NumberedIs DEF Fresh
<1>4. ASSUME NEW r \in F
       PROVE  Numbered'[r].version = VersionTuple(mine[t][r]) /\ Numbered'[r].rev = mine[t][r].rev
  <2>1. Numbered'[r] = [version |-> VersionTuple(mine[t][r]), rev |-> mine[t][r].rev]
    BY <1>3
  <2> QED BY <2>1
<1>5. ASSUME NEW r \in F PROVE Exceeds(t, r) /\ Ascends(t, r) /\ NoGap(t, r)
  BY <1>3 DEF InSeries
<1>6. ASSUME NEW r \in F, NEW q \in Releases, Numbered[q] # None,
             Numbered[q].version = Numbered'[r].version
      PROVE  InVersion(q, mine[t][r]) /\ Numbered[q].rev = release[q].rev
  <2>1. /\ release[q] # None /\ release[q].rev # None
        /\ Numbered[q] = [version |-> VersionTuple(release[q]), rev |-> release[q].rev]
    BY <1>0, <1>6, NumberedIs
  <2>2. VersionTuple(release[q]) = VersionTuple(mine[t][r])
    BY <1>6, <1>4, <2>1
  <2> QED BY <2>1, <2>2, SameTuple DEF InVersion
<1>7. ASSUME NEW r \in F, NEW q \in Releases, InVersion(q, mine[t][r])
      PROVE  /\ Numbered[q] # None /\ Numbered[q].rev = release[q].rev
             /\ Numbered[q].version = Numbered'[r].version
  <2>1. release[q] # None /\ release[q].rev # None /\ SameVersion(release[q], mine[t][r])
    BY <1>7 DEF InVersion
  <2>2. /\ Numbered[q] = [version |-> VersionTuple(release[q]), rev |-> release[q].rev]
        /\ Numbered[q] # None
    BY <1>0, <2>1, NumberedIs
  <2>3. VersionTuple(release[q]) = VersionTuple(mine[t][r])
    BY <2>1, SameTuple
  <2> QED BY <1>4, <2>2, <2>3
<1>8. ASSUME NEW r \in F, NEW q \in F
      PROVE  /\ Numbered'[q].version = Numbered'[r].version <=> SameVersion(mine[t][q], mine[t][r])
             /\ Numbered'[q].rev = mine[t][q].rev
  <2>1. /\ Numbered'[r] = [version |-> VersionTuple(mine[t][r]), rev |-> mine[t][r].rev]
        /\ Numbered'[q] = [version |-> VersionTuple(mine[t][q]), rev |-> mine[t][q].rev]
    BY <1>3
  <2>2. VersionTuple(mine[t][q]) = VersionTuple(mine[t][r]) <=> SameVersion(mine[t][q], mine[t][r])
    BY SameTuple
  <2> QED BY <2>1, <2>2
<1>9. ASSUME NEW r \in F
      PROVE  Numbered[r] # None => Numbered[r].version = Numbered'[r].version
  <2> SUFFICES ASSUME Numbered[r] # None PROVE Numbered[r].version = Numbered'[r].version
    OBVIOUS
  <2>1. /\ release[r] # None
        /\ Numbered[r] = [version |-> VersionTuple(release[r]), rev |-> release[r].rev]
    BY <1>0, NumberedIs
  <2>2. SameVersion(release[r], mine[t][r])
    BY <1>0, <1>3, <2>1 DEF RowInv, OwnVersion, Fresh, SameVersion
  <2>3. VersionTuple(release[r]) = VersionTuple(mine[t][r])
    BY <2>2, SameTuple
  <2> QED BY <1>4, <2>1, <2>3
<1> DEFINE Before(r) == R!RevisionsIn(Numbered', {q \in F : q < r}, Numbered'[r].version)
<1>10. ASSUME NEW r \in F, NEW m \in Before(r) PROVE m < Numbered'[r].rev
  <2>1. PICK q \in F : q < r /\ Numbered'[q].version = Numbered'[r].version /\ m = Numbered'[q].rev
    BY <1>10 DEF R!RevisionsIn
  <2> QED BY <1>3, <1>8, <2>1 DEF InSeries, Ascends
<1>11. ASSUME NEW r \in F, NEW m \in R!RevisionsIn(Numbered, Releases \ F, Numbered'[r].version)
      PROVE  m < Numbered'[r].rev
  <2>1. PICK q \in Releases : /\ Numbered[q] # None /\ m = Numbered[q].rev
                              /\ Numbered[q].version = Numbered'[r].version
    BY <1>11 DEF R!RevisionsIn
  <2>2. InVersion(q, mine[t][r]) /\ m = release[q].rev
    BY <1>6, <1>11, <2>1
  <2>3. Exceeds(t, r) /\ Numbered'[r].rev = mine[t][r].rev
    BY <1>4, <1>5
  <2> QED BY <2>2, <2>3 DEF Exceeds
<1>12. ASSUME NEW r \in F
       PROVE  \/ Numbered'[r].rev = 0
              \/ Numbered'[r].rev - 1
                   \in Before(r) \cup R!RevisionsIn(Numbered, Releases, Numbered'[r].version)
  <2>1. NoGap(t, r) /\ Numbered'[r].rev = mine[t][r].rev
    BY <1>4, <1>5
  <2>2. ASSUME NEW q \in Releases, InVersion(q, mine[t][r]), release[q].rev = mine[t][r].rev - 1
        PROVE  Numbered'[r].rev - 1 \in R!RevisionsIn(Numbered, Releases, Numbered'[r].version)
    BY <1>7, <2>1, <2>2 DEF R!RevisionsIn
  <2>3. ASSUME NEW q \in Releases, Fresh(t, q), q < r, SameVersion(mine[t][q], mine[t][r]),
               mine[t][q].rev = mine[t][r].rev - 1
        PROVE  Numbered'[r].rev - 1 \in Before(r)
    <3>1. q \in F /\ Numbered'[q] # None
      BY <1>3, <2>3
    <3>2. Numbered'[q].version = Numbered'[r].version /\ Numbered'[q].rev = mine[t][q].rev
      BY <1>8, <1>12, <2>3, <3>1
    <3> QED BY <2>1, <2>3, <3>1, <3>2 DEF R!RevisionsIn
  <2> QED BY <2>1, <2>2, <2>3 DEF NoGap
<1>13. R!Number(F)
  <2> HIDE DEF F
  <2>1. ASSUME NEW r \in F
        PROVE  LET version == Numbered'[r].version
                   n == Numbered'[r].rev
                   before == R!RevisionsIn(Numbered', {q \in F : q < r}, version)
               IN  /\ Numbered[r] # None => Numbered[r].version = version
                   /\ \A m \in before \cup R!RevisionsIn(Numbered, Releases \ F, version) : m < n
                   /\ n = 0 \/ n - 1 \in before \cup R!RevisionsIn(Numbered, Releases, version)
    BY <1>9, <1>10, <1>11, <1>12
  <2> QED BY <1>2, <1>3, <2>1 DEF R!Number
<1> QED BY <1>13

LEMMA OnlyCommitsShow ==
    ASSUME [Next]_vars
    PROVE  release' = release \/ \E t \in Txs : Commit(t)
<1>1. ASSUME NEW t \in Txs, NEW r \in Releases, NEW new \in NewReleases, Create(t, r, new)
      PROVE  release' = release
  BY <1>1 DEF Create, Write
<1>2. ASSUME NEW t \in Txs,
             \/ \E rs \in PatchTargets, p \in Patches : Receive(t, rs, p)
             \/ Prerun(t) \/ NullRevisions(t) \/ Run(t)
             \/ \E a \in Apps : Lock(t, a)
      PROVE  release' = release
  BY <1>2 DEF Receive, Prerun, NullRevisions, Run, Lock, Write
<1>3. ASSUME NEW t \in Txs, NEW r \in Releases, Assign(t, r) PROVE release' = release
  BY <1>3 DEF Assign, Write
<1>4. ASSUME NEW t \in Txs, Track(t) \/ SetTarget(t) \/ Rollback(t) PROVE release' = release
  BY <1>4 DEF Track, SetTarget, Rollback
<1>5. CASE UNCHANGED vars
  BY <1>5 DEF vars
<1> QED BY <1>1, <1>2, <1>3, <1>4, <1>5 DEF Next

(* However many requests create and finalize releases at once, and         *)
(* whichever of them roll back, the revisions are those of commits that    *)
(* number their releases one after the other, each request in the order of *)
(* its releases, as long as no PATCH changes a version.                    *)
THEOREM RevisionsSerial == KeepsVersion => (Spec => IsSerial)
<1> SUFFICES ASSUME KeepsVersion PROVE Spec => IsSerial
  OBVIOUS
<1>1. Init => R!RevisionsInit
  BY DEF Init, NoRows, Numbered, R!RevisionsInit
<1>2. SInv /\ SInv' /\ [Next]_vars => [R!RevisionsNext]_Numbered
  <2> SUFFICES ASSUME SInv, SInv', [Next]_vars, Numbered' # Numbered PROVE R!RevisionsNext
    OBVIOUS
  <2>1. PICK t \in Txs : Commit(t)
    BY OnlyCommitsShow DEF Numbered
  <2>2. R!Number({r \in Releases : Fresh(t, r)})
    BY <2>1, CommitNumbers DEF SInv, UInv, TInv
  <2> QED BY <2>2 DEF R!RevisionsNext
<1>3. SInv /\ [Next]_vars => SInv'
  BY SInvStep
<1> QED BY <1>1, <1>2, <1>3, SInvInit, PTL DEF Spec, IsSerial, R!RevisionsSpec
=============================================================================
