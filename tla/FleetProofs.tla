----------------------------- MODULE FleetProofs -----------------------------
(***************************************************************************)
(* Proofs about Fleet, for any devices, applications, releases and         *)
(* requests: however these overlap, the target host app of a device is not *)
(* older than the OS it reports, and a device whose target release changes *)
(* is told; the supervisor of a device is not downgraded; a device has the *)
(* service installs of its target releases, whether the requests insert    *)
(* them or tasks do; and, without tasks, nothing of an application it left.*)
(*                                                                         *)
(* All rest on what holds of a request and of the rows it has written,     *)
(* Good: a transaction holds the rows it wrote, so what they were copied   *)
(* from is still in the table when it commits.                             *)
(***************************************************************************)
EXTENDS Fleet, FiniteSetTheorems, TLAPS

(* A finite set has an element that is maximal in a strict partial order:  *)
(* no smaller set of larger ones is left.                                  *)
LEMMA Maximal ==
    ASSUME NEW S, IsFiniteSet(S), S # {}, NEW R,
           \A a \in S : <<a, a>> \notin R,
           \A a, b, c \in S : <<a, b>> \in R /\ <<b, c>> \in R => <<a, c>> \in R
    PROVE  \E a \in S : \A b \in S : <<a, b>> \notin R
<1> DEFINE Above(a) == {b \in S : <<a, b>> \in R}
           Family == {Above(a) : a \in S}
<1>1. Family \subseteq FiniteSubsetsOf(S) /\ Family # {}
  <2>1. ASSUME NEW a \in S PROVE Above(a) \in FiniteSubsetsOf(S)
    <3>1. Above(a) \subseteq S
      OBVIOUS
    <3> HIDE DEF Above
    <3>2. IsFiniteSet(Above(a))
      BY <3>1, FS_Subset
    <3> QED BY <3>1, <3>2 DEF FiniteSubsetsOf
  <2> HIDE DEF Above
  <2> QED BY <2>1
<1>2. IsWellFoundedOn(StrictSubsetOrdering(S), FiniteSubsetsOf(S))
  BY FS_StrictSubsetOrderingWellFounded
<1>3. \E x \in Family : \A y \in Family : ~(<<y, x>> \in StrictSubsetOrdering(S))
  <2> HIDE DEF Family
  <2> QED BY <1>1, <1>2, WFMin
<1>4. PICK a \in S : \A b \in S : ~(<<Above(b), Above(a)>> \in StrictSubsetOrdering(S))
  <2>1. PICK x \in Family : \A y \in Family : ~(<<y, x>> \in StrictSubsetOrdering(S))
    BY <1>3
  <2>2. PICK a \in S : x = Above(a)
    OBVIOUS
  <2>3. \A b \in S : Above(b) \in Family
    OBVIOUS
  <2> HIDE DEF Above, Family
  <2> QED BY <2>1, <2>2, <2>3
<1>5. ASSUME NEW b \in S, <<a, b>> \in R PROVE FALSE
  <2>1. \A c \in Above(b) : c \in Above(a)
    BY <1>5
  <2>2. b \in Above(a) /\ b \notin Above(b)
    BY <1>5
  <2>3. Above(a) \in SUBSET S /\ Above(b) \in SUBSET S
    OBVIOUS
  <2> HIDE DEF Above
  <2> QED BY <1>4, <2>1, <2>2, <2>3 DEF StrictSubsetOrdering
<1> QED BY <1>5

LEMMA ReleaseType ==
    ASSUME NEW r \in Releases
    PROVE  /\ Release[r].semver \in Nat /\ Release[r].created \in Nat
           /\ Release[r].tag \in Nat \cup {Null} /\ Release[r].revision \in Nat \cup {Null}
BY FleetAssumption

(* The queries for a release return one of those that match, or none.      *)
LEMMA OSReleaseType ==
    ASSUME NEW type, NEW version, NEW variant
    PROVE  LET r == OSRelease(type, version, variant)
           IN  r \in Releases \cup {Null} /\ (r # Null => r \in Releases /\ IsOsVersion(r, version, variant))
<1> DEFINE S == {r \in Releases :
                   /\ Release[r].success
                   /\ App[Release[r].app].is_host
                   /\ App[Release[r].app].type = type
                   /\ IsOsVersion(r, version, variant)}
           R == {p \in Releases \X Releases : OsLess(p[1], p[2])}
<1>1. IsFiniteSet(S)
  BY FleetAssumption, FS_Subset
<1>2. \A a \in Releases : <<a, a>> \notin R
  BY ReleaseType DEF OsLess
<1>3. \A a, b, c \in Releases : OsLess(a, b) /\ OsLess(b, c) => OsLess(a, c)
  BY ReleaseType DEF OsLess
<1>4. \A a, b, c \in Releases : <<a, b>> \in R /\ <<b, c>> \in R => <<a, c>> \in R
  BY <1>3
<1>5. S # {} => \E a \in S : \A b \in S : ~OsLess(a, b)
  <2>1. S \subseteq Releases
    OBVIOUS
  <2>2. \A a, b \in Releases : OsLess(a, b) => <<a, b>> \in R
    OBVIOUS
  <2> HIDE DEF S, R
  <2>3. S # {} => \E a \in S : \A b \in S : <<a, b>> \notin R
    BY <1>1, <1>2, <1>4, <2>1, Maximal
  <2> QED BY <2>1, <2>2, <2>3
<1>6. OSRelease(type, version, variant) = Best(S, OsLess)
  BY DEF OSRelease
<1>7. Best(S, OsLess) = IF S = {} THEN Null ELSE CHOOSE r \in S : \A q \in S : ~OsLess(r, q)
  BY DEF Best
<1>8. Best(S, OsLess) \in S \cup {Null}
  <2> HIDE DEF S
  <2> QED BY <1>5, <1>7
<1> QED BY <1>6, <1>8, FleetAssumption

LEMMA SupervisorReleaseType ==
    ASSUME NEW version, NEW arch
    PROVE  LET r == SupervisorRelease(version, arch)
           IN  r \in Releases \cup {Null} /\ (r # Null => App[Release[r].app].is_supervisor)
<1> DEFINE S == {r \in Releases :
                   /\ Release[r].semver = version
                   /\ Release[r].success
                   /\ App[Release[r].app].is_supervisor
                   /\ CpuArch[App[Release[r].app].type] = arch}
           R == {p \in Releases \X Releases : RawLess(p[1], p[2])}
<1>1. IsFiniteSet(S)
  BY FleetAssumption, FS_Subset
<1>2. \A a \in Releases : <<a, a>> \notin R
  BY ReleaseType DEF RawLess, Final
<1>3. \A a, b, c \in Releases : RawLess(a, b) /\ RawLess(b, c) => RawLess(a, c)
  BY ReleaseType DEF RawLess, Final
<1>4. \A a, b, c \in Releases : <<a, b>> \in R /\ <<b, c>> \in R => <<a, c>> \in R
  BY <1>3
<1>5. S # {} => \E a \in S : \A b \in S : ~RawLess(a, b)
  <2>1. S \subseteq Releases
    OBVIOUS
  <2>2. \A a, b \in Releases : RawLess(a, b) => <<a, b>> \in R
    OBVIOUS
  <2> HIDE DEF S, R
  <2>3. S # {} => \E a \in S : \A b \in S : <<a, b>> \notin R
    BY <1>1, <1>2, <1>4, <2>1, Maximal
  <2> QED BY <2>1, <2>2, <2>3
<1>6. SupervisorRelease(version, arch) = Best(S, RawLess)
  BY DEF SupervisorRelease
<1>7. Best(S, RawLess) = IF S = {} THEN Null ELSE CHOOSE r \in S : \A q \in S : ~RawLess(r, q)
  BY DEF Best
<1>8. Best(S, RawLess) \in S \cup {Null}
  <2> HIDE DEF S
  <2> QED BY <1>5, <1>7
<1> QED BY <1>6, <1>8

-----------------------------------------------------------------------------
(* Rows and bodies. *)

(* A PATCH changes the fields that are given and no other.                 *)
After(old, v, new) ==
    /\ new.app = IF v.app = Undefined THEN old.app ELSE v.app
    /\ new.pin = IF v.pin = Undefined THEN old.pin ELSE v.pin
    /\ new.operated = IF v.operated = Undefined THEN old.operated ELSE v.operated
    /\ new.os = IF v.os = Undefined THEN old.os ELSE v.os
    /\ new.variant = IF v.variant = Undefined THEN old.variant ELSE v.variant

(* The same but for the supervisor.                                        *)
Alike(old, new) ==
    /\ new.app = old.app /\ new.pin = old.pin /\ new.operated = old.operated
    /\ new.os = old.os /\ new.variant = old.variant

LEMMA AssignIs ==
    ASSUME NEW row \in Row, NEW v \in PatchBody
    PROVE  Assign(row, v) \in Row /\ After(row, v, Assign(row, v))
BY DEF Assign, Row, PatchBody, After

LEMMA ParsedIs ==
    ASSUME NEW b \in PatchBody
    PROVE  ParsedType(ParsedMove(b)) \in PatchBody
<1>1. ParsedMove(b) \in PatchBody
  BY DEF ParsedMove, PatchBody
<1> DEFINE c == ParsedMove(b)
<1> HIDE DEF c
<1>2. c \in PatchBody
  BY <1>1 DEF c
<1>3. ParsedType(c) \in PatchBody
  BY <1>2 DEF ParsedType, PatchBody
<1> QED BY <1>3 DEF c

LEMMA RegisteredIs ==
    ASSUME NEW b \in Posts
    PROVE  LET row == RegisteredSupervisor(RegisteredOs(b)) IN row \in Row /\ OsNotOlder(row)
<1>1. b \in Row /\ b.operated = Null /\ b.os # 0
  BY FleetAssumption, RegistrationAssumption
<1> DEFINE r == IF Parses(b.os) /\ Given(b.variant) THEN OSRelease(b.type, b.os, b.variant) ELSE Null
           c == RegisteredOs(b)
           s == IF Given(c.sv) THEN SupervisorRelease(c.sv, CpuArch[c.type]) ELSE Null
<1>2. r \in Releases \cup {Null} /\ (r # Null => r \in Releases /\ IsOsVersion(r, b.os, b.variant))
  BY OSReleaseType
<1>3. c = IF r = Null THEN b ELSE [b EXCEPT !.operated = r]
  BY DEF RegisteredOs
<1>4. r # Null => BaseVersion(r) >= b.os \/ ~Parses(b.os)
  <2> SUFFICES ASSUME r # Null, Parses(b.os) PROVE BaseVersion(r) >= b.os
    OBVIOUS
  <2>1. b.os \in Nat
    BY <1>1 DEF Row, Parses, Given
  <2>2. r \in Releases /\ (Release[r].semver = b.os \/ Release[r].tag = b.os)
    BY <1>2 DEF IsOsVersion
  <2> HIDE DEF r
  <2>3. Release[r].semver \in Nat /\ (Release[r].semver # 0 => Release[r].tag \in {Null, Release[r].semver})
    BY <2>2, ReleaseType, RegistrationAssumption
  <2>4. BaseVersion(r) = b.os
    BY <1>1, <2>1, <2>2, <2>3, FleetAssumption DEF BaseVersion
  <2> QED BY <2>1, <2>4
<1>5. c \in Row /\ OsNotOlder(c)
  <2> HIDE DEF r, c
  <2>1. c \in Row
    BY <1>1, <1>2, <1>3 DEF Row
  <2>2. c.os = b.os /\ (c.operated # Null => c.operated = r /\ r # Null)
    BY <1>1, <1>3 DEF Row
  <2> QED BY <1>4, <2>1, <2>2 DEF OsNotOlder
<1>6. s \in Releases \cup {Null}
  BY SupervisorReleaseType
<1>7. RegisteredSupervisor(c) = IF s = Null THEN c ELSE [c EXCEPT !.managed = s]
  BY DEF RegisteredSupervisor
<1> DEFINE e == RegisteredSupervisor(c)
<1>8. e \in Row /\ e.os = c.os /\ e.operated = c.operated /\ e.variant = c.variant
  <2> HIDE DEF c, s
  <2> QED BY <1>5, <1>6, <1>7 DEF Row
<1>9. OsNotOlder(e)
  <2> HIDE DEF c, e
  <2> QED BY <1>5, <1>8 DEF OsNotOlder
<1> QED BY <1>8, <1>9

-----------------------------------------------------------------------------
(* Requests. *)

Steps == {"idle", "prerun", "supervisor", "update", "postrun", "open", "notify"}

RequestType(r) ==
    r \in [pc : Steps, kind : {"device", "post", "app"},
           body : PatchBody \cup Row \cup AppBody \cup {None}, ids : SUBSET Devices,
           moved : {r.moved}, supervisor : [Devices -> Releases \cup {Null}],
           mine : [Devices -> Row \cup {None}], ins : {r.ins}, del : {r.del}, todo : {r.todo},
           posted : {r.posted}, tell : SUBSET Devices]

Bodied(r) ==
    /\ r.kind = "device" /\ r.pc # "idle" => r.body \in PatchBody
    /\ r.kind = "app" => r.body \in AppBody
    /\ r.pc \in {"supervisor", "update", "prerun", "postrun"} => r.kind = "device"

(* A request writes rows of its own devices, and in its transaction.       *)
WritesIds(r, dev) ==
    /\ r.pc \in {"idle", "notify", "prerun"} \/ r.kind = "app" => \A d \in Devices : r.mine[d] = None
    /\ r.kind = "device" /\ r.pc \notin {"idle", "notify"} =>
         /\ \A d \in Devices : r.supervisor[d] # Null \/ r.mine[d] # None => d \in r.ids
         /\ \A d \in r.ids : dev[d] # Null
    /\ r.kind = "post" => \A d \in Devices : r.mine[d] # None => dev[d] = Null

(* What the rows it wrote are, compared with those in the table.           *)
WritesRows(r, dev) ==
    \A d \in Devices : r.mine[d] # None =>
        /\ r.pc \in {"supervisor", "update"} => Alike(dev[d], r.mine[d])
        /\ r.pc = "postrun" => After(dev[d], r.body, r.mine[d])
        /\ r.pc = "open" /\ r.kind = "device" /\ ~Tells(r.body) =>
             r.mine[d].app = dev[d].app /\ r.mine[d].pin = dev[d].pin
        /\ r.pc = "open" => OsNotOlder(r.mine[d])

WroteAll(r) ==
    /\ r.pc = "postrun" => \A d \in r.ids : r.mine[d] # None
    /\ r.pc = "open" /\ r.kind = "device" /\ Tells(r.body) => r.ids \subseteq r.tell

Good(r, dev) == RequestType(r) /\ Bodied(r) /\ WritesIds(r, dev) /\ WritesRows(r, dev) /\ WroteAll(r)

(* No two transactions have written the same row.                          *)
RowLocks ==
    \A p, q \in Requests, d \in Devices :
        request[p].mine[d] # None /\ request[q].mine[d] # None => p = q

TablesType ==
    /\ target \in [Apps -> Releases \cup {Null}]
    /\ device \in [Devices -> Row \cup {Null}]
    /\ running \in [Devices -> Releases \cup {Null}]
    /\ DOMAIN request = Requests /\ request = [q \in Requests |-> request[q]]

RInv ==
    /\ TablesType
    /\ \A q \in Requests : Good(request[q], device)
    /\ RowLocks
    /\ OsTargetNotOlder

(* A client with no request in flight holds no row and no supervisor.       *)
LEMMA IdleType ==
    RequestType(Idle) /\ \A d \in Devices : Idle.mine[d] = None /\ Idle.supervisor[d] = Null
BY DEF RequestType, Idle, Steps

(* The record of a request that posts the row of a new device.             *)
LEMMA PostRequest ==
    ASSUME NEW row \in Row, NEW d \in Devices
    PROVE  LET rec == [Idle EXCEPT !.pc = "open", !.kind = "post", !.body = row, !.ids = {d},
                         !.mine = [Idle.mine EXCEPT ![d] = row]]
           IN  /\ rec.pc = "open" /\ rec.kind = "post" /\ rec.ids = {d} /\ rec.mine[d] = row
               /\ \A e \in Devices \ {d} : rec.mine[e] = None
               /\ RequestType(rec)
<1> DEFINE mine == [Idle.mine EXCEPT ![d] = row]
           rec == [Idle EXCEPT !.pc = "open", !.kind = "post", !.body = row, !.ids = {d}, !.mine = mine]
<1>1. Idle.mine \in [Devices -> Row \cup {None}]
  BY IdleType DEF RequestType
<1>2. /\ mine \in [Devices -> Row \cup {None}] /\ mine[d] = row
      /\ \A e \in Devices \ {d} : mine[e] = None
  BY <1>1, IdleType
<1> HIDE DEF mine
<1>3. /\ rec.pc = "open" /\ rec.kind = "post" /\ rec.ids = {d} /\ rec.mine = mine
      /\ RequestType(rec)
  <2> HIDE FleetAssumption
  <2>1. RequestType(Idle)
    BY IdleType
  <2>2. rec.pc = "open" /\ rec.kind = "post" /\ rec.ids = {d} /\ rec.mine = mine
    BY <2>1 DEF RequestType
  <2> DEFINE half == [Idle EXCEPT !.pc = "open", !.kind = "post", !.body = row]
  <2>3. RequestType(half)
    BY <2>1 DEF RequestType, Steps
  <2>4. rec = [half EXCEPT !.ids = {d}, !.mine = mine]
    OBVIOUS
  <2> HIDE DEF rec, half
  <2>5. RequestType(rec)
    BY <1>2, <2>3, <2>4 DEF RequestType
  <2> QED BY <2>2, <2>3, <2>5
<1> HIDE DEF rec
<1>4. /\ rec.pc = "open" /\ rec.kind = "post" /\ rec.ids = {d} /\ rec.mine[d] = row
      /\ \A e \in Devices \ {d} : rec.mine[e] = None
      /\ RequestType(rec)
  BY <1>2, <1>3
<1> QED BY <1>4 DEF rec, mine

LEMMA IdleGood == \A dev : Good(Idle, dev)
<1> TAKE dev
<1> USE FleetAssumption
<1>1. RequestType(Idle) /\ \A d \in Devices : Idle.mine[d] = None /\ Idle.supervisor[d] = Null
  BY IdleType
<1>2. Idle.pc = "idle" /\ Idle.kind = "device" /\ Idle.ids = {}
  BY DEF Idle
<1> QED BY <1>1, <1>2 DEF Good, Bodied, WritesIds, WritesRows, WroteAll

(* What others write, and new rows, do not concern a request.              *)
LEMMA GoodFrame ==
    ASSUME NEW r, NEW dev, NEW new, Good(r, dev),
           \A d \in Devices : r.mine[d] # None => new[d] = dev[d],
           \A d \in Devices : dev[d] # Null => new[d] # Null
    PROVE  Good(r, new)
<1>1. RequestType(r)
  BY DEF Good
<1>2. r.ids \subseteq Devices
  BY <1>1 DEF RequestType
<1>3. WritesIds(r, new)
  BY <1>2 DEF Good, WritesIds
<1>4. WritesRows(r, new)
  BY DEF Good, WritesRows
<1> QED BY <1>3, <1>4 DEF Good

(* createReleaseServiceInstalls has no part in the rest of the request.    *)
LEMMA CreateKeeps ==
    ASSUME NEW rec, RequestType(rec), NEW calls
    PROVE  LET new == CreateServiceInstalls(rec, calls)
           IN  /\ RequestType(new)
               /\ new.pc = rec.pc /\ new.kind = rec.kind /\ new.body = rec.body /\ new.ids = rec.ids
               /\ new.supervisor = rec.supervisor /\ new.mine = rec.mine /\ new.tell = rec.tell
<1>1. \E x : CreateServiceInstalls(rec, calls) \in {[rec EXCEPT !.posted = x], [rec EXCEPT !.todo = x]}
  BY Zenon DEF CreateServiceInstalls
<1>2. PICK x : CreateServiceInstalls(rec, calls) \in {[rec EXCEPT !.posted = x], [rec EXCEPT !.todo = x]}
  BY <1>1
<1> QED BY <1>2 DEF RequestType

LEMMA CreateGood ==
    ASSUME NEW rec, NEW dev, Good(rec, dev), NEW calls
    PROVE  /\ Good(CreateServiceInstalls(rec, calls), dev)
           /\ CreateServiceInstalls(rec, calls).mine = rec.mine
<1> DEFINE new == CreateServiceInstalls(rec, calls)
<1>1. /\ RequestType(new)
      /\ new.pc = rec.pc /\ new.kind = rec.kind /\ new.body = rec.body /\ new.ids = rec.ids
      /\ new.supervisor = rec.supervisor /\ new.mine = rec.mine /\ new.tell = rec.tell
  BY CreateKeeps DEF Good
<1> HIDE DEF new
<1>2. Good(new, dev)
  BY <1>1 DEF Good, Bodied, WritesIds, WritesRows, WroteAll
<1> QED BY <1>1, <1>2 DEF new

(* A step of one request that leaves the tables alone, and writes no row   *)
(* that another has written.                                               *)
LEMMA GotoKeeps ==
    ASSUME RInv, NEW q \in Requests, NEW rec, Good(rec, device),
           request' = [request EXCEPT ![q] = rec], UNCHANGED <<target, device, running>>,
           \A d \in Devices : rec.mine[d] # None => request[q].mine[d] # None \/ d \notin RowsOf(q)
    PROVE  RInv'
<1>1. request'[q] = rec /\ \A p \in Requests \ {q} : request'[p] = request[p]
  BY DEF RInv, TablesType
<1>2. TablesType'
  BY DEF RInv, TablesType
<1>3. \A p \in Requests : Good(request'[p], device')
  BY <1>1 DEF RInv
<1>4. RowLocks'
  <2> SUFFICES ASSUME NEW p \in Requests, NEW o \in Requests, NEW d \in Devices,
                      request'[p].mine[d] # None, request'[o].mine[d] # None
               PROVE  p = o
    BY DEF RowLocks
  <2>1. \A n \in Requests \ {q} : request[n].mine[d] # None => rec.mine[d] = None
    BY DEF RInv, RowLocks, RowsOf
  <2> QED BY <1>1, <2>1 DEF RInv, RowLocks
<1>5. OsTargetNotOlder'
  BY DEF RInv, OsTargetNotOlder, Exist
<1> QED BY <1>2, <1>3, <1>4, <1>5 DEF RInv

LEMMA RInvInit == Init => RInv
<1> SUFFICES ASSUME Init PROVE RInv
  OBVIOUS
<1> USE FleetAssumption
<1>1. \A q \in Requests : request[q] = Idle
  BY DEF Init
<1>2. RowLocks
  <2>1. \A d \in Devices : Idle.mine[d] = None
    BY DEF Idle
  <2> QED BY <1>1, <2>1 DEF RowLocks
<1>3. TablesType
  <2>1. device \in [Devices -> Row \cup {Null}] /\ target \in [Apps -> Releases \cup {Null}]
    BY DEF Init
  <2>2. ASSUME NEW d \in Devices, device[d] # Null
        PROVE  ShouldBeRunning(device[d], target) \in Releases \cup {Null}
    <3>1. device[d] \in Row
      BY <2>1, <2>2
    <3>2. device[d].pin \in Releases \cup {Null} /\ device[d].app \in Apps
      BY <3>1 DEF Row
    <3> QED BY <2>1, <3>2 DEF ShouldBeRunning
  <2>3. running \in [Devices -> Releases \cup {Null}]
    BY <2>2 DEF Init
  <2> QED BY <2>1, <2>3 DEF Init, TablesType
<1>4. OsTargetNotOlder
  BY RegistrationAssumption DEF Init, OsTargetNotOlder, Exist
<1>5. Good(Idle, device)
  BY IdleGood
<1>6. \A q \in Requests : Good(request[q], device)
  BY <1>1, <1>5
<1> QED BY <1>2, <1>3, <1>4, <1>6 DEF RInv

-----------------------------------------------------------------------------
(* The steps of a PATCH of devices. *)

LEMMA RollBackKeeps ==
    ASSUME RInv, NEW q \in Requests, RollBack(q), UNCHANGED <<target, device, running>>
    PROVE  RInv'
<1>1. Good(Idle, device) /\ \A d \in Devices : Idle.mine[d] = None
  <2>1. \A d \in Devices : Idle.mine[d] = None
    BY DEF Idle
  <2> QED BY <2>1, IdleGood
<1> DEFINE rec == Idle
<1> HIDE DEF rec
<1>2. Good(rec, device) /\ request' = [request EXCEPT ![q] = rec]
  BY <1>1 DEF RollBack, rec
<1>3. \A d \in Devices : rec.mine[d] # None => request[q].mine[d] # None \/ d \notin RowsOf(q)
  BY <1>1 DEF rec
<1> QED BY <1>2, <1>3, GotoKeeps

LEMMA ReceivePatchKeeps ==
    ASSUME RInv, NEW q \in Requests, ReceivePatch(q)
    PROVE  RInv'
<1>1. PICK b \in Bodies, ids \in (SUBSET Exist) \ {{}} :
        Goto(q, [Idle EXCEPT !.pc = "prerun", !.body = ParsedType(ParsedMove(b)), !.ids = ids])
  BY DEF ReceivePatch
<1> DEFINE rec == [Idle EXCEPT !.pc = "prerun", !.body = ParsedType(ParsedMove(b)), !.ids = ids]
<1>2. ParsedType(ParsedMove(b)) \in PatchBody
  BY ParsedIs, FleetAssumption
<1>3. ids \subseteq Devices /\ \A d \in ids : device[d] # Null
  BY DEF Exist
<1>4. /\ rec.pc = "prerun" /\ rec.kind = "device" /\ rec.body \in PatchBody /\ rec.ids = ids
      /\ \A d \in Devices : rec.mine[d] = None /\ rec.supervisor[d] = Null
      /\ RequestType(rec)
  <2> HIDE FleetAssumption
  <2> QED BY <1>2, <1>3 DEF RequestType, Idle, Steps
<1> HIDE DEF rec
<1>5. Good(rec, device)
  BY <1>3, <1>4 DEF Good, Bodied, WritesIds, WritesRows, WroteAll
<1>6. UNCHANGED <<target, device, running>> /\ request' = [request EXCEPT ![q] = rec]
  BY <1>1 DEF ReceivePatch, tables, Goto, rec
<1>7. \A d \in Devices : rec.mine[d] # None => request[q].mine[d] # None \/ d \notin RowsOf(q)
  BY <1>4
<1> QED BY <1>5, <1>6, <1>7, GotoKeeps

LEMMA PreRunKeeps ==
    ASSUME RInv, NEW q \in Requests, PreRun(q)
    PROVE  RInv'
<1> DEFINE r == request[q]
           v == r.body
           step == IF Given(v.sv) THEN "supervisor" ELSE "update"
           moved == IF Given(v.app) THEN {d \in r.ids : device[d].app # v.app} ELSE {}
           supervisor == [d \in Devices |->
                            IF Given(v.sv) /\ d \in r.ids THEN InitialSupervisor(device[d], v.sv)
                                                          ELSE Null]
           rec == [r EXCEPT !.pc = step, !.moved = moved, !.supervisor = supervisor,
                            !.del = Deleted(q, v)]
<1>1. /\ r.pc = "prerun" /\ r.kind = "device" /\ UNCHANGED <<target, device, running>>
      /\ RollBack(q) \/ Goto(q, rec)
  BY DEF PreRun, tables
<1>2. Good(r, device)
  BY DEF RInv
<1>3. \A d \in Devices : InitialSupervisor(device[d], v.sv) \in Releases \cup {Null}
  BY SupervisorReleaseType DEF InitialSupervisor
<1>4. RequestType(r)
  BY <1>2 DEF Good
<1>5. /\ rec.pc \in {"supervisor", "update"} /\ rec.kind = r.kind /\ rec.body = r.body /\ rec.ids = r.ids
      /\ rec.mine = r.mine /\ \A d \in Devices : rec.supervisor[d] # Null => d \in r.ids
      /\ RequestType(rec)
  <2>1. /\ step \in {"supervisor", "update"} /\ supervisor \in [Devices -> Releases \cup {Null}]
        /\ \A d \in Devices : supervisor[d] # Null => d \in r.ids
    BY <1>3
  <2> HIDE DEF r, step, moved, supervisor
  <2>2. /\ rec.pc = step /\ rec.kind = r.kind /\ rec.body = r.body /\ rec.ids = r.ids
        /\ rec.mine = r.mine /\ rec.supervisor = supervisor
    BY <1>4 DEF RequestType
  <2>3. RequestType(rec)
    BY <1>4, <2>1 DEF RequestType, Steps
  <2> HIDE DEF rec
  <2> QED BY <2>1, <2>2, <2>3
<1> HIDE DEF rec
<1>6. Good(rec, device)
  BY <1>1, <1>2, <1>5 DEF Good, Bodied, WritesIds, WritesRows, WroteAll
<1>7. CASE Goto(q, rec)
  <2>1. \A d \in Devices : rec.mine[d] # None => request[q].mine[d] # None \/ d \notin RowsOf(q)
    BY <1>5
  <2>2. request' = [request EXCEPT ![q] = rec]
    BY <1>7 DEF Goto
  <2> QED BY <1>1, <1>6, <2>1, <2>2, GotoKeeps
<1> QED BY <1>1, <1>7, RollBackKeeps

LEMMA SeenRowType ==
    ASSUME RInv, NEW q \in Requests, request[q].kind = "device", request[q].pc \notin {"idle", "notify"},
           NEW d \in request[q].ids
    PROVE  SeenRow(q, d) \in Row /\ device[d] \in Row
<1>1. Good(request[q], device) /\ TablesType
  BY DEF RInv
<1>2. RequestType(request[q]) /\ WritesIds(request[q], device)
  BY <1>1 DEF Good
<1>3. d \in Devices /\ request[q].mine[d] \in Row \cup {None}
  BY <1>2 DEF RequestType
<1>4. device[d] \in Row
  BY <1>1, <1>2, <1>3 DEF TablesType, WritesIds
<1> QED BY <1>3, <1>4 DEF SeenRow

LEMMA SetSupervisorKeeps ==
    ASSUME RInv, NEW q \in Requests, SetSupervisor(q)
    PROVE  RInv'
<1> DEFINE r == request[q]
           sv == r.supervisor
           ids == {d \in Devices : sv[d] # Null}
           mine == [d \in Devices |-> IF d \in ids THEN [SeenRow(q, d) EXCEPT !.managed = sv[d]]
                                       ELSE r.mine[d]]
           rec == [r EXCEPT !.pc = "update", !.mine = mine]
<1>1. /\ r.pc = "supervisor" /\ UNCHANGED <<target, device, running>> /\ ids \cap RowsOf(q) = {}
      /\ \E calls : Goto(q, CreateServiceInstalls(rec, calls))
  BY DEF SetSupervisor, tables
<1>2. Good(r, device)
  BY DEF RInv
<1>3. RequestType(r) /\ r.kind = "device" /\ \A d \in ids : d \in r.ids
  BY <1>1, <1>2 DEF Good, Bodied, WritesIds
<1>4. \A d \in ids : SeenRow(q, d) \in Row /\ device[d] \in Row /\ Alike(device[d], SeenRow(q, d))
  <2> SUFFICES ASSUME NEW d \in ids
               PROVE  SeenRow(q, d) \in Row /\ device[d] \in Row /\ Alike(device[d], SeenRow(q, d))
    OBVIOUS
  <2>1. SeenRow(q, d) \in Row /\ device[d] \in Row
    BY <1>1, <1>3, SeenRowType
  <2>2. Alike(device[d], SeenRow(q, d))
    BY <1>1, <1>2 DEF Good, WritesRows, SeenRow, Alike
  <2> QED BY <2>1, <2>2
<1>5. \A d \in Devices : sv[d] \in Releases \cup {Null} /\ r.mine[d] \in Row \cup {None}
  BY <1>3 DEF RequestType
<1>6. \A d \in ids : mine[d] \in Row /\ Alike(device[d], mine[d])
  <2> SUFFICES ASSUME NEW d \in ids PROVE mine[d] \in Row /\ Alike(device[d], mine[d])
    OBVIOUS
  <2> DEFINE s == SeenRow(q, d)
  <2>1. mine[d] = [s EXCEPT !.managed = sv[d]] /\ s \in Row /\ sv[d] \in Releases \cup {Null}
    BY <1>4, <1>5
  <2>2. Alike(device[d], s)
    BY <1>4
  <2> HIDE DEF s, mine, sv
  <2> QED BY <2>1, <2>2 DEF Row, Alike
<1>7. \A d \in Devices : d \notin ids => mine[d] = r.mine[d]
  OBVIOUS
<1>8. mine \in [Devices -> Row \cup {None}]
  BY <1>5, <1>6, <1>7
<1> HIDE DEF mine
<1>9. /\ rec.pc = "update" /\ rec.kind = r.kind /\ rec.body = r.body /\ rec.ids = r.ids
      /\ rec.mine = mine /\ rec.supervisor = sv /\ RequestType(rec)
  <2> HIDE DEF r
  <2> QED BY <1>3, <1>8 DEF RequestType, Steps
<1> HIDE DEF rec
<1>10. Good(rec, device)
  <2>1. Bodied(rec) /\ WroteAll(rec)
    BY <1>1, <1>2, <1>9 DEF Good, Bodied, WroteAll
  <2>2. WritesIds(rec, device)
    BY <1>1, <1>2, <1>3, <1>7, <1>9 DEF Good, WritesIds
  <2>3. WritesRows(rec, device)
    <3> SUFFICES ASSUME NEW d \in Devices, mine[d] # None PROVE Alike(device[d], mine[d])
      BY <1>9 DEF WritesRows
    <3>1. CASE d \in ids
      BY <1>6, <3>1
    <3>2. CASE d \notin ids
      BY <1>1, <1>2, <1>7, <3>2 DEF Good, WritesRows
    <3> QED BY <3>1, <3>2
  <2> QED BY <1>9, <2>1, <2>2, <2>3 DEF Good
<1>11. PICK calls : Goto(q, CreateServiceInstalls(rec, calls))
  BY <1>1 DEF rec
<1> DEFINE new == CreateServiceInstalls(rec, calls)
<1>12. Good(new, device) /\ new.mine = mine
  BY <1>9, <1>10, CreateGood
<1> HIDE DEF new
<1>13. \A d \in Devices : mine[d] # None => r.mine[d] # None \/ d \notin RowsOf(q)
  BY <1>1, <1>7
<1> QED BY <1>1, <1>11, <1>12, <1>13, GotoKeeps DEF Goto, new

LEMMA UpdateKeeps ==
    ASSUME RInv, NEW q \in Requests, Update(q)
    PROVE  RInv'
<1> DEFINE r == request[q]
           mine == [d \in Devices |-> IF d \in r.ids THEN Assign(SeenRow(q, d), r.body) ELSE r.mine[d]]
           rec == [r EXCEPT !.pc = "postrun", !.mine = mine]
<1>1. /\ r.pc = "update" /\ r.kind = "device" /\ UNCHANGED <<target, device, running>>
      /\ r.ids \cap RowsOf(q) = {} /\ Goto(q, rec)
  BY DEF Update, tables
<1>2. Good(r, device)
  BY DEF RInv
<1>3. RequestType(r) /\ r.body \in PatchBody
  BY <1>1, <1>2 DEF Good, Bodied
<1>4. r.ids \subseteq Devices /\ \A d \in Devices : r.mine[d] \in Row \cup {None}
  BY <1>3 DEF RequestType
<1>5. ASSUME NEW d \in r.ids PROVE mine[d] \in Row /\ After(device[d], r.body, mine[d])
  <2> DEFINE s == SeenRow(q, d)
  <2>1. mine[d] = Assign(s, r.body) /\ s \in Row /\ device[d] \in Row
    BY <1>1, <1>4, SeenRowType
  <2>2. Alike(device[d], s)
    BY <1>1, <1>2, <1>4 DEF Good, WritesRows, SeenRow, Alike
  <2> HIDE DEF s, mine, r
  <2>3. mine[d] \in Row /\ After(s, r.body, mine[d])
    BY <1>3, <2>1, AssignIs
  <2> QED BY <2>2, <2>3 DEF After, Alike
<1>6. \A d \in Devices \ r.ids : mine[d] = r.mine[d]
  OBVIOUS
<1>7. \A d \in Devices \ r.ids : r.mine[d] = None
  BY <1>1, <1>2 DEF Good, WritesIds
<1>8. mine \in [Devices -> Row \cup {None}]
  BY <1>5, <1>6, <1>7
<1> HIDE DEF mine
<1>9. /\ rec.pc = "postrun" /\ rec.kind = r.kind /\ rec.body = r.body /\ rec.ids = r.ids
      /\ rec.mine = mine /\ rec.supervisor = r.supervisor /\ RequestType(rec)
  <2> HIDE DEF r
  <2> QED BY <1>3, <1>8 DEF RequestType, Steps
<1> HIDE DEF rec
<1>10. Good(rec, device)
  <2>1. Bodied(rec)
    BY <1>1, <1>2, <1>9 DEF Good, Bodied
  <2>2. WritesIds(rec, device)
    BY <1>1, <1>2, <1>6, <1>7, <1>9 DEF Good, WritesIds
  <2>3. WritesRows(rec, device)
    BY <1>5, <1>6, <1>7, <1>9 DEF WritesRows
  <2>4. WroteAll(rec)
    BY <1>5, <1>9, FleetAssumption DEF WroteAll
  <2> QED BY <1>9, <2>1, <2>2, <2>3, <2>4 DEF Good
<1>11. \A d \in Devices : rec.mine[d] # None => r.mine[d] # None \/ d \notin RowsOf(q)
  BY <1>1, <1>6, <1>7, <1>9
<1>12. request' = [request EXCEPT ![q] = rec]
  BY <1>1 DEF Goto
<1> QED BY <1>1, <1>10, <1>11, <1>12, GotoKeeps

LEMMA NotLess == \A x, y \in Nat : ~(x > y) => y >= x
OBVIOUS

(* The target host app that the POSTRUN hooks leave is not older than the  *)
(* version of the OS.                                                      *)
LEMMA PostRunOs ==
    ASSUME NEW m \in Row, NEW old \in Row, NEW v \in PatchBody, After(old, v, m), OsNotOlder(old),
           Given(v.operated) => HostappUpgrade({m}, v.operated, FALSE, invalid),
           NEW n, n = IF ReportsOs(v) THEN ProgressedTarget(m) ELSE m.operated,
           ReportsOs(v) /\ Outdated(m) /\ OSRelease(m.type, m.os, m.variant) # Null
             => HostappUpgrade({m}, n, TRUE, invalid)
    PROVE  n \in Releases \cup {Null} /\ OsNotOlder([m EXCEPT !.operated = n])
<1> USE FleetAssumption
<1>1. m.operated \in Releases \cup {Null} /\ m.os \in Nat \cup {Null, Unparsable}
  BY DEF Row
<1>2. n \in Releases \cup {Null}
  BY <1>1, OSReleaseType DEF ProgressedTarget
<1> DEFINE e == [m EXCEPT !.operated = n]
<1>3. e.os = m.os /\ e.variant = m.variant /\ e.operated = n
  BY DEF Row
<1> HIDE DEF e
<1> SUFFICES ASSUME Parses(m.os), KnownVariant(m.variant), n # Null PROVE BaseVersion(n) >= m.os
  BY <1>2, <1>3 DEF OsNotOlder, e
<1>4. m.os \in Nat
  BY <1>1 DEF Parses, Given
<1>5. \A x : \A root : HostappUpgrade({m}, x, root, invalid) => BaseVersion(x) >= m.os
  <2> TAKE x, root
  <2> HAVE HostappUpgrade({m}, x, root, invalid)
  <2> DEFINE known == {row.os : row \in {y \in {m} : Parses(y.os)}}
  <2>1. m.os \in known
    OBVIOUS
  <2>2. known # {} => \A w \in known : BaseVersion(x) >= w
    BY DEF HostappUpgrade
  <2> HIDE DEF known
  <2> QED BY <2>1, <2>2
<1>6. CASE ReportsOs(v)
  <2>1. CASE Outdated(m)
    <3>1. n = OSRelease(m.type, m.os, m.variant)
      BY <1>6, <2>1 DEF ProgressedTarget
    <3> QED BY <1>5, <1>6, <2>1, <3>1
  <2>2. CASE ~Outdated(m)
    <3>1. n = m.operated
      BY <1>6, <2>2 DEF ProgressedTarget
    <3>2. BaseVersion(n) # Null /\ ~(m.os > BaseVersion(n))
      BY <2>2, <3>1 DEF Outdated
    <3>3. BaseVersion(n) \in Nat
      BY <1>2, <3>2, ReleaseType DEF BaseVersion
    <3> QED BY <1>4, <3>2, <3>3, NotLess
  <2> QED BY <2>1, <2>2
<1>7. CASE ~ReportsOs(v)
  <2>1. n = m.operated
    BY <1>7
  <2>2. CASE Given(v.operated)
    <3>1. n = v.operated
      BY <2>1, <2>2 DEF After, Given
    <3> QED BY <1>5, <2>2, <3>1
  <2>3. CASE ~Given(v.operated)
    <3>1. v.operated = Undefined /\ n = old.operated
      BY <2>1, <2>3 DEF After, Given
    <3>2. v.os = Undefined /\ m.os = old.os
      BY <1>4, <1>7 DEF After, ReportsOs, Given, PatchBody
    <3>3. v.variant = Undefined /\ m.variant = old.variant
      BY <1>7, <3>2 DEF After, ReportsOs, KnownVariant, PatchBody
    <3> QED BY <3>1, <3>2, <3>3 DEF OsNotOlder
  <2> QED BY <2>2, <2>3
<1> QED BY <1>6, <1>7

LEMMA PostRunKeeps ==
    ASSUME RInv, NEW q \in Requests, PostRun(q)
    PROVE  RInv'
<1> DEFINE r == request[q]
           v == r.body
           new == [d \in Devices |-> IF d \in r.ids /\ ReportsOs(v) THEN ProgressedTarget(r.mine[d])
                                     ELSE IF d \in r.ids THEN r.mine[d].operated ELSE Null]
           changed == {d \in r.ids : new[d] # r.mine[d].operated}
           progressed == {d \in r.ids :
                            /\ ReportsOs(v) /\ Outdated(r.mine[d])
                            /\ OSRelease(r.mine[d].type, r.mine[d].os, r.mine[d].variant) # Null}
           mine == [d \in Devices |-> IF d \in changed THEN [r.mine[d] EXCEPT !.operated = new[d]]
                                      ELSE r.mine[d]]
           rec == [r EXCEPT !.pc = "open", !.mine = mine,
                            !.tell = progressed \cup IF Tells(v) THEN r.ids ELSE {}]
<1>1. r.pc = "postrun" /\ r.kind = "device" /\ UNCHANGED <<target, device, running>>
  BY DEF PostRun, tables
<1>2. CASE RollBack(q)
  BY <1>1, <1>2, RollBackKeeps
<1>3. ASSUME NEW calls, Goto(q, CreateServiceInstalls(rec, calls)),
             Given(v.operated) => HostappUpgrade({r.mine[d] : d \in r.ids}, v.operated, FALSE, invalid),
             \A d \in progressed : HostappUpgrade({r.mine[d]}, new[d], TRUE, invalid)
      PROVE  RInv'
  <2>1. Good(r, device)
    BY DEF RInv
  <2>2. RequestType(r) /\ v \in PatchBody
    BY <1>1, <2>1 DEF Good, Bodied
  <2>3. r.ids \subseteq Devices /\ \A d \in Devices : r.mine[d] \in Row \cup {None}
    BY <2>2 DEF RequestType
  <2>4. \A d \in Devices : r.mine[d] # None <=> d \in r.ids
    BY <1>1, <2>1 DEF Good, WritesIds, WroteAll
  <2>5. ASSUME NEW d \in r.ids
        PROVE  /\ mine[d] \in Row /\ OsNotOlder(mine[d])
               /\ mine[d].app = r.mine[d].app /\ mine[d].pin = r.mine[d].pin
    <3> DEFINE m == r.mine[d]
    <3>1. m \in Row /\ device[d] \in Row
      BY <1>1, <2>3, <2>4, SeenRowType
    <3>2. After(device[d], v, m)
      BY <1>1, <2>1, <2>3, <2>4 DEF Good, WritesRows
    <3>3. OsNotOlder(device[d])
      <4>1. d \in Exist
        BY <2>3, <3>1, FleetAssumption DEF Exist
      <4> QED BY <4>1 DEF RInv, OsTargetNotOlder
    <3>4. Given(v.operated) => HostappUpgrade({m}, v.operated, FALSE, invalid)
      <4> SUFFICES ASSUME Given(v.operated) PROVE HostappUpgrade({m}, v.operated, FALSE, invalid)
        OBVIOUS
      <4> DEFINE all == {row.os : row \in {x \in {r.mine[c] : c \in r.ids} : Parses(x.os)}}
                 one == {row.os : row \in {x \in {m} : Parses(x.os)}}
      <4>1. one \subseteq all
        OBVIOUS
      <4>2. all # {} => /\ Release[v.operated].success /\ (FALSE \/ v.operated \notin invalid)
                        /\ BaseVersion(v.operated) # Null /\ \A x \in all : BaseVersion(v.operated) >= x
        BY <1>3 DEF HostappUpgrade
      <4>3. HostappUpgrade({m}, v.operated, FALSE, invalid) =
              (one # {} => /\ Release[v.operated].success /\ (FALSE \/ v.operated \notin invalid)
                           /\ BaseVersion(v.operated) # Null /\ \A x \in one : BaseVersion(v.operated) >= x)
        BY DEF HostappUpgrade
      <4> HIDE DEF all, one
      <4> QED BY <4>1, <4>2, <4>3
    <3>5. new[d] = IF ReportsOs(v) THEN ProgressedTarget(m) ELSE m.operated
      BY <2>3
    <3>6. ReportsOs(v) /\ Outdated(m) /\ OSRelease(m.type, m.os, m.variant) # Null
            => HostappUpgrade({m}, new[d], TRUE, invalid)
      BY <1>3
    <3> DEFINE n == new[d]
    <3>7. mine[d] = IF n # m.operated THEN [m EXCEPT !.operated = n] ELSE m
      BY <2>3
    <3> HIDE DEF n, new, m, mine, v, r
    <3>8. n \in Releases \cup {Null} /\ OsNotOlder([m EXCEPT !.operated = n])
      BY <2>2, <3>1, <3>2, <3>3, <3>4, <3>5, <3>6, PostRunOs DEF n
    <3>9. mine[d] = [m EXCEPT !.operated = n]
      BY <3>1, <3>7 DEF Row
    <3>10. mine[d] \in Row /\ mine[d].app = m.app /\ mine[d].pin = m.pin
      BY <3>1, <3>8, <3>9 DEF Row
    <3> QED BY <3>8, <3>9, <3>10 DEF m
  <2>6. \A d \in Devices \ r.ids : mine[d] = None
    BY <2>4
  <2>7. mine \in [Devices -> Row \cup {None}]
    <3>1. \A d \in Devices : mine[d] \in Row \cup {None}
      BY <2>5, <2>6
    <3> QED BY <3>1
  <2>8. progressed \cup (IF Tells(v) THEN r.ids ELSE {}) \subseteq Devices
    BY <2>3
  <2> HIDE DEF mine, progressed
  <2>9. /\ rec.pc = "open" /\ rec.kind = r.kind /\ rec.body = r.body /\ rec.ids = r.ids
        /\ rec.mine = mine /\ rec.supervisor = r.supervisor /\ RequestType(rec)
        /\ Tells(v) => r.ids \subseteq rec.tell
    <3> HIDE DEF r
    <3> QED BY <2>2, <2>7, <2>8 DEF RequestType, Steps
  <2> HIDE DEF rec
  <2>10. Good(rec, device)
    <3>1. Bodied(rec)
      BY <1>1, <2>2, <2>9 DEF Bodied
    <3>2. WritesIds(rec, device)
      BY <1>1, <2>1, <2>6, <2>9 DEF Good, WritesIds
    <3>3. WritesRows(rec, device)
      <4> SUFFICES ASSUME NEW d \in Devices, mine[d] # None
                   PROVE  /\ ~Tells(v) => mine[d].app = device[d].app /\ mine[d].pin = device[d].pin
                          /\ OsNotOlder(mine[d])
        BY <2>9 DEF WritesRows
      <4>1. d \in r.ids
        BY <2>6
      <4>2. After(device[d], v, r.mine[d])
        BY <1>1, <2>1, <2>4, <4>1 DEF Good, WritesRows
      <4>3. ~Tells(v) => v.pin = Undefined /\ v.app = Undefined
        BY <2>2, FleetAssumption DEF Tells, Given, PatchBody
      <4> QED BY <2>5, <4>1, <4>2, <4>3 DEF After
    <3>4. WroteAll(rec)
      BY <2>9 DEF WroteAll
    <3> QED BY <2>9, <3>1, <3>2, <3>3, <3>4 DEF Good
  <2> DEFINE next == CreateServiceInstalls(rec, calls)
  <2>11. Good(next, device) /\ next.mine = mine /\ request' = [request EXCEPT ![q] = next]
    BY <1>3, <2>9, <2>10, CreateGood DEF Goto
  <2> HIDE DEF next
  <2>12. \A d \in Devices : next.mine[d] # None => r.mine[d] # None \/ d \notin RowsOf(q)
    BY <2>4, <2>6, <2>11
  <2> QED BY <1>1, <2>11, <2>12, GotoKeeps
<1> QED
  <2>1. \/ RollBack(q)
        \/ \E calls : /\ Goto(q, CreateServiceInstalls(rec, calls))
                      /\ Given(v.operated) =>
                           HostappUpgrade({r.mine[d] : d \in r.ids}, v.operated, FALSE, invalid)
                      /\ \A d \in progressed : HostappUpgrade({r.mine[d]}, new[d], TRUE, invalid)
    BY DEF PostRun
  <2> QED BY <1>2, <1>3, <2>1

-----------------------------------------------------------------------------
(* The other requests. *)

LEMMA PostDeviceKeeps ==
    ASSUME RInv, NEW q \in Requests, PostDevice(q)
    PROVE  RInv'
<1>1. PICK b \in Posts, d \in Devices \ Exist : \E calls :
        LET row == RegisteredSupervisor(RegisteredOs(b))
            rec == [Idle EXCEPT !.pc = "open", !.kind = "post", !.body = row, !.ids = {d},
                       !.mine = [Idle.mine EXCEPT ![d] = row]]
        IN d \notin RowsOf(q) /\ Goto(q, CreateServiceInstalls(rec, calls))
  BY Zenon DEF PostDevice
<1> DEFINE row == RegisteredSupervisor(RegisteredOs(b))
           rec == [Idle EXCEPT !.pc = "open", !.kind = "post", !.body = row, !.ids = {d},
                       !.mine = [Idle.mine EXCEPT ![d] = row]]
<1>2. row \in Row /\ OsNotOlder(row)
  BY RegisteredIs
<1>3. PICK calls : d \notin RowsOf(q) /\ Goto(q, CreateServiceInstalls(rec, calls))
  BY <1>1
<1> HIDE DEF row
<1>4. /\ rec.pc = "open" /\ rec.kind = "post" /\ rec.ids = {d} /\ rec.mine[d] = row
      /\ \A e \in Devices \ {d} : rec.mine[e] = None
      /\ RequestType(rec)
  BY <1>2, PostRequest
<1> HIDE DEF rec
<1>5. device[d] = Null
  BY DEF Exist
<1>6. Good(rec, device)
  BY <1>2, <1>4, <1>5 DEF Good, Bodied, WritesIds, WritesRows, WroteAll
<1> DEFINE new == CreateServiceInstalls(rec, calls)
<1>7. Good(new, device) /\ new.mine = rec.mine
  BY <1>6, CreateGood
<1>8. UNCHANGED <<target, device, running>> /\ request' = [request EXCEPT ![q] = new]
  BY <1>3 DEF PostDevice, tables, Goto
<1> HIDE DEF new
<1>9. \A e \in Devices : new.mine[e] # None => request[q].mine[e] # None \/ e \notin RowsOf(q)
  BY <1>3, <1>4, <1>7
<1> QED BY <1>7, <1>8, <1>9, GotoKeeps

LEMMA PatchApplicationKeeps ==
    ASSUME RInv, NEW q \in Requests, PatchApplication(q)
    PROVE  RInv'
<1>1. PICK b \in AppBodies : \E calls :
        LET rec == [Idle EXCEPT !.pc = "open", !.kind = "app", !.body = b]
        IN Goto(q, IF b.target = Null THEN rec ELSE CreateServiceInstalls(rec, calls))
  BY Zenon DEF PatchApplication
<1> DEFINE rec == [Idle EXCEPT !.pc = "open", !.kind = "app", !.body = b]
<1>2. PICK calls : Goto(q, IF b.target = Null THEN rec ELSE CreateServiceInstalls(rec, calls))
  BY <1>1
<1>3. b \in AppBody
  BY FleetAssumption
<1>4. /\ rec.pc = "open" /\ rec.kind = "app" /\ rec.body \in AppBody
      /\ \A d \in Devices : rec.mine[d] = None
      /\ RequestType(rec)
  BY <1>3 DEF RequestType, Idle, Steps
<1> HIDE DEF rec
<1>5. Good(rec, device)
  BY <1>4 DEF Good, Bodied, WritesIds, WritesRows, WroteAll
<1> DEFINE new == IF b.target = Null THEN rec ELSE CreateServiceInstalls(rec, calls)
<1>6. Good(new, device) /\ new.mine = rec.mine
  BY <1>5, CreateGood
<1>7. UNCHANGED <<target, device, running>> /\ request' = [request EXCEPT ![q] = new]
  BY <1>2 DEF PatchApplication, tables, Goto
<1> HIDE DEF new
<1>8. \A e \in Devices : new.mine[e] # None => request[q].mine[e] # None \/ e \notin RowsOf(q)
  BY <1>4, <1>6
<1> QED BY <1>6, <1>7, <1>8, GotoKeeps

LEMMA InsertKeeps ==
    ASSUME RInv, NEW q \in Requests, Insert(q)
    PROVE  RInv'
<1> DEFINE r == request[q]
           rec == [r EXCEPT !.todo = {}, !.ins = r.ins \cup r.todo]
<1>1. UNCHANGED <<target, device, running>> /\ (RollBack(q) \/ Goto(q, rec))
  BY DEF Insert, tables
<1>2. Good(r, device)
  BY DEF RInv
<1>3. RequestType(r)
  BY <1>2 DEF Good
<1>4. /\ rec.pc = r.pc /\ rec.kind = r.kind /\ rec.body = r.body /\ rec.ids = r.ids
      /\ rec.mine = r.mine /\ rec.supervisor = r.supervisor /\ rec.tell = r.tell
      /\ RequestType(rec)
  <2> HIDE DEF r
  <2> QED BY <1>3 DEF RequestType
<1> HIDE DEF rec
<1>5. Good(rec, device)
  BY <1>2, <1>4 DEF Good, Bodied, WritesIds, WritesRows, WroteAll
<1>6. CASE Goto(q, rec)
  <2>1. \A d \in Devices : rec.mine[d] # None => request[q].mine[d] # None \/ d \notin RowsOf(q)
    BY <1>4
  <2>2. request' = [request EXCEPT ![q] = rec]
    BY <1>6 DEF Goto
  <2> QED BY <1>1, <1>5, <2>1, <2>2, GotoKeeps
<1> QED BY <1>1, <1>6, RollBackKeeps

(* The rows that q wrote are held by no other request, and a row that it   *)
(* wrote over is one that is still there.                                  *)
LEMMA CommitKeeps ==
    ASSUME RInv, NEW q \in Requests, Commit(q)
    PROVE  RInv'
<1> DEFINE r == request[q]
           row == [d \in Devices |-> IF r.mine[d] # None THEN r.mine[d] ELSE device[d]]
           t == IF r.kind = "app" THEN [target EXCEPT ![r.body.app] = r.body.target] ELSE target
           rec == [Idle EXCEPT !.pc = "notify", !.kind = r.kind, !.body = r.body, !.tell = r.tell]
<1>1. /\ r.pc = "open" /\ running' = running
      /\ \/ device' = row /\ target' = t /\ request' = [request EXCEPT ![q] = rec]
         \/ RollBack(q) /\ UNCHANGED <<device, target>>
  BY DEF Commit, Goto
<1>2. Good(r, device) /\ TablesType /\ RowLocks
  BY DEF RInv
<1>3. RequestType(r) /\ Bodied(r) /\ WritesRows(r, device)
  BY <1>2 DEF Good
<1>4. /\ r.kind \in {"device", "post", "app"} /\ r.tell \subseteq Devices
      /\ r.body \in PatchBody \cup Row \cup AppBody \cup {None}
      /\ \A d \in Devices : r.mine[d] \in Row \cup {None}
  BY <1>3 DEF RequestType
<1>5. ASSUME device' = row, target' = t, request' = [request EXCEPT ![q] = rec]
      PROVE  RInv'
  <2>1. row \in [Devices -> Row \cup {Null}]
    BY <1>2, <1>4 DEF TablesType
  <2>2. t \in [Apps -> Releases \cup {Null}]
    BY <1>2, <1>3 DEF Bodied, AppBody, TablesType
  <2>3. TablesType'
    BY <1>1, <1>2, <1>5, <2>1, <2>2 DEF TablesType
  <2>4. /\ rec.pc = "notify" /\ rec.kind = r.kind /\ rec.body = r.body
        /\ \A d \in Devices : rec.mine[d] = None
        /\ RequestType(rec)
    <3> HIDE DEF r
    <3> QED BY <1>4 DEF RequestType, Idle, Steps
  <2> HIDE DEF rec
  <2>5. \A dev : Good(rec, dev)
    BY <1>1, <1>3, <2>4 DEF Good, Bodied, WritesIds, WritesRows, WroteAll
  <2>6. request'[q] = rec /\ \A p \in Requests \ {q} : request'[p] = request[p]
    BY <1>2, <1>5 DEF TablesType
  <2>7. \A p \in Requests \ {q} : Good(request[p], row)
    <3> TAKE p \in Requests \ {q}
    <3>1. Good(request[p], device)
      BY DEF RInv
    <3>2. \A d \in Devices : request[p].mine[d] # None => row[d] = device[d]
      BY <1>2 DEF RowLocks
    <3>3. \A d \in Devices : device[d] # Null => row[d] # Null
      BY <1>4, FleetAssumption
    <3> HIDE DEF row
    <3> QED BY <3>1, <3>2, <3>3, GoodFrame
  <2>8. \A p \in Requests : Good(request'[p], device')
    BY <1>5, <2>5, <2>6, <2>7
  <2>9. RowLocks'
    BY <1>2, <2>4, <2>6 DEF RowLocks
  <2>10. OsTargetNotOlder'
    BY <1>1, <1>3, <1>5 DEF RInv, OsTargetNotOlder, Exist, WritesRows
  <2> QED BY <2>3, <2>8, <2>9, <2>10 DEF RInv
<1> QED BY <1>1, <1>5, RollBackKeeps

(* Tasks, invalidated releases and what devices report have no part in it. *)
LEMMA RestKeeps ==
    ASSUME RInv, UNCHANGED <<target, device, request>>, running' \in [Devices -> Releases \cup {Null}]
    PROVE  RInv'
BY DEF RInv, TablesType, RowLocks, OsTargetNotOlder, Exist

LEMMA ShouldBeRunningType ==
    ASSUME TablesType, NEW d \in Exist
    PROVE  ShouldBeRunning(device[d], target) \in Releases \cup {Null}
BY FleetAssumption DEF TablesType, Exist, ShouldBeRunning, Row

LEMMA RInvStep == RInv /\ [Next]_vars => RInv'
<1> SUFFICES ASSUME RInv, [Next]_vars PROVE RInv'
  OBVIOUS
<1>1. TablesType
  BY DEF RInv
<1>2. ASSUME NEW q \in Requests, RequestStep(q) PROVE RInv'
  <2>1. CASE Notify(q) \/ FailRequest(q)
    <3>1. RollBack(q) /\ UNCHANGED <<target, device, running>>
      BY <2>1 DEF Notify, FailRequest, tables
    <3> QED BY <3>1, RollBackKeeps
  <2> QED BY <1>2, <2>1, ReceivePatchKeeps, PreRunKeeps, SetSupervisorKeeps, UpdateKeeps,
             PostRunKeeps, PostDeviceKeeps, PatchApplicationKeeps, InsertKeeps, CommitKeeps
          DEF RequestStep
<1>3. ASSUME NEW w \in Workers, WorkerStep(w) PROVE RInv'
  <2>1. UNCHANGED <<target, device, request, running>>
    BY <1>3 DEF WorkerStep, StartTask, FindMissing, InsertMissing, TimeIsUp, CommitTask,
          FinishTask, TaskConflict, DeadlockTask, RetryTask, CrashWorker, tables
  <2> QED BY <1>1, <2>1, RestKeeps DEF TablesType
<1>4. ASSUME NEW d \in Reporting, Report(d) PROVE RInv'
  <2>1. /\ d \in Exist /\ UNCHANGED <<target, device, request>>
        /\ running' = [running EXCEPT ![d] = ShouldBeRunning(device[d], target)]
    BY <1>4 DEF Report
  <2> DEFINE x == ShouldBeRunning(device[d], target)
  <2>2. x \in Releases \cup {Null}
    BY <1>1, <2>1, ShouldBeRunningType
  <2> HIDE DEF x
  <2>3. running' \in [Devices -> Releases \cup {Null}]
    BY <1>1, <2>1, <2>2 DEF TablesType, x
  <2> QED BY <2>1, <2>3, RestKeeps
<1>5. ASSUME NEW s \in Withdrawn, Invalidate(s) PROVE RInv'
  <2>1. UNCHANGED <<target, device, request, running>>
    BY <1>5 DEF Invalidate
  <2> QED BY <1>1, <2>1, RestKeeps DEF TablesType
<1>6. CASE UNCHANGED vars
  <2>1. UNCHANGED <<target, device, request, running>>
    BY <1>6 DEF vars, tables
  <2> QED BY <1>1, <2>1, RestKeeps DEF TablesType
<1> QED BY <1>2, <1>3, <1>4, <1>5, <1>6 DEF Next

(* The release of the OS that a device should be operated by is not older  *)
(* than the version of the OS it reports, when both are known, however     *)
(* many requests that report the OS, choose a target host app, change the  *)
(* type of the device or move it overlap, and whichever of them fail: the  *)
(* POSTRUN hooks compare with the row that the transaction holds.          *)
THEOREM OsIsNotDowngraded == Spec => []OsTargetNotOlder
<1>1. RInv => OsTargetNotOlder
  BY DEF RInv
<1> QED BY <1>1, RInvInit, RInvStep, PTL DEF Spec

-----------------------------------------------------------------------------
(* Devices are told. *)

(* A device that has a new target and was not told yet is among those that *)
(* a request that committed is about to tell.                              *)
ToBeTold(d) == \E q \in Requests : request[q].pc = "notify" /\ d \in Told(q)
Covered == \A d \in missed : d \in Exist /\ ToBeTold(d)

(* Other requests than those that commit or tell leave it alone.           *)
LEMMA BystanderCovered ==
    ASSUME RInv, Covered, NEW q \in Requests, NEW rec,
           request' = [request EXCEPT ![q] = rec], request[q].pc # "notify",
           UNCHANGED <<device, running, missed>>
    PROVE  Covered'
<1> SUFFICES ASSUME NEW d \in missed PROVE d \in Exist' /\ ToBeTold(d)'
  BY DEF Covered
<1>1. PICK p \in Requests : request[p].pc = "notify" /\ d \in Told(p)
  BY DEF Covered, ToBeTold
<1>2. p # q /\ request'[p] = request[p]
  BY <1>1 DEF RInv, TablesType
<1>3. d \in Exist' /\ d \in Told(p)'
  BY <1>1, <1>2 DEF Covered, Exist, Told
<1> QED BY <1>1, <1>2, <1>3 DEF ToBeTold

LEMMA CommitCovered ==
    ASSUME RInv, Covered, NEW q \in Requests, Commit(q)
    PROVE  Covered'
<1> DEFINE r == request[q]
           row == [d \in Devices |-> IF r.mine[d] # None THEN r.mine[d] ELSE device[d]]
           t == IF r.kind = "app" THEN [target EXCEPT ![r.body.app] = r.body.target] ELSE target
           rec == [Idle EXCEPT !.pc = "notify", !.kind = r.kind, !.body = r.body, !.tell = r.tell]
           changed == {d \in Exist : ShouldBeRunning(row[d], t) # ShouldBeRunning(device[d], target)}
<1>1. /\ r.pc = "open" /\ running' = running
      /\ \/ /\ device' = row /\ request' = [request EXCEPT ![q] = rec]
            /\ missed' = (missed \ changed) \cup
                         {d \in changed : ShouldBeRunning(row[d], t) \notin {Null, running[d]}}
         \/ RollBack(q) /\ UNCHANGED <<device, missed>>
  BY DEF Commit, Goto
<1>2. Good(r, device) /\ TablesType
  BY DEF RInv
<1>3. /\ RequestType(r) /\ Bodied(r) /\ WritesRows(r, device) /\ WritesIds(r, device) /\ WroteAll(r)
  BY <1>2 DEF Good
<1>4. /\ r.kind \in {"device", "post", "app"} /\ \A d \in Devices : r.mine[d] \in Row \cup {None}
  BY <1>3 DEF RequestType
<1>5. CASE RollBack(q) /\ UNCHANGED <<device, missed>>
  <2> DEFINE new == Idle
  <2> HIDE DEF new
  <2>1. request' = [request EXCEPT ![q] = new] /\ request[q].pc # "notify"
    BY <1>1, <1>5 DEF RollBack, new
  <2> QED BY <1>1, <1>5, <2>1, BystanderCovered
<1>6. ASSUME device' = row, request' = [request EXCEPT ![q] = rec],
             missed' = (missed \ changed) \cup
                       {d \in changed : ShouldBeRunning(row[d], t) \notin {Null, running[d]}}
      PROVE  Covered'
  <2>1. /\ request'[q] = rec /\ rec.pc = "notify" /\ rec.kind = r.kind /\ rec.body = r.body
        /\ rec.tell = r.tell /\ \A p \in Requests \ {q} : request'[p] = request[p]
    BY <1>2, <1>6 DEF TablesType, Idle
  <2> HIDE DEF rec
  <2>2. \A d \in Exist : row[d] # Null
    BY <1>4, FleetAssumption DEF Exist
  <2>3. \A d \in Exist : d \in Exist'
    BY <1>6, <2>2 DEF Exist
  \* A request that gives a device another application or pin tells it.
  <2>4. ASSUME NEW d \in Exist, row[d].app # device[d].app \/ row[d].pin # device[d].pin
        PROVE  ToBeTold(d)'
    <3>1. d \in Devices /\ device[d] # Null
      BY DEF Exist
    <3>2. r.mine[d] # None /\ row[d] = r.mine[d]
      BY <2>4, <3>1
    <3>3. r.kind = "device" /\ d \in r.ids
      BY <1>1, <1>3, <1>4, <3>1, <3>2 DEF WritesIds
    <3>4. Tells(r.body)
      BY <1>1, <1>3, <2>4, <3>1, <3>2, <3>3 DEF WritesRows
    <3>5. d \in r.tell
      BY <1>1, <1>3, <3>3, <3>4 DEF WroteAll
    <3>6. d \in Told(q)'
      BY <2>1, <3>3, <3>5 DEF Told
    <3> QED BY <2>1, <3>6 DEF ToBeTold
  \* A device whose target was another one.
  <2>5. ASSUME NEW d \in changed, ShouldBeRunning(row[d], t) \notin {Null, running[d]}
        PROVE  d \in Exist' /\ ToBeTold(d)'
    <3>1. d \in Exist /\ d \in Devices /\ ShouldBeRunning(row[d], t) # ShouldBeRunning(device[d], target)
      BY DEF Exist
    <3>2. CASE row[d].app # device[d].app \/ row[d].pin # device[d].pin
      BY <2>3, <2>4, <3>1, <3>2
    <3>3. CASE row[d].app = device[d].app /\ row[d].pin = device[d].pin
      <4>1. row[d].pin = Null /\ t[row[d].app] # target[row[d].app]
        BY <3>1, <3>3 DEF ShouldBeRunning
      <4>2. row[d] \in Row
        BY <1>2, <1>4, <2>2, <3>1 DEF TablesType
      <4>3. r.kind = "app" /\ row[d].app \in Apps
        BY <4>1, <4>2 DEF Row
      <4>4. r.body.app \in Apps /\ r.body.target \in Releases \cup {Null}
        BY <1>3, <4>3 DEF Bodied, AppBody
      <4>5. row[d].app = r.body.app /\ t[row[d].app] = r.body.target
        BY <1>2, <4>1, <4>3, <4>4 DEF TablesType
      <4>6. r.body.target \notin {Null, running[d]}
        BY <2>5, <4>1, <4>5 DEF ShouldBeRunning
      <4>7. d \in Told(q)'
        <5> HIDE DEF row, t
        <5> QED BY <1>1, <1>6, <2>1, <2>3, <3>1, <4>1, <4>3, <4>5, <4>6 DEF Told
      <4> QED BY <2>1, <2>3, <3>1, <4>7 DEF ToBeTold
    <3> QED BY <3>2, <3>3
  \* A device that was to be told before.
  <2>6. ASSUME NEW d \in missed PROVE d \in Exist' /\ ToBeTold(d)'
    <3>1. d \in Exist /\ d \in Devices
      BY DEF Covered, Exist
    <3>2. PICK p \in Requests : request[p].pc = "notify" /\ d \in Told(p)
      BY DEF Covered, ToBeTold
    <3>3. p # q /\ request'[p] = request[p]
      BY <1>1, <2>1, <3>2
    <3>4. CASE row[d].app # device[d].app \/ row[d].pin # device[d].pin
      BY <2>3, <2>4, <3>1, <3>4
    <3>5. CASE row[d].app = device[d].app /\ row[d].pin = device[d].pin
      <4>1. d \in Told(p)'
        <5> HIDE DEF row
        <5> QED BY <1>1, <1>6, <2>3, <3>1, <3>2, <3>3, <3>5 DEF Told
      <4> QED BY <2>3, <3>1, <3>2, <3>3, <4>1 DEF ToBeTold
    <3> QED BY <3>4, <3>5
  <2> HIDE DEF changed
  <2>7. \A d \in missed' : d \in missed \/ (d \in changed /\ ShouldBeRunning(row[d], t) \notin {Null, running[d]})
    BY <1>6
  <2> QED BY <2>5, <2>6, <2>7 DEF Covered
<1> QED BY <1>1, <1>5, <1>6

LEMMA CoveredStep == RInv /\ Covered /\ [Next]_vars => Covered'
<1> SUFFICES ASSUME RInv, Covered, [Next]_vars PROVE Covered'
  OBVIOUS
<1>1. ASSUME UNCHANGED <<device, request, running, missed>> PROVE Covered'
  BY <1>1 DEF Covered, ToBeTold, Exist, Told
<1>2. ASSUME NEW q \in Requests, RequestStep(q) PROVE Covered'
  <2>1. CASE Commit(q)
    BY <2>1, CommitCovered
  <2>2. CASE Notify(q)
    <3>1. /\ request[q].pc = "notify" /\ missed' = missed \ Told(q) /\ UNCHANGED <<device, running>>
          /\ \A p \in Requests \ {q} : request'[p] = request[p]
      BY <2>2 DEF Notify, RollBack, tables, RInv, TablesType
    <3> SUFFICES ASSUME NEW d \in missed, d \notin Told(q) PROVE d \in Exist' /\ ToBeTold(d)'
      BY <3>1 DEF Covered
    <3>2. PICK p \in Requests : request[p].pc = "notify" /\ d \in Told(p)
      BY DEF Covered, ToBeTold
    <3>3. p # q /\ request'[p] = request[p]
      BY <3>1, <3>2
    <3>4. d \in Exist' /\ d \in Told(p)'
      BY <3>1, <3>2, <3>3 DEF Covered, Exist, Told
    <3> QED BY <3>2, <3>3, <3>4 DEF ToBeTold
  <2>3. CASE ~Commit(q) /\ ~Notify(q)
    <3>1. /\ request[q].pc # "notify" /\ UNCHANGED <<device, running, missed>>
          /\ \E rec : request' = [request EXCEPT ![q] = rec]
      <4>1. CASE ReceivePatch(q) \/ PostDevice(q) \/ PatchApplication(q)
        BY <4>1, Zenon DEF ReceivePatch, PostDevice, PatchApplication, Goto, tables
      <4>2. CASE PreRun(q) \/ SetSupervisor(q) \/ Update(q)
        BY <4>2, Zenon DEF PreRun, SetSupervisor, Update, Goto, RollBack, tables, ghosts
      <4>3. CASE PostRun(q) \/ Insert(q) \/ FailRequest(q)
        BY <4>3, Zenon DEF PostRun, Insert, FailRequest, Goto, RollBack, tables, ghosts
      <4> QED BY <1>2, <2>3, <4>1, <4>2, <4>3 DEF RequestStep
    <3> QED BY <3>1, BystanderCovered
  <2> QED BY <2>1, <2>2, <2>3
<1>3. ASSUME NEW w \in Workers, WorkerStep(w) PROVE Covered'
  <2>1. UNCHANGED <<device, request, running, missed>>
    BY <1>3 DEF WorkerStep, StartTask, FindMissing, InsertMissing, TimeIsUp, CommitTask,
          FinishTask, TaskConflict, DeadlockTask, RetryTask, CrashWorker, tables, ghosts
  <2> QED BY <1>1, <2>1
<1>4. ASSUME NEW d \in Reporting, Report(d) PROVE Covered'
  <2>1. /\ UNCHANGED <<device, request>> /\ missed' = missed \ {d}
        /\ \A e \in Devices \ {d} : running'[e] = running[e]
    BY <1>4 DEF Report, RInv, TablesType
  <2> SUFFICES ASSUME NEW e \in missed, e # d PROVE e \in Exist' /\ ToBeTold(e)'
    BY <2>1 DEF Covered
  <2>2. PICK p \in Requests : request[p].pc = "notify" /\ e \in Told(p)
    BY DEF Covered, ToBeTold
  <2>3. e \in Exist' /\ e \in Told(p)'
    BY <2>1, <2>2 DEF Covered, Exist, Told
  <2> QED BY <2>1, <2>2, <2>3 DEF ToBeTold
<1>5. ASSUME NEW s \in Withdrawn, Invalidate(s) PROVE Covered'
  <2>1. UNCHANGED <<device, request, running, missed>>
    BY <1>5 DEF Invalidate, ghosts
  <2> QED BY <1>1, <2>1
<1>6. CASE UNCHANGED vars
  <2>1. UNCHANGED <<device, request, running, missed>>
    BY <1>6 DEF vars, tables, ghosts
  <2> QED BY <1>1, <2>1
<1> QED BY <1>2, <1>3, <1>4, <1>5, <1>6 DEF Next

(* A device whose target release becomes another one than it runs is told  *)
(* by a request that committed, for any number of overlapping requests: a  *)
(* move or a change of its pin by the request that made it, the target of  *)
(* a fleet by whichever came last of that request and of one that moved,   *)
(* pinned or unpinned the device before postDevices looked for it.         *)
THEOREM NewTargetsAreTold == Spec => []NoSilentChange
<1>1. Init => Covered
  BY DEF Init, Covered
<1>2. Covered => NoSilentChange
  BY DEF Covered, ToBeTold, NoSilentChange
<1> QED BY <1>1, <1>2, RInvInit, RInvStep, CoveredStep, PTL DEF Spec

-----------------------------------------------------------------------------
(* Requests that run one after the other. *)

Active(r) == r.pc \notin {"idle", "notify"}

Alone == \A p, q \in Requests : Active(request[p]) /\ Active(request[q]) => p = q

(* The supervisor that a PATCH asks for was compared with the row that it  *)
(* replaces, and the first report of a version gives a supervisor to a     *)
(* device that had not reported one.                                       *)
Upgrades(r, dev) ==
    r.kind = "device" /\ r.pc \notin {"idle", "notify", "prerun"} =>
      \A d \in r.ids : dev[d].sv # Null =>
        /\ r.supervisor[d] = Null
        /\ Given(r.body.managed) /\ dev[d].managed # Null =>
             ~RawLess(r.body.managed, dev[d].managed)
        /\ r.mine[d] # None => r.mine[d].managed \in {dev[d].managed, r.body.managed}

SInv == serial => Alone /\ \A q \in Requests : Upgrades(request[q], device)

(* A step of a request that is the only one, or the first of one.          *)
LEMMA AloneGoto ==
    ASSUME RInv, NEW q \in Requests, NEW rec, request' = [request EXCEPT ![q] = rec],
           serial => Alone,
           \/ Active(request[q]) /\ serial' = serial
           \/ request[q].pc = "notify" /\ ~Active(rec) /\ serial' = serial
           \/ serial' = (serial /\ ~Busy)
    PROVE  (serial' => serial /\ Alone') /\ request'[q] = rec /\ \A p \in Requests \ {q} : request'[p] = request[p]
<1>1. request'[q] = rec /\ \A p \in Requests \ {q} : request'[p] = request[p]
  BY DEF RInv, TablesType
<1>2. CASE Active(request[q]) /\ serial' = serial
  BY <1>1, <1>2 DEF Alone
<1>3. CASE request[q].pc = "notify" /\ ~Active(rec) /\ serial' = serial
  BY <1>1, <1>3 DEF Alone
<1>4. CASE serial' = (serial /\ ~Busy)
  <2>1. serial' => serial /\ ~Busy
    BY <1>4, Zenon
  <2>2. ~Busy => \A p \in Requests : ~Active(request[p])
    BY DEF Busy, Active
  <2> QED BY <1>1, <2>1, <2>2 DEF Alone
<1> QED BY <1>1, <1>2, <1>3, <1>4

LEMMA PreRunUpgrades ==
    ASSUME RInv, NEW q \in Requests, PreRun(q), NEW rec, request' = [request EXCEPT ![q] = rec]
    PROVE  Upgrades(rec, device)
<1> DEFINE r == request[q]
           v == r.body
           new == [r EXCEPT
                 !.pc = IF Given(v.sv) THEN "supervisor" ELSE "update",
                 !.moved = IF Given(v.app) THEN {d \in r.ids : device[d].app # v.app} ELSE {},
                 !.supervisor = [d \in Devices |->
                     IF Given(v.sv) /\ d \in r.ids THEN InitialSupervisor(device[d], v.sv)
                                                   ELSE Null],
                 !.del = Deleted(q, v)]
           rows == {device[d] : d \in r.ids}
<1>1. /\ r.pc = "prerun" /\ r.kind = "device"
      /\ request'[q] = Idle \/ (request'[q] = new /\ Allowed(v, rows))
  BY DEF PreRun, RollBack, Goto, RInv, TablesType
<1>2. request'[q] = rec
  BY DEF RInv, TablesType
<1>3. Good(r, device)
  BY DEF RInv
<1>4. RequestType(r) /\ r.ids \subseteq Devices /\ \A d \in Devices : r.mine[d] = None
  BY <1>1, <1>3 DEF Good, RequestType, WritesIds
<1>5. CASE rec = Idle
  BY <1>5 DEF Upgrades, Idle
<1>6. CASE rec = new /\ Allowed(v, rows)
  <2>1. /\ rec.body = v /\ rec.ids = r.ids /\ rec.mine = r.mine
        /\ \A d \in r.ids : rec.supervisor[d] = IF Given(v.sv) THEN InitialSupervisor(device[d], v.sv) ELSE Null
    <3> HIDE DEF r
    <3> QED BY <1>4, <1>6 DEF RequestType
  <2> SUFFICES ASSUME NEW d \in r.ids, device[d].sv # Null
               PROVE  /\ rec.supervisor[d] = Null
                      /\ Given(v.managed) /\ device[d].managed # Null => ~RawLess(v.managed, device[d].managed)
    BY <1>4, <2>1 DEF Upgrades
  <2>2. rec.supervisor[d] = Null
    BY <2>1 DEF InitialSupervisor
  <2>3. Given(v.managed) => SupervisorUpgrade(rows, v.managed, invalid)
    BY <1>6 DEF Allowed
  <2>4. device[d] \in rows
    OBVIOUS
  <2> HIDE DEF rows
  <2> QED BY <2>2, <2>3, <2>4 DEF SupervisorUpgrade
<1> QED BY <1>1, <1>2, <1>5, <1>6

LEMMA SetSupervisorUpgrades ==
    ASSUME RInv, NEW q \in Requests, SetSupervisor(q), Upgrades(request[q], device),
           NEW rec, request' = [request EXCEPT ![q] = rec]
    PROVE  Upgrades(rec, device)
<1> DEFINE r == request[q]
           sv == r.supervisor
           ids == {d \in Devices : sv[d] # Null}
           mine == [d \in Devices |-> IF d \in ids THEN [SeenRow(q, d) EXCEPT !.managed = sv[d]]
                                       ELSE r.mine[d]]
           new == [r EXCEPT !.pc = "update", !.mine = mine]
<1>1. r.pc = "supervisor" /\ \E calls : request'[q] = CreateServiceInstalls(new, calls)
  <2>1. r.pc = "supervisor" /\ \E calls : Goto(q, CreateServiceInstalls(new, calls))
    BY DEF SetSupervisor
  <2> QED BY <2>1 DEF Goto, RInv, TablesType
<1>2. request'[q] = rec
  BY DEF RInv, TablesType
<1>3. Good(request'[q], device')
  BY SetSupervisorKeeps DEF RInv
<1>4. RequestType(r) /\ r.ids \subseteq Devices /\ r.kind = "device"
  BY <1>1 DEF RInv, Good, RequestType, Bodied
<1>5. \A d \in Devices : d \notin ids => mine[d] = r.mine[d]
  OBVIOUS
<1> HIDE DEF mine
<1>6. /\ rec.body = r.body /\ rec.ids = r.ids /\ rec.mine = mine /\ rec.supervisor = sv
  <2> HIDE DEF r
  <2>1. new.body = r.body /\ new.ids = r.ids /\ new.mine = mine /\ new.supervisor = sv
    BY <1>4 DEF RequestType
  <2>2. PICK calls : rec = CreateServiceInstalls(new, calls)
    BY <1>1, <1>2
  <2>3. \E x : rec \in {[new EXCEPT !.posted = x], [new EXCEPT !.todo = x]}
    BY <2>2, Zenon DEF CreateServiceInstalls
  <2> QED BY <1>4, <2>1, <2>3 DEF RequestType
<1> QED BY <1>1, <1>4, <1>5, <1>6 DEF Upgrades

LEMMA StartKind ==
    ASSUME RInv, NEW q \in Requests, PostDevice(q) \/ PatchApplication(q)
    PROVE  request'[q].kind \in {"post", "app"}
<1>1. CASE PostDevice(q)
  <2>1. PICK b \in Posts, d \in Devices \ Exist : \E calls :
          LET row == RegisteredSupervisor(RegisteredOs(b))
              rec == [Idle EXCEPT !.pc = "open", !.kind = "post", !.body = row, !.ids = {d},
                         !.mine = [Idle.mine EXCEPT ![d] = row]]
          IN Goto(q, CreateServiceInstalls(rec, calls))
    BY <1>1, Zenon DEF PostDevice
  <2> DEFINE row == RegisteredSupervisor(RegisteredOs(b))
             rec == [Idle EXCEPT !.pc = "open", !.kind = "post", !.body = row, !.ids = {d},
                         !.mine = [Idle.mine EXCEPT ![d] = row]]
  <2>2. PICK calls : request'[q] = CreateServiceInstalls(rec, calls)
    BY <2>1 DEF Goto, RInv, TablesType
  <2>3. rec.kind = "post" /\ RequestType(rec)
    <3>1. row \in Row
      BY RegisteredIs
    <3> HIDE DEF row
    <3>2. rec.kind = "post" /\ RequestType(rec)
      BY <3>1, PostRequest
    <3> QED BY <3>2
  <2> HIDE DEF rec
  <2> QED BY <2>2, <2>3, CreateKeeps
<1>2. CASE PatchApplication(q)
  <2>1. PICK b \in AppBodies : \E calls :
          LET rec == [Idle EXCEPT !.pc = "open", !.kind = "app", !.body = b]
          IN Goto(q, IF b.target = Null THEN rec ELSE CreateServiceInstalls(rec, calls))
    BY <1>2, Zenon DEF PatchApplication
  <2> DEFINE rec == [Idle EXCEPT !.pc = "open", !.kind = "app", !.body = b]
  <2>2. PICK calls : request'[q] = IF b.target = Null THEN rec ELSE CreateServiceInstalls(rec, calls)
    BY <2>1 DEF Goto, RInv, TablesType
  <2>3. rec.kind = "app" /\ RequestType(rec)
    BY FleetAssumption DEF RequestType, Idle, Steps
  <2> HIDE DEF rec
  <2> QED BY <2>2, <2>3, CreateKeeps
<1> QED BY <1>1, <1>2

LEMMA UpdateUpgrades ==
    ASSUME RInv, NEW q \in Requests, Update(q), Upgrades(request[q], device),
           NEW rec, request' = [request EXCEPT ![q] = rec]
    PROVE  Upgrades(rec, device)
<1> DEFINE r == request[q]
           mine == [d \in Devices |-> IF d \in r.ids THEN Assign(SeenRow(q, d), r.body) ELSE r.mine[d]]
           new == [r EXCEPT !.pc = "postrun", !.mine = mine]
<1>1. r.pc = "update" /\ r.kind = "device" /\ rec = new
  BY DEF Update, Goto, RInv, TablesType
<1>2. RequestType(r) /\ r.ids \subseteq Devices /\ r.body \in PatchBody
  BY <1>1 DEF RInv, Good, RequestType, Bodied
<1>3. ASSUME NEW d \in r.ids, device[d].sv # Null
      PROVE  mine[d].managed \in {device[d].managed, r.body.managed}
  <2> DEFINE s == SeenRow(q, d)
  <2>1. mine[d] = Assign(s, r.body) /\ s \in Row
    BY <1>1, <1>2, SeenRowType
  <2>2. s.managed \in {device[d].managed, r.body.managed}
    BY <1>1, <1>3 DEF Upgrades, SeenRow
  <2> HIDE DEF s, mine, r
  <2>3. mine[d].managed = IF r.body.managed = Undefined THEN s.managed ELSE r.body.managed
    BY <1>2, <2>1 DEF Assign, Row, PatchBody
  <2> QED BY <2>2, <2>3
<1> HIDE DEF mine
<1>4. rec.body = r.body /\ rec.ids = r.ids /\ rec.mine = mine /\ rec.supervisor = r.supervisor
  <2> HIDE DEF r
  <2> QED BY <1>1, <1>2 DEF RequestType
<1> QED BY <1>1, <1>3, <1>4 DEF Upgrades

LEMMA PostRunUpgrades ==
    ASSUME RInv, NEW q \in Requests, PostRun(q), Upgrades(request[q], device),
           NEW rec, request' = [request EXCEPT ![q] = rec]
    PROVE  Upgrades(rec, device)
<1> DEFINE r == request[q]
           v == r.body
           new == [d \in Devices |-> IF d \in r.ids /\ ReportsOs(v) THEN ProgressedTarget(r.mine[d])
                                     ELSE IF d \in r.ids THEN r.mine[d].operated ELSE Null]
           changed == {d \in r.ids : new[d] # r.mine[d].operated}
           progressed == {d \in r.ids :
                            /\ ReportsOs(v) /\ Outdated(r.mine[d])
                            /\ OSRelease(r.mine[d].type, r.mine[d].os, r.mine[d].variant) # Null}
           mine == [d \in Devices |-> IF d \in changed THEN [r.mine[d] EXCEPT !.operated = new[d]]
                                      ELSE r.mine[d]]
           open == [r EXCEPT !.pc = "open", !.mine = mine,
                             !.tell = progressed \cup IF Tells(v) THEN r.ids ELSE {}]
<1>1. /\ r.pc = "postrun" /\ r.kind = "device"
      /\ RollBack(q) \/ \E calls : Goto(q, CreateServiceInstalls(open, calls))
  BY DEF PostRun
<1>2. rec = Idle \/ \E calls : rec = CreateServiceInstalls(open, calls)
  BY <1>1 DEF RollBack, Goto, RInv, TablesType
<1>3. RequestType(r) /\ r.ids \subseteq Devices /\ \A d \in r.ids : r.mine[d] \in Row
  <2>1. Good(r, device)
    BY DEF RInv
  <2>2. RequestType(r) /\ WroteAll(r)
    BY <2>1 DEF Good
  <2> QED BY <1>1, <2>2 DEF RequestType, WroteAll
<1>4. ASSUME NEW d \in r.ids PROVE mine[d].managed = r.mine[d].managed
  <2> DEFINE m == r.mine[d]
             n == new[d]
  <2>1. mine[d] = IF n # m.operated THEN [m EXCEPT !.operated = n] ELSE m
    BY <1>3
  <2>2. m \in Row
    BY <1>3
  <2> HIDE DEF n, new, m, mine, r
  <2>3. mine[d].managed = m.managed
    BY <2>1, <2>2 DEF Row
  <2> QED BY <2>3 DEF m
<1> HIDE DEF mine, progressed
<1>5. CASE rec = Idle
  BY <1>5 DEF Upgrades, Idle
<1>6. ASSUME NEW calls, rec = CreateServiceInstalls(open, calls)
      PROVE  Upgrades(rec, device)
  <2>1. rec.body = r.body /\ rec.ids = r.ids /\ rec.mine = mine /\ rec.supervisor = r.supervisor
    <3> HIDE DEF r
    <3>1. open.body = r.body /\ open.ids = r.ids /\ open.mine = mine /\ open.supervisor = r.supervisor
      BY <1>3 DEF RequestType
    <3>2. \E x : rec \in {[open EXCEPT !.posted = x], [open EXCEPT !.todo = x]}
      BY <1>6, Zenon DEF CreateServiceInstalls
    <3> QED BY <1>3, <3>1, <3>2 DEF RequestType
  <2>2. \A d \in r.ids : r.mine[d] # None
    BY <1>3, FleetAssumption
  <2>3. \A d \in r.ids : device[d].sv # Null =>
          /\ r.supervisor[d] = Null
          /\ Given(r.body.managed) /\ device[d].managed # Null => ~RawLess(r.body.managed, device[d].managed)
          /\ r.mine[d].managed \in {device[d].managed, r.body.managed}
    BY <1>1, <2>2 DEF Upgrades
  <2> QED BY <1>4, <2>1, <2>3 DEF Upgrades
<1> QED BY <1>2, <1>5, <1>6

(* Every step that leaves the device table alone.                          *)
LEMMA StepUpgrades ==
    ASSUME RInv, SInv, NEW q \in Requests, RequestStep(q), ~Commit(q)
    PROVE  SInv' /\ device' = device
<1> DEFINE Start == ReceivePatch(q) \/ PostDevice(q) \/ PatchApplication(q)
           End == Notify(q) \/ FailRequest(q)
<1>1. PICK rec : request' = [request EXCEPT ![q] = rec]
  <2>1. CASE Start
    BY <2>1, Zenon DEF ReceivePatch, PostDevice, PatchApplication, Goto
  <2>2. CASE PreRun(q) \/ SetSupervisor(q) \/ Update(q)
    BY <2>2, Zenon DEF PreRun, SetSupervisor, Update, Goto, RollBack
  <2>3. CASE PostRun(q) \/ Insert(q) \/ End
    BY <2>3, Zenon DEF PostRun, Insert, Notify, FailRequest, Goto, RollBack
  <2> QED BY <2>1, <2>2, <2>3 DEF RequestStep
<1>2. device' = device
  <2>1. CASE Start
    BY <2>1, Zenon DEF ReceivePatch, PostDevice, PatchApplication, tables
  <2>2. CASE PreRun(q) \/ SetSupervisor(q) \/ Update(q)
    BY <2>2, Zenon DEF PreRun, SetSupervisor, Update, tables
  <2>3. CASE PostRun(q) \/ Insert(q) \/ End
    BY <2>3, Zenon DEF PostRun, Insert, Notify, FailRequest, tables
  <2> QED BY <2>1, <2>2, <2>3 DEF RequestStep
<1>3. \/ Active(request[q]) /\ serial' = serial
      \/ request[q].pc = "notify" /\ ~Active(rec) /\ serial' = serial
      \/ serial' = (serial /\ ~Busy)
  <2>1. CASE Start
    BY <2>1, Zenon DEF ReceivePatch, PostDevice, PatchApplication
  <2>2. CASE PreRun(q) \/ SetSupervisor(q) \/ Update(q)
    BY <2>2, Zenon DEF PreRun, SetSupervisor, Update, ghosts, Active
  <2>3. CASE PostRun(q) \/ Insert(q) \/ FailRequest(q)
    BY <2>3, Zenon DEF PostRun, Insert, FailRequest, ghosts, Active
  <2>4. CASE Notify(q)
    <3>1. request[q].pc = "notify" /\ serial' = serial /\ RollBack(q)
      BY <2>4 DEF Notify
    <3>2. rec = Idle
      BY <1>1, <3>1 DEF RollBack, RInv, TablesType
    <3> QED BY <3>1, <3>2 DEF Idle, Active
  <2> QED BY <2>1, <2>2, <2>3, <2>4 DEF RequestStep
<1>4. /\ serial' => serial /\ Alone'
      /\ request'[q] = rec /\ \A p \in Requests \ {q} : request'[p] = request[p]
  BY <1>1, <1>3, AloneGoto DEF SInv
<1>5. ASSUME serial PROVE Upgrades(rec, device)
  <2>1. Upgrades(request[q], device)
    BY <1>5 DEF SInv
  <2>2. CASE ReceivePatch(q)
    <3>1. PICK b \in Bodies, ids \in (SUBSET Exist) \ {{}} :
            rec = [Idle EXCEPT !.pc = "prerun", !.body = ParsedType(ParsedMove(b)), !.ids = ids]
      BY <1>4, <2>2 DEF ReceivePatch, Goto, RInv, TablesType
    <3>2. rec.pc = "prerun"
      BY <3>1 DEF Idle
    <3> QED BY <3>2 DEF Upgrades
  <2>3. CASE PostDevice(q) \/ PatchApplication(q)
    <3>1. rec.kind \in {"post", "app"}
      BY <1>4, <2>3, StartKind
    <3> QED BY <3>1 DEF Upgrades
  <2>4. CASE PreRun(q)
    BY <1>1, <2>4, PreRunUpgrades
  <2>5. CASE SetSupervisor(q)
    BY <1>1, <2>1, <2>5, SetSupervisorUpgrades
  <2>6. CASE Update(q)
    BY <1>1, <2>1, <2>6, UpdateUpgrades
  <2>7. CASE PostRun(q)
    BY <1>1, <2>1, <2>7, PostRunUpgrades
  <2>8. CASE Insert(q)
    <3> DEFINE r == request[q]
               new == [r EXCEPT !.todo = {}, !.ins = r.ins \cup r.todo]
    <3>1. rec = Idle \/ rec = new
      BY <1>4, <2>8 DEF Insert, RollBack, Goto, RInv, TablesType
    <3>2. RequestType(r)
      BY DEF RInv, Good
    <3>3. /\ new.pc = r.pc /\ new.kind = r.kind /\ new.body = r.body /\ new.ids = r.ids
          /\ new.mine = r.mine /\ new.supervisor = r.supervisor
      <4> HIDE DEF r
      <4> QED BY <3>2 DEF RequestType
    <3>4. Upgrades(Idle, device)
      BY DEF Upgrades, Idle
    <3> HIDE DEF new
    <3>5. Upgrades(new, device)
      BY <2>1, <3>3 DEF Upgrades
    <3> QED BY <3>1, <3>4, <3>5
  <2>9. CASE End
    <3>1. rec = Idle
      BY <1>4, <2>9 DEF Notify, FailRequest, RollBack, RInv, TablesType
    <3> QED BY <3>1 DEF Upgrades, Idle
  <2> QED BY <2>2, <2>3, <2>4, <2>5, <2>6, <2>7, <2>8, <2>9 DEF RequestStep
<1> QED BY <1>2, <1>4, <1>5 DEF SInv

LEMMA RawIrreflexive == ASSUME NEW r \in Releases PROVE ~RawLess(r, r)
<1>1. Release[r].semver \in Nat /\ Release[r].created \in Nat /\ Release[r].revision \in Nat \cup {Null}
  BY FleetAssumption
<1> QED BY <1>1 DEF RawLess, Final

LEMMA CommitUpgrades ==
    ASSUME RInv, SInv, NEW q \in Requests, Commit(q)
    PROVE  /\ SInv'
           /\ serial' => \A d \in Exist :
                /\ device[d].sv # Null
                /\ device[d].managed # Null /\ device'[d].managed # Null
                => ~RawLess(device'[d].managed, device[d].managed)
<1> DEFINE r == request[q]
           row == [d \in Devices |-> IF r.mine[d] # None THEN r.mine[d] ELSE device[d]]
<1>1. /\ r.pc = "open" /\ serial' = serial
      /\ device' = row \/ device' = device
      /\ \E rec : request' = [request EXCEPT ![q] = rec] /\ rec.pc \in {"idle", "notify"}
  <2>1. r.pc = "open" /\ serial' = serial /\ (device' = row \/ device' = device)
    BY DEF Commit
  <2>2. \/ request' = [request EXCEPT ![q] = Idle]
        \/ request' = [request EXCEPT ![q] = [Idle EXCEPT !.pc = "notify", !.kind = r.kind,
                                                !.body = r.body, !.tell = r.tell]]
    BY DEF Commit, Goto, RollBack
  <2>3. Idle.pc = "idle" /\ [Idle EXCEPT !.pc = "notify", !.kind = r.kind,
                                                !.body = r.body, !.tell = r.tell].pc = "notify"
    BY DEF Idle
  <2> QED BY <2>1, <2>2, <2>3
<1>2. PICK rec : request' = [request EXCEPT ![q] = rec] /\ rec.pc \in {"idle", "notify"}
  BY <1>1
<1>3. request'[q] = rec /\ \A p \in Requests \ {q} : request'[p] = request[p]
  BY <1>2 DEF RInv, TablesType
<1>4. ASSUME serial, NEW p \in Requests PROVE ~Active(request'[p])
  <2>1. CASE p = q
    BY <1>2, <1>3, <2>1 DEF Active
  <2>2. CASE p # q
    BY <1>1, <1>3, <1>4, <2>2 DEF SInv, Alone, Active
  <2> QED BY <2>1, <2>2
<1>5. SInv'
  BY <1>1, <1>4 DEF SInv, Alone, Upgrades, Active
<1>6. ASSUME serial, NEW d \in Exist, device[d].sv # Null,
             device[d].managed # Null, device'[d].managed # Null
      PROVE  ~RawLess(device'[d].managed, device[d].managed)
  <2>1. d \in Devices /\ device[d] \in Row
    BY DEF Exist, RInv, TablesType
  <2>2. device[d].managed \in Releases
    BY <1>6, <2>1 DEF Row
  <2>3. ~RawLess(device[d].managed, device[d].managed)
    BY <2>2, RawIrreflexive
  <2>4. CASE r.mine[d] = None \/ device' = device
    BY <1>1, <2>1, <2>3, <2>4
  <2>5. CASE r.mine[d] # None /\ device' = row
    <3>1. Good(r, device) /\ Upgrades(r, device)
      BY <1>6 DEF RInv, SInv
    <3>2. RequestType(r) /\ WritesIds(r, device) /\ Bodied(r)
      BY <3>1 DEF Good
    <3>3. r.kind = "device" /\ r.mine[d] \in Row
      BY <2>1, <2>5, <3>2 DEF RequestType, WritesIds, Exist
    <3>4. d \in r.ids /\ r.body \in PatchBody
      BY <1>1, <2>1, <2>5, <3>2, <3>3 DEF WritesIds, Bodied
    <3>5. device'[d] = r.mine[d]
      BY <2>1, <2>5
    <3>6. r.mine[d].managed \in Releases
      BY <1>6, <3>3, <3>5 DEF Row
    <3>7. r.mine[d].managed \in {device[d].managed, r.body.managed}
      BY <1>1, <1>6, <2>5, <3>1, <3>3, <3>4 DEF Upgrades
    <3>8. CASE r.mine[d].managed = r.body.managed
      <4>1. Given(r.body.managed)
        BY <3>6, <3>8, FleetAssumption DEF Given
      <4> QED BY <1>1, <1>6, <3>1, <3>3, <3>4, <3>5, <3>8, <4>1 DEF Upgrades
    <3> QED BY <2>3, <3>5, <3>7, <3>8
  <2> QED BY <1>1, <2>4, <2>5
<1> QED BY <1>1, <1>5, <1>6

LEMMA SInvStep ==
    ASSUME RInv, SInv, [Next]_vars
    PROVE  /\ SInv'
           /\ (\E q \in Requests : Commit(q)) \/ device' = device
<1>1. ASSUME UNCHANGED <<device, request, serial>> PROVE SInv'
  BY <1>1 DEF SInv, Alone
<1>2. ASSUME NEW q \in Requests, RequestStep(q)
      PROVE  SInv' /\ ((\E p \in Requests : Commit(p)) \/ device' = device)
  BY <1>2, StepUpgrades, CommitUpgrades
<1>3. ASSUME NEW w \in Workers, WorkerStep(w) PROVE UNCHANGED <<device, request, serial>>
  BY <1>3 DEF WorkerStep, StartTask, FindMissing, InsertMissing, TimeIsUp, CommitTask,
        FinishTask, TaskConflict, DeadlockTask, RetryTask, CrashWorker, tables, ghosts
<1>4. ASSUME NEW d \in Reporting, Report(d) PROVE UNCHANGED <<device, request, serial>>
  BY <1>4 DEF Report
<1>5. ASSUME NEW s \in Withdrawn, Invalidate(s) PROVE UNCHANGED <<device, request, serial>>
  BY <1>5 DEF Invalidate, ghosts
<1>6. ASSUME UNCHANGED vars PROVE UNCHANGED <<device, request, serial>>
  BY <1>6 DEF vars, tables, ghosts
<1> QED BY <1>1, <1>2, <1>3, <1>4, <1>5, <1>6 DEF Next

LEMMA SInvInit == Init => SInv
<1> SUFFICES ASSUME Init PROVE SInv
  OBVIOUS
<1>1. \A q \in Requests : request[q].pc = "idle"
  BY DEF Init, Idle
<1> QED BY <1>1 DEF SInv, Alone, Upgrades, Active

(* Requests that run one after the other never give a device that has      *)
(* reported a supervisor an older one than it should run, whatever they    *)
(* ask for: the PRERUN hook compares with the rows that the statement then *)
(* replaces, and only the first report of a version sets one by itself.    *)
THEOREM SupervisorIsNotDowngraded == Spec => SupervisorNotDowngraded
<1> DEFINE Kept ==
      \A d \in Exist :
        /\ serial'
        /\ device[d].sv # Null
        /\ device[d].managed # Null /\ device'[d].managed # Null
        => ~RawLess(device'[d].managed, device[d].managed)
<1>1. Init => SInv
  BY SInvInit
<1>2. RInv /\ SInv /\ [Next]_vars => SInv'
  BY SInvStep
<1>3. RInv /\ SInv /\ [Next]_vars => [Kept]_vars
  <2> SUFFICES ASSUME RInv, SInv, [Next]_vars PROVE Kept
    OBVIOUS
  <2>1. CASE device' = device
    <3> SUFFICES ASSUME NEW d \in Exist, device[d].managed # Null
                 PROVE  ~RawLess(device[d].managed, device[d].managed)
      BY <2>1
    <3>1. device[d].managed \in Releases
      BY DEF Exist, RInv, TablesType, Row
    <3> QED BY <3>1, RawIrreflexive
  <2>2. ASSUME NEW q \in Requests, Commit(q) PROVE Kept
    BY <2>2, CommitUpgrades
  <2> QED BY <2>1, <2>2, SInvStep
<1> QED BY <1>1, <1>2, <1>3, RInvInit, RInvStep, PTL DEF Spec, SupervisorNotDowngraded

-----------------------------------------------------------------------------
(* Service installs, when they are made by the requests themselves. *)

(* ASYNC_TASKS_ENABLED is off, as it is by default, and no PATCH moves and *)
(* pins a device at once.                                                  *)
Immediate == ~Async /\ \A b \in Bodies : Given(b.app) => ~Given(b.pin)

(* A service install of s may belong to a device of application a.         *)
Owned(s, a) == ServiceApp[s] = a \/ ~Ordinary(ServiceApp[s])

(* No task is ever queued, and no worker has anything to do.               *)
NoTasks ==
    /\ tasks = EmptyBag
    /\ \A w \in Workers : worker[w].pc = "idle"
    /\ \A q \in Requests : request[q].posted = EmptyBag

(* The tables between requests.                                            *)
Complete ==
    \A d \in Exist : \A R \in TargetsOf(device[d], target) : \A s \in ServicesOf[R] :
        <<d, s>> \in installs

Tidy ==
    \A p \in installs : p[1] \in Exist /\ Owned(p[2], device[p[1]].app)

Ruled ==
    /\ \A d \in Exist : TargetRules(device[d]) /\ Ordinary(device[d].app)
    /\ \A a \in Apps : target[a] # Null => Release[target[a]].app = a

(* What the transaction of r has or is about to insert, with what is there.*)
Cover(r, have) == (have \ r.del) \cup r.ins \cup r.todo

Wanted(r, have, d, R) == \A s \in ServicesOf[R] : <<d, s>> \in Cover(r, have)

(* What the PRERUN hook has deleted: all of the application that a device  *)
(* leaves, and nothing of the system.                                      *)
DeletedRight(r, dev, have) ==
    /\ \A p \in r.del : Given(r.body.app) /\ p[1] \in r.ids /\ Ordinary(ServiceApp[p[2]])
    /\ Given(r.body.app) =>
         \A p \in have :
           p[1] \in r.ids /\ ServiceApp[p[2]] = dev[p[1]].app /\ ServiceApp[p[2]] # r.body.app
             => p \in r.del

(* Before the POSTRUN hooks only the supervisor has been looked at.        *)
SystemOnly(r) ==
    /\ r.ins = {}
    /\ \A p \in r.todo : p[1] \in r.ids /\ ~Ordinary(ServiceApp[p[2]])

(* The releases a device may be given service installs of: its targets,    *)
(* and the target of its application.                                      *)
MayHave(row, t) == TargetsOf(row, t) \cup ({t[row.app]} \ {Null})

(* A transaction that wrote devices has all they need, and nothing else.   *)
OpenDevice(r, t, have) ==
    /\ \A d \in Devices : r.mine[d] # None <=> d \in r.ids
    /\ \A d \in r.ids :
         /\ \A R \in TargetsOf(r.mine[d], t) : Wanted(r, have, d, R)
         /\ Ordinary(r.mine[d].app)
    /\ \A p \in r.ins \cup r.todo :
         /\ p[1] \in r.ids
         /\ \/ ~Ordinary(ServiceApp[p[2]])
            \/ \E R \in MayHave(r.mine[p[1]], t) : p[2] \in ServicesOf[R]

(* The same of a transaction that wrote the target of an application.      *)
OpenApp(r, dev, have) ==
    /\ r.body.target # Null =>
         \A d \in Devices :
           dev[d] # Null /\ dev[d].app = r.body.app /\ dev[d].pin = Null
             => Wanted(r, have, d, r.body.target)
    /\ \A p \in r.ins \cup r.todo :
         /\ r.body.target # Null /\ p[2] \in ServicesOf[r.body.target]
         /\ p[1] \in Devices /\ dev[p[1]] # Null /\ dev[p[1]].app = r.body.app

(* What holds of a PATCH of devices until its statement.                   *)
Before(r, dev, have) ==
    /\ r.pc = "prerun" => r.ins = {} /\ r.del = {} /\ r.todo = {}
    /\ Given(r.body.app) => r.body.pin = Null /\ Ordinary(r.body.app)
    /\ r.pc # "prerun" => DeletedRight(r, dev, have)
    /\ r.pc \in {"supervisor", "update", "postrun"} => SystemOnly(r)
    /\ r.pc = "supervisor" =>
         /\ \A d \in Devices : r.mine[d] = None
         /\ \A d \in Devices : r.supervisor[d] # Null =>
              App[Release[r.supervisor[d]].app].is_supervisor
    /\ r.pc = "update" =>
         \A d \in Devices : r.mine[d] # None => Wanted(r, have, d, r.mine[d].managed)

(* And from then on.                                                       *)
Written(r, dev, have) ==
    /\ r.pc = "postrun" =>
         \A d \in r.ids :
           IF r.body.managed # Undefined THEN r.mine[d].managed = r.body.managed
           ELSE r.mine[d].managed = dev[d].managed \/ Wanted(r, have, d, r.mine[d].managed)
    /\ r.pc = "open" =>
         \A d \in r.ids : r.mine[d].app = IF Given(r.body.app) THEN r.body.app ELSE dev[d].app

Stage(r, dev, t, have) ==
    /\ r.kind = "device" => Before(r, dev, have) /\ Written(r, dev, have)
    /\ r.kind # "device" => r.del = {}
    /\ r.pc = "open" => IF r.kind = "app" THEN OpenApp(r, dev, have) ELSE OpenDevice(r, t, have)

IInv ==
    /\ NoTasks
    /\ serial => /\ Complete /\ Tidy /\ Ruled
                 /\ \A q \in Requests :
                      Active(request[q]) => Stage(request[q], device, target, installs)

(* The service installs that calls of createReleaseServiceInstalls ask for.*)
Missing(calls) ==
    UNION {c[2] \X UNION {ServicesOf[R] : R \in c[3]} : c \in {x \in calls : x[2] # {}}}

LEMMA InMissing ==
    ASSUME NEW calls, NEW c \in calls, NEW d \in c[2], NEW R \in c[3], NEW s \in ServicesOf[R]
    PROVE  <<d, s>> \in Missing(calls)
<1>1. c \in {x \in calls : x[2] # {}}
  OBVIOUS
<1>2. <<d, s>> \in c[2] \X UNION {ServicesOf[Q] : Q \in c[3]}
  OBVIOUS
<1> QED BY <1>1, <1>2 DEF Missing

LEMMA OfMissing ==
    ASSUME NEW calls, NEW p \in Missing(calls)
    PROVE  \E c \in calls : \E R \in c[3] : p[1] \in c[2] /\ p[2] \in ServicesOf[R]
<1>1. PICK c \in calls : p \in c[2] \X UNION {ServicesOf[Q] : Q \in c[3]}
  BY DEF Missing
<1>2. p[1] \in c[2] /\ p[2] \in UNION {ServicesOf[Q] : Q \in c[3]}
  BY <1>1
<1> QED BY <1>2

LEMMA CreateNow ==
    ASSUME ~Async, NEW rec, RequestType(rec), NEW calls
    PROVE  LET new == CreateServiceInstalls(rec, calls)
           IN  /\ new.todo \subseteq rec.todo \cup Missing(calls)
               /\ Cover(new, installs) = Cover(rec, installs) \cup Missing(calls)
               /\ new.ins = rec.ins /\ new.del = rec.del /\ new.posted = rec.posted
<1> DEFINE missing == Missing(calls) \ SeenInstalls(rec)
           new == CreateServiceInstalls(rec, calls)
<1>1. new = [rec EXCEPT !.todo = rec.todo \cup missing]
  BY DEF CreateServiceInstalls, Missing
<1> HIDE DEF new, missing
<1>2. new.todo = rec.todo \cup missing /\ new.ins = rec.ins /\ new.del = rec.del /\ new.posted = rec.posted
  BY <1>1 DEF RequestType
<1>3. Cover(new, installs) = Cover(rec, installs) \cup Missing(calls)
  BY <1>2 DEF Cover, SeenInstalls, missing
<1> QED BY <1>2, <1>3 DEF new, missing

LEMMA ServiceOfApp ==
    ASSUME NEW R \in Releases, NEW s \in ServicesOf[R]
    PROVE  ServiceApp[s] = Release[R].app
BY FleetAssumption

LEMMA ReceivePatchStage ==
    ASSUME RInv, Immediate, NEW q \in Requests, ReceivePatch(q), NEW rec, request' = [request EXCEPT ![q] = rec]
    PROVE  Stage(rec, device, target, installs)
<1>1. PICK b \in Bodies, ids \in (SUBSET Exist) \ {{}} :
        rec = [Idle EXCEPT !.pc = "prerun", !.body = ParsedType(ParsedMove(b)), !.ids = ids]
  BY DEF ReceivePatch, Goto, RInv, TablesType
<1> DEFINE body == ParsedType(ParsedMove(b))
<1>2. /\ rec.pc = "prerun" /\ rec.kind = "device" /\ rec.body = body
      /\ rec.ins = {} /\ rec.del = {} /\ rec.todo = {}
  <2> HIDE DEF body
  <2> QED BY <1>1 DEF Idle, body
<1>3. b \in PatchBody
  BY FleetAssumption
<1>4. body.app = b.app /\ body.pin = IF Given(b.app) /\ b.pin = Undefined THEN Null ELSE b.pin
  <2> DEFINE c == ParsedMove(b)
  <2>1. c \in PatchBody /\ c.app = b.app /\ c.pin = IF Given(b.app) /\ b.pin = Undefined THEN Null ELSE b.pin
    BY <1>3 DEF ParsedMove, PatchBody
  <2> HIDE DEF c
  <2>2. ParsedType(c).app = c.app /\ ParsedType(c).pin = c.pin
    BY <2>1 DEF ParsedType, PatchBody
  <2> QED BY <2>1, <2>2 DEF c
<1> HIDE DEF body
<1>5. Given(body.app) => body.pin = Null /\ Ordinary(body.app)
  <2> SUFFICES ASSUME Given(b.app) PROVE body.pin = Null /\ Ordinary(b.app)
    BY <1>4
  <2>1. ~Given(b.pin) /\ Ordinary(b.app)
    BY TablesAssumption DEF Immediate
  <2> QED BY <1>4, <2>1 DEF Given
<1> QED BY <1>2, <1>5 DEF Stage, Before, Written

LEMMA PreRunStage ==
    ASSUME RInv, IInv, serial, NEW q \in Requests, PreRun(q),
           NEW rec, request' = [request EXCEPT ![q] = rec], Active(rec)
    PROVE  Stage(rec, device, target, installs)
<1> DEFINE r == request[q]
           v == r.body
           old == Deleted(q, v)
           moved == IF Given(v.app) THEN {d \in r.ids : device[d].app # v.app} ELSE {}
           sv == [d \in Devices |-> IF Given(v.sv) /\ d \in r.ids THEN InitialSupervisor(device[d], v.sv)
                                    ELSE Null]
           pc == IF Given(v.sv) THEN "supervisor" ELSE "update"
           new == [r EXCEPT !.pc = pc, !.moved = moved, !.supervisor = sv, !.del = old]
<1>1. r.pc = "prerun" /\ r.kind = "device" /\ rec = new
  <2>1. r.pc = "prerun" /\ r.kind = "device" /\ (Goto(q, new) \/ RollBack(q))
    BY DEF PreRun
  <2>2. request'[q] = rec
    BY DEF RInv, TablesType
  <2>3. rec \in {new, Idle}
    BY <2>1, <2>2 DEF Goto, RollBack, RInv, TablesType
  <2>4. rec # Idle
    BY DEF Active, Idle
  <2> QED BY <2>1, <2>3, <2>4
<1>2. Good(r, device) /\ Stage(r, device, target, installs)
  BY <1>1 DEF RInv, IInv, Active
<1>3. RequestType(r) /\ \A d \in Devices : r.mine[d] = None
  BY <1>1, <1>2 DEF Good, WritesIds
<1>4. r.ins = {} /\ r.del = {} /\ r.todo = {} /\ (Given(v.app) => v.pin = Null /\ Ordinary(v.app))
  BY <1>1, <1>2 DEF Stage, Before
<1>5. /\ rec.pc = pc /\ rec.kind = "device" /\ rec.body = v /\ rec.ids = r.ids /\ rec.mine = r.mine
      /\ rec.supervisor = sv /\ rec.ins = {} /\ rec.del = old /\ rec.todo = {}
  <2> HIDE DEF r, old, moved, sv, pc
  <2> QED BY <1>1, <1>3, <1>4 DEF RequestType
<1>6. pc \in {"supervisor", "update"}
  OBVIOUS
<1>7. \A d \in Devices : sv[d] # Null => App[Release[sv[d]].app].is_supervisor
  <2> SUFFICES ASSUME NEW d \in Devices, sv[d] # Null PROVE App[Release[sv[d]].app].is_supervisor
    OBVIOUS
  <2>1. sv[d] = SupervisorRelease(v.sv, CpuArch[device[d].type])
    BY DEF InitialSupervisor
  <2> QED BY <2>1, SupervisorReleaseType
<1>8. DeletedRight(rec, device, installs)
  <2>1. SeenInstalls(r) = installs
    BY <1>4 DEF SeenInstalls
  <2>2. Given(v.app) => old = {p \in installs : /\ p[1] \in r.ids /\ ServiceApp[p[2]] # v.app
                                                /\ \E d \in r.ids : device[d].app = ServiceApp[p[2]]}
    BY <2>1 DEF Deleted, OldInstalls
  <2>3. ~Given(v.app) => old = {}
    BY DEF Deleted
  <2>4. \A d \in r.ids : Ordinary(device[d].app)
    <3>1. \A d \in r.ids : d \in Exist
      BY <1>1, <1>2, <1>3 DEF Good, WritesIds, Exist, RequestType
    <3> QED BY <3>1 DEF IInv, Ruled
  <2> HIDE DEF old, r
  <2> QED BY <1>5, <2>2, <2>3, <2>4 DEF DeletedRight
<1> HIDE DEF pc, r, sv
<1> QED BY <1>3, <1>4, <1>5, <1>6, <1>7, <1>8 DEF Stage, Before, Written, SystemOnly

LEMMA SetSupervisorStage ==
    ASSUME RInv, IInv, Immediate, serial, NEW q \in Requests, SetSupervisor(q),
           NEW rec, request' = [request EXCEPT ![q] = rec]
    PROVE  Stage(rec, device, target, installs)
<1> DEFINE r == request[q]
           sv == r.supervisor
           ids == {d \in Devices : sv[d] # Null}
           mine == [d \in Devices |-> IF d \in ids THEN [SeenRow(q, d) EXCEPT !.managed = sv[d]]
                                       ELSE r.mine[d]]
           new == [r EXCEPT !.pc = "update", !.mine = mine]
           calls == {<<R, {d \in ids : sv[d] = R}, {R}>> : R \in {sv[d] : d \in ids}}
<1>1. r.pc = "supervisor" /\ rec = CreateServiceInstalls(new, calls)
  <2>1. r.pc = "supervisor" /\ Goto(q, CreateServiceInstalls(new, calls))
    BY DEF SetSupervisor
  <2> QED BY <2>1 DEF Goto, RInv, TablesType
<1>2. Good(r, device) /\ Stage(r, device, target, installs)
  BY <1>1 DEF RInv, IInv, Active
<1>3. RequestType(r) /\ r.kind = "device" /\ r.body \in PatchBody
  BY <1>1, <1>2 DEF Good, Bodied
<1>4. /\ Given(r.body.app) => r.body.pin = Null /\ Ordinary(r.body.app)
      /\ DeletedRight(r, device, installs) /\ SystemOnly(r)
      /\ \A d \in Devices : r.mine[d] = None
      /\ \A d \in ids : App[Release[sv[d]].app].is_supervisor
  BY <1>1, <1>2, <1>3 DEF Stage, Before
<1>5. \A d \in ids : d \in r.ids /\ sv[d] \in Releases
  BY <1>1, <1>2, <1>3 DEF Good, WritesIds, RequestType
<1>6. ASSUME NEW d \in Devices
      PROVE  IF d \in ids THEN mine[d] \in Row /\ mine[d].managed = sv[d] ELSE mine[d] = None
  <2>1. CASE d \notin ids
    BY <1>4, <2>1
  <2>2. CASE d \in ids
    <3> DEFINE s == SeenRow(q, d)
    <3>1. s \in Row
      BY <1>1, <1>3, <1>5, <2>2, SeenRowType
    <3>2. mine[d] = [s EXCEPT !.managed = sv[d]]
      BY <2>2
    <3> HIDE DEF s, mine
    <3> QED BY <1>5, <2>2, <3>1, <3>2 DEF Row
  <2> QED BY <2>1, <2>2
<1>7. RequestType(new) /\ new.ins = r.ins /\ new.del = r.del /\ new.todo = r.todo
      /\ new.pc = "update" /\ new.kind = "device" /\ new.body = r.body /\ new.ids = r.ids /\ new.mine = mine
  <2>1. mine \in [Devices -> Row \cup {None}]
    BY <1>6
  <2> HIDE DEF mine, r
  <2> QED BY <1>3, <2>1 DEF RequestType, Steps
<1> HIDE DEF new, calls, mine
<1>8. /\ rec.pc = "update" /\ rec.kind = "device" /\ rec.body = r.body /\ rec.ids = r.ids /\ rec.mine = mine
      /\ rec.todo \subseteq r.todo \cup Missing(calls)
      /\ Cover(rec, installs) = Cover(new, installs) \cup Missing(calls)
      /\ rec.ins = r.ins /\ rec.del = r.del
  BY <1>1, <1>7, CreateKeeps, CreateNow DEF Immediate
<1>9. SystemOnly(rec)
  <2>1. ASSUME NEW p \in Missing(calls) PROVE p[1] \in r.ids /\ ~Ordinary(ServiceApp[p[2]])
    <3>1. PICK c \in calls : \E R \in c[3] : p[1] \in c[2] /\ p[2] \in ServicesOf[R]
      BY OfMissing
    <3>2. PICK e \in ids : c = <<sv[e], {d \in ids : sv[d] = sv[e]}, {sv[e]}>>
      BY DEF calls
    <3>3. p[1] \in ids /\ p[2] \in ServicesOf[sv[e]]
      BY <3>1, <3>2
    <3>4. ServiceApp[p[2]] = Release[sv[e]].app
      BY <1>5, <3>3, ServiceOfApp
    <3> QED BY <1>4, <1>5, <3>3, <3>4 DEF Ordinary
  <2> QED BY <1>4, <1>8, <2>1 DEF SystemOnly
<1>10. ASSUME NEW d \in Devices, mine[d] # None PROVE Wanted(rec, installs, d, mine[d].managed)
  <2>1. d \in ids /\ mine[d].managed = sv[d]
    BY <1>6, <1>10
  <2>2. ASSUME NEW s \in ServicesOf[sv[d]] PROVE <<d, s>> \in Missing(calls)
    <3> DEFINE c == <<sv[d], {e \in ids : sv[e] = sv[d]}, {sv[d]}>>
    <3>1. c \in calls
      BY <2>1 DEF calls
    <3>2. d \in c[2] /\ sv[d] \in c[3]
      BY <2>1
    <3> HIDE DEF c
    <3> QED BY <3>1, <3>2, InMissing
  <2> QED BY <1>8, <2>1, <2>2 DEF Wanted
<1>11. DeletedRight(rec, device, installs)
  BY <1>4, <1>8 DEF DeletedRight
<1> HIDE DEF r
<1> QED BY <1>4, <1>8, <1>9, <1>10, <1>11 DEF Stage, Before, Written


LEMMA UpdateStage ==
    ASSUME RInv, IInv, serial, NEW q \in Requests, Update(q),
           NEW rec, request' = [request EXCEPT ![q] = rec]
    PROVE  Stage(rec, device, target, installs)
<1> DEFINE r == request[q]
           mine == [d \in Devices |-> IF d \in r.ids THEN Assign(SeenRow(q, d), r.body) ELSE r.mine[d]]
           new == [r EXCEPT !.pc = "postrun", !.mine = mine]
<1>1. r.pc = "update" /\ r.kind = "device" /\ rec = new
  BY DEF Update, Goto, RInv, TablesType
<1>2. Good(r, device) /\ Stage(r, device, target, installs)
  BY <1>1 DEF RInv, IInv, Active
<1>3. RequestType(r) /\ r.ids \subseteq Devices /\ r.body \in PatchBody
  BY <1>1, <1>2 DEF Good, RequestType, Bodied
<1>4. /\ Given(r.body.app) => r.body.pin = Null /\ Ordinary(r.body.app)
      /\ DeletedRight(r, device, installs) /\ SystemOnly(r)
      /\ \A d \in Devices : r.mine[d] # None => Wanted(r, installs, d, r.mine[d].managed)
  BY <1>1, <1>2 DEF Stage, Before
<1>5. ASSUME NEW d \in r.ids
      PROVE  IF r.body.managed # Undefined THEN mine[d].managed = r.body.managed
             ELSE mine[d].managed = device[d].managed \/ Wanted(r, installs, d, mine[d].managed)
  <2> DEFINE s == SeenRow(q, d)
  <2>1. mine[d] = Assign(s, r.body) /\ s \in Row
    BY <1>1, <1>3, SeenRowType
  <2>2. s.managed = device[d].managed \/ Wanted(r, installs, d, s.managed)
    BY <1>3, <1>4 DEF SeenRow
  <2> HIDE DEF s, mine, r
  <2>3. mine[d].managed = IF r.body.managed = Undefined THEN s.managed ELSE r.body.managed
    BY <1>3, <2>1 DEF Assign, Row, PatchBody
  <2> QED BY <2>2, <2>3
<1> HIDE DEF mine
<1>6. /\ rec.pc = "postrun" /\ rec.kind = "device" /\ rec.body = r.body /\ rec.ids = r.ids /\ rec.mine = mine
      /\ rec.ins = r.ins /\ rec.del = r.del /\ rec.todo = r.todo
  <2> HIDE DEF r
  <2> QED BY <1>1, <1>3 DEF RequestType
<1>7. DeletedRight(rec, device, installs) /\ SystemOnly(rec)
  BY <1>4, <1>6 DEF DeletedRight, SystemOnly
<1>8. ASSUME NEW d, NEW R, Wanted(r, installs, d, R) PROVE Wanted(rec, installs, d, R)
  BY <1>6, <1>8 DEF Wanted, Cover
<1> HIDE DEF r
<1> QED BY <1>4, <1>5, <1>6, <1>7, <1>8 DEF Stage, Before, Written

(* What the POSTRUN hooks ask for is what the rows need that the tables do *)
(* not have.                                                               *)
LEMMA NeedsOf ==
    ASSUME NEW row \in Row, NEW R \in TargetsOf(row, target), TablesType
    PROVE  /\ R \in Releases
           /\ R = row.pin \/ R = target[row.app] \/ R = row.managed \/ R = row.operated
BY DEF TargetsOf, ShouldBeRunning, TablesType, Row


(* What the hooks make the target host app of a row, and whether it is a   *)
(* release that they look up.                                              *)
NewOs(v, m) == IF ReportsOs(v) THEN ProgressedTarget(m) ELSE m.operated
Progressed(v, m) ==
    ReportsOs(v) /\ Outdated(m) /\ OSRelease(m.type, m.os, m.variant) # Null

(* The new target host app of a row is a release or none.                  *)
LEMMA NewOsType ==
    ASSUME NEW v, NEW m \in Row
    PROVE  NewOs(v, m) \in Releases \cup {Null}
<1>1. ProgressedTarget(m) \in Releases \cup {Null} \/ ProgressedTarget(m) = m.operated
  BY OSReleaseType DEF ProgressedTarget
<1>2. m.operated \in Releases \cup {Null}
  BY DEF Row
<1> QED BY <1>1, <1>2 DEF NewOs

(* Where the targets of a row come from once the POSTRUN hooks are done.   *)
LEMMA PostRunNeeds ==
    ASSUME NEW m \in Row, NEW old \in Row, NEW v \in PatchBody, After(old, v, m),
           Given(v.app) => v.pin = Null,
           NEW e \in Row, e.app = m.app, e.pin = m.pin, e.managed = m.managed, e.operated = NewOs(v, m),
           NEW R \in TargetsOf(e, target)
    PROVE  \/ Given(v.app) /\ R \in AppRelease(v.app)
           \/ ~Given(v.app) /\ Given(v.pin) /\ R = v.pin
           \/ ~Given(v.app) /\ v.pin = Null /\ R \in AppRelease(m.app)
           \/ ~Given(v.app) /\ R \in TargetsOf(old, target)
           \/ R = m.managed
           \/ Given(v.operated) /\ R = v.operated
           \/ v.operated = Undefined /\ R = old.operated
           \/ Progressed(v, m) /\ R = NewOs(v, m)
<1> USE FleetAssumption
<1>1. R # Null /\ R \in {ShouldBeRunning(e, target), m.managed, NewOs(v, m)}
  BY DEF TargetsOf
<1>2. v.app \in Apps \cup {Undefined} /\ (Given(v.app) <=> v.app # Undefined)
  BY DEF PatchBody, Given
<1>3. CASE R = ShouldBeRunning(e, target)
  <2>1. CASE Given(v.app)
    BY <1>1, <1>2, <1>3, <2>1 DEF ShouldBeRunning, After, AppRelease, Given
  <2>2. CASE ~Given(v.app) /\ v.pin # Undefined
    BY <1>1, <1>2, <1>3, <2>2 DEF ShouldBeRunning, After, AppRelease, Given
  <2>3. CASE ~Given(v.app) /\ v.pin = Undefined
    BY <1>1, <1>2, <1>3, <2>3 DEF ShouldBeRunning, After, TargetsOf
  <2> QED BY <2>1, <2>2, <2>3
<1>4. CASE R = NewOs(v, m)
  <2>1. CASE ReportsOs(v) /\ Outdated(m)
    BY <1>1, <1>4, <2>1 DEF Progressed, NewOs, ProgressedTarget
  <2>2. CASE R = m.operated
    BY <1>1, <2>2 DEF After, Given
  <2> QED BY <1>4, <2>1, <2>2 DEF NewOs, ProgressedTarget
<1> QED BY <1>1, <1>3, <1>4

LEMMA NotBoth == \A x, y \in Nat : ~(y >= x /\ x > y)
OBVIOUS

(* A target host app that was given and accepted is not outdated.          *)
LEMMA GivenOsStays ==
    ASSUME NEW m \in Row, NEW o \in Releases, m.operated = o,
           NEW rows, m \in rows, HostappUpgrade(rows, o, FALSE, invalid)
    PROVE  ~Outdated(m)
<1> USE FleetAssumption
<1> SUFFICES ASSUME Outdated(m) PROVE FALSE
  OBVIOUS
<1> DEFINE known == {row.os : row \in {x \in rows : Parses(x.os)}}
<1>1. m.os \in known
  BY DEF Outdated
<1>2. known # {} => BaseVersion(o) # Null /\ \A w \in known : BaseVersion(o) >= w
  BY DEF HostappUpgrade
<1> HIDE DEF known
<1>3. BaseVersion(o) # Null /\ BaseVersion(o) >= m.os
  BY <1>1, <1>2
<1>4. BaseVersion(o) \in Nat /\ m.os \in Nat
  BY <1>3, ReleaseType DEF BaseVersion, Outdated, Parses, Given, Row
<1>5. m.os > BaseVersion(o)
  BY <1>3 DEF Outdated
<1> QED BY <1>3, <1>4, <1>5, NotBoth

OsCalls(ids, v, mine) ==
    LET progressed == {d \in ids : Progressed(v, mine[d])}
    IN  {<<<<"os", R>>, {d \in progressed : NewOs(v, mine[d]) = R}, {R}>>
           : R \in {NewOs(v, mine[d]) : d \in progressed}}

(* The calls of the POSTRUN hooks ask for these service installs of a      *)
(* device.                                                                 *)
LEMMA CallsAsk ==
    ASSUME NEW v \in PatchBody, NEW ids, NEW mine, NEW d \in ids, mine[d] \in Row,
           NEW R, NEW s \in ServicesOf[R],
           \/ Given(v.app) /\ R \in AppRelease(v.app)
           \/ ~Given(v.app) /\ Given(v.pin) /\ R = v.pin
           \/ ~Given(v.app) /\ v.pin = Null /\ R \in AppRelease(mine[d].app)
           \/ Given(v.managed) /\ R = v.managed
           \/ Given(v.operated) /\ R = v.operated
           \/ Progressed(v, mine[d]) /\ R = NewOs(v, mine[d])
    PROVE  <<d, s>> \in Missing(InstallCalls(v, ids, mine) \cup OsCalls(ids, v, mine))
<1> DEFINE calls == InstallCalls(v, ids, mine) \cup OsCalls(ids, v, mine)
<1>1. ASSUME NEW c \in calls, d \in c[2], R \in c[3] PROVE <<d, s>> \in Missing(calls)
  <2> HIDE DEF calls
  <2> QED BY <1>1, InMissing
<1>2. CASE Given(v.app) /\ R \in AppRelease(v.app)
  <2> DEFINE c == <<"app", ids, AppRelease(v.app)>>
  <2>1. c \in calls
    BY <1>2 DEF InstallCalls
  <2>2. d \in c[2] /\ R \in c[3]
    BY <1>2
  <2> HIDE DEF c, calls
  <2> QED BY <1>1, <2>1, <2>2 DEF calls
<1>3. CASE ~Given(v.app) /\ Given(v.pin) /\ R = v.pin
  <2> DEFINE c == <<"pin", ids, {v.pin}>>
  <2>1. c \in calls
    BY <1>3 DEF InstallCalls
  <2>2. d \in c[2] /\ R \in c[3]
    BY <1>3
  <2> HIDE DEF c, calls
  <2> QED BY <1>1, <2>1, <2>2 DEF calls
<1>4. CASE ~Given(v.app) /\ v.pin = Null /\ R \in AppRelease(mine[d].app)
  <2> DEFINE a == mine[d].app
             c == <<<<"unpin", a>>, {x \in ids : mine[x].app = a}, AppRelease(a)>>
  <2>1. c \in calls
    <3>1. a \in Apps /\ ~Given(v.pin)
      BY <1>4 DEF Row, Given
    <3>2. c \in {<<<<"unpin", b>>, {x \in ids : mine[x].app = b}, AppRelease(b)>> : b \in Apps}
      BY <3>1
    <3> HIDE DEF c
    <3> QED BY <1>4, <3>1, <3>2 DEF InstallCalls
  <2>2. d \in c[2] /\ R \in c[3]
    BY <1>4
  <2> HIDE DEF c, calls
  <2> QED BY <1>1, <2>1, <2>2 DEF calls
<1>5. CASE Given(v.managed) /\ R = v.managed
  <2> DEFINE c == <<"managed", ids, {v.managed}>>
  <2>1. c \in calls
    BY <1>5 DEF InstallCalls
  <2>2. d \in c[2] /\ R \in c[3]
    BY <1>5
  <2> HIDE DEF c, calls
  <2> QED BY <1>1, <2>1, <2>2 DEF calls
<1>6. CASE Given(v.operated) /\ R = v.operated
  <2> DEFINE c == <<"operated", ids, {v.operated}>>
  <2>1. c \in calls
    BY <1>6 DEF InstallCalls
  <2>2. d \in c[2] /\ R \in c[3]
    BY <1>6
  <2> HIDE DEF c, calls
  <2> QED BY <1>1, <2>1, <2>2 DEF calls
<1>7. CASE Progressed(v, mine[d]) /\ R = NewOs(v, mine[d])
  <2> DEFINE progressed == {x \in ids : Progressed(v, mine[x])}
             c == <<<<"os", R>>, {x \in progressed : NewOs(v, mine[x]) = R}, {R}>>
  <2>1. d \in progressed /\ R \in {NewOs(v, mine[x]) : x \in progressed}
    BY <1>7
  <2>2. c \in calls
    <3>1. c \in OsCalls(ids, v, mine)
      BY <2>1 DEF OsCalls
    <3> QED BY <3>1
  <2>3. d \in c[2] /\ R \in c[3]
    BY <1>7, <2>1
  <2> HIDE DEF c, calls
  <2> QED BY <1>1, <2>2, <2>3 DEF calls
<1> QED BY <1>2, <1>3, <1>4, <1>5, <1>6, <1>7

(* And for no others.                                                      *)
LEMMA CallsAskOnly ==
    ASSUME NEW v \in PatchBody, NEW ids, NEW mine,
           NEW p \in Missing(InstallCalls(v, ids, mine) \cup OsCalls(ids, v, mine))
    PROVE  /\ p[1] \in ids
           /\ \E R : /\ p[2] \in ServicesOf[R]
                     /\ \/ Given(v.app) /\ R \in AppRelease(v.app)
                        \/ ~Given(v.app) /\ Given(v.pin) /\ R = v.pin
                        \/ R \in AppRelease(mine[p[1]].app)
                        \/ Given(v.managed) /\ R = v.managed
                        \/ Given(v.operated) /\ R = v.operated
                        \/ Progressed(v, mine[p[1]]) /\ R = NewOs(v, mine[p[1]])
<1> DEFINE calls == InstallCalls(v, ids, mine) \cup OsCalls(ids, v, mine)
           unpins == {<<<<"unpin", a>>, {d \in ids : mine[d].app = a}, AppRelease(a)>> : a \in Apps}
<1>0. PICK c \in calls : \E R \in c[3] : p[1] \in c[2] /\ p[2] \in ServicesOf[R]
  <2> HIDE DEF calls
  <2>1. p \in Missing(calls)
    BY DEF calls
  <2> QED BY <2>1, OfMissing
<1>1. PICK R \in c[3] : p[1] \in c[2] /\ p[2] \in ServicesOf[R]
  BY <1>0
<1>2. \/ Given(v.app) /\ c = <<"app", ids, AppRelease(v.app)>>
      \/ ~Given(v.app) /\ Given(v.pin) /\ c = <<"pin", ids, {v.pin}>>
      \/ c \in unpins
      \/ Given(v.managed) /\ c = <<"managed", ids, {v.managed}>>
      \/ Given(v.operated) /\ c = <<"operated", ids, {v.operated}>>
      \/ c \in OsCalls(ids, v, mine)
  <2> HIDE DEF unpins
  <2> QED BY DEF InstallCalls, unpins
<1>3. CASE c \in unpins
  <2>1. PICK a \in Apps : c = <<<<"unpin", a>>, {d \in ids : mine[d].app = a}, AppRelease(a)>>
    BY <1>3
  <2>2. p[1] \in ids /\ mine[p[1]].app = a /\ R \in AppRelease(a)
    BY <1>1, <2>1
  <2> QED BY <1>1, <2>2
<1>4. CASE c \in OsCalls(ids, v, mine)
  <2>1. PICK S \in {NewOs(v, mine[x]) : x \in {d \in ids : Progressed(v, mine[d])}} :
          c = <<<<"os", S>>, {d \in {x \in ids : Progressed(v, mine[x])} : NewOs(v, mine[d]) = S}, {S}>>
    BY <1>4 DEF OsCalls
  <2>2. R = S /\ p[1] \in ids /\ Progressed(v, mine[p[1]]) /\ NewOs(v, mine[p[1]]) = S
    BY <1>1, <2>1
  <2> QED BY <1>1, <2>2
<1>5. CASE \/ Given(v.app) /\ c = <<"app", ids, AppRelease(v.app)>>
           \/ ~Given(v.app) /\ Given(v.pin) /\ c = <<"pin", ids, {v.pin}>>
           \/ Given(v.managed) /\ c = <<"managed", ids, {v.managed}>>
           \/ Given(v.operated) /\ c = <<"operated", ids, {v.operated}>>
  <2>1. p[1] \in ids
    BY <1>1, <1>5
  <2>2. \/ Given(v.app) /\ R \in AppRelease(v.app)
        \/ ~Given(v.app) /\ Given(v.pin) /\ R = v.pin
        \/ Given(v.managed) /\ R = v.managed
        \/ Given(v.operated) /\ R = v.operated
    BY <1>5
  <2> QED BY <1>1, <2>1, <2>2
<1> QED BY <1>2, <1>3, <1>4, <1>5


(* A target that a device had, and that no hook deleted, is covered.       *)
LEMMA KeptTargets ==
    ASSUME RInv, IInv, serial, NEW r, DeletedRight(r, device, installs),
           NEW d \in Exist, NEW R \in TargetsOf(device[d], target),
           ~Given(r.body.app) \/ R = device[d].managed \/ R = device[d].operated
    PROVE  Wanted(r, installs, d, R)
<1> SUFFICES ASSUME NEW s \in ServicesOf[R] PROVE <<d, s>> \in Cover(r, installs)
  BY DEF Wanted
<1>1. <<d, s>> \in installs
  BY DEF IInv, Complete
<1>2. <<d, s>> \notin r.del
  <2> SUFFICES ASSUME <<d, s>> \in r.del PROVE FALSE
    OBVIOUS
  <2>1. Given(r.body.app) /\ Ordinary(ServiceApp[s])
    BY DEF DeletedRight
  <2>2. device[d] \in Row
    BY DEF RInv, TablesType, Exist
  <2>3. R # Null /\ R \in Releases /\ TargetRules(device[d])
    BY <2>1, <2>2 DEF TargetsOf, IInv, Ruled, Row
  <2>4. ServiceApp[s] = Release[R].app
    BY <2>3, ServiceOfApp
  <2> QED BY <2>1, <2>3, <2>4 DEF TargetRules, Ordinary
<1> QED BY <1>1, <1>2 DEF Cover

LEMMA PostRunStage ==
    ASSUME RInv, IInv, Immediate, serial, NEW q \in Requests, PostRun(q),
           NEW rec, request' = [request EXCEPT ![q] = rec], Active(rec)
    PROVE  Stage(rec, device, target, installs)
<1> DEFINE r == request[q]
           v == r.body
           new == [d \in Devices |-> IF d \in r.ids /\ ReportsOs(v) THEN ProgressedTarget(r.mine[d])
                                     ELSE IF d \in r.ids THEN r.mine[d].operated ELSE Null]
           changed == {d \in r.ids : new[d] # r.mine[d].operated}
           progressed == {d \in r.ids :
                            /\ ReportsOs(v) /\ Outdated(r.mine[d])
                            /\ OSRelease(r.mine[d].type, r.mine[d].os, r.mine[d].variant) # Null}
           mine == [d \in Devices |-> IF d \in changed THEN [r.mine[d] EXCEPT !.operated = new[d]]
                                      ELSE r.mine[d]]
           open == [r EXCEPT !.pc = "open", !.mine = mine,
                             !.tell = progressed \cup IF Tells(v) THEN r.ids ELSE {}]
           os == {<<<<"os", R>>, {d \in progressed : new[d] = R}, {R}>> : R \in {new[d] : d \in progressed}}
           calls == InstallCalls(v, r.ids, r.mine) \cup OsCalls(r.ids, v, r.mine)
<1>1. /\ r.pc = "postrun" /\ r.kind = "device"
      /\ rec = CreateServiceInstalls(open, InstallCalls(v, r.ids, r.mine) \cup os)
      /\ Given(v.operated) => HostappUpgrade({r.mine[d] : d \in r.ids}, v.operated, FALSE, invalid)
  <2>1. /\ r.pc = "postrun" /\ r.kind = "device"
        /\ \/ RollBack(q)
           \/ /\ Goto(q, CreateServiceInstalls(open, InstallCalls(v, r.ids, r.mine) \cup os))
              /\ Given(v.operated) => HostappUpgrade({r.mine[d] : d \in r.ids}, v.operated, FALSE, invalid)
    BY DEF PostRun
  <2>2. request'[q] = rec
    BY DEF RInv, TablesType
  <2>3. ~RollBack(q)
    BY <2>2 DEF RollBack, Active, Idle, RInv, TablesType
  <2> QED BY <2>1, <2>2, <2>3 DEF Goto, RInv, TablesType
<1>2. Good(r, device) /\ Stage(r, device, target, installs)
  BY <1>1 DEF RInv, IInv, Active
<1>3. /\ RequestType(r) /\ r.ids \subseteq Devices /\ v \in PatchBody
      /\ \A d \in Devices : r.mine[d] # None <=> d \in r.ids
      /\ \A d \in r.ids : r.mine[d] \in Row /\ device[d] \in Row /\ d \in Exist /\ After(device[d], v, r.mine[d])
  <2>1. RequestType(r) /\ WroteAll(r) /\ WritesIds(r, device) /\ WritesRows(r, device) /\ Bodied(r)
    BY <1>2 DEF Good
  <2>2. r.ids \subseteq Devices /\ \A d \in r.ids : r.mine[d] \in Row
    BY <1>1, <2>1 DEF RequestType, WroteAll
  <2>3. \A d \in r.ids : device[d] \in Row
    BY <1>1, SeenRowType
  <2> QED BY <1>1, <2>1, <2>2, <2>3 DEF WroteAll, WritesIds, WritesRows, Bodied, Exist
<1>4. /\ Given(v.app) => v.pin = Null /\ Ordinary(v.app)
      /\ DeletedRight(r, device, installs) /\ SystemOnly(r)
      /\ \A d \in r.ids :
           IF v.managed # Undefined THEN r.mine[d].managed = v.managed
           ELSE r.mine[d].managed = device[d].managed \/ Wanted(r, installs, d, r.mine[d].managed)
  BY <1>1, <1>2 DEF Stage, Before, Written
<1>5. os = OsCalls(r.ids, v, r.mine)
  <2>1. progressed = {d \in r.ids : Progressed(v, r.mine[d])}
    BY DEF Progressed
  <2>2. \A d \in r.ids : new[d] = NewOs(v, r.mine[d])
    BY <1>3 DEF NewOs
  <2>3. progressed \subseteq r.ids
    OBVIOUS
  <2> HIDE DEF new, progressed
  <2>4. {new[d] : d \in progressed} = {NewOs(v, r.mine[d]) : d \in progressed}
    BY <2>2, <2>3
  <2>5. ASSUME NEW R PROVE {d \in progressed : new[d] = R} = {d \in progressed : NewOs(v, r.mine[d]) = R}
    BY <2>2, <2>3
  <2>6. os = {<<<<"os", R>>, {d \in progressed : NewOs(v, r.mine[d]) = R}, {R}>> :
                R \in {NewOs(v, r.mine[d]) : d \in progressed}}
    BY <2>4, <2>5, Zenon
  <2> QED BY <2>1, <2>6, Zenon DEF OsCalls
<1>6. ASSUME NEW d \in r.ids
      PROVE  /\ mine[d] \in Row /\ mine[d].app = r.mine[d].app /\ mine[d].pin = r.mine[d].pin
             /\ mine[d].managed = r.mine[d].managed /\ mine[d].operated = NewOs(v, r.mine[d])
  <2> DEFINE m == r.mine[d]
             n == new[d]
  <2>1. mine[d] = IF n # m.operated THEN [m EXCEPT !.operated = n] ELSE m
    BY <1>3
  <2>2. m \in Row /\ n = NewOs(v, m)
    BY <1>3 DEF NewOs
  <2>3. n \in Releases \cup {Null}
    BY <2>2, NewOsType
  <2> HIDE DEF n, new, m, mine, r
  <2>4. mine[d] \in Row /\ mine[d].app = m.app /\ mine[d].pin = m.pin
        /\ mine[d].managed = m.managed /\ mine[d].operated = n
    BY <2>1, <2>2, <2>3 DEF Row
  <2> QED BY <2>2, <2>4 DEF m
<1>7. \A d \in Devices \ r.ids : mine[d] = None
  BY <1>3
<1>8. mine \in [Devices -> Row \cup {None}]
  <2>1. \A d \in Devices : mine[d] \in Row \cup {None}
    BY <1>6, <1>7
  <2> QED BY <2>1
<1>9. progressed \cup (IF Tells(v) THEN r.ids ELSE {}) \subseteq Devices
  BY <1>3
<1> HIDE DEF mine, progressed, os, changed, new
<1>10. /\ open.pc = "open" /\ open.kind = "device" /\ open.body = v /\ open.ids = r.ids
       /\ open.mine = mine /\ RequestType(open)
       /\ open.ins = r.ins /\ open.del = r.del /\ open.todo = r.todo
  <2> HIDE DEF r
  <2> QED BY <1>1, <1>3, <1>8, <1>9 DEF RequestType, Steps
<1> HIDE DEF open
<1>11. /\ rec.pc = "open" /\ rec.kind = "device" /\ rec.body = v /\ rec.ids = r.ids /\ rec.mine = mine
       /\ rec.todo \subseteq r.todo \cup Missing(calls)
       /\ Cover(rec, installs) = Cover(r, installs) \cup Missing(calls)
       /\ rec.ins = r.ins /\ rec.del = r.del
  <2>1. rec = CreateServiceInstalls(open, calls) /\ ~Async
    BY <1>1, <1>5 DEF Immediate
  <2>2. Cover(open, installs) = Cover(r, installs)
    BY <1>10 DEF Cover
  <2> HIDE DEF calls
  <2> QED BY <1>10, <2>1, <2>2, CreateKeeps, CreateNow
<1>12. ASSUME NEW d \in r.ids, NEW R, NEW s \in ServicesOf[R],
              \/ Given(v.app) /\ R \in AppRelease(v.app)
              \/ ~Given(v.app) /\ Given(v.pin) /\ R = v.pin
              \/ ~Given(v.app) /\ v.pin = Null /\ R \in AppRelease(r.mine[d].app)
              \/ Given(v.managed) /\ R = v.managed
              \/ Given(v.operated) /\ R = v.operated
              \/ Progressed(v, r.mine[d]) /\ R = NewOs(v, r.mine[d])
       PROVE  <<d, s>> \in Cover(rec, installs)
  <2>1. v \in PatchBody /\ r.mine[d] \in Row
    BY <1>3
  <2>2. <<d, s>> \in Missing(calls)
    BY <1>12, <2>1, CallsAsk
  <2> HIDE DEF calls
  <2> QED BY <1>11, <2>2
<1>13. ASSUME NEW d, NEW R, Wanted(r, installs, d, R) PROVE Wanted(rec, installs, d, R)
  BY <1>11, <1>13 DEF Wanted
<1>14. ASSUME NEW d \in r.ids, NEW R \in TargetsOf(mine[d], target)
       PROVE  Wanted(rec, installs, d, R)
  <2>1. \/ Given(v.app) /\ R \in AppRelease(v.app)
        \/ ~Given(v.app) /\ Given(v.pin) /\ R = v.pin
        \/ ~Given(v.app) /\ v.pin = Null /\ R \in AppRelease(r.mine[d].app)
        \/ ~Given(v.app) /\ R \in TargetsOf(device[d], target)
        \/ R = r.mine[d].managed
        \/ Given(v.operated) /\ R = v.operated
        \/ v.operated = Undefined /\ R = device[d].operated
        \/ Progressed(v, r.mine[d]) /\ R = NewOs(v, r.mine[d])
    BY <1>3, <1>4, <1>6, PostRunNeeds
  <2>2. R # Null /\ d \in Exist
    BY <1>3 DEF TargetsOf
  <2>3. ASSUME ~Given(v.app), R \in TargetsOf(device[d], target) PROVE Wanted(r, installs, d, R)
    BY <1>4, <2>2, <2>3, KeptTargets
  <2>4. ASSUME R = device[d].operated \/ R = device[d].managed PROVE Wanted(r, installs, d, R)
    <3>1. R \in TargetsOf(device[d], target)
      BY <2>2, <2>4 DEF TargetsOf
    <3> QED BY <1>4, <2>2, <2>4, <3>1, KeptTargets
  <2>5. ASSUME R = r.mine[d].managed PROVE (Given(v.managed) /\ R = v.managed) \/ Wanted(r, installs, d, R)
    BY <1>4, <2>2, <2>4, <2>5 DEF Given
  <2> HIDE DEF r
  <2> QED BY <1>12, <1>13, <2>1, <2>3, <2>4, <2>5 DEF Wanted
<1>15. ASSUME NEW p \in rec.ins \cup rec.todo
       PROVE  /\ p[1] \in r.ids
              /\ ~Ordinary(ServiceApp[p[2]]) \/ \E R \in MayHave(mine[p[1]], target) : p[2] \in ServicesOf[R]
  <2>1. CASE p \in r.todo
    BY <1>4, <2>1 DEF SystemOnly
  <2>2. CASE p \in Missing(calls)
    <3> DEFINE d == p[1]
    <3>1. PICK R : /\ d \in r.ids /\ p[2] \in ServicesOf[R]
                   /\ \/ Given(v.app) /\ R \in AppRelease(v.app)
                      \/ ~Given(v.app) /\ Given(v.pin) /\ R = v.pin
                      \/ R \in AppRelease(r.mine[d].app)
                      \/ Given(v.managed) /\ R = v.managed
                      \/ Given(v.operated) /\ R = v.operated
                      \/ Progressed(v, r.mine[d]) /\ R = NewOs(v, r.mine[d])
      BY <1>3, <2>2, CallsAskOnly
    <3>2. After(device[d], v, r.mine[d]) /\ r.mine[d] \in Row
      BY <1>3, <3>1
    <3>3. Given(v.operated) => NewOs(v, r.mine[d]) = v.operated
      <4> SUFFICES ASSUME Given(v.operated) PROVE NewOs(v, r.mine[d]) = v.operated
        OBVIOUS
      <4> DEFINE rows == {r.mine[x] : x \in r.ids}
      <4>1. r.mine[d] \in rows /\ v.operated \in Releases /\ r.mine[d].operated = v.operated
        BY <1>3, <3>1, <3>2 DEF After, PatchBody, Given
      <4>2. HostappUpgrade(rows, v.operated, FALSE, invalid)
        BY <1>1
      <4> HIDE DEF rows, r
      <4>3. ~Outdated(r.mine[d])
        BY <3>2, <4>1, <4>2, GivenOsStays
      <4> QED BY <4>1, <4>3 DEF NewOs, ProgressedTarget
    <3>4. R # Null
      <4>1. Progressed(v, r.mine[d]) => NewOs(v, r.mine[d]) # Null
        BY DEF Progressed, NewOs, ProgressedTarget
      <4> QED BY <3>1, <4>1 DEF AppRelease, Given
    <3>5. Given(v.managed) => r.mine[d].managed = v.managed
      BY <1>4, <3>1 DEF Given
    <3>6. Given(v.app) => r.mine[d].app = v.app
      BY <3>2 DEF After, Given
    <3>7. Given(v.pin) => r.mine[d].pin = v.pin
      BY <3>2 DEF After, Given
    <3>8. R \in MayHave(mine[d], target)
      <4>1. /\ mine[d].app = r.mine[d].app /\ mine[d].pin = r.mine[d].pin
            /\ mine[d].managed = r.mine[d].managed /\ mine[d].operated = NewOs(v, r.mine[d])
        BY <1>6, <3>1
      <4> HIDE DEF r, d
      <4> QED BY <3>1, <3>3, <3>4, <3>5, <3>6, <3>7, <4>1 DEF MayHave, TargetsOf, ShouldBeRunning, AppRelease
    <3> QED BY <3>1, <3>8
  <2>3. p \in r.todo \/ p \in Missing(calls)
    <3> HIDE DEF calls
    <3> QED BY <1>4, <1>11 DEF SystemOnly
  <2> QED BY <2>1, <2>2, <2>3
<1>16. ASSUME NEW d \in r.ids
       PROVE  /\ mine[d].app = IF Given(v.app) THEN v.app ELSE device[d].app
              /\ Ordinary(mine[d].app)
  <2>1. v.app \in Apps \cup {Undefined} /\ Ordinary(device[d].app)
    BY <1>3 DEF PatchBody, IInv, Ruled
  <2>2. mine[d].app = IF Given(v.app) THEN v.app ELSE device[d].app
    <3>1. Null \notin Apps /\ Null # Undefined
      BY FleetAssumption
    <3>2. After(device[d], v, r.mine[d]) /\ mine[d].app = r.mine[d].app
      BY <1>3, <1>6
    <3> HIDE DEF r
    <3> QED BY <2>1, <3>1, <3>2 DEF After, Given
  <2> QED BY <1>4, <2>1, <2>2
<1>17. DeletedRight(rec, device, installs)
  BY <1>4, <1>11 DEF DeletedRight
<1>18. \A d \in Devices : mine[d] # None <=> d \in r.ids
  BY <1>6, <1>7, FleetAssumption
<1>19. OpenDevice(rec, target, installs)
  <2> HIDE DEF r
  <2> QED BY <1>11, <1>14, <1>15, <1>16, <1>18 DEF OpenDevice
<1> HIDE DEF r
<1> QED BY <1>4, <1>11, <1>16, <1>17, <1>19 DEF Stage, Before, Written


LEMMA PostDeviceStage ==
    ASSUME RInv, IInv, Immediate, NEW q \in Requests, PostDevice(q),
           NEW rec, request' = [request EXCEPT ![q] = rec]
    PROVE  Stage(rec, device, target, installs)
<1>1. PICK b \in Posts, d \in Devices \ Exist :
        LET row == RegisteredSupervisor(RegisteredOs(b))
            open == [Idle EXCEPT !.pc = "open", !.kind = "post", !.body = row, !.ids = {d},
                       !.mine = [Idle.mine EXCEPT ![d] = row]]
        IN Goto(q, CreateServiceInstalls(open,
             {<<"app", {d}, AppRelease(row.app)>>} \cup
             IF Async THEN {}
             ELSE {<<"pin", {d}, {row.pin} \ {Null}>>,
                   <<"system", {d}, {row.managed, row.operated} \ {Null}>>}))
  BY DEF PostDevice
<1> DEFINE row == RegisteredSupervisor(RegisteredOs(b))
           mine == [Idle.mine EXCEPT ![d] = row]
           open == [Idle EXCEPT !.pc = "open", !.kind = "post", !.body = row, !.ids = {d}, !.mine = mine]
           app == <<"app", {d}, AppRelease(row.app)>>
           pin == <<"pin", {d}, {row.pin} \ {Null}>>
           system == <<"system", {d}, {row.managed, row.operated} \ {Null}>>
           calls == {app, pin, system}
<1>2. ~Async /\ rec = CreateServiceInstalls(open, calls)
  <2>1. ~Async /\ {app} \cup (IF Async THEN {} ELSE {pin, system}) = calls
    <3> HIDE DEF app, pin, system
    <3> QED BY DEF Immediate
  <2>2. Goto(q, CreateServiceInstalls(open, {app} \cup (IF Async THEN {} ELSE {pin, system})))
    BY <1>1
  <2> HIDE DEF app, pin, system, open, calls
  <2> QED BY <2>1, <2>2 DEF Goto, RInv, TablesType
<1>3. row \in Row
  BY RegisteredIs
<1>4. Ordinary(row.app)
  <2>1. b \in Row /\ Ordinary(b.app)
    BY FleetAssumption, TablesAssumption
  <2> DEFINE c == RegisteredOs(b)
  <2>2. c \in Row /\ c.app = b.app
    <3> DEFINE o == OSRelease(b.type, b.os, b.variant)
    <3>1. o \in Releases \cup {Null}
      BY OSReleaseType
    <3>2. c = b \/ (c = [b EXCEPT !.operated = o] /\ o # Null)
      BY DEF RegisteredOs
    <3> HIDE DEF o, c
    <3> QED BY <2>1, <3>1, <3>2 DEF Row
  <2> DEFINE o == SupervisorRelease(c.sv, CpuArch[c.type])
  <2>3. row = c \/ row = [c EXCEPT !.managed = o]
    <3> HIDE DEF c
    <3>1. RegisteredSupervisor(c) = c \/ RegisteredSupervisor(c) = [c EXCEPT !.managed = o]
      BY DEF RegisteredSupervisor
    <3> QED BY <3>1 DEF c
  <2> HIDE DEF c, o, row
  <2>4. row.app = c.app
    BY <2>2, <2>3 DEF Row
  <2> QED BY <2>1, <2>2, <2>4
<1> HIDE DEF row
<1>5. mine \in [Devices -> Row \cup {None}] /\ \A e \in Devices : mine[e] = IF e = d THEN row ELSE None
  BY <1>3 DEF Idle
<1> HIDE DEF mine
<1>6. /\ open.pc = "open" /\ open.kind = "post" /\ open.ids = {d} /\ open.mine = mine /\ RequestType(open)
      /\ open.ins = {} /\ open.del = {} /\ open.todo = {}
  BY <1>3, <1>5 DEF RequestType, Idle, Steps
<1> HIDE DEF open
<1>7. /\ rec.pc = "open" /\ rec.kind = "post" /\ rec.ids = {d} /\ rec.mine = mine
      /\ rec.todo \subseteq Missing(calls)
      /\ Missing(calls) \subseteq Cover(rec, installs)
      /\ rec.ins = {} /\ rec.del = {}
  <2> HIDE DEF calls
  <2> QED BY <1>2, <1>6, CreateKeeps, CreateNow
<1>8. ASSUME NEW R \in TargetsOf(row, target) PROVE Wanted(rec, installs, d, R)
  <2> SUFFICES ASSUME NEW s \in ServicesOf[R] PROVE <<d, s>> \in Missing(calls)
    BY <1>7 DEF Wanted
  <2>1. R \in app[3] \/ R \in pin[3] \/ R \in system[3]
    BY DEF TargetsOf, ShouldBeRunning, AppRelease
  <2>2. d \in app[2] /\ d \in pin[2] /\ d \in system[2] /\ app \in calls /\ pin \in calls /\ system \in calls
    <3>1. d \in app[2] /\ d \in pin[2] /\ d \in system[2]
      OBVIOUS
    <3> HIDE DEF app, pin, system
    <3> QED BY <3>1
  <2> HIDE DEF calls, app, pin, system
  <2> QED BY <2>1, <2>2, InMissing
<1>9. ASSUME NEW p \in rec.ins \cup rec.todo
      PROVE  p[1] = d /\ \E R \in MayHave(row, target) : p[2] \in ServicesOf[R]
  <2>1. p \in Missing(calls)
    <3> HIDE DEF calls
    <3> QED BY <1>7
  <2>2. PICK c \in calls : \E R \in c[3] : p[1] \in c[2] /\ p[2] \in ServicesOf[R]
    <3> HIDE DEF calls
    <3> QED BY <2>1, OfMissing
  <2>3. c[2] = {d} /\ c[3] \in {AppRelease(row.app), {row.pin} \ {Null}, {row.managed, row.operated} \ {Null}}
    BY <2>2
  <2>4. c[3] \subseteq MayHave(row, target)
    BY <2>3 DEF MayHave, TargetsOf, ShouldBeRunning, AppRelease
  <2> QED BY <2>2, <2>3, <2>4
<1> HIDE DEF calls
<1>10. OpenDevice(rec, target, installs)
  <2>1. \A e \in Devices : rec.mine[e] # None <=> e \in rec.ids
    BY <1>3, <1>5, <1>7, FleetAssumption
  <2>2. rec.mine[d] = row
    BY <1>5, <1>7
  <2> QED BY <1>4, <1>7, <1>8, <1>9, <2>1, <2>2 DEF OpenDevice
<1> QED BY <1>7, <1>10 DEF Stage

LEMMA PatchApplicationStage ==
    ASSUME RInv, Immediate, NEW q \in Requests, PatchApplication(q),
           NEW rec, request' = [request EXCEPT ![q] = rec]
    PROVE  Stage(rec, device, target, installs)
<1>1. PICK b \in AppBodies :
        LET ids == {d \in Exist : device[d].app = b.app /\ device[d].pin = Null}
            open == [Idle EXCEPT !.pc = "open", !.kind = "app", !.body = b]
        IN Goto(q, IF b.target = Null THEN open
                   ELSE CreateServiceInstalls(open, {<<"app", ids, {b.target}>>}))
  BY DEF PatchApplication
<1> DEFINE ids == {d \in Exist : device[d].app = b.app /\ device[d].pin = Null}
           open == [Idle EXCEPT !.pc = "open", !.kind = "app", !.body = b]
           c == <<"app", ids, {b.target}>>
           calls == {c}
<1>2. rec = IF b.target = Null THEN open ELSE CreateServiceInstalls(open, calls)
  BY <1>1 DEF Goto, RInv, TablesType
<1>3. /\ open.pc = "open" /\ open.kind = "app" /\ open.body = b /\ RequestType(open)
      /\ open.ins = {} /\ open.del = {} /\ open.todo = {}
  BY FleetAssumption DEF RequestType, Idle, Steps
<1> HIDE DEF open
<1>4. CASE b.target = Null
  BY <1>2, <1>3, <1>4 DEF Stage, OpenApp
<1>5. CASE b.target # Null
  <2>1. /\ rec.pc = "open" /\ rec.kind = "app" /\ rec.body = b
        /\ rec.todo \subseteq Missing(calls)
        /\ Missing(calls) \subseteq Cover(rec, installs)
        /\ rec.ins = {} /\ rec.del = {}
    <3> HIDE DEF calls
    <3> QED BY <1>2, <1>3, <1>5, CreateKeeps, CreateNow DEF Immediate
  <2>2. c[2] = ids /\ c[3] = {b.target} /\ c \in calls /\ \A x \in calls : x = c
    OBVIOUS
  <2> HIDE DEF c, calls
  <2>3. ASSUME NEW d \in ids PROVE Wanted(rec, installs, d, b.target)
    <3>1. \A s \in ServicesOf[b.target] : <<d, s>> \in Missing(calls)
      BY <2>2, InMissing
    <3> QED BY <2>1, <3>1 DEF Wanted
  <2>4. ASSUME NEW p \in rec.ins \cup rec.todo PROVE p[1] \in ids /\ p[2] \in ServicesOf[b.target]
    <3>1. p \in Missing(calls)
      BY <2>1
    <3>2. PICK x \in calls : \E R \in x[3] : p[1] \in x[2] /\ p[2] \in ServicesOf[R]
      BY <3>1, OfMissing
    <3> QED BY <2>2, <3>2
  <2> QED BY <1>5, <2>1, <2>3, <2>4 DEF Stage, OpenApp, Exist
<1> QED BY <1>4, <1>5

LEMMA InsertStage ==
    ASSUME RInv, IInv, serial, NEW q \in Requests, Insert(q),
           NEW rec, request' = [request EXCEPT ![q] = rec], Active(rec)
    PROVE  Stage(rec, device, target, installs)
<1> DEFINE r == request[q]
           new == [r EXCEPT !.todo = {}, !.ins = r.ins \cup r.todo]
<1>1. r.pc = "open" /\ rec = new
  <2>1. r.pc = "open" /\ (Goto(q, new) \/ RollBack(q))
    BY DEF Insert
  <2>2. rec \in {new, Idle}
    BY <2>1 DEF Goto, RollBack, RInv, TablesType
  <2>3. rec # Idle
    BY DEF Active, Idle
  <2> QED BY <2>1, <2>2, <2>3
<1>2. Stage(r, device, target, installs) /\ RequestType(r)
  BY <1>1 DEF RInv, IInv, Active, Good
<1>3. /\ rec.pc = "open" /\ rec.kind = r.kind /\ rec.body = r.body /\ rec.ids = r.ids /\ rec.mine = r.mine
      /\ rec.del = r.del /\ rec.todo = {} /\ rec.ins = r.ins \cup r.todo
  <2> HIDE DEF r
  <2> QED BY <1>1, <1>2 DEF RequestType
<1>4. Cover(rec, installs) = Cover(r, installs) /\ rec.ins \cup rec.todo = r.ins \cup r.todo
  BY <1>3 DEF Cover
<1>5. \A d, R : Wanted(rec, installs, d, R) <=> Wanted(r, installs, d, R)
  BY <1>4 DEF Wanted
<1> HIDE DEF r
<1>6. r.kind = "device" => Before(rec, device, installs) /\ Written(rec, device, installs)
  <2>1. DeletedRight(r, device, installs) => DeletedRight(rec, device, installs)
    BY <1>3 DEF DeletedRight
  <2> SUFFICES ASSUME r.kind = "device"
               PROVE  Before(rec, device, installs) /\ Written(rec, device, installs)
    OBVIOUS
  <2>2. Before(r, device, installs) /\ Written(r, device, installs)
    BY <1>2 DEF Stage
  <2>3. DeletedRight(rec, device, installs)
    BY <1>1, <2>1, <2>2 DEF Before
  <2>4. Before(rec, device, installs)
    BY <1>3, <2>2, <2>3 DEF Before
  <2>5. Written(rec, device, installs)
    BY <1>1, <1>3, <2>2 DEF Written
  <2> QED BY <2>4, <2>5
<1>7. OpenApp(r, device, installs) => OpenApp(rec, device, installs)
  BY <1>3, <1>4, <1>5 DEF OpenApp
<1>8. OpenDevice(r, target, installs) => OpenDevice(rec, target, installs)
  BY <1>3, <1>4, <1>5 DEF OpenDevice
<1> QED BY <1>1, <1>2, <1>3, <1>6, <1>7, <1>8 DEF Stage, r


(* No step creates a task.                                                 *)
LEMMA NowPosts ==
    ASSUME ~Async, NEW rec, NEW calls
    PROVE  CreateServiceInstalls(rec, calls).posted = rec.posted
<1>1. PICK x : CreateServiceInstalls(rec, calls) = [rec EXCEPT !.todo = x]
  BY DEF CreateServiceInstalls
<1>2. [rec EXCEPT !.todo = x].posted = rec.posted
  OBVIOUS
<1> QED BY <1>1, <1>2

LEMMA IdlePosted == Idle.posted = EmptyBag
BY DEF Idle

LEMMA StepPostsNothing ==
    ASSUME RInv, IInv, Immediate, NEW q \in Requests, RequestStep(q),
           NEW rec, request' = [request EXCEPT ![q] = rec]
    PROVE  rec.posted = EmptyBag
<1>0. request'[q] = rec
  BY DEF RInv, TablesType
<1> DEFINE r == request[q]
<1>1. RequestType(r) /\ r.posted = EmptyBag
  BY DEF RInv, Good, IInv, NoTasks
<1>2. ASSUME RollBack(q) PROVE rec.posted = EmptyBag
  BY <1>0, <1>2, IdlePosted DEF RollBack, RInv, TablesType
<1>3. CASE ReceivePatch(q)
  <2>1. PICK b \in Bodies, ids \in (SUBSET Exist) \ {{}} :
          rec = [Idle EXCEPT !.pc = "prerun", !.body = ParsedType(ParsedMove(b)), !.ids = ids]
    BY <1>0, <1>3 DEF ReceivePatch, Goto, RInv, TablesType
  <2> QED BY <2>1 DEF Idle
<1>4. CASE PreRun(q)
  <2>1. CASE ~RollBack(q)
    <3>1. PICK pc, moved, sv, old :
            Goto(q, [r EXCEPT !.pc = pc, !.moved = moved, !.supervisor = sv, !.del = old])
      BY <1>4, <2>1 DEF PreRun
    <3>2. rec = [r EXCEPT !.pc = pc, !.moved = moved, !.supervisor = sv, !.del = old]
      BY <1>0, <3>1 DEF Goto, RInv, TablesType
    <3> HIDE DEF r
    <3> QED BY <1>1, <3>2 DEF RequestType
  <2> QED BY <1>2, <2>1
<1>5. CASE SetSupervisor(q)
  <2>1. PICK mine, calls : Goto(q, CreateServiceInstalls([r EXCEPT !.pc = "update", !.mine = mine], calls))
    BY <1>5 DEF SetSupervisor
  <2> DEFINE new == [r EXCEPT !.pc = "update", !.mine = mine]
  <2>2. rec = CreateServiceInstalls(new, calls)
    BY <1>0, <2>1 DEF Goto, RInv, TablesType
  <2>3. rec.posted = new.posted
    BY <2>2, NowPosts DEF Immediate
  <2> HIDE DEF r
  <2> QED BY <1>1, <2>3 DEF RequestType
<1>6. CASE Update(q)
  <2>1. PICK mine : rec = [r EXCEPT !.pc = "postrun", !.mine = mine]
    BY <1>0, <1>6 DEF Update, Goto, RInv, TablesType
  <2> HIDE DEF r
  <2> QED BY <1>1, <2>1 DEF RequestType
<1>7. CASE PostRun(q)
  <2>1. CASE ~RollBack(q)
    <3>1. PICK mine, tell, calls :
            Goto(q, CreateServiceInstalls([r EXCEPT !.pc = "open", !.mine = mine, !.tell = tell], calls))
      BY <1>7, <2>1 DEF PostRun
    <3> DEFINE new == [r EXCEPT !.pc = "open", !.mine = mine, !.tell = tell]
    <3>2. rec = CreateServiceInstalls(new, calls)
      BY <1>0, <3>1 DEF Goto, RInv, TablesType
    <3>3. rec.posted = new.posted
      BY <3>2, NowPosts DEF Immediate
    <3> HIDE DEF r
    <3> QED BY <1>1, <3>3 DEF RequestType
  <2> QED BY <1>2, <2>1
<1>8. CASE PostDevice(q)
  <2>1. PICK row, ids, mine, calls :
          Goto(q, CreateServiceInstalls([Idle EXCEPT !.pc = "open", !.kind = "post", !.body = row,
                                           !.ids = ids, !.mine = mine], calls))
    BY <1>8 DEF PostDevice
  <2> DEFINE new == [Idle EXCEPT !.pc = "open", !.kind = "post", !.body = row, !.ids = ids, !.mine = mine]
  <2>2. rec = CreateServiceInstalls(new, calls)
    BY <1>0, <2>1 DEF Goto, RInv, TablesType
  <2>3. rec.posted = new.posted
    BY <2>2, NowPosts DEF Immediate
  <2> QED BY <2>3 DEF Idle
<1>9. CASE PatchApplication(q)
  <2>1. PICK b \in AppBodies : \E calls :
          LET new == [Idle EXCEPT !.pc = "open", !.kind = "app", !.body = b]
          IN Goto(q, IF b.target = Null THEN new ELSE CreateServiceInstalls(new, calls))
    BY <1>9, Zenon DEF PatchApplication
  <2> DEFINE new == [Idle EXCEPT !.pc = "open", !.kind = "app", !.body = b]
  <2>2. PICK calls : rec = IF b.target = Null THEN new ELSE CreateServiceInstalls(new, calls)
    BY <1>0, <2>1 DEF Goto, RInv, TablesType
  <2>3. rec.posted = new.posted
    BY <2>2, NowPosts DEF Immediate
  <2> QED BY <2>3 DEF Idle
<1>10. CASE Insert(q)
  <2>1. CASE ~RollBack(q)
    <3>1. rec = [r EXCEPT !.todo = {}, !.ins = r.ins \cup r.todo]
      BY <1>0, <1>10, <2>1 DEF Insert, Goto, RInv, TablesType
    <3> HIDE DEF r
    <3> QED BY <1>1, <3>1 DEF RequestType
  <2> QED BY <1>2, <2>1
<1>11. CASE Commit(q)
  <2>1. CASE ~RollBack(q)
    <3>1. rec = [Idle EXCEPT !.pc = "notify", !.kind = r.kind, !.body = r.body, !.tell = r.tell]
      BY <1>0, <1>11, <2>1 DEF Commit, Goto, RInv, TablesType
    <3> QED BY <3>1 DEF Idle
  <2> QED BY <1>2, <2>1
<1>12. CASE Notify(q) \/ FailRequest(q)
  BY <1>2, <1>12 DEF Notify, FailRequest
<1> QED BY <1>3, <1>4, <1>5, <1>6, <1>7, <1>8, <1>9, <1>10, <1>11, <1>12 DEF RequestStep


LEMMA StepIsGoto ==
    ASSUME NEW q \in Requests, RequestStep(q)
    PROVE  \E rec : request' = [request EXCEPT ![q] = rec]
<1>1. CASE ReceivePatch(q) \/ PostDevice(q) \/ PatchApplication(q)
  BY <1>1, Zenon DEF ReceivePatch, PostDevice, PatchApplication, Goto
<1>2. CASE PreRun(q) \/ SetSupervisor(q) \/ Update(q)
  BY <1>2, Zenon DEF PreRun, SetSupervisor, Update, Goto, RollBack
<1>3. CASE PostRun(q) \/ Insert(q) \/ Notify(q) \/ FailRequest(q)
  BY <1>3, Zenon DEF PostRun, Insert, Notify, FailRequest, Goto, RollBack
<1>4. CASE Commit(q)
  BY <1>4, Zenon DEF Commit, Goto, RollBack
<1> QED BY <1>1, <1>2, <1>3, <1>4 DEF RequestStep

LEMMA NoTasksStep ==
    ASSUME RInv, IInv, Immediate, [Next]_vars
    PROVE  NoTasks' /\ \A w \in Workers : ~WorkerStep(w)
<1>1. tasks = EmptyBag /\ (\A w \in Workers : worker[w].pc = "idle")
      /\ \A q \in Requests : request[q].posted = EmptyBag
  BY DEF IInv, NoTasks
<1>2. BagToSet(EmptyBag) = {} /\ EmptyBag (+) EmptyBag = EmptyBag
  BY DEF BagToSet, EmptyBag, SetToBag, (+)
<1>3. ASSUME NEW w \in Workers, WorkerStep(w) PROVE FALSE
  <2>1. ~StartTask(w)
    BY <1>1, <1>2 DEF StartTask
  <2>2. worker[w].pc = "idle"
    BY <1>1
  <2> QED BY <1>3, <2>1, <2>2 DEF WorkerStep, FindMissing, InsertMissing, TimeIsUp, CommitTask, FinishTask,
             TaskConflict, DeadlockTask, WaitsFor, RetryTask, CrashWorker
<1>4. ASSUME NEW q \in Requests, RequestStep(q) PROVE NoTasks'
  <2>1. PICK rec : request' = [request EXCEPT ![q] = rec]
    BY <1>4, StepIsGoto
  <2>2. rec.posted = EmptyBag
    BY <1>4, <2>1, StepPostsNothing
  <2>3. \A p \in Requests : request'[p].posted = EmptyBag
    BY <1>1, <2>1, <2>2 DEF RInv, TablesType
  <2>4. worker' = worker /\ tasks' \in {tasks, tasks (+) request[q].posted}
    <3>1. CASE ReceivePatch(q) \/ PostDevice(q) \/ PatchApplication(q)
      BY <3>1, Zenon DEF ReceivePatch, PostDevice, PatchApplication
    <3>2. CASE PreRun(q) \/ SetSupervisor(q) \/ Update(q)
      BY <3>2, Zenon DEF PreRun, SetSupervisor, Update
    <3>3. CASE PostRun(q) \/ Insert(q) \/ Notify(q) \/ FailRequest(q)
      BY <3>3, Zenon DEF PostRun, Insert, Notify, FailRequest
    <3>4. CASE Commit(q)
      BY <3>4 DEF Commit
    <3> QED BY <1>4, <3>1, <3>2, <3>3, <3>4 DEF RequestStep
  <2>5. tasks' = EmptyBag
    BY <1>1, <1>2, <2>4
  <2> QED BY <1>1, <2>3, <2>4, <2>5 DEF NoTasks
<1>5. ASSUME UNCHANGED <<tasks, worker, request>> PROVE NoTasks'
  BY <1>1, <1>5 DEF NoTasks
<1>6. ASSUME NEW d \in Reporting, Report(d) PROVE UNCHANGED <<tasks, worker, request>>
  BY <1>6 DEF Report
<1>7. ASSUME NEW s \in Withdrawn, Invalidate(s) PROVE UNCHANGED <<tasks, worker, request>>
  BY <1>7 DEF Invalidate
<1>8. ASSUME UNCHANGED vars PROVE UNCHANGED <<tasks, worker, request>>
  BY <1>8 DEF vars
<1> QED BY <1>3, <1>4, <1>5, <1>6, <1>7, <1>8 DEF Next


(* The tables after a request that ran alone.                              *)
LEMMA CommitApp ==
    ASSUME RInv, IInv, serial, NEW q \in Requests, Commit(q), request[q].kind = "app"
    PROVE  Complete' /\ Tidy' /\ Ruled'
<1> DEFINE r == request[q]
           b == r.body
           row == [d \in Devices |-> IF r.mine[d] # None THEN r.mine[d] ELSE device[d]]
<1>1. Good(r, device) /\ Stage(r, device, target, installs) /\ r.pc = "open" /\ r.todo = {}
  BY DEF RInv, IInv, Active, Commit
<1>2. b \in AppBody /\ RequestType(r) /\ \A d \in Devices : r.mine[d] = None
  BY <1>1 DEF Good, Bodied, WritesIds
<1>3. r.del = {} /\ OpenApp(r, device, installs)
  BY <1>1 DEF Stage
<1>4. CASE ~RulesHold(r)
  BY <1>4 DEF Commit, IInv, Complete, Tidy, Ruled, Exist
<1>5. CASE RulesHold(r)
  <2>1. device' = row /\ target' = [target EXCEPT ![b.app] = b.target] /\ installs' = SeenInstalls(r)
    BY <1>5 DEF Commit
  <2>2. device' = device
    BY <1>2, <2>1 DEF RInv, TablesType
  <2>3. installs' = installs \cup r.ins /\ installs' = Cover(r, installs)
    BY <1>1, <1>3, <2>1 DEF SeenInstalls, Cover
  <2>4. b.app \in Apps /\ b.target \in Releases \cup {Null} /\ target \in [Apps -> Releases \cup {Null}]
    BY <1>2 DEF AppBody, RInv, TablesType
  <2>5. \A a \in Apps : target'[a] = IF a = b.app THEN b.target ELSE target[a]
    BY <2>1, <2>4
  <2>6. b.target # Null => Release[b.target].app = b.app
    BY <1>5 DEF RulesHold
  <2>7. Exist' = Exist /\ \A d \in Exist : d \in Devices /\ device[d] \in Row
    BY <2>2 DEF Exist, RInv, TablesType
  <2>8. Complete'
    <3> SUFFICES ASSUME NEW d \in Exist, NEW R \in TargetsOf(device[d], target'), NEW s \in ServicesOf[R]
                 PROVE  <<d, s>> \in installs'
      BY <2>2, <2>7 DEF Complete
    <3>1. device[d].app \in Apps
      BY <2>7 DEF Row
    <3>2. \/ R \in TargetsOf(device[d], target)
          \/ R = b.target /\ b.target # Null /\ device[d].app = b.app /\ device[d].pin = Null
      BY <2>5, <3>1 DEF TargetsOf, ShouldBeRunning
    <3>3. CASE R \in TargetsOf(device[d], target)
      BY <2>3, <3>3 DEF IInv, Complete
    <3>4. CASE R = b.target /\ b.target # Null /\ device[d].app = b.app /\ device[d].pin = Null
      BY <1>3, <2>3, <2>7, <3>4 DEF OpenApp, Wanted, Exist
    <3> QED BY <3>2, <3>3, <3>4
  <2>9. Tidy'
    <3> SUFFICES ASSUME NEW p \in installs' PROVE p[1] \in Exist /\ Owned(p[2], device[p[1]].app)
      BY <2>2, <2>7 DEF Tidy
    <3>1. CASE p \in installs
      BY <3>1 DEF IInv, Tidy
    <3>2. CASE p \in r.ins
      <4>1. /\ b.target # Null /\ p[2] \in ServicesOf[b.target]
            /\ p[1] \in Exist /\ device[p[1]].app = b.app
        BY <1>3, <3>2 DEF OpenApp, Exist
      <4>2. ServiceApp[p[2]] = b.app
        BY <2>4, <2>6, <4>1, ServiceOfApp
      <4> QED BY <4>1, <4>2 DEF Owned
    <3> QED BY <2>3, <3>1, <3>2
  <2>10. Ruled'
    BY <2>2, <2>5, <2>6, <2>7 DEF IInv, Ruled
  <2> QED BY <2>8, <2>9, <2>10
<1> QED BY <1>4, <1>5

LEMMA CommitDevice ==
    ASSUME RInv, IInv, serial, NEW q \in Requests, Commit(q), request[q].kind # "app"
    PROVE  Complete' /\ Tidy' /\ Ruled'
<1> DEFINE r == request[q]
           row == [d \in Devices |-> IF r.mine[d] # None THEN r.mine[d] ELSE device[d]]
<1>1. Good(r, device) /\ Stage(r, device, target, installs) /\ r.pc = "open" /\ r.todo = {}
  BY DEF RInv, IInv, Active, Commit
<1>2. /\ RequestType(r) /\ WritesIds(r, device) /\ OpenDevice(r, target, installs)
      /\ r.ids \subseteq Devices /\ r.kind \in {"device", "post"}
  <2>1. RequestType(r) /\ WritesIds(r, device) /\ OpenDevice(r, target, installs)
    BY <1>1 DEF Good, Stage
  <2>2. r.ids \subseteq Devices /\ r.kind \in {"device", "post"}
    BY <2>1 DEF RequestType
  <2> QED BY <2>1, <2>2
<1>3. CASE ~RulesHold(r)
  BY <1>3 DEF Commit, IInv, Complete, Tidy, Ruled, Exist
<1>4. CASE RulesHold(r)
  <2>1. device' = row /\ target' = target /\ installs' = SeenInstalls(r)
    BY <1>4 DEF Commit
  <2>2. /\ \A d \in r.ids : device'[d] = r.mine[d] /\ r.mine[d] \in Row
        /\ \A d \in Devices \ r.ids : device'[d] = device[d]
    BY <1>2, <2>1 DEF OpenDevice, RequestType
  <2>3. installs' = (installs \ r.del) \cup r.ins /\ installs' = Cover(r, installs)
    BY <1>1, <2>1 DEF SeenInstalls, Cover
  <2>4. \A d \in Devices : d \in Exist' <=> d \in r.ids \/ d \in Exist
    BY <2>2, FleetAssumption DEF Exist
  <2>5. Exist' \subseteq Devices /\ Exist \subseteq Devices
    BY DEF Exist
  <2>6. \A p \in r.del : p[1] \in r.ids
    <3>1. r.kind = "device" => DeletedRight(r, device, installs)
      BY <1>1 DEF Stage, Before
    <3> QED BY <1>1, <3>1 DEF Stage, DeletedRight
  <2>7. \A d \in r.ids : TargetRules(r.mine[d]) /\ Ordinary(r.mine[d].app)
    BY <1>2, <1>4 DEF RulesHold, OpenDevice
  <2>8. Complete'
    <3> SUFFICES ASSUME NEW d \in Exist', NEW R \in TargetsOf(device'[d], target), NEW s \in ServicesOf[R]
                 PROVE  <<d, s>> \in installs'
      BY <2>1 DEF Complete
    <3>1. CASE d \in r.ids
      BY <1>2, <2>2, <2>3, <3>1 DEF OpenDevice, Wanted
    <3>2. CASE d \notin r.ids
      <4>1. d \in Exist /\ device'[d] = device[d]
        BY <2>2, <2>4, <2>5, <3>2
      <4>2. <<d, s>> \in installs
        BY <4>1 DEF IInv, Complete
      <4> QED BY <2>3, <2>6, <3>2, <4>2
    <3> QED BY <3>1, <3>2
  <2>9. Ruled'
    <3>1. \A d \in Exist' : TargetRules(device'[d]) /\ Ordinary(device'[d].app)
      BY <2>2, <2>4, <2>5, <2>7 DEF IInv, Ruled
    <3> QED BY <2>1, <3>1 DEF IInv, Ruled
  <2>10. Tidy'
    <3> SUFFICES ASSUME NEW p \in installs' PROVE p[1] \in Exist' /\ Owned(p[2], device'[p[1]].app)
      BY DEF Tidy
    <3>1. CASE p \in r.ins
      <4> DEFINE d == p[1]
                 m == r.mine[d]
      <4>1. /\ d \in r.ids
            /\ ~Ordinary(ServiceApp[p[2]]) \/ \E R \in MayHave(m, target) : p[2] \in ServicesOf[R]
        BY <1>2, <3>1 DEF OpenDevice
      <4>2. d \in Exist' /\ device'[d] = m /\ m \in Row /\ TargetRules(m)
        BY <1>2, <2>2, <2>4, <2>7, <4>1
      <4>3. CASE \E R \in MayHave(m, target) : p[2] \in ServicesOf[R]
        <5>1. PICK R \in MayHave(m, target) : p[2] \in ServicesOf[R]
          BY <4>3
        <5>2. R # Null /\ R \in {m.pin, target[m.app], m.managed, m.operated}
          BY DEF MayHave, TargetsOf, ShouldBeRunning
        <5>3. m.app \in Apps /\ R \in Releases
          BY <4>2, <5>2 DEF Row, RInv, TablesType
        <5>4. ServiceApp[p[2]] = Release[R].app
          BY <5>1, <5>3, ServiceOfApp
        <5>5. R = target[m.app] => Release[R].app = m.app
          BY <5>2, <5>3 DEF IInv, Ruled
        <5>6. Release[R].app = m.app \/ ~Ordinary(Release[R].app)
          <6> HIDE DEF m
          <6> QED BY <4>2, <5>2, <5>5 DEF TargetRules, Ordinary
        <5> QED BY <4>2, <5>4, <5>6 DEF Owned
      <4> QED BY <4>1, <4>2, <4>3 DEF Owned
    <3>2. CASE p \in installs \ r.del
      <4>1. p[1] \in Exist /\ Owned(p[2], device[p[1]].app)
        BY <3>2 DEF IInv, Tidy
      <4>2. CASE p[1] \notin r.ids
        BY <2>2, <2>4, <2>5, <4>1, <4>2
      <4>3. CASE p[1] \in r.ids
        <5>1. r.kind = "device"
          BY <1>2, <2>5, <4>1, <4>3 DEF WritesIds, OpenDevice, Exist
        <5>2. /\ DeletedRight(r, device, installs)
              /\ r.mine[p[1]].app = IF Given(r.body.app) THEN r.body.app ELSE device[p[1]].app
          BY <1>1, <4>3, <5>1 DEF Stage, Before, Written
        <5>3. device'[p[1]] = r.mine[p[1]] /\ p[1] \in Exist'
          BY <2>2, <2>4, <2>5, <4>1, <4>3
        <5>4. CASE ServiceApp[p[2]] = device[p[1]].app
          BY <3>2, <4>3, <5>2, <5>3, <5>4 DEF DeletedRight, Owned
        <5> QED BY <4>1, <5>3, <5>4 DEF Owned
      <4> QED BY <4>2, <4>3
    <3> QED BY <2>3, <3>1, <3>2
  <2> QED BY <2>8, <2>9, <2>10
<1> QED BY <1>3, <1>4


LEMMA StepStage ==
    ASSUME RInv, IInv, Immediate, serial, NEW q \in Requests, RequestStep(q), ~Commit(q),
           NEW rec, request' = [request EXCEPT ![q] = rec], Active(rec)
    PROVE  Stage(rec, device, target, installs)
<1>1. ASSUME Notify(q) \/ FailRequest(q) PROVE FALSE
  <2>1. rec = Idle
    BY <1>1 DEF Notify, FailRequest, RollBack, RInv, TablesType
  <2> QED BY <2>1 DEF Idle, Active
<1>2. CASE ReceivePatch(q)
  BY <1>2, ReceivePatchStage
<1>3. CASE PreRun(q)
  BY <1>3, PreRunStage
<1>4. CASE SetSupervisor(q)
  BY <1>4, SetSupervisorStage
<1>5. CASE Update(q)
  BY <1>5, UpdateStage
<1>6. CASE PostRun(q)
  BY <1>6, PostRunStage
<1>7. CASE PostDevice(q)
  BY <1>7, PostDeviceStage
<1>8. CASE PatchApplication(q)
  BY <1>8, PatchApplicationStage
<1>9. CASE Insert(q)
  BY <1>9, InsertStage
<1> QED BY <1>1, <1>2, <1>3, <1>4, <1>5, <1>6, <1>7, <1>8, <1>9 DEF RequestStep

LEMMA IInvStep ==
    ASSUME RInv, SInv, IInv, Immediate, [Next]_vars
    PROVE  IInv'
<1>1. NoTasks' /\ \A w \in Workers : ~WorkerStep(w)
  BY NoTasksStep
<1> DEFINE Between == /\ Complete /\ Tidy /\ Ruled
                      /\ \A q \in Requests : Active(request[q]) => Stage(request[q], device, target, installs)
<1>2. IInv' <=> (serial' => Between')
  BY <1>1 DEF IInv
<1>3. serial => Between
  BY DEF IInv
<1>4. ASSUME UNCHANGED <<device, target, installs, request, serial>> PROVE serial' => Between'
  BY <1>3, <1>4 DEF Complete, Tidy, Ruled, Exist
<1>5. ASSUME NEW q \in Requests, RequestStep(q), ~Commit(q), serial' PROVE Between'
  <2>1. UNCHANGED <<device, target, installs>> /\ serial
    <3>1. CASE ReceivePatch(q) \/ PostDevice(q) \/ PatchApplication(q)
      BY <1>5, <3>1, Zenon DEF ReceivePatch, PostDevice, PatchApplication, tables
    <3>2. CASE PreRun(q) \/ SetSupervisor(q) \/ Update(q)
      BY <1>5, <3>2, Zenon DEF PreRun, SetSupervisor, Update, tables, ghosts
    <3>3. CASE PostRun(q) \/ Insert(q) \/ Notify(q) \/ FailRequest(q)
      BY <1>5, <3>3, Zenon DEF PostRun, Insert, Notify, FailRequest, tables, ghosts
    <3> QED BY <1>5, <3>1, <3>2, <3>3 DEF RequestStep
  <2>2. PICK rec : request' = [request EXCEPT ![q] = rec]
    BY <1>5, StepIsGoto
  <2>3. request'[q] = rec /\ \A p \in Requests \ {q} : request'[p] = request[p]
    BY <2>2 DEF RInv, TablesType
  <2>4. Active(rec) => Stage(rec, device, target, installs)
    BY <1>5, <2>1, <2>2, StepStage
  <2>5. Complete' /\ Tidy' /\ Ruled'
    BY <1>3, <2>1 DEF Complete, Tidy, Ruled, Exist
  <2>6. \A p \in Requests : Active(request'[p]) => Stage(request'[p], device', target', installs')
    BY <1>3, <2>1, <2>3, <2>4
  <2> QED BY <2>5, <2>6 DEF Active
<1>6. ASSUME NEW q \in Requests, Commit(q), serial' PROVE Between'
  <2>1. serial
    BY <1>6 DEF Commit
  <2>2. Complete' /\ Tidy' /\ Ruled'
    BY <1>6, <2>1, CommitApp, CommitDevice
  <2>3. \E rec : request' = [request EXCEPT ![q] = rec] /\ rec.pc \in {"idle", "notify"}
    <3>1. \/ request' = [request EXCEPT ![q] = Idle]
          \/ request' = [request EXCEPT ![q] = [Idle EXCEPT !.pc = "notify", !.kind = request[q].kind,
                                                  !.body = request[q].body, !.tell = request[q].tell]]
      BY <1>6 DEF Commit, Goto, RollBack
    <3>2. Idle.pc = "idle" /\ [Idle EXCEPT !.pc = "notify", !.kind = request[q].kind,
                                 !.body = request[q].body, !.tell = request[q].tell].pc = "notify"
      BY DEF Idle
    <3> QED BY <3>1, <3>2
  <2>4. ~Active(request'[q]) /\ \A p \in Requests \ {q} : request'[p] = request[p]
    BY <2>3 DEF RInv, TablesType, Active
  <2>5. Active(request[q])
    BY <1>6 DEF Commit, Active
  <2>6. \A p \in Requests : ~Active(request'[p])
    BY <2>1, <2>4, <2>5 DEF SInv, Alone
  <2> QED BY <2>2, <2>6 DEF Active
<1>7. ASSUME NEW d \in Reporting, Report(d) PROVE UNCHANGED <<device, target, installs, request, serial>>
  BY <1>7 DEF Report
<1>8. ASSUME NEW s \in Withdrawn, Invalidate(s) PROVE UNCHANGED <<device, target, installs, request, serial>>
  BY <1>8 DEF Invalidate, ghosts
<1>9. ASSUME UNCHANGED vars PROVE UNCHANGED <<device, target, installs, request, serial>>
  BY <1>9 DEF vars, tables, ghosts
<1> HIDE DEF Between
<1> QED BY <1>1, <1>2, <1>4, <1>5, <1>6, <1>7, <1>8, <1>9 DEF Next

LEMMA IInvInit == Init => IInv
<1> SUFFICES ASSUME Init PROVE IInv
  OBVIOUS
<1>1. NoTasks
  BY IdlePosted DEF Init, NoTasks, IdleWorker
<1>2. \A q \in Requests : ~Active(request[q])
  BY DEF Init, Idle, Active
<1>3. Ruled
  BY TablesAssumption DEF Init, Ruled, Exist
<1>4. Complete
  <2> SUFFICES ASSUME NEW d \in Exist, NEW R \in TargetsOf(device[d], target), NEW s \in ServicesOf[R]
               PROVE  <<d, s>> \in installs
    BY DEF Complete
  <2>1. d \in Devices /\ device[d] # Null /\ device[d] \in Row /\ TablesType
    BY RInvInit DEF Exist, RInv, TablesType
  <2>2. R \in Releases
    BY <2>1, NeedsOf
  <2>3. s \in Services
    BY <2>2, FleetAssumption
  <2> QED BY <2>1, <2>3 DEF Init
<1>5. Tidy
  <2> SUFFICES ASSUME NEW p \in installs PROVE p[1] \in Exist /\ Owned(p[2], device[p[1]].app)
    BY DEF Tidy
  <2> DEFINE m == device[p[1]]
  <2>1. p[1] \in Devices /\ m # Null /\ \E R \in TargetsOf(m, target) : p[2] \in ServicesOf[R]
    BY DEF Init
  <2>2. PICK R \in TargetsOf(m, target) : p[2] \in ServicesOf[R]
    BY <2>1
  <2>3. p[1] \in Exist /\ m \in Row /\ TablesType /\ TargetRules(m)
    BY <1>3, <2>1, RInvInit DEF Exist, RInv, TablesType, Ruled
  <2>4. R \in Releases /\ R # Null /\ R \in {m.pin, target[m.app], m.managed, m.operated} /\ m.app \in Apps
    <3>1. R # Null /\ R \in {m.pin, target[m.app], m.managed, m.operated}
      BY DEF TargetsOf, ShouldBeRunning
    <3> QED BY <2>3, <3>1 DEF Row, TablesType
  <2>5. ServiceApp[p[2]] = Release[R].app
    BY <2>2, <2>4, ServiceOfApp
  <2>6. R = target[m.app] => Release[R].app = m.app
    BY <1>3, <2>4 DEF Ruled
  <2> HIDE DEF m
  <2>7. Release[R].app = m.app \/ ~Ordinary(Release[R].app)
    BY <2>3, <2>4, <2>6 DEF TargetRules, Ordinary
  <2> QED BY <2>3, <2>5, <2>7 DEF Owned, m
<1> QED BY <1>1, <1>2, <1>3, <1>4, <1>5 DEF IInv

(* With tasks off and requests that run one after the other, every device  *)
(* has a service install for each service of the releases it should run,   *)
(* whatever is moved, pinned, registered, reported, retargeted or fails.   *)
THEOREM InstallsAreComplete == Immediate => (Spec => []InstallsComplete)
<1> SUFFICES ASSUME Immediate PROVE Spec => []InstallsComplete
  OBVIOUS
<1>1. RInv /\ SInv /\ IInv /\ [Next]_vars => IInv'
  BY IInvStep
<1>2. RInv /\ SInv /\ [Next]_vars => SInv'
  BY SInvStep
<1>3. IInv => InstallsComplete
  BY DEF IInv, Complete, InstallsComplete, Lacks
<1> QED BY <1>1, <1>2, <1>3, SInvInit, IInvInit, RInvInit, RInvStep, PTL DEF Spec

(* And a device that was moved keeps no service install of the application *)
(* it left, and only those of host apps and supervisors besides its own.   *)
THEOREM MovesLeaveNothingBehind == Immediate => (Spec => []NothingLeftBehind)
<1> SUFFICES ASSUME Immediate PROVE Spec => []NothingLeftBehind
  OBVIOUS
<1>1. RInv /\ SInv /\ IInv /\ [Next]_vars => IInv'
  BY IInvStep
<1>2. RInv /\ SInv /\ [Next]_vars => SInv'
  BY SInvStep
<1>3. IInv => NothingLeftBehind
  BY DEF IInv, Tidy, Owned, Ordinary, NothingLeftBehind
<1> QED BY <1>1, <1>2, <1>3, SInvInit, IInvInit, RInvInit, RInvStep, PTL DEF Spec


-----------------------------------------------------------------------------
(* Batches and bags of tasks. *)

LEMMA TakeSome ==
    ASSUME NEW T, IsFiniteSet(T), NEW n \in Nat, n <= Cardinality(T)
    PROVE  \E B \in SUBSET T : Cardinality(B) = n
<1> DEFINE k == Cardinality(T)
<1>1. k \in Nat /\ ExistsBijection(1 .. k, T)
  BY FS_CardinalityType
<1>2. PICK f \in Bijection(1 .. k, T) : TRUE
  BY <1>1 DEF ExistsBijection
<1> HIDE DEF k
<1>3. f \in [1 .. k -> T] /\ \A i, j \in 1 .. k : f[i] = f[j] => i = j
  BY <1>2 DEF Bijection, Injection, IsInjective
<1>4. \A i \in 1 .. n : i \in 1 .. k
  BY <1>1 DEF k
<1> DEFINE B == {f[i] : i \in 1 .. n}
           g == [i \in 1 .. n |-> f[i]]
<1>5. g \in Bijection(1 .. n, B)
  <2>1. g \in [1 .. n -> B] /\ \A i, j \in 1 .. n : g[i] = g[j] => i = j
    BY <1>3, <1>4
  <2>2. \A b \in B : \E i \in 1 .. n : g[i] = b
    OBVIOUS
  <2> HIDE DEF g, B
  <2> QED BY <2>1, <2>2 DEF Bijection, Injection, Surjection, IsInjective
<1>6. B \in SUBSET T
  BY <1>3, <1>4
<1> HIDE DEF B, g
<1>7. ExistsBijection(1 .. n, B)
  BY <1>5 DEF ExistsBijection
<1>8. Cardinality(B) = n
  BY <1>7, FS_CountingElements
<1> QED BY <1>6, <1>8

LEMMA NotEmpty == \A S, B : B \subseteq S /\ B # {} => B \in (SUBSET S) \ {{}}
OBVIOUS

(* P divides T into batches as lodash chunk does.                          *)
Chunks(T, P) ==
    /\ UNION P = T
    /\ \A B, C \in P : B # C => B \cap C = {}
    /\ \A B \in P : Cardinality(B) <= BatchSize
    /\ Cardinality({B \in P : Cardinality(B) < BatchSize}) <= 1

LEMMA ChunksExist ==
    ASSUME NEW ids, IsFiniteSet(ids)
    PROVE  \E P \in SUBSET ((SUBSET ids) \ {{}}) : Chunks(ids, P)
<1> DEFINE Divided(T) == \E P \in SUBSET ((SUBSET T) \ {{}}) : Chunks(T, P)
           Bad == {T \in SUBSET ids : ~Divided(T)}
<1> SUFFICES ASSUME ~Divided(ids) PROVE FALSE
  OBVIOUS
<1>0. BatchSize \in Nat \ {0}
  BY FleetAssumption
<1>1. \A T \in SUBSET ids : IsFiniteSet(T) /\ Cardinality(T) \in Nat
  BY FS_Subset, FS_CardinalityType
<1>2. Bad \subseteq FiniteSubsetsOf(ids) /\ Bad # {}
  <2> HIDE DEF Divided
  <2> QED BY <1>1 DEF FiniteSubsetsOf
<1>3. PICK T \in Bad : \A U \in Bad : ~(<<U, T>> \in StrictSubsetOrdering(ids))
  <2> HIDE DEF Bad
  <2> QED BY <1>2, FS_StrictSubsetOrderingWellFounded, WFMin
<1>4. T \subseteq ids /\ ~Divided(T) /\ IsFiniteSet(T) /\ Cardinality(T) \in Nat
  BY <1>1, <1>3
<1>5. CASE T = {}
  <2> DEFINE small == {B \in {} : Cardinality(B) < BatchSize}
  <2>1. small = {}
    OBVIOUS
  <2>2. Cardinality(small) = 0
    BY <2>1, FS_EmptySet
  <2>3. Chunks(T, {})
    BY <1>5, <2>2 DEF Chunks
  <2> QED BY <1>4, <2>3
<1>6. CASE T # {} /\ Cardinality(T) <= BatchSize
  <2> DEFINE small == {B \in {T} : Cardinality(B) < BatchSize}
  <2>1. small \in SUBSET {T} /\ IsFiniteSet({T}) /\ Cardinality({T}) = 1
    BY FS_Singleton
  <2>2. Cardinality(small) <= 1
    <3> HIDE DEF small
    <3> QED BY <2>1, FS_Subset
  <2>3. Chunks(T, {T})
    BY <1>6, <2>2 DEF Chunks
  <2>4. T \in (SUBSET T) \ {{}}
    BY <1>6, NotEmpty
  <2> QED BY <1>4, <2>3, <2>4
<1>7. CASE ~(Cardinality(T) <= BatchSize)
  <2>1. PICK B \in SUBSET T : Cardinality(B) = BatchSize
    BY <1>0, <1>4, <1>7, TakeSome
  <2>2. B # {}
    BY <1>0, <2>1, FS_EmptySet
  <2> DEFINE U == T \ B
  <2>3. U \in SUBSET ids /\ <<U, T>> \in StrictSubsetOrdering(ids)
    BY <1>4, <2>1, <2>2 DEF StrictSubsetOrdering
  <2>4. Divided(U)
    <3> HIDE DEF Divided, U
    <3> QED BY <1>3, <2>3
  <2>5. PICK P \in SUBSET ((SUBSET U) \ {{}}) : Chunks(U, P)
    BY <2>4
  <2> DEFINE Q == P \cup {B}
             small == {C \in P : Cardinality(C) < BatchSize}
  <2>6. {C \in Q : Cardinality(C) < BatchSize} = small
    BY <1>0, <2>1
  <2>7. Cardinality(small) <= 1
    BY <2>5 DEF Chunks
  <2>8. UNION Q = T
    BY <2>1, <2>5 DEF Chunks
  <2>9. \A C, D \in Q : C # D => C \cap D = {}
    <3>1. \A C \in P : C \cap B = {}
      OBVIOUS
    <3> QED BY <2>5, <3>1 DEF Chunks
  <2>10. \A C \in Q : Cardinality(C) <= BatchSize
    BY <1>0, <2>1, <2>5 DEF Chunks
  <2>11. \A C \in Q : C \in (SUBSET T) \ {{}}
    <3>1. \A C \in P : C \in (SUBSET T) \ {{}}
      OBVIOUS
    <3>2. B \in (SUBSET T) \ {{}}
      BY <2>1, <2>2, NotEmpty
    <3> QED BY <3>1, <3>2
  <2>12. Chunks(T, Q)
    <3> HIDE DEF Q, small
    <3> QED BY <2>6, <2>7, <2>8, <2>9, <2>10 DEF Chunks
  <2>13. Q \in SUBSET ((SUBSET T) \ {{}})
    <3> HIDE DEF Q
    <3> QED BY <2>11
  <2> QED BY <1>4, <2>12, <2>13
<1> QED BY <1>5, <1>6, <1>7

LEMMA BatchesCover ==
    ASSUME NEW ids, IsFiniteSet(ids)
    PROVE  UNION Batches(ids) = ids /\ Batches(ids) \subseteq SUBSET ids
<1>1. Batches(ids) = CHOOSE P \in SUBSET ((SUBSET ids) \ {{}}) : Chunks(ids, P)
  BY DEF Batches, Chunks
<1>2. Batches(ids) \in SUBSET ((SUBSET ids) \ {{}}) /\ Chunks(ids, Batches(ids))
  BY <1>1, ChunksExist
<1> QED BY <1>2 DEF Chunks

(* A bag of sets of devices.                                               *)
TaskBag(b) == IsABag(b) /\ BagToSet(b) \subseteq SUBSET Devices

LEMMA EmptyTasks == TaskBag(EmptyBag) /\ BagToSet(EmptyBag) = {}
BY DEF TaskBag, IsABag, BagToSet, EmptyBag, SetToBag

LEMMA OneTask ==
    ASSUME NEW S
    PROVE  IsABag(SetToBag({S})) /\ BagToSet(SetToBag({S})) = {S}
BY DEF IsABag, BagToSet, SetToBag

LEMMA AddTasks ==
    ASSUME NEW a, NEW b, IsABag(a), IsABag(b)
    PROVE  IsABag(a (+) b) /\ BagToSet(a (+) b) = BagToSet(a) \cup BagToSet(b)
<1>1. BagToSet(a (+) b) = BagToSet(a) \cup BagToSet(b)
  BY DEF BagToSet, (+)
<1>2. ASSUME NEW e \in BagToSet(a) \cup BagToSet(b) PROVE (a (+) b)[e] \in Nat /\ (a (+) b)[e] > 0
  BY <1>2 DEF IsABag, BagToSet, (+)
<1>3. a (+) b = [e \in BagToSet(a) \cup BagToSet(b) |-> (a (+) b)[e]]
  BY DEF BagToSet, (+)
<1> DEFINE c == a (+) b
<1> HIDE DEF c
<1>4. IsABag(c)
  BY <1>1, <1>2, <1>3 DEF IsABag, BagToSet, c
<1> QED BY <1>1, <1>4 DEF c

LEMMA TakeTask ==
    ASSUME NEW a, IsABag(a), NEW S
    PROVE  /\ IsABag(a (-) SetToBag({S}))
           /\ BagToSet(a (-) SetToBag({S})) \subseteq BagToSet(a)
           /\ BagToSet(a) \ {S} \subseteq BagToSet(a (-) SetToBag({S}))
<1> DEFINE one == SetToBag({S})
           f == [e \in DOMAIN a |-> IF e \in DOMAIN one THEN a[e] - one[e] ELSE a[e]]
           rest == {e \in DOMAIN f : f[e] > 0}
           c == a (-) one
<1>1. c = [e \in rest |-> f[e]]
  BY DEF (-)
<1>2. DOMAIN one = {S} /\ one[S] = 1
  BY DEF SetToBag
<1>3. \A e \in DOMAIN a : a[e] \in Nat /\ a[e] > 0
  BY DEF IsABag
<1> HIDE DEF one
<1>4. \A e \in DOMAIN a : f[e] \in Int /\ (e # S => f[e] = a[e])
  BY <1>2, <1>3
<1>5. DOMAIN f = DOMAIN a
  OBVIOUS
<1> HIDE DEF f, c
<1>6. IsABag(c)
  BY <1>1, <1>4, <1>5 DEF IsABag
<1>7. BagToSet(c) = rest
  BY <1>1 DEF BagToSet
<1> QED BY <1>3, <1>4, <1>5, <1>6, <1>7 DEF BagToSet, c, one

-----------------------------------------------------------------------------
(* Calls of createReleaseServiceInstalls. *)

(* d is a device of one of the tasks of bag.                               *)
In(d, bag) == \E batch \in BagToSet(bag) : d \in batch

LEMMA FiniteImage ==
    ASSUME NEW S, IsFiniteSet(S), NEW f, DOMAIN f = S
    PROVE  IsFiniteSet({f[x] : x \in S})
<1> DEFINE T == {f[x] : x \in S}
           g == [x \in S |-> f[x]]
<1>1. g \in [S -> T] /\ \A t \in T : \E x \in S : g[x] = t
  OBVIOUS
<1> HIDE DEF T, g
<1>2. g \in Surjection(S, T)
  BY <1>1 DEF Surjection
<1> QED BY <1>2, FS_Surjection DEF T

(* What each call is for, the devices and the releases.                    *)
Calls(calls) ==
    /\ IsFiniteSet(calls)
    /\ \A c \in calls : c[2] \in SUBSET Devices /\ c[3] \in SUBSET Releases

(* The devices of a set of calls.                                          *)
Named(d, calls) == \E c \in calls : d \in c[2]

NewTasks(calls) ==
    LET made == {c \in calls : c[2] # {}}
    IN  [B \in UNION {Batches(c[2]) : c \in made} |-> Cardinality({c \in made : B \in Batches(c[2])})]

LEMMA NewTasksBag ==
    ASSUME NEW calls, Calls(calls)
    PROVE  TaskBag(NewTasks(calls)) /\ \A d : In(d, NewTasks(calls)) <=> Named(d, calls)
<1> DEFINE made == {c \in calls : c[2] # {}}
           dom == UNION {Batches(c[2]) : c \in made}
           of(B) == {c \in made : B \in Batches(c[2])}
           new == NewTasks(calls)
<1>1. new = [B \in dom |-> Cardinality(of(B))]
  BY DEF NewTasks
<1>2. ASSUME NEW c \in made PROVE UNION Batches(c[2]) = c[2] /\ Batches(c[2]) \subseteq SUBSET Devices
  <2>1. c[2] \in SUBSET Devices /\ IsFiniteSet(c[2])
    BY FiniteAssumption, FS_Subset DEF Calls
  <2> QED BY <2>1, BatchesCover
<1>3. ASSUME NEW B \in dom PROVE Cardinality(of(B)) \in Nat /\ Cardinality(of(B)) > 0
  <2>1. of(B) \in SUBSET calls /\ of(B) # {}
    OBVIOUS
  <2> HIDE DEF of
  <2>2. IsFiniteSet(of(B))
    BY <2>1, FS_Subset DEF Calls
  <2>3. Cardinality(of(B)) \in Nat /\ Cardinality(of(B)) # 0
    BY <2>1, <2>2, FS_CardinalityType, FS_EmptySet
  <2> QED BY <2>3
<1> HIDE DEF of, new
<1>4. DOMAIN new = dom /\ BagToSet(new) = dom
  BY <1>1 DEF BagToSet
<1>5. IsABag(new)
  <2> HIDE DEF dom
  <2> QED BY <1>1, <1>3 DEF IsABag
<1>6. dom \subseteq SUBSET Devices
  BY <1>2
<1>7. ASSUME NEW d PROVE (\E B \in dom : d \in B) <=> Named(d, calls)
  <2>1. ASSUME NEW B \in dom, d \in B PROVE Named(d, calls)
    <3>1. PICK c \in made : B \in Batches(c[2])
      OBVIOUS
    <3>2. d \in c[2]
      BY <1>2, <2>1, <3>1
    <3> QED BY <3>2 DEF Named
  <2>2. ASSUME NEW c \in calls, d \in c[2] PROVE \E B \in dom : d \in B
    <3>1. c \in made
      BY <2>2
    <3>2. PICK B \in Batches(c[2]) : d \in B
      BY <1>2, <2>2, <3>1
    <3> QED BY <3>1, <3>2
  <2> QED BY <2>1, <2>2 DEF Named
<1> HIDE DEF dom
<1> QED BY <1>4, <1>5, <1>6, <1>7 DEF TaskBag, In, new

LEMMA InAdded ==
    ASSUME NEW a, NEW b, IsABag(a), IsABag(b), NEW d
    PROVE  In(d, a (+) b) <=> In(d, a) \/ In(d, b)
BY AddTasks DEF In

(* What a request carries besides its rows.                                *)
Loaded(r) ==
    /\ r.ins \cup r.del \cup r.todo \subseteq Devices \X Services
    /\ r.moved \subseteq Devices
    /\ TaskBag(r.posted)

LEMMA CreateTasks ==
    ASSUME Async, NEW rec, RequestType(rec), Loaded(rec), NEW calls, Calls(calls)
    PROVE  LET new == CreateServiceInstalls(rec, calls)
           IN  /\ new.ins = rec.ins /\ new.del = rec.del /\ new.todo = rec.todo /\ new.moved = rec.moved
               /\ TaskBag(new.posted)
               /\ \A d : In(d, new.posted) <=> In(d, rec.posted) \/ Named(d, calls)
<1> DEFINE new == CreateServiceInstalls(rec, calls)
           b == NewTasks(calls)
<1>1. new = [rec EXCEPT !.posted = rec.posted (+) b]
  BY DEF CreateServiceInstalls, NewTasks
<1>2. TaskBag(b) /\ \A d : In(d, b) <=> Named(d, calls)
  BY NewTasksBag
<1> HIDE DEF new, b
<1>3. /\ new.ins = rec.ins /\ new.del = rec.del /\ new.todo = rec.todo /\ new.moved = rec.moved
      /\ new.posted = rec.posted (+) b
  BY <1>1 DEF RequestType
<1>4. IsABag(rec.posted) /\ IsABag(b) /\ BagToSet(rec.posted) \cup BagToSet(b) \subseteq SUBSET Devices
  BY <1>2 DEF Loaded, TaskBag
<1>5. TaskBag(new.posted)
  BY <1>3, <1>4, AddTasks DEF TaskBag
<1>6. \A d : In(d, new.posted) <=> In(d, rec.posted) \/ Named(d, calls)
  BY <1>2, <1>3, <1>4, InAdded
<1> QED BY <1>3, <1>5, <1>6 DEF new

LEMMA MissingType ==
    ASSUME NEW calls, Calls(calls)
    PROVE  Missing(calls) \subseteq Devices \X Services
<1> SUFFICES ASSUME NEW p \in Missing(calls) PROVE p \in Devices \X Services
  OBVIOUS
<1>1. PICK c \in calls : p \in c[2] \X UNION {ServicesOf[R] : R \in c[3]}
  BY DEF Missing
<1>2. c[2] \subseteq Devices /\ c[3] \subseteq Releases
  BY DEF Calls
<1>3. \A R \in Releases : ServicesOf[R] \subseteq Services
  BY FleetAssumption
<1>4. UNION {ServicesOf[R] : R \in c[3]} \subseteq Services
  BY <1>2, <1>3
<1> QED BY <1>1, <1>2, <1>4

LEMMA CreateLoaded ==
    ASSUME NEW rec, RequestType(rec), Loaded(rec), NEW calls, Calls(calls)
    PROVE  Loaded(CreateServiceInstalls(rec, calls))
<1> DEFINE new == CreateServiceInstalls(rec, calls)
<1>1. CASE Async
  BY <1>1, CreateTasks DEF Loaded
<1>2. CASE ~Async
  <2> DEFINE missing == Missing(calls) \ SeenInstalls(rec)
  <2>1. new = [rec EXCEPT !.todo = rec.todo \cup missing]
    BY <1>2 DEF CreateServiceInstalls, Missing
  <2>2. missing \subseteq Devices \X Services
    BY MissingType
  <2> HIDE DEF new, missing
  <2>3. /\ new.todo = rec.todo \cup missing /\ new.ins = rec.ins /\ new.del = rec.del
        /\ new.posted = rec.posted /\ new.moved = rec.moved
    BY <2>1 DEF RequestType
  <2>4. Loaded(new)
    BY <2>2, <2>3 DEF Loaded
  <2> QED BY <2>4 DEF new
<1> QED BY <1>1, <1>2

(* The calls that the hooks make. *)

LEMMA FewCalls ==
    ASSUME NEW x, NEW y, NEW z
    PROVE  IsFiniteSet({x}) /\ IsFiniteSet({x, y, z})
<1>1. IsFiniteSet({x}) /\ IsFiniteSet({y}) /\ IsFiniteSet({z})
  BY FS_Singleton
<1>2. IsFiniteSet(({x} \cup {y}) \cup {z})
  BY <1>1, FS_Union
<1>3. ({x} \cup {y}) \cup {z} = {x, y, z}
  OBVIOUS
<1> QED BY <1>1, <1>2, <1>3

SupervisorCalls(sv) ==
    LET ids == {d \in Devices : sv[d] # Null}
    IN  {<<R, {d \in ids : sv[d] = R}, {R}>> : R \in {sv[d] : d \in ids}}

LEMMA SupervisorCallsType ==
    ASSUME NEW sv \in [Devices -> Releases \cup {Null}]
    PROVE  /\ Calls(SupervisorCalls(sv))
           /\ \A d \in Devices : sv[d] # Null => Named(d, SupervisorCalls(sv))
<1> DEFINE ids == {d \in Devices : sv[d] # Null}
           f == [d \in ids |-> sv[d]]
           asked == {sv[d] : d \in ids}
           g == [R \in asked |-> <<R, {d \in ids : sv[d] = R}, {R}>>]
           calls == SupervisorCalls(sv)
<1>1. IsFiniteSet(asked)
  <2>1. IsFiniteSet(ids)
    BY FiniteAssumption, FS_Subset
  <2>2. {f[d] : d \in ids} = asked
    OBVIOUS
  <2>3. DOMAIN f = ids
    OBVIOUS
  <2> HIDE DEF ids, f, asked
  <2> QED BY <2>1, <2>2, <2>3, FiniteImage
<1>2. calls = {g[R] : R \in asked} /\ DOMAIN g = asked
  BY DEF SupervisorCalls
<1>3. IsFiniteSet(calls)
  <2> HIDE DEF asked, g, calls
  <2> QED BY <1>1, <1>2, FiniteImage
<1>4. asked \subseteq Releases
  OBVIOUS
<1>5. ASSUME NEW c \in calls PROVE c[2] \in SUBSET Devices /\ c[3] \in SUBSET Releases
  <2>1. PICK R \in asked : c = <<R, {d \in ids : sv[d] = R}, {R}>>
    BY DEF SupervisorCalls
  <2> HIDE DEF asked
  <2> QED BY <1>4, <2>1
<1>6. ASSUME NEW d \in Devices, sv[d] # Null PROVE \E c \in calls : d \in c[2]
  <2> DEFINE c == <<sv[d], {x \in ids : sv[x] = sv[d]}, {sv[d]}>>
  <2>1. c \in calls
    BY <1>6 DEF SupervisorCalls
  <2>2. d \in c[2]
    BY <1>6
  <2> HIDE DEF c, calls
  <2> QED BY <2>1, <2>2
<1> QED BY <1>3, <1>5, <1>6 DEF Calls, Named

Unpins(ids, mine) ==
    {<<<<"unpin", a>>, {d \in ids : mine[d].app = a}, AppRelease(a)>> : a \in Apps}

LEMMA UnpinsFinite == \A ids, mine : IsFiniteSet(Unpins(ids, mine))
<1> TAKE ids, mine
<1> DEFINE g == [a \in Apps |-> <<<<"unpin", a>>, {d \in ids : mine[d].app = a}, AppRelease(a)>>]
<1>1. DOMAIN g = Apps /\ \A a \in Apps : g[a] = <<<<"unpin", a>>, {d \in ids : mine[d].app = a}, AppRelease(a)>>
  OBVIOUS
<1> HIDE DEF g
<1>2. IsFiniteSet({g[a] : a \in Apps})
  BY <1>1, FiniteImage, FiniteAssumption
<1>3. {g[a] : a \in Apps} = Unpins(ids, mine)
  BY <1>1 DEF Unpins
<1> QED BY <1>2, <1>3

LEMMA AppReleaseType ==
    ASSUME TablesType, NEW a \in Apps
    PROVE  AppRelease(a) \in SUBSET Releases
BY DEF AppRelease, TablesType

LEMMA InstallCallsType ==
    ASSUME TablesType, NEW v \in PatchBody, NEW ids \in SUBSET Devices, NEW mine
    PROVE  Calls(InstallCalls(v, ids, mine))
<1> DEFINE app == <<"app", ids, AppRelease(v.app)>>
           pin == <<"pin", ids, {v.pin}>>
           managed == <<"managed", ids, {v.managed}>>
           operated == <<"operated", ids, {v.operated}>>
           unpins == Unpins(ids, mine)
           first == IF Given(v.app) THEN {app} ELSE IF Given(v.pin) THEN {pin}
                    ELSE IF v.pin = Null THEN unpins ELSE {}
           second == IF Given(v.managed) THEN {managed} ELSE {}
           third == IF Given(v.operated) THEN {operated} ELSE {}
<1>1. InstallCalls(v, ids, mine) = (first \cup second) \cup third
  <2> HIDE DEF app, pin, managed, operated
  <2> QED BY DEF InstallCalls, Unpins, app, pin, managed, operated
<1>2. ASSUME NEW c \in unpins PROVE c[2] \in SUBSET Devices /\ c[3] \in SUBSET Releases
  BY AppReleaseType DEF Unpins
<1>3. /\ Given(v.app) => v.app \in Apps /\ AppRelease(v.app) \in SUBSET Releases
      /\ Given(v.pin) => v.pin \in Releases
      /\ Given(v.managed) => v.managed \in Releases
      /\ Given(v.operated) => v.operated \in Releases
  BY AppReleaseType DEF PatchBody, Given
<1>4. IsFiniteSet(unpins)
  BY UnpinsFinite
<1> HIDE DEF unpins
<1>5. Calls(first)
  <2>1. \A c \in first : c[2] \in SUBSET Devices /\ c[3] \in SUBSET Releases
    BY <1>2, <1>3
  <2>2. IsFiniteSet({app}) /\ IsFiniteSet({pin}) /\ IsFiniteSet({})
    BY FS_Singleton, FS_EmptySet
  <2>3. IsFiniteSet(first)
    <3> HIDE DEF app, pin
    <3> QED BY <1>4, <2>2
  <2> QED BY <2>1, <2>3 DEF Calls
<1>6. Calls(second)
  <2>1. \A c \in second : c[2] \in SUBSET Devices /\ c[3] \in SUBSET Releases
    BY <1>3
  <2>2. IsFiniteSet(second)
    <3> HIDE DEF managed
    <3> QED BY FS_Singleton, FS_EmptySet
  <2> QED BY <2>1, <2>2 DEF Calls
<1>7. Calls(third)
  <2>1. \A c \in third : c[2] \in SUBSET Devices /\ c[3] \in SUBSET Releases
    BY <1>3
  <2>2. IsFiniteSet(third)
    <3> HIDE DEF operated
    <3> QED BY FS_Singleton, FS_EmptySet
  <2> QED BY <2>1, <2>2 DEF Calls
<1> HIDE DEF first, second, third
<1> QED BY <1>1, <1>5, <1>6, <1>7, FS_Union DEF Calls

LEMMA OsCallsType ==
    ASSUME NEW v, NEW ids \in SUBSET Devices, NEW mine, \A d \in ids : mine[d] \in Row
    PROVE  Calls(OsCalls(ids, v, mine))
<1> DEFINE progressed == {d \in ids : Progressed(v, mine[d])}
           f == [d \in progressed |-> NewOs(v, mine[d])]
           asked == {NewOs(v, mine[d]) : d \in progressed}
           g == [R \in asked |-> <<<<"os", R>>, {d \in progressed : NewOs(v, mine[d]) = R}, {R}>>]
           calls == OsCalls(ids, v, mine)
<1>1. IsFiniteSet(asked)
  <2>1. IsFiniteSet(progressed)
    BY FiniteAssumption, FS_Subset
  <2>2. {f[d] : d \in progressed} = asked
    OBVIOUS
  <2>3. DOMAIN f = progressed
    OBVIOUS
  <2> HIDE DEF progressed, f, asked
  <2> QED BY <2>1, <2>2, <2>3, FiniteImage
<1>2. calls = {g[R] : R \in asked} /\ DOMAIN g = asked
  BY DEF OsCalls
<1>3. IsFiniteSet(calls)
  <2> HIDE DEF asked, g, calls
  <2> QED BY <1>1, <1>2, FiniteImage
<1>4. asked \subseteq Releases
  <2> SUFFICES ASSUME NEW d \in ids, Progressed(v, mine[d]) PROVE NewOs(v, mine[d]) \in Releases
    OBVIOUS
  <2>1. mine[d] \in Row
    OBVIOUS
  <2> QED BY <2>1, OSReleaseType DEF Progressed, NewOs, ProgressedTarget, Row
<1>5. ASSUME NEW c \in calls PROVE c[2] \in SUBSET Devices /\ c[3] \in SUBSET Releases
  <2>1. PICK R \in asked : c = <<<<"os", R>>, {d \in progressed : NewOs(v, mine[d]) = R}, {R}>>
    BY DEF OsCalls
  <2> HIDE DEF asked
  <2> QED BY <1>4, <2>1
<1> QED BY <1>3, <1>5 DEF Calls

(* Whom the calls of the POSTRUN hooks name.                               *)
LEMMA CallsName ==
    ASSUME NEW v \in PatchBody, NEW ids, NEW mine, NEW d \in ids, mine[d] \in Row,
           \/ Given(v.app) \/ Given(v.pin) \/ v.pin = Null
           \/ Given(v.managed) \/ Given(v.operated) \/ Progressed(v, mine[d])
    PROVE  Named(d, InstallCalls(v, ids, mine) \cup OsCalls(ids, v, mine))
<1> DEFINE calls == InstallCalls(v, ids, mine) \cup OsCalls(ids, v, mine)
<1>1. ASSUME NEW c \in calls, d \in c[2] PROVE Named(d, calls)
  BY <1>1 DEF Named
<1>2. CASE Given(v.app)
  <2> DEFINE c == <<"app", ids, AppRelease(v.app)>>
  <2>1. c \in calls /\ d \in c[2]
    BY <1>2 DEF InstallCalls
  <2> HIDE DEF c, calls
  <2> QED BY <1>1, <2>1 DEF calls
<1>3. CASE ~Given(v.app) /\ Given(v.pin)
  <2> DEFINE c == <<"pin", ids, {v.pin}>>
  <2>1. c \in calls /\ d \in c[2]
    BY <1>3 DEF InstallCalls
  <2> HIDE DEF c, calls
  <2> QED BY <1>1, <2>1 DEF calls
<1>4. CASE ~Given(v.app) /\ v.pin = Null
  <2> DEFINE a == mine[d].app
             c == <<<<"unpin", a>>, {x \in ids : mine[x].app = a}, AppRelease(a)>>
  <2>1. a \in Apps /\ ~Given(v.pin)
    BY <1>4 DEF Row, Given
  <2>2. c \in {<<<<"unpin", b>>, {x \in ids : mine[x].app = b}, AppRelease(b)>> : b \in Apps} /\ d \in c[2]
    BY <2>1
  <2>3. c \in calls
    <3> HIDE DEF c
    <3> QED BY <1>4, <2>1, <2>2 DEF InstallCalls
  <2> HIDE DEF c, calls
  <2> QED BY <1>1, <2>2, <2>3 DEF calls
<1>5. CASE Given(v.managed)
  <2> DEFINE c == <<"managed", ids, {v.managed}>>
  <2>1. c \in calls /\ d \in c[2]
    BY <1>5 DEF InstallCalls
  <2> HIDE DEF c, calls
  <2> QED BY <1>1, <2>1 DEF calls
<1>6. CASE Given(v.operated)
  <2> DEFINE c == <<"operated", ids, {v.operated}>>
  <2>1. c \in calls /\ d \in c[2]
    BY <1>6 DEF InstallCalls
  <2> HIDE DEF c, calls
  <2> QED BY <1>1, <2>1 DEF calls
<1>7. CASE Progressed(v, mine[d])
  <2> DEFINE progressed == {x \in ids : Progressed(v, mine[x])}
             R == NewOs(v, mine[d])
             c == <<<<"os", R>>, {x \in progressed : NewOs(v, mine[x]) = R}, {R}>>
  <2>1. d \in progressed /\ d \in c[2] /\ R \in {NewOs(v, mine[x]) : x \in progressed}
    BY <1>7
  <2>2. c \in calls
    BY <2>1 DEF OsCalls
  <2> HIDE DEF c, calls
  <2> QED BY <1>1, <2>1, <2>2 DEF calls
<1> QED BY <1>2, <1>3, <1>4, <1>5, <1>6, <1>7

-----------------------------------------------------------------------------
(* Types. *)

WorkerSteps == {"idle", "missing", "insert", "done", "backoff"}

(* A worker looks at the devices of its task; only once it stops does it   *)
(* post the rest of them.                                                  *)
Employed(w) ==
    /\ w \in [pc : WorkerSteps, task : SUBSET Devices, services : [Devices -> SUBSET Services],
              have : SUBSET (Devices \X Services), left : SUBSET Devices, rest : SUBSET Devices,
              ins : SUBSET (Devices \X Services), posted : {w.posted}]
    /\ w.left \subseteq w.rest /\ w.rest \subseteq w.task
    /\ TaskBag(w.posted)
    /\ w.pc = "missing" => w.rest = w.task
    /\ w.pc # "insert" \/ w.left # {} => BagToSet(w.posted) = {}

TInv ==
    /\ installs \subseteq Devices \X Services
    /\ images \subseteq Devices \X Releases
    /\ invalid \subseteq Releases
    /\ TaskBag(tasks)
    /\ \A q \in Requests : Loaded(request[q])
    /\ worker = [w \in Workers |-> worker[w]]
    /\ \A w \in Workers : Employed(worker[w])
    /\ received \in 0 .. MaxRequests /\ faults \in 0 .. MaxFaults
    /\ missed \subseteq Devices /\ serial \in BOOLEAN

LEMMA IdleLoads ==
    /\ Loaded(Idle)
    /\ \A p, k, b, t : Loaded([Idle EXCEPT !.pc = p, !.kind = k, !.body = b, !.tell = t])
    /\ \A p, b, i : Loaded([Idle EXCEPT !.pc = p, !.body = b, !.ids = i])
    /\ \A p, k, b, i, m : Loaded([Idle EXCEPT !.pc = p, !.kind = k, !.body = b, !.ids = i, !.mine = m])
    /\ \A p, k, b : Loaded([Idle EXCEPT !.pc = p, !.kind = k, !.body = b])
BY EmptyTasks DEF Loaded, Idle

LEMMA PreRunIs ==
    ASSUME RInv, TInv, NEW q \in Requests, PreRun(q), NEW rec, request' = [request EXCEPT ![q] = rec]
    PROVE  \/ rec = Idle
           \/ /\ Loaded(rec) /\ rec.pc \in {"supervisor", "update"}
              /\ rec.ins = request[q].ins /\ rec.todo = request[q].todo
              /\ rec.posted = request[q].posted /\ rec.mine = request[q].mine
              /\ rec.kind = request[q].kind /\ rec.body = request[q].body /\ rec.ids = request[q].ids
              /\ \A p \in rec.del : Given(rec.body.app) /\ p[1] \in rec.ids
<1> DEFINE r == request[q]
           v == r.body
           old == Deleted(q, v)
           moved == IF Given(v.app) THEN {d \in r.ids : device[d].app # v.app} ELSE {}
           sv == [d \in Devices |-> IF Given(v.sv) /\ d \in r.ids THEN InitialSupervisor(device[d], v.sv)
                                    ELSE Null]
           pc == IF Given(v.sv) THEN "supervisor" ELSE "update"
           new == [r EXCEPT !.pc = pc, !.moved = moved, !.supervisor = sv, !.del = old]
<1>1. rec \in {new, Idle}
  <2>1. Goto(q, new) \/ RollBack(q)
    BY DEF PreRun
  <2> QED BY <2>1 DEF Goto, RollBack, RInv, TablesType
<1>2. RequestType(r) /\ Loaded(r) /\ r.ids \subseteq Devices
  <2>1. RequestType(r) /\ Loaded(r)
    BY DEF RInv, Good, TInv
  <2> QED BY <2>1 DEF RequestType
<1>3. old \subseteq Devices \X Services /\ \A p \in old : Given(v.app) /\ p[1] \in r.ids
  <2>1. SeenInstalls(r) \subseteq Devices \X Services
    BY <1>2 DEF SeenInstalls, Loaded, TInv
  <2>2. old \subseteq SeenInstalls(r) /\ \A p \in old : Given(v.app) /\ p[1] \in r.ids
    BY DEF Deleted, OldInstalls
  <2> QED BY <2>1, <2>2
<1>4. moved \subseteq Devices /\ pc \in {"supervisor", "update"}
  BY <1>2
<1> HIDE DEF old, moved, sv, pc, r
<1>5. /\ new.ins = r.ins /\ new.del = old /\ new.todo = r.todo /\ new.moved = moved /\ new.posted = r.posted
      /\ new.pc = pc /\ new.mine = r.mine /\ new.kind = r.kind /\ new.body = v /\ new.ids = r.ids
  BY <1>2 DEF RequestType
<1>6. Loaded(new)
  <2> HIDE DEF new
  <2> QED BY <1>2, <1>3, <1>4, <1>5 DEF Loaded
<1> HIDE DEF new, v
<1> QED BY <1>1, <1>3, <1>4, <1>5, <1>6 DEF r, v

(* What the steps that create service installs start from.                 *)
Same(new, r) ==
    /\ RequestType(new) /\ Loaded(new)
    /\ new.ins = r.ins /\ new.del = r.del /\ new.todo = r.todo /\ new.posted = r.posted
    /\ new.kind = r.kind /\ new.body = r.body /\ new.ids = r.ids

SupervisorSet(rec, r) ==
    \E new :
      /\ rec = CreateServiceInstalls(new, SupervisorCalls(r.supervisor))
      /\ Same(new, r) /\ new.pc = "update"
      /\ \A d \in Devices : new.mine[d] # None => r.mine[d] # None \/ r.supervisor[d] # Null

LEMMA SetSupervisorIs ==
    ASSUME RInv, TInv, NEW q \in Requests, SetSupervisor(q),
           NEW rec, request' = [request EXCEPT ![q] = rec]
    PROVE  SupervisorSet(rec, request[q])
<1> DEFINE r == request[q]
           sv == r.supervisor
           ids == {d \in Devices : sv[d] # Null}
           mine == [d \in Devices |-> IF d \in ids THEN [SeenRow(q, d) EXCEPT !.managed = sv[d]]
                                       ELSE r.mine[d]]
           new == [r EXCEPT !.pc = "update", !.mine = mine]
<1>1. r.pc = "supervisor" /\ rec = CreateServiceInstalls(new, SupervisorCalls(sv))
  <2>1. r.pc = "supervisor" /\ Goto(q, CreateServiceInstalls(new, SupervisorCalls(sv)))
    BY DEF SetSupervisor, SupervisorCalls
  <2> QED BY <2>1 DEF Goto, RInv, TablesType
<1>2. RequestType(r) /\ Loaded(r) /\ WritesIds(r, device) /\ r.kind = "device"
  BY <1>1 DEF RInv, Good, TInv, Bodied
<1>3. \A d \in ids : d \in r.ids /\ sv[d] \in Releases
  BY <1>1, <1>2 DEF WritesIds, RequestType
<1>4. ASSUME NEW d \in ids PROVE mine[d] \in Row
  <2> DEFINE s == SeenRow(q, d)
  <2>1. s \in Row
    BY <1>1, <1>2, <1>3, SeenRowType
  <2>2. mine[d] = [s EXCEPT !.managed = sv[d]]
    OBVIOUS
  <2> HIDE DEF s, mine
  <2> QED BY <1>3, <2>1, <2>2 DEF Row
<1>5. \A d \in Devices \ ids : mine[d] = r.mine[d] /\ r.mine[d] \in Row \cup {None}
  BY <1>2 DEF RequestType
<1>6. mine \in [Devices -> Row \cup {None}] /\ \A d \in Devices : mine[d] # None => r.mine[d] # None \/ sv[d] # Null
  BY <1>4, <1>5
<1> HIDE DEF mine, r
<1>7. /\ RequestType(new) /\ new.pc = "update" /\ new.mine = mine /\ new.moved = r.moved
      /\ new.ins = r.ins /\ new.del = r.del /\ new.todo = r.todo /\ new.posted = r.posted
      /\ new.kind = r.kind /\ new.body = r.body /\ new.ids = r.ids
  BY <1>2, <1>6 DEF RequestType, Steps
<1> HIDE DEF new
<1>8. Same(new, r)
  BY <1>2, <1>7 DEF Same, Loaded
<1> QED BY <1>1, <1>6, <1>7, <1>8 DEF SupervisorSet, r

LEMMA UpdateLoads ==
    ASSUME RInv, TInv, NEW q \in Requests, Update(q), NEW rec, request' = [request EXCEPT ![q] = rec]
    PROVE  Same(rec, request[q])
<1> DEFINE r == request[q]
           mine == [d \in Devices |-> IF d \in r.ids THEN Assign(SeenRow(q, d), r.body) ELSE r.mine[d]]
           new == [r EXCEPT !.pc = "postrun", !.mine = mine]
<1>1. rec = new
  BY DEF Update, Goto, RInv, TablesType
<1>2. RequestType(r) /\ Loaded(r)
  BY DEF RInv, Good, TInv
<1>3. Good(rec, device')
  BY UpdateKeeps DEF RInv, TablesType
<1> HIDE DEF r, mine
<1>4. /\ rec.ins = r.ins /\ rec.del = r.del /\ rec.todo = r.todo /\ rec.posted = r.posted /\ rec.moved = r.moved
      /\ rec.kind = r.kind /\ rec.body = r.body /\ rec.ids = r.ids
  BY <1>1, <1>2 DEF RequestType
<1> QED BY <1>2, <1>3, <1>4 DEF Same, Loaded, Good, r

PostRunDone(rec, r, v) ==
    \E open :
      /\ rec = CreateServiceInstalls(open, InstallCalls(v, r.ids, r.mine) \cup OsCalls(r.ids, v, r.mine))
      /\ Same(open, r) /\ open.pc = "open"
      /\ \A d \in r.ids :
           /\ open.mine[d] \in Row
           /\ open.mine[d].app = r.mine[d].app /\ open.mine[d].pin = r.mine[d].pin
           /\ open.mine[d].managed = r.mine[d].managed
           /\ open.mine[d].operated = NewOs(v, r.mine[d])

LEMMA PostRunIs ==
    ASSUME RInv, TInv, NEW q \in Requests, PostRun(q), NEW rec, request' = [request EXCEPT ![q] = rec]
    PROVE  LET r == request[q]
               v == r.body
           IN  /\ r.pc = "postrun" /\ r.kind = "device" /\ v \in PatchBody /\ r.ids \in SUBSET Devices
               /\ \A d \in r.ids : r.mine[d] \in Row /\ device[d] \in Row /\ After(device[d], v, r.mine[d])
               /\ rec = Idle \/ PostRunDone(rec, r, v)
<1> DEFINE r == request[q]
           v == r.body
           new == [d \in Devices |-> IF d \in r.ids /\ ReportsOs(v) THEN ProgressedTarget(r.mine[d])
                                     ELSE IF d \in r.ids THEN r.mine[d].operated ELSE Null]
           changed == {d \in r.ids : new[d] # r.mine[d].operated}
           progressed == {d \in r.ids :
                            /\ ReportsOs(v) /\ Outdated(r.mine[d])
                            /\ OSRelease(r.mine[d].type, r.mine[d].os, r.mine[d].variant) # Null}
           mine == [d \in Devices |-> IF d \in changed THEN [r.mine[d] EXCEPT !.operated = new[d]]
                                      ELSE r.mine[d]]
           open == [r EXCEPT !.pc = "open", !.mine = mine,
                             !.tell = progressed \cup IF Tells(v) THEN r.ids ELSE {}]
           os == {<<<<"os", R>>, {d \in progressed : new[d] = R}, {R}>> : R \in {new[d] : d \in progressed}}
<1>1. /\ r.pc = "postrun" /\ r.kind = "device"
      /\ rec = Idle \/ rec = CreateServiceInstalls(open, InstallCalls(v, r.ids, r.mine) \cup os)
  <2>1. /\ r.pc = "postrun" /\ r.kind = "device"
        /\ \/ RollBack(q)
           \/ Goto(q, CreateServiceInstalls(open, InstallCalls(v, r.ids, r.mine) \cup os))
    BY DEF PostRun
  <2> QED BY <2>1 DEF Goto, RollBack, RInv, TablesType
<1>2. Good(r, device) /\ Loaded(r)
  BY DEF RInv, TInv
<1>3. /\ RequestType(r) /\ r.ids \subseteq Devices /\ v \in PatchBody
      /\ \A d \in Devices : r.mine[d] # None <=> d \in r.ids
      /\ \A d \in r.ids : r.mine[d] \in Row /\ device[d] \in Row /\ After(device[d], v, r.mine[d])
  <2>1. RequestType(r) /\ WroteAll(r) /\ WritesIds(r, device) /\ WritesRows(r, device) /\ Bodied(r)
    BY <1>2 DEF Good
  <2>2. r.ids \subseteq Devices /\ \A d \in r.ids : r.mine[d] \in Row
    BY <1>1, <2>1 DEF RequestType, WroteAll
  <2>3. \A d \in r.ids : device[d] \in Row
    BY <1>1, SeenRowType
  <2> QED BY <1>1, <2>1, <2>2, <2>3 DEF WroteAll, WritesIds, WritesRows, Bodied
<1>4. os = OsCalls(r.ids, v, r.mine)
  <2>1. progressed = {d \in r.ids : Progressed(v, r.mine[d])}
    BY DEF Progressed
  <2>2. \A d \in r.ids : new[d] = NewOs(v, r.mine[d])
    BY <1>3 DEF NewOs
  <2>3. progressed \subseteq r.ids
    OBVIOUS
  <2> HIDE DEF new, progressed
  <2>4. {new[d] : d \in progressed} = {NewOs(v, r.mine[d]) : d \in progressed}
    BY <2>2, <2>3
  <2>5. ASSUME NEW R PROVE {d \in progressed : new[d] = R} = {d \in progressed : NewOs(v, r.mine[d]) = R}
    BY <2>2, <2>3
  <2>6. os = {<<<<"os", R>>, {d \in progressed : NewOs(v, r.mine[d]) = R}, {R}>> :
                R \in {NewOs(v, r.mine[d]) : d \in progressed}}
    BY <2>4, <2>5, Zenon
  <2> QED BY <2>1, <2>6, Zenon DEF OsCalls
<1>5. ASSUME NEW d \in r.ids
      PROVE  /\ mine[d] \in Row /\ mine[d].app = r.mine[d].app /\ mine[d].pin = r.mine[d].pin
             /\ mine[d].managed = r.mine[d].managed /\ mine[d].operated = NewOs(v, r.mine[d])
  <2> DEFINE m == r.mine[d]
             n == new[d]
  <2>1. mine[d] = IF n # m.operated THEN [m EXCEPT !.operated = n] ELSE m
    BY <1>3
  <2>2. m \in Row /\ n = NewOs(v, m)
    BY <1>3 DEF NewOs
  <2>3. n \in Releases \cup {Null}
    BY <2>2, NewOsType
  <2> HIDE DEF n, new, m, mine, r
  <2>4. mine[d] \in Row /\ mine[d].app = m.app /\ mine[d].pin = m.pin
        /\ mine[d].managed = m.managed /\ mine[d].operated = n
    BY <2>1, <2>2, <2>3 DEF Row
  <2> QED BY <2>2, <2>4 DEF m
<1>6. mine \in [Devices -> Row \cup {None}]
  <2>1. \A d \in Devices \ r.ids : mine[d] = None
    BY <1>3
  <2>2. \A d \in Devices : mine[d] \in Row \cup {None}
    BY <1>5, <2>1
  <2> QED BY <2>2
<1>7. progressed \cup (IF Tells(v) THEN r.ids ELSE {}) \subseteq Devices
  BY <1>3
<1> HIDE DEF mine, progressed, os, changed, new
<1>8. /\ open.pc = "open" /\ open.kind = r.kind /\ open.body = v /\ open.ids = r.ids /\ open.mine = mine
      /\ RequestType(open) /\ open.moved = r.moved
      /\ open.ins = r.ins /\ open.del = r.del /\ open.todo = r.todo /\ open.posted = r.posted
  <2> HIDE DEF r
  <2> QED BY <1>1, <1>3, <1>6, <1>7 DEF RequestType, Steps
<1> HIDE DEF open
<1>9. Same(open, r)
  BY <1>2, <1>8 DEF Same, Loaded
<1>10. rec = Idle \/ rec = CreateServiceInstalls(open, InstallCalls(v, r.ids, r.mine) \cup OsCalls(r.ids, v, r.mine))
  BY <1>1, <1>4
<1>11. ASSUME rec # Idle PROVE PostRunDone(rec, r, v)
  <2> HIDE DEF r, v
  <2> QED BY <1>5, <1>8, <1>9, <1>10, <1>11 DEF PostRunDone
<1> QED BY <1>1, <1>3, <1>11

LEMMA PostDeviceIs ==
    ASSUME RInv, NEW q \in Requests, PostDevice(q), NEW rec, request' = [request EXCEPT ![q] = rec]
    PROVE  \E open, calls, d :
             /\ rec = CreateServiceInstalls(open, calls)
             /\ RequestType(open) /\ Loaded(open) /\ Calls(calls) /\ Named(d, calls)
             /\ open.kind = "post" /\ open.ins = {} /\ open.del = {} /\ open.todo = {}
             /\ \A e \in Devices : open.mine[e] # None => e = d
<1>1. PICK b \in Posts, d \in Devices \ Exist :
        LET row == RegisteredSupervisor(RegisteredOs(b))
            open == [Idle EXCEPT !.pc = "open", !.kind = "post", !.body = row, !.ids = {d},
                       !.mine = [Idle.mine EXCEPT ![d] = row]]
        IN Goto(q, CreateServiceInstalls(open,
             {<<"app", {d}, AppRelease(row.app)>>} \cup
             IF Async THEN {}
             ELSE {<<"pin", {d}, {row.pin} \ {Null}>>,
                   <<"system", {d}, {row.managed, row.operated} \ {Null}>>}))
  BY DEF PostDevice
<1> DEFINE row == RegisteredSupervisor(RegisteredOs(b))
           mine == [Idle.mine EXCEPT ![d] = row]
           open == [Idle EXCEPT !.pc = "open", !.kind = "post", !.body = row, !.ids = {d}, !.mine = mine]
           app == <<"app", {d}, AppRelease(row.app)>>
           pin == <<"pin", {d}, {row.pin} \ {Null}>>
           system == <<"system", {d}, {row.managed, row.operated} \ {Null}>>
           calls == {app} \cup IF Async THEN {} ELSE {pin, system}
<1>2. rec = CreateServiceInstalls(open, calls)
  <2>1. Goto(q, CreateServiceInstalls(open, calls))
    BY <1>1
  <2> HIDE DEF open, calls
  <2> QED BY <2>1 DEF Goto, RInv, TablesType
<1>3. row \in Row
  BY RegisteredIs
<1> HIDE DEF row
<1>4. mine \in [Devices -> Row \cup {None}] /\ \A e \in Devices : mine[e] = IF e = d THEN row ELSE None
  BY <1>3 DEF Idle
<1>5. Calls(calls)
  <2>1. AppRelease(row.app) \in SUBSET Releases
    BY <1>3, AppReleaseType DEF Row, RInv
  <2>2. {row.pin} \ {Null} \in SUBSET Releases /\ {row.managed, row.operated} \ {Null} \in SUBSET Releases
    BY <1>3 DEF Row
  <2>3. app[2] = {d} /\ pin[2] = {d} /\ system[2] = {d} /\ app[3] = AppRelease(row.app)
        /\ pin[3] = {row.pin} \ {Null} /\ system[3] = {row.managed, row.operated} \ {Null}
    OBVIOUS
  <2>4. {d} \in SUBSET Devices
    OBVIOUS
  <2> HIDE DEF app, pin, system
  <2>5. \A c \in calls : c[2] \in SUBSET Devices /\ c[3] \in SUBSET Releases
    BY <2>1, <2>2, <2>3, <2>4
  <2>6. calls = {app} \/ calls = {app, pin, system}
    OBVIOUS
  <2> HIDE DEF calls
  <2>7. IsFiniteSet({app}) /\ IsFiniteSet({app, pin, system})
    BY FewCalls
  <2>8. IsFiniteSet(calls)
    BY <2>6, <2>7
  <2> QED BY <2>5, <2>8 DEF Calls
<1>6. Named(d, calls)
  <2>1. d \in app[2]
    OBVIOUS
  <2> HIDE DEF app
  <2> QED BY <2>1 DEF Named
<1> HIDE DEF mine, calls
<1>7. /\ open.kind = "post" /\ open.mine = mine /\ RequestType(open) /\ open.moved = {}
      /\ open.ins = {} /\ open.del = {} /\ open.todo = {} /\ open.posted = EmptyBag
  BY <1>3, <1>4 DEF RequestType, Idle, Steps
<1> HIDE DEF open
<1>8. Loaded(open)
  BY <1>7, EmptyTasks DEF Loaded
<1>9. \A e \in Devices : open.mine[e] # None => e = d
  BY <1>4, <1>7
<1> QED BY <1>2, <1>5, <1>6, <1>7, <1>8, <1>9

LEMMA PatchApplicationIs ==
    ASSUME RInv, NEW q \in Requests, PatchApplication(q), NEW rec, request' = [request EXCEPT ![q] = rec]
    PROVE  \E b \in AppBody, ids \in SUBSET Devices : \E open :
             /\ ids = {d \in Exist : device[d].app = b.app /\ device[d].pin = Null}
             /\ rec = IF b.target = Null THEN open
                      ELSE CreateServiceInstalls(open, {<<"app", ids, {b.target}>>})
             /\ b.target # Null => Calls({<<"app", ids, {b.target}>>})
             /\ RequestType(open) /\ Loaded(open) /\ open.kind = "app" /\ open.body = b
             /\ open.ins = {} /\ open.del = {} /\ open.todo = {}
<1>1. PICK b \in AppBodies :
        LET ids == {d \in Exist : device[d].app = b.app /\ device[d].pin = Null}
            open == [Idle EXCEPT !.pc = "open", !.kind = "app", !.body = b]
        IN Goto(q, IF b.target = Null THEN open
                   ELSE CreateServiceInstalls(open, {<<"app", ids, {b.target}>>}))
  BY DEF PatchApplication
<1> DEFINE ids == {d \in Exist : device[d].app = b.app /\ device[d].pin = Null}
           open == [Idle EXCEPT !.pc = "open", !.kind = "app", !.body = b]
           call == <<"app", ids, {b.target}>>
<1>2. rec = IF b.target = Null THEN open ELSE CreateServiceInstalls(open, {call})
  <2>1. Goto(q, IF b.target = Null THEN open ELSE CreateServiceInstalls(open, {call}))
    BY <1>1
  <2> HIDE DEF open, call
  <2> QED BY <2>1 DEF Goto, RInv, TablesType
<1>3. b \in AppBody /\ ids \in SUBSET Devices
  BY FleetAssumption DEF Exist
<1>4. b.target # Null => Calls({call})
  <2> SUFFICES ASSUME b.target # Null PROVE Calls({call})
    OBVIOUS
  <2>1. call[2] \in SUBSET Devices /\ call[3] \in SUBSET Releases
    BY <1>3 DEF AppBody
  <2> HIDE DEF call
  <2> QED BY <2>1, FewCalls DEF Calls
<1>5. /\ open.kind = "app" /\ open.body = b /\ RequestType(open) /\ open.moved = {}
      /\ open.ins = {} /\ open.del = {} /\ open.todo = {} /\ open.posted = EmptyBag
  BY <1>3 DEF RequestType, Idle, Steps
<1> HIDE DEF open
<1>6. Loaded(open)
  BY <1>5, EmptyTasks DEF Loaded
<1>7. ids = {d \in Exist : device[d].app = b.app /\ device[d].pin = Null}
  OBVIOUS
<1> HIDE DEF ids
<1> QED BY <1>2, <1>3, <1>4, <1>5, <1>6, <1>7

LEMMA StepLoads ==
    ASSUME RInv, TInv, NEW q \in Requests, RequestStep(q), NEW rec, request' = [request EXCEPT ![q] = rec]
    PROVE  Loaded(rec)
<1> DEFINE r == request[q]
<1>0. request'[q] = rec /\ RequestType(r) /\ Loaded(r)
  BY DEF RInv, TablesType, Good, TInv
<1>1. ASSUME RollBack(q) PROVE Loaded(rec)
  BY <1>0, <1>1, IdleLoads DEF RollBack, RInv, TablesType
<1>2. CASE ReceivePatch(q)
  <2>1. PICK b \in Bodies, ids \in (SUBSET Exist) \ {{}} :
          rec = [Idle EXCEPT !.pc = "prerun", !.body = ParsedType(ParsedMove(b)), !.ids = ids]
    BY <1>0, <1>2 DEF ReceivePatch, Goto, RInv, TablesType
  <2> QED BY <2>1, IdleLoads
<1>3. CASE PreRun(q)
  BY <1>3, PreRunIs, IdleLoads
<1>4. CASE SetSupervisor(q)
  <2>1. PICK new : rec = CreateServiceInstalls(new, SupervisorCalls(r.supervisor)) /\ Same(new, r)
    BY <1>4, SetSupervisorIs DEF SupervisorSet
  <2>2. Calls(SupervisorCalls(r.supervisor))
    BY <1>0, SupervisorCallsType DEF RequestType
  <2> QED BY <2>1, <2>2, CreateLoaded DEF Same
<1>5. CASE Update(q)
  BY <1>5, UpdateLoads DEF Same
<1>6. CASE PostRun(q)
  <2>1. /\ r.body \in PatchBody /\ r.ids \in SUBSET Devices /\ \A d \in r.ids : r.mine[d] \in Row
        /\ rec = Idle \/ PostRunDone(rec, r, r.body)
    BY <1>6, PostRunIs
  <2> DEFINE calls == InstallCalls(r.body, r.ids, r.mine) \cup OsCalls(r.ids, r.body, r.mine)
  <2>2. Calls(calls)
    <3>1. Calls(InstallCalls(r.body, r.ids, r.mine)) /\ Calls(OsCalls(r.ids, r.body, r.mine))
      BY <2>1, InstallCallsType, OsCallsType DEF RInv
    <3> QED BY <3>1, FS_Union DEF Calls
  <2> HIDE DEF calls
  <2>3. CASE rec = Idle
    BY <2>3, IdleLoads
  <2>4. ASSUME NEW open, rec = CreateServiceInstalls(open, calls), Same(open, r) PROVE Loaded(rec)
    BY <2>2, <2>4, CreateLoaded DEF Same
  <2> QED BY <2>1, <2>3, <2>4 DEF PostRunDone, calls
<1>7. CASE PostDevice(q)
  <2>1. PICK open, calls : rec = CreateServiceInstalls(open, calls) /\ RequestType(open) /\ Loaded(open) /\ Calls(calls)
    BY <1>7, PostDeviceIs
  <2> QED BY <2>1, CreateLoaded
<1>8. CASE PatchApplication(q)
  <2>1. PICK open, b, calls :
          /\ rec = IF b.target = Null THEN open ELSE CreateServiceInstalls(open, calls)
          /\ b.target # Null => Calls(calls)
          /\ RequestType(open) /\ Loaded(open)
    BY <1>8, PatchApplicationIs
  <2> QED BY <2>1, CreateLoaded
<1>9. CASE Insert(q)
  <2>1. CASE ~RollBack(q)
    <3>1. rec = [r EXCEPT !.todo = {}, !.ins = r.ins \cup r.todo]
      BY <1>0, <1>9, <2>1 DEF Insert, Goto, RInv, TablesType
    <3> HIDE DEF r
    <3>2. rec.todo = {} /\ rec.ins = r.ins \cup r.todo /\ rec.del = r.del /\ rec.moved = r.moved /\ rec.posted = r.posted
      BY <1>0, <3>1 DEF RequestType
    <3> QED BY <1>0, <3>2 DEF Loaded
  <2> QED BY <1>1, <2>1
<1>10. CASE Commit(q)
  <2>1. CASE ~RollBack(q)
    <3>1. rec = [Idle EXCEPT !.pc = "notify", !.kind = r.kind, !.body = r.body, !.tell = r.tell]
      BY <1>0, <1>10, <2>1 DEF Commit, Goto, RInv, TablesType
    <3> QED BY <3>1, IdleLoads
  <2> QED BY <1>1, <2>1
<1>11. CASE Notify(q) \/ FailRequest(q)
  BY <1>1, <1>11 DEF Notify, FailRequest
<1> QED BY <1>2, <1>3, <1>4, <1>5, <1>6, <1>7, <1>8, <1>9, <1>10, <1>11 DEF RequestStep

LEMMA CountsUp ==
    /\ \A m \in {MaxFaults, MaxRequests} : 0 \in 0 .. m
    /\ \A m \in {MaxFaults, MaxRequests} : \A n : n \in 0 .. m /\ n < m => n + 1 \in 0 .. m
<1>1. MaxFaults \in Nat /\ MaxRequests \in Nat
  BY FleetAssumption
<1>2. ASSUME NEW m \in Nat PROVE 0 \in 0 .. m /\ \A n : n \in 0 .. m /\ n < m => n + 1 \in 0 .. m
  OBVIOUS
<1> QED BY <1>1, <1>2

LEMMA IdleEmployed ==
    /\ Employed(IdleWorker)
    /\ \A t \in SUBSET Devices, p \in {"done", "backoff"} :
         Employed([IdleWorker EXCEPT !.pc = p, !.task = t])
<1>1. /\ IdleWorker.posted = EmptyBag /\ IdleWorker.left = {} /\ IdleWorker.rest = {} /\ IdleWorker.task = {}
      /\ Employed(IdleWorker)
  BY EmptyTasks DEF Employed, IdleWorker, WorkerSteps
<1>2. ASSUME NEW t \in SUBSET Devices, NEW p \in {"done", "backoff"}
      PROVE  Employed([IdleWorker EXCEPT !.pc = p, !.task = t])
  BY EmptyTasks DEF Employed, IdleWorker, WorkerSteps
<1> QED BY <1>1, <1>2

LEMMA PutTask ==
    ASSUME TInv, NEW t \in SUBSET Devices
    PROVE  /\ TaskBag(tasks (+) SetToBag({t}))
           /\ \A d : In(d, tasks (+) SetToBag({t})) <=> In(d, tasks) \/ d \in t
<1>1. IsABag(tasks) /\ BagToSet(tasks) \subseteq SUBSET Devices
  BY DEF TInv, TaskBag
<1>2. /\ IsABag(tasks (+) SetToBag({t}))
      /\ BagToSet(tasks (+) SetToBag({t})) = BagToSet(tasks) \cup {t}
  <2> DEFINE one == SetToBag({t})
  <2>1. IsABag(one) /\ BagToSet(one) = {t}
    BY OneTask
  <2> HIDE DEF one
  <2>2. IsABag(tasks (+) one) /\ BagToSet(tasks (+) one) = BagToSet(tasks) \cup {t}
    BY <1>1, <2>1, AddTasks
  <2> QED BY <2>2 DEF one
<1> QED BY <1>1, <1>2 DEF TaskBag, In

(* The step of a worker, as what becomes of it and of its task.            *)
WorkerTo(w, rec) ==
    /\ worker' = [worker EXCEPT ![w] = rec]
    /\ Employed(rec)
    /\ installs' \subseteq Devices \X Services
    /\ TaskBag(tasks')
    /\ faults' \in 0 .. MaxFaults

LEMMA StartTaskTo ==
    ASSUME RInv, TInv, NEW w \in Workers, StartTask(w)
    PROVE  \E rec : WorkerTo(w, rec)
<1>1. PICK devices \in BagToSet(tasks) :
         /\ tasks' = tasks (-) SetToBag({devices})
         /\ worker' = [worker EXCEPT ![w] =
              [IdleWorker EXCEPT !.pc = "missing", !.task = devices, !.rest = devices,
                 !.services = [d \in Devices |-> IF d \in devices \cap Exist
                    THEN UNION {ServicesOf[r] : r \in TargetsOf(device[d], target)}
                    ELSE {}]]]
  BY DEF StartTask
<1> DEFINE services == [d \in Devices |-> IF d \in devices \cap Exist
                          THEN UNION {ServicesOf[r] : r \in TargetsOf(device[d], target)} ELSE {}]
           rec == [IdleWorker EXCEPT !.pc = "missing", !.task = devices, !.rest = devices, !.services = services]
<1>2. IsABag(tasks) /\ BagToSet(tasks) \subseteq SUBSET Devices
  BY DEF TInv, TaskBag
<1>3. services \in [Devices -> SUBSET Services]
  <2> SUFFICES ASSUME NEW d \in Exist
               PROVE  UNION {ServicesOf[r] : r \in TargetsOf(device[d], target)} \subseteq Services
    OBVIOUS
  <2>1. device[d] \in Row /\ TablesType
    BY DEF Exist, RInv, TablesType
  <2>2. TargetsOf(device[d], target) \subseteq Releases
    BY <2>1, NeedsOf
  <2>3. \A r \in Releases : ServicesOf[r] \subseteq Services
    BY FleetAssumption
  <2> QED BY <2>2, <2>3
<1> HIDE DEF services
<1>4. Employed(rec)
  BY <1>1, <1>2, <1>3, EmptyTasks DEF Employed, IdleWorker, WorkerSteps
<1>5. TaskBag(tasks')
  BY <1>1, <1>2, TakeTask DEF TaskBag
<1>6. worker' = [worker EXCEPT ![w] = rec]
  BY <1>1 DEF services
<1> HIDE DEF rec
<1> QED BY <1>4, <1>5, <1>6 DEF WorkerTo, StartTask, tables, TInv

LEMMA FindMissingTo ==
    ASSUME RInv, TInv, NEW w \in Workers, FindMissing(w)
    PROVE  \E rec : WorkerTo(w, rec)
<1> DEFINE r == worker[w]
           all == UNION {r.services[d] : d \in Devices}
           have == {p \in installs : p[1] \in r.task /\ p[2] \in all}
           left == {d \in r.task \cap Exist : \E s \in all : <<d, s>> \notin installs}
           rec == [r EXCEPT !.pc = "insert", !.have = have, !.left = left]
<1>1. r.pc = "missing" /\ worker' = [worker EXCEPT ![w] = rec]
  BY DEF FindMissing
<1>2. Employed(r) /\ installs \subseteq Devices \X Services
  BY DEF TInv
<1>3. left \subseteq r.task /\ have \subseteq Devices \X Services
  BY <1>2
<1> HIDE DEF left, have, r
<1>4. Employed(rec)
  BY <1>1, <1>2, <1>3 DEF Employed, WorkerSteps
<1> HIDE DEF rec
<1> QED BY <1>1, <1>4 DEF WorkerTo, FindMissing, tables, TInv

LEMMA InsertMissingTo ==
    ASSUME TInv, NEW w \in Workers, InsertMissing(w)
    PROVE  \E rec : WorkerTo(w, rec)
<1> DEFINE r == worker[w]
<1>1. PICK d \in r.left :
        LET todo == ({d} \X r.services[d]) \ r.have
        IN worker' = [worker EXCEPT ![w] =
             [r EXCEPT !.ins = r.ins \cup todo, !.left = r.left \ {d}, !.rest = r.rest \ {d}]]
  BY DEF InsertMissing
<1> DEFINE todo == ({d} \X r.services[d]) \ r.have
           ins == r.ins \cup todo
           rec == [r EXCEPT !.ins = ins, !.left = r.left \ {d}, !.rest = r.rest \ {d}]
<1>2. r.pc = "insert" /\ r.left # {} /\ Employed(r)
  BY DEF InsertMissing, TInv
<1>3. ins \subseteq Devices \X Services
  BY <1>2 DEF Employed
<1>4. worker' = [worker EXCEPT ![w] = rec]
  BY <1>1
<1> HIDE DEF ins, r
<1>5. Employed(rec)
  BY <1>2, <1>3 DEF Employed, WorkerSteps
<1> HIDE DEF rec
<1> QED BY <1>4, <1>5 DEF WorkerTo, InsertMissing, tables, TInv

LEMMA TimeIsUpTo ==
    ASSUME TInv, NEW w \in Workers, TimeIsUp(w)
    PROVE  \E rec : WorkerTo(w, rec)
<1> DEFINE r == worker[w]
           b == SetToBag({r.rest})
           rec == [r EXCEPT !.left = {}, !.posted = b]
<1>1. r.pc = "insert" /\ Employed(r) /\ worker' = [worker EXCEPT ![w] = rec] /\ faults' \in 0 .. MaxFaults
  BY CountsUp DEF TimeIsUp, TInv
<1>2. TaskBag(b)
  <2>1. r.rest \in SUBSET Devices
    BY <1>1 DEF Employed
  <2>2. IsABag(b) /\ BagToSet(b) = {r.rest}
    BY OneTask
  <2> QED BY <2>1, <2>2 DEF TaskBag
<1> HIDE DEF b, r
<1>3. Employed(rec)
  BY <1>1, <1>2 DEF Employed, WorkerSteps
<1> HIDE DEF rec
<1> QED BY <1>1, <1>3 DEF WorkerTo, TimeIsUp, tables, TInv

LEMMA CommitTaskTo ==
    ASSUME TInv, NEW w \in Workers, CommitTask(w)
    PROVE  \E rec : WorkerTo(w, rec)
<1> DEFINE r == worker[w]
           rec == [IdleWorker EXCEPT !.pc = "done", !.task = r.task]
<1>1. Employed(r) /\ worker' = [worker EXCEPT ![w] = rec]
      /\ installs' = installs \cup r.ins /\ tasks' = tasks (+) r.posted /\ faults' = faults
  BY DEF CommitTask, TInv
<1>2. r.task \in SUBSET Devices /\ r.ins \subseteq Devices \X Services /\ TaskBag(r.posted)
  BY <1>1 DEF Employed
<1>3. TaskBag(tasks')
  BY <1>1, <1>2, AddTasks DEF TInv, TaskBag
<1>4. Employed(rec)
  BY <1>2, IdleEmployed
<1> HIDE DEF rec
<1> QED BY <1>1, <1>2, <1>3, <1>4 DEF WorkerTo, TInv

LEMMA LeaveTaskTo ==
    ASSUME TInv, NEW w \in Workers,
           \/ FinishTask(w) \/ TaskConflict(w) \/ DeadlockTask(w) \/ RetryTask(w) \/ CrashWorker(w)
    PROVE  \E rec : WorkerTo(w, rec)
<1> DEFINE t == worker[w].task
           rec == [IdleWorker EXCEPT !.pc = "backoff", !.task = t]
<1>1. t \in SUBSET Devices
  BY DEF TInv, Employed
<1>2. Employed(rec) /\ Employed(IdleWorker) /\ TaskBag(tasks (+) SetToBag({t})) /\ TaskBag(tasks)
  BY <1>1, IdleEmployed, PutTask DEF TInv
<1>3. tasks' \in {tasks, tasks (+) SetToBag({t})} /\ installs' = installs
      /\ \/ worker' = [worker EXCEPT ![w] = IdleWorker]
         \/ worker' = [worker EXCEPT ![w] = rec]
  BY DEF FinishTask, TaskConflict, DeadlockTask, RetryTask, CrashWorker, tables
<1>4. faults' \in 0 .. MaxFaults
  <2>1. faults' = faults \/ (faults < MaxFaults /\ faults' = faults + 1)
    BY DEF FinishTask, TaskConflict, DeadlockTask, RetryTask, CrashWorker
  <2> QED BY <2>1, CountsUp DEF TInv
<1> HIDE DEF rec
<1> QED BY <1>2, <1>3, <1>4 DEF WorkerTo, TInv

LEMMA WorkerKeeps ==
    ASSUME RInv, TInv, NEW w \in Workers, WorkerStep(w)
    PROVE  TInv'
<1>1. PICK rec : WorkerTo(w, rec)
  BY StartTaskTo, FindMissingTo, InsertMissingTo, TimeIsUpTo, CommitTaskTo, LeaveTaskTo DEF WorkerStep
<1>2. UNCHANGED <<images, invalid, request, received, missed, serial>>
  BY DEF WorkerStep, StartTask, FindMissing, InsertMissing, TimeIsUp, CommitTask,
     FinishTask, TaskConflict, DeadlockTask, RetryTask, CrashWorker, tables, ghosts
<1>3. worker' = [v \in Workers |-> worker'[v]] /\ \A v \in Workers : Employed(worker'[v])
  BY <1>1 DEF WorkerTo, TInv
<1> QED BY <1>1, <1>2, <1>3 DEF WorkerTo, TInv

LEMMA RequestKeeps ==
    ASSUME RInv, TInv, NEW q \in Requests, RequestStep(q)
    PROVE  TInv'
<1> DEFINE r == request[q]
<1>1. PICK rec : request' = [request EXCEPT ![q] = rec]
  BY StepIsGoto
<1>2. Loaded(rec) /\ Loaded(r) /\ RequestType(r)
  BY <1>1, StepLoads DEF TInv, RInv, Good
<1>3. \A p \in Requests : Loaded(request'[p])
  BY <1>1, <1>2 DEF RInv, TablesType, TInv
<1>4. worker' = worker /\ invalid' = invalid /\ received' \in 0 .. MaxRequests /\ faults' \in 0 .. MaxFaults
  <2>1. CASE ReceivePatch(q) \/ PostDevice(q) \/ PatchApplication(q)
    <3>1. /\ received < MaxRequests /\ received' = received + 1
          /\ UNCHANGED <<worker, invalid, faults>>
      BY <2>1, Zenon DEF ReceivePatch, PostDevice, PatchApplication, tables
    <3> QED BY <3>1, CountsUp DEF TInv
  <2>2. CASE PreRun(q) \/ SetSupervisor(q) \/ Update(q)
    BY <2>2, Zenon DEF PreRun, SetSupervisor, Update, tables, TInv
  <2>3. CASE PostRun(q) \/ Insert(q) \/ Notify(q)
    BY <2>3, Zenon DEF PostRun, Insert, Notify, tables, TInv
  <2>4. CASE FailRequest(q)
    <3>1. /\ faults < MaxFaults /\ faults' = faults + 1
          /\ UNCHANGED <<worker, invalid, received>>
      BY <2>4 DEF FailRequest, tables
    <3> QED BY <3>1, CountsUp DEF TInv
  <2>5. CASE Commit(q)
    BY <2>5 DEF Commit, TInv
  <2> QED BY <2>1, <2>2, <2>3, <2>4, <2>5 DEF RequestStep
<1>5. installs' \subseteq Devices \X Services /\ images' \subseteq Devices \X Releases /\ TaskBag(tasks')
      /\ missed' \subseteq Devices
  <2>1. CASE ReceivePatch(q) \/ PostDevice(q) \/ PatchApplication(q)
    BY <2>1, Zenon DEF ReceivePatch, PostDevice, PatchApplication, tables, TInv
  <2>2. CASE PreRun(q) \/ SetSupervisor(q) \/ Update(q)
    BY <2>2, Zenon DEF PreRun, SetSupervisor, Update, tables, ghosts, TInv
  <2>3. CASE PostRun(q) \/ Insert(q) \/ FailRequest(q)
    BY <2>3, Zenon DEF PostRun, Insert, FailRequest, tables, ghosts, TInv
  <2>4. CASE Notify(q)
    BY <2>4 DEF Notify, tables, TInv
  <2>5. CASE Commit(q)
    <3>1. installs' \in {installs, SeenInstalls(r)} /\ images' \subseteq images
          /\ tasks' \in {tasks, tasks (+) r.posted} /\ missed' \subseteq missed \cup Exist
      BY <2>5 DEF Commit, ImageInstallsAfter
    <3>2. SeenInstalls(r) \subseteq Devices \X Services
      BY <1>2 DEF SeenInstalls, Loaded, TInv
    <3>3. TaskBag(tasks (+) r.posted)
      BY <1>2, AddTasks DEF Loaded, TaskBag, TInv
    <3> QED BY <3>1, <3>2, <3>3 DEF Exist, TInv
  <2> QED BY <2>1, <2>2, <2>3, <2>4, <2>5 DEF RequestStep
<1>6. serial' \in BOOLEAN
  <2>1. CASE ReceivePatch(q) \/ PostDevice(q) \/ PatchApplication(q)
    <3>1. serial' = (serial /\ ~Busy)
      BY <2>1, Zenon DEF ReceivePatch, PostDevice, PatchApplication
    <3> QED BY <3>1
  <2>2. CASE PreRun(q) \/ SetSupervisor(q) \/ Update(q)
    BY <2>2, Zenon DEF PreRun, SetSupervisor, Update, ghosts, TInv
  <2>3. CASE PostRun(q) \/ Insert(q) \/ FailRequest(q) \/ Notify(q) \/ Commit(q)
    BY <2>3, Zenon DEF PostRun, Insert, FailRequest, Notify, Commit, ghosts, TInv
  <2> QED BY <2>1, <2>2, <2>3 DEF RequestStep
<1> QED BY <1>3, <1>4, <1>5, <1>6 DEF TInv

LEMMA TInvStep == RInv /\ TInv /\ [Next]_vars => TInv'
<1> SUFFICES ASSUME RInv, TInv, [Next]_vars PROVE TInv'
  OBVIOUS
<1>1. ASSUME NEW d \in Reporting, Report(d) PROVE TInv'
  <2>1. device[d] \in Row /\ d \in Devices /\ TablesType
    BY <1>1 DEF Report, Exist, RInv, TablesType
  <2> DEFINE x == ShouldBeRunning(device[d], target)
  <2>2. x \in Releases /\ running'[d] = x
    <3>1. x \in Releases \cup {Null} /\ x # Null
      BY <1>1, <2>1, ShouldBeRunningType DEF Report
    <3>2. running' = [running EXCEPT ![d] = x] /\ DOMAIN running = Devices
      BY <1>1, <2>1 DEF Report, TablesType
    <3> HIDE DEF x
    <3> QED BY <2>1, <3>1, <3>2
  <2>3. images' \subseteq Devices \X Releases /\ missed' \subseteq Devices
    BY <1>1, <2>1, <2>2 DEF Report, TInv
  <2>4. UNCHANGED <<installs, invalid, tasks, request, worker, received, faults, serial>>
    BY <1>1 DEF Report
  <2> QED BY <2>3, <2>4 DEF TInv
<1>2. ASSUME NEW s \in Withdrawn, Invalidate(s) PROVE TInv'
  <2>1. invalid' \subseteq Releases
    BY <1>2, FiniteAssumption DEF Invalidate, TInv
  <2> QED BY <1>2, <2>1 DEF Invalidate, ghosts, TInv
<1>3. CASE UNCHANGED vars
  BY <1>3 DEF vars, tables, ghosts, TInv
<1> QED BY <1>1, <1>2, <1>3, RequestKeeps, WorkerKeeps DEF Next

LEMMA TInvInit == Init => TInv
<1> SUFFICES ASSUME Init PROVE TInv
  OBVIOUS
<1>1. \A q \in Requests : Loaded(request[q])
  BY IdleLoads DEF Init
<1>2. worker = [w \in Workers |-> worker[w]] /\ \A w \in Workers : Employed(worker[w])
  BY IdleEmployed DEF Init
<1>3. images \subseteq Devices \X Releases
  <2>1. running \in [Devices -> Releases \cup {Null}]
    BY RInvInit DEF RInv, TablesType
  <2> QED BY <2>1 DEF Init
<1>4. received \in 0 .. MaxRequests /\ faults \in 0 .. MaxFaults /\ missed = {} /\ serial = TRUE
  BY CountsUp DEF Init
<1>5. installs \subseteq Devices \X Services /\ invalid = {} /\ tasks = EmptyBag
  BY DEF Init
<1> QED BY <1>1, <1>2, <1>3, <1>4, <1>5, EmptyTasks DEF TInv

LEMMA TypesOk == RInv /\ TInv => TypeOK
<1> SUFFICES ASSUME RInv, TInv PROVE TypeOK
  OBVIOUS
<1>1. ASSUME NEW q \in Requests
      PROVE  /\ DOMAIN request[q] = DOMAIN Idle
             /\ request[q].mine \in [Devices -> Row \cup {None}]
             /\ request[q].ins \cup request[q].del \cup request[q].todo \subseteq Devices \X Services
             /\ request[q].tell \cup request[q].moved \subseteq Devices
  <2> DEFINE r == request[q]
  <2>1. RequestType(r) /\ Loaded(r)
    BY DEF RInv, Good, TInv
  <2> HIDE DEF r
  <2>2. DOMAIN r = DOMAIN Idle /\ r.mine \in [Devices -> Row \cup {None}] /\ r.tell \subseteq Devices
    BY <2>1 DEF RequestType, Idle
  <2> QED BY <2>1, <2>2 DEF Loaded, r
<1>2. ASSUME NEW w \in Workers
      PROVE  /\ DOMAIN worker[w] = DOMAIN IdleWorker
             /\ worker[w].services \in [Devices -> SUBSET Services]
             /\ worker[w].left \subseteq worker[w].rest /\ worker[w].rest \subseteq worker[w].task
  BY DEF TInv, Employed, IdleWorker
<1> QED BY <1>1, <1>2 DEF TypeOK, RInv, TablesType, TInv, TaskBag

-----------------------------------------------------------------------------
(* Service installs, when they are made by tasks. *)

(* The worker with record w, or the task it goes on with, inserts the      *)
(* service install of s for d, or fails and starts again.                  *)
Delivers(w, d, s) ==
    /\ d \in w.task
    /\ \/ w.pc = "backoff"
       \/ w.pc = "missing" /\ s \in w.services[d]
       \/ /\ w.pc = "insert"
          /\ \/ <<d, s>> \in w.ins
             \/ d \in w.left /\ s \in w.services[d] /\ <<d, s>> \notin w.have
             \/ In(d, w.posted)

Served(d, s) ==
    \/ <<d, s>> \in installs
    \/ In(d, tasks)
    \/ \E w \in Workers : Delivers(worker[w], d, s)

AllServed ==
    \A d \in Exist : \A R \in TargetsOf(device[d], target) : \A s \in ServicesOf[R] : Served(d, s)

(* The devices whose targets a transaction changes get a task.             *)
PatchPosts(r, dev, t) ==
    /\ r.pc = "prerun" => r.del = {}
    /\ \A p \in r.del : Given(r.body.app) /\ p[1] \in r.ids
    /\ r.pc = "supervisor" => \A d \in Devices : r.mine[d] = None
    /\ r.pc = "update" => \A d \in Devices : r.mine[d] # None => In(d, r.posted)
    /\ r.pc = "postrun" =>
         \A d \in r.ids :
           IF r.body.managed # Undefined THEN r.mine[d].managed = r.body.managed
           ELSE r.mine[d].managed = dev[d].managed \/ In(d, r.posted)
    /\ r.pc = "open" =>
         \A d \in r.ids :
           \/ In(d, r.posted)
           \/ ~Given(r.body.app) /\ TargetsOf(r.mine[d], t) \subseteq TargetsOf(dev[d], t)

TasksFor(r, dev, t) ==
    /\ r.ins = {} /\ r.todo = {}
    /\ r.kind = "device" => PatchPosts(r, dev, t)
    /\ r.kind # "device" => r.del = {}
    /\ r.kind = "post" => \A d \in Devices : r.mine[d] # None => In(d, r.posted)
    /\ r.kind = "app" /\ r.body.target # Null =>
         \A d \in Devices : dev[d] # Null /\ dev[d].app = r.body.app /\ dev[d].pin = Null => In(d, r.posted)

AInv ==
    serial => /\ AllServed
              /\ \A q \in Requests : Active(request[q]) => TasksFor(request[q], device, target)

LEMMA TasksGoto ==
    ASSUME Async, RInv, TInv, AInv, serial, NEW q \in Requests, RequestStep(q), ~Commit(q),
           NEW rec, request' = [request EXCEPT ![q] = rec], Active(rec)
    PROVE  TasksFor(rec, device, target)
<1> DEFINE r == request[q]
<1>0. request'[q] = rec /\ Good(r, device) /\ RequestType(r) /\ (Active(r) => TasksFor(r, device, target))
  BY DEF RInv, TablesType, Good, AInv
<1>1. rec # Idle
  BY DEF Active, Idle
<1>2. CASE ReceivePatch(q)
  <2>1. PICK b \in Bodies, ids \in (SUBSET Exist) \ {{}} :
          rec = [Idle EXCEPT !.pc = "prerun", !.body = ParsedType(ParsedMove(b)), !.ids = ids]
    BY <1>0, <1>2 DEF ReceivePatch, Goto, RInv, TablesType
  <2>2. rec.pc = "prerun" /\ rec.kind = "device" /\ rec.ins = {} /\ rec.del = {} /\ rec.todo = {}
    BY <2>1 DEF Idle
  <2> QED BY <2>2 DEF TasksFor, PatchPosts
<1>3. CASE PreRun(q)
  <2>1. /\ rec.pc \in {"supervisor", "update"} /\ rec.ins = r.ins /\ rec.todo = r.todo
        /\ rec.mine = r.mine /\ rec.kind = r.kind
        /\ \A p \in rec.del : Given(rec.body.app) /\ p[1] \in rec.ids
    BY <1>1, <1>3, PreRunIs
  <2>2. r.pc = "prerun" /\ r.kind = "device" /\ \A d \in Devices : r.mine[d] = None
    BY <1>0, <1>3 DEF PreRun, Good, WritesIds
  <2>3. r.ins = {} /\ r.todo = {}
    BY <1>0, <2>2 DEF Active, TasksFor
  <2> HIDE DEF r
  <2> QED BY <2>1, <2>2, <2>3 DEF TasksFor, PatchPosts
<1>4. CASE SetSupervisor(q)
  <2> DEFINE calls == SupervisorCalls(r.supervisor)
  <2>1. PICK new :
          /\ rec = CreateServiceInstalls(new, SupervisorCalls(request[q].supervisor))
          /\ Same(new, request[q]) /\ new.pc = "update"
          /\ \A d \in Devices : new.mine[d] # None =>
               request[q].mine[d] # None \/ request[q].supervisor[d] # Null
    <3>1. SupervisorSet(rec, request[q])
      BY <1>4, SetSupervisorIs
    <3> QED BY <3>1 DEF SupervisorSet
  <2>2. r.pc = "supervisor" /\ r.kind = "device"
    BY <1>0, <1>4 DEF SetSupervisor, Good, Bodied
  <2>3. /\ r.ins = {} /\ r.todo = {} /\ \A d \in Devices : r.mine[d] = None
        /\ \A p \in r.del : Given(r.body.app) /\ p[1] \in r.ids
    BY <1>0, <2>2 DEF Active, TasksFor, PatchPosts
  <2>4. Calls(calls) /\ \A d \in Devices : r.supervisor[d] # Null => Named(d, calls)
    BY <1>0, SupervisorCallsType DEF RequestType
  <2>11. /\ rec = CreateServiceInstalls(new, calls) /\ Same(new, r) /\ new.pc = "update"
         /\ \A d \in Devices : new.mine[d] # None => r.mine[d] # None \/ r.supervisor[d] # Null
    BY <2>1
  <2> HIDE DEF calls, r
  <2>5. /\ rec.ins = new.ins /\ rec.del = new.del /\ rec.todo = new.todo
        /\ rec.pc = new.pc /\ rec.kind = new.kind /\ rec.body = new.body /\ rec.ids = new.ids /\ rec.mine = new.mine
        /\ \A d : Named(d, calls) => In(d, rec.posted)
    BY <2>11, <2>4, CreateTasks, CreateKeeps DEF Same
  <2> QED BY <2>11, <2>2, <2>3, <2>4, <2>5 DEF Same, TasksFor, PatchPosts
<1>5. CASE Update(q)
  <2> DEFINE mine == [d \in Devices |-> IF d \in r.ids THEN Assign(SeenRow(q, d), r.body) ELSE r.mine[d]]
  <2>1. r.pc = "update" /\ r.kind = "device" /\ rec = [r EXCEPT !.pc = "postrun", !.mine = mine]
    BY <1>5 DEF Update, Goto, RInv, TablesType
  <2>2. r.ids \subseteq Devices /\ r.body \in PatchBody
    BY <1>0, <2>1 DEF RequestType, Good, Bodied
  <2>3. /\ r.ins = {} /\ r.todo = {}
        /\ \A p \in r.del : Given(r.body.app) /\ p[1] \in r.ids
        /\ \A d \in Devices : r.mine[d] # None => In(d, r.posted)
    BY <1>0, <2>1 DEF Active, TasksFor, PatchPosts
  <2>4. ASSUME NEW d \in r.ids
        PROVE  IF r.body.managed # Undefined THEN mine[d].managed = r.body.managed
               ELSE mine[d].managed = device[d].managed \/ In(d, r.posted)
    <3> DEFINE s == SeenRow(q, d)
    <3>1. mine[d] = Assign(s, r.body) /\ s \in Row
      BY <1>0, <2>1, <2>2, SeenRowType
    <3>2. s.managed = device[d].managed \/ In(d, r.posted)
      BY <2>2, <2>3 DEF SeenRow
    <3> HIDE DEF s, mine, r
    <3>3. mine[d].managed = IF r.body.managed = Undefined THEN s.managed ELSE r.body.managed
      BY <2>2, <3>1 DEF Assign, Row, PatchBody
    <3> QED BY <3>2, <3>3
  <2> HIDE DEF mine, r
  <2>5. /\ rec.pc = "postrun" /\ rec.kind = "device" /\ rec.mine = mine /\ rec.body = r.body /\ rec.ids = r.ids
        /\ rec.ins = {} /\ rec.todo = {} /\ rec.del = r.del /\ rec.posted = r.posted
    BY <1>0, <2>1, <2>3 DEF RequestType
  <2> QED BY <2>3, <2>4, <2>5 DEF TasksFor, PatchPosts
<1>6. CASE PostRun(q)
  <2> DEFINE v == r.body
             calls == InstallCalls(v, r.ids, r.mine) \cup OsCalls(r.ids, v, r.mine)
  <2>1. /\ r.pc = "postrun" /\ r.kind = "device" /\ v \in PatchBody /\ r.ids \in SUBSET Devices
        /\ \A d \in r.ids : r.mine[d] \in Row /\ device[d] \in Row /\ After(device[d], v, r.mine[d])
        /\ rec = Idle \/ PostRunDone(rec, r, v)
    BY <1>6, PostRunIs
  <2>2. PICK open :
             /\ rec = CreateServiceInstalls(open, calls)
             /\ Same(open, r) /\ open.pc = "open"
             /\ \A d \in r.ids :
                  /\ open.mine[d] \in Row
                  /\ open.mine[d].app = r.mine[d].app /\ open.mine[d].pin = r.mine[d].pin
                  /\ open.mine[d].managed = r.mine[d].managed
                  /\ open.mine[d].operated = NewOs(v, r.mine[d])
    BY <1>1, <2>1 DEF PostRunDone
  <2>3. /\ r.ins = {} /\ r.todo = {}
        /\ \A p \in r.del : Given(v.app) /\ p[1] \in r.ids
        /\ \A d \in r.ids :
             IF v.managed # Undefined THEN r.mine[d].managed = v.managed
             ELSE r.mine[d].managed = device[d].managed \/ In(d, r.posted)
    BY <1>0, <2>1 DEF Active, TasksFor, PatchPosts
  <2>4. Calls(calls)
    <3>1. Calls(InstallCalls(v, r.ids, r.mine)) /\ Calls(OsCalls(r.ids, v, r.mine))
      BY <2>1, InstallCallsType, OsCallsType DEF RInv
    <3> QED BY <3>1, FS_Union DEF Calls
  <2>5. ASSUME NEW d \in r.ids,
               \/ Given(v.app) \/ Given(v.pin) \/ v.pin = Null
               \/ Given(v.managed) \/ Given(v.operated) \/ Progressed(v, r.mine[d])
        PROVE  Named(d, calls)
    BY <2>1, <2>5, CallsName
  <2> HIDE DEF calls
  <2>6. /\ rec.ins = open.ins /\ rec.del = open.del /\ rec.todo = open.todo
        /\ rec.pc = open.pc /\ rec.kind = open.kind /\ rec.body = open.body /\ rec.ids = open.ids
        /\ rec.mine = open.mine
        /\ \A d : In(d, rec.posted) <=> In(d, open.posted) \/ Named(d, calls)
    <3> HIDE DEF r, v
    <3> QED BY <2>2, <2>4, CreateTasks, CreateKeeps DEF Same
  <2>7. ASSUME NEW d \in r.ids, ~In(d, rec.posted)
        PROVE  ~Given(v.app) /\ TargetsOf(rec.mine[d], target) \subseteq TargetsOf(device[d], target)
    <3>1. ~In(d, r.posted) /\ ~Named(d, calls)
      BY <2>2, <2>6, <2>7 DEF Same
    <3>2. /\ ~Given(v.app) /\ ~Given(v.pin) /\ v.pin # Null /\ ~Given(v.managed) /\ ~Given(v.operated)
          /\ ~Progressed(v, r.mine[d])
      BY <2>5, <3>1
    <3> DEFINE m == r.mine[d]
               e == rec.mine[d]
    <3>3. /\ m \in Row /\ device[d] \in Row /\ After(device[d], v, m)
          /\ e \in Row /\ e.app = m.app /\ e.pin = m.pin /\ e.managed = m.managed /\ e.operated = NewOs(v, m)
      BY <2>1, <2>2, <2>6
    <3>4. m.managed # Null => m.managed = device[d].managed
      BY <2>3, <3>1, <3>2 DEF Given
    <3> HIDE DEF e, m
    <3>5. ASSUME NEW R \in TargetsOf(e, target) PROVE R \in TargetsOf(device[d], target)
      <4>1. R # Null
        BY DEF TargetsOf
      <4>2. \/ R \in TargetsOf(device[d], target)
            \/ R = m.managed
            \/ R = device[d].operated
        BY <2>1, <3>2, <3>3, PostRunNeeds DEF m
      <4> QED BY <3>4, <4>1, <4>2 DEF TargetsOf
    <3> QED BY <3>2, <3>5 DEF e
  <2>8. PatchPosts(rec, device, target)
    <3> HIDE DEF r, v
    <3> QED BY <2>2, <2>3, <2>6, <2>7 DEF Same, PatchPosts, r, v
  <2> QED BY <2>1, <2>2, <2>3, <2>6, <2>8 DEF Same, TasksFor
<1>7. CASE PostDevice(q)
  <2>1. PICK open, calls, d :
             /\ rec = CreateServiceInstalls(open, calls)
             /\ RequestType(open) /\ Loaded(open) /\ Calls(calls) /\ Named(d, calls)
             /\ open.kind = "post" /\ open.ins = {} /\ open.del = {} /\ open.todo = {}
             /\ \A e \in Devices : open.mine[e] # None => e = d
    BY <1>7, PostDeviceIs
  <2>2. /\ rec.ins = {} /\ rec.del = {} /\ rec.todo = {} /\ rec.kind = "post" /\ rec.mine = open.mine
        /\ In(d, rec.posted)
    BY <2>1, CreateTasks, CreateKeeps
  <2> QED BY <2>1, <2>2 DEF TasksFor
<1>8. CASE PatchApplication(q)
  <2>1. PICK b \in AppBody, ids \in SUBSET Devices : \E open :
             /\ ids = {d \in Exist : device[d].app = b.app /\ device[d].pin = Null}
             /\ rec = IF b.target = Null THEN open
                      ELSE CreateServiceInstalls(open, {<<"app", ids, {b.target}>>})
             /\ b.target # Null => Calls({<<"app", ids, {b.target}>>})
             /\ RequestType(open) /\ Loaded(open) /\ open.kind = "app" /\ open.body = b
             /\ open.ins = {} /\ open.del = {} /\ open.todo = {}
    BY <1>8, PatchApplicationIs
  <2> DEFINE call == <<"app", ids, {b.target}>>
  <2>2. PICK open :
             /\ ids = {d \in Exist : device[d].app = b.app /\ device[d].pin = Null}
             /\ rec = IF b.target = Null THEN open ELSE CreateServiceInstalls(open, {call})
             /\ b.target # Null => Calls({call})
             /\ RequestType(open) /\ Loaded(open) /\ open.kind = "app" /\ open.body = b
             /\ open.ins = {} /\ open.del = {} /\ open.todo = {}
    BY <2>1
  <2>3. call[2] = ids
    OBVIOUS
  <2> HIDE DEF call
  <2>4. /\ rec.ins = {} /\ rec.del = {} /\ rec.todo = {} /\ rec.kind = "app" /\ rec.body = b
        /\ b.target # Null => \A d \in ids : In(d, rec.posted)
    <3>1. CASE b.target = Null
      BY <2>2, <3>1
    <3>2. CASE b.target # Null
      <4>1. \A d \in ids : Named(d, {call})
        BY <2>3 DEF Named
      <4>2. rec = CreateServiceInstalls(open, {call}) /\ Calls({call})
        BY <2>2, <3>2
      <4> DEFINE calls == {call}
      <4> HIDE DEF calls
      <4>3. Calls(calls) /\ rec = CreateServiceInstalls(open, calls) /\ RequestType(open) /\ Loaded(open)
        BY <2>2, <4>2 DEF calls
      <4>4. /\ rec.ins = open.ins /\ rec.del = open.del /\ rec.todo = open.todo
            /\ rec.kind = open.kind /\ rec.body = open.body
            /\ \A d : Named(d, calls) => In(d, rec.posted)
        BY <4>3, CreateTasks, CreateKeeps
      <4> QED BY <2>2, <4>1, <4>4 DEF calls
    <3> QED BY <3>1, <3>2
  <2> QED BY <2>2, <2>4 DEF TasksFor, Exist
<1>9. CASE Insert(q)
  <2>1. r.pc = "open" /\ r.todo # {}
    BY <1>9 DEF Insert
  <2> QED BY <1>0, <2>1 DEF Active, TasksFor
<1>10. ASSUME Notify(q) \/ FailRequest(q) PROVE FALSE
  BY <1>0, <1>1, <1>10 DEF Notify, FailRequest, RollBack, RInv, TablesType
<1> QED BY <1>2, <1>3, <1>4, <1>5, <1>6, <1>7, <1>8, <1>9, <1>10 DEF RequestStep

(* The service installs that were to be made before a step are made, or    *)
(* are still to be made, after it.                                         *)
LEMMA StartTaskServes ==
    ASSUME TInv, NEW w \in Workers, StartTask(w), NEW d \in Exist,
           NEW R \in TargetsOf(device[d], target), NEW s \in ServicesOf[R], Served(d, s)
    PROVE  Served(d, s)'
<1>1. PICK devices \in BagToSet(tasks) :
         /\ tasks' = tasks (-) SetToBag({devices})
         /\ worker' = [worker EXCEPT ![w] =
              [IdleWorker EXCEPT !.pc = "missing", !.task = devices, !.rest = devices,
                 !.services = [e \in Devices |-> IF e \in devices \cap Exist
                    THEN UNION {ServicesOf[r] : r \in TargetsOf(device[e], target)}
                    ELSE {}]]]
  BY DEF StartTask
<1> DEFINE services == [e \in Devices |-> IF e \in devices \cap Exist
                          THEN UNION {ServicesOf[r] : r \in TargetsOf(device[e], target)} ELSE {}]
           rec == [IdleWorker EXCEPT !.pc = "missing", !.task = devices, !.rest = devices, !.services = services]
<1>2. worker' = [worker EXCEPT ![w] = rec] /\ DOMAIN worker = Workers /\ installs' = installs
      /\ worker[w].pc = "idle" /\ IsABag(tasks)
  BY <1>1 DEF TInv, TaskBag, StartTask, tables
<1>3. d \in devices => s \in services[d]
  BY DEF Exist
<1> HIDE DEF services
<1>4. rec.pc = "missing" /\ rec.task = devices /\ rec.services = services
  BY DEF IdleWorker
<1> HIDE DEF rec
<1>5. worker'[w] = rec /\ \A v \in Workers \ {w} : worker'[v] = worker[v]
  BY <1>2
<1>6. d \in devices => Delivers(worker'[w], d, s)
  BY <1>3, <1>4, <1>5 DEF Delivers
<1>7. In(d, tasks) => In(d, tasks') \/ d \in devices
  BY <1>1, <1>2, TakeTask DEF In
<1>8. ~Delivers(worker[w], d, s)
  BY <1>2 DEF Delivers
<1> QED BY <1>2, <1>5, <1>6, <1>7, <1>8 DEF Served

LEMMA OthersServe ==
    ASSUME TInv, NEW w \in Workers, NEW rec, worker' = [worker EXCEPT ![w] = rec],
           NEW d, NEW s, Served(d, s),
           installs \subseteq installs', In(d, tasks) => In(d, tasks'),
           Delivers(worker[w], d, s) => Delivers(rec, d, s) \/ <<d, s>> \in installs' \/ In(d, tasks')
    PROVE  Served(d, s)'
<1>1. worker'[w] = rec /\ \A v \in Workers \ {w} : worker'[v] = worker[v]
  BY DEF TInv
<1> QED BY <1>1 DEF Served

LEMMA FindMissingServes ==
    ASSUME TInv, NEW w \in Workers, FindMissing(w), NEW d \in Exist, NEW s, Served(d, s)
    PROVE  Served(d, s)'
<1> DEFINE r == worker[w]
           all == UNION {r.services[e] : e \in Devices}
           have == {p \in installs : p[1] \in r.task /\ p[2] \in all}
           left == {e \in r.task \cap Exist : \E x \in all : <<e, x>> \notin installs}
           rec == [r EXCEPT !.pc = "insert", !.have = have, !.left = left]
<1>1. /\ r.pc = "missing" /\ worker' = [worker EXCEPT ![w] = rec] /\ Employed(r)
      /\ installs' = installs /\ tasks' = tasks
  BY DEF FindMissing, TInv, tables
<1>2. Delivers(r, d, s) => s \in r.services[d] /\ d \in r.task
  BY <1>1 DEF Delivers
<1>3. Delivers(r, d, s) /\ <<d, s>> \notin installs => d \in left /\ <<d, s>> \notin have
  BY <1>2 DEF Exist
<1> HIDE DEF left, have, r
<1>4. rec.pc = "insert" /\ rec.task = r.task /\ rec.services = r.services /\ rec.left = left /\ rec.have = have
  BY <1>1 DEF Employed
<1> HIDE DEF rec
<1>5. Delivers(r, d, s) => Delivers(rec, d, s) \/ <<d, s>> \in installs
  BY <1>2, <1>3, <1>4 DEF Delivers
<1> QED BY <1>1, <1>5, OthersServe DEF r

LEMMA InsertMissingServes ==
    ASSUME TInv, NEW w \in Workers, InsertMissing(w), NEW d, NEW s, Served(d, s)
    PROVE  Served(d, s)'
<1> DEFINE r == worker[w]
<1>1. PICK e \in r.left :
        LET todo == ({e} \X r.services[e]) \ r.have
        IN worker' = [worker EXCEPT ![w] =
             [r EXCEPT !.ins = r.ins \cup todo, !.left = r.left \ {e}, !.rest = r.rest \ {e}]]
  BY DEF InsertMissing
<1> DEFINE todo == ({e} \X r.services[e]) \ r.have
           ins == r.ins \cup todo
           rec == [r EXCEPT !.ins = ins, !.left = r.left \ {e}, !.rest = r.rest \ {e}]
<1>2. /\ r.pc = "insert" /\ Employed(r) /\ installs' = installs /\ tasks' = tasks
      /\ worker' = [worker EXCEPT ![w] = rec]
  BY <1>1 DEF InsertMissing, TInv, tables
<1>3. d = e /\ s \in r.services[d] /\ <<d, s>> \notin r.have => <<d, s>> \in ins
  OBVIOUS
<1>4. r.ins \subseteq ins
  OBVIOUS
<1> HIDE DEF ins, r
<1>5. /\ rec.pc = "insert" /\ rec.task = r.task /\ rec.services = r.services /\ rec.have = r.have
      /\ rec.left = r.left \ {e} /\ rec.ins = ins /\ rec.posted = r.posted
  BY <1>2 DEF Employed
<1> HIDE DEF rec
<1>6. Delivers(r, d, s) => Delivers(rec, d, s)
  BY <1>2, <1>3, <1>4, <1>5 DEF Delivers
<1> QED BY <1>2, <1>6, OthersServe DEF r

LEMMA TimeIsUpServes ==
    ASSUME TInv, NEW w \in Workers, TimeIsUp(w), NEW d, NEW s, Served(d, s)
    PROVE  Served(d, s)'
<1> DEFINE r == worker[w]
           b == SetToBag({r.rest})
           rec == [r EXCEPT !.left = {}, !.posted = b]
<1>1. /\ r.pc = "insert" /\ r.left # {} /\ Employed(r) /\ worker' = [worker EXCEPT ![w] = rec]
      /\ installs' = installs /\ tasks' = tasks
  BY DEF TimeIsUp, TInv, tables
<1>2. d \in r.rest => In(d, b)
  BY OneTask DEF In
<1>3. r.left \subseteq r.rest /\ ~In(d, r.posted)
  BY <1>1 DEF Employed, In
<1> HIDE DEF b, r
<1>4. rec.pc = "insert" /\ rec.task = r.task /\ rec.ins = r.ins /\ rec.posted = b
  BY <1>1 DEF Employed
<1> HIDE DEF rec
<1>5. Delivers(r, d, s) => Delivers(rec, d, s)
  BY <1>1, <1>2, <1>3, <1>4 DEF Delivers
<1> QED BY <1>1, <1>5, OthersServe DEF r

LEMMA CommitTaskServes ==
    ASSUME TInv, NEW w \in Workers, CommitTask(w), NEW d, NEW s, Served(d, s)
    PROVE  Served(d, s)'
<1> DEFINE r == worker[w]
           rec == [IdleWorker EXCEPT !.pc = "done", !.task = r.task]
<1>1. /\ r.pc = "insert" /\ r.left = {} /\ Employed(r) /\ worker' = [worker EXCEPT ![w] = rec]
      /\ installs' = installs \cup r.ins /\ tasks' = tasks (+) r.posted
  BY DEF CommitTask, TInv
<1>2. In(d, tasks') <=> In(d, tasks) \/ In(d, r.posted)
  BY <1>1, InAdded DEF Employed, TInv, TaskBag
<1>3. Delivers(r, d, s) => <<d, s>> \in r.ins \/ In(d, r.posted)
  BY <1>1 DEF Delivers
<1> HIDE DEF rec
<1> QED BY <1>1, <1>2, <1>3, OthersServe

LEMMA LeaveTaskServes ==
    ASSUME TInv, NEW w \in Workers,
           \/ FinishTask(w) \/ TaskConflict(w) \/ DeadlockTask(w) \/ RetryTask(w) \/ CrashWorker(w),
           NEW d, NEW s, Served(d, s)
    PROVE  Served(d, s)'
<1> DEFINE r == worker[w]
           rec == [IdleWorker EXCEPT !.pc = "backoff", !.task = r.task]
<1>1. r.task \in SUBSET Devices
  BY DEF TInv, Employed
<1>2. In(d, tasks (+) SetToBag({r.task})) <=> In(d, tasks) \/ d \in r.task
  BY <1>1, PutTask
<1>3. Delivers(r, d, s) => d \in r.task /\ r.pc # "done"
  BY DEF Delivers
<1>4. rec.pc = "backoff" /\ rec.task = r.task
  BY DEF IdleWorker
<1> HIDE DEF rec
<1>5. Delivers(r, d, s) => Delivers(rec, d, s)
  BY <1>3, <1>4 DEF Delivers
<1>6. CASE TaskConflict(w) \/ RetryTask(w) \/ CrashWorker(w)
  <2>1. worker' = [worker EXCEPT ![w] = IdleWorker] /\ installs' = installs /\ tasks' = tasks (+) SetToBag({r.task})
    BY <1>6 DEF TaskConflict, RetryTask, CrashWorker, tables
  <2>2. (In(d, tasks) => In(d, tasks')) /\ (Delivers(r, d, s) => In(d, tasks'))
    BY <1>2, <1>3, <2>1
  <2> QED BY <2>1, <2>2, OthersServe
<1>7. CASE FinishTask(w)
  <2>1. worker' = [worker EXCEPT ![w] = IdleWorker] /\ installs' = installs /\ tasks' = tasks /\ ~Delivers(r, d, s)
    BY <1>3, <1>7 DEF FinishTask, tables
  <2> QED BY <2>1, OthersServe
<1>8. CASE DeadlockTask(w)
  <2>1. worker' = [worker EXCEPT ![w] = rec] /\ installs' = installs /\ tasks' = tasks
    BY <1>8 DEF DeadlockTask, tables, rec
  <2> QED BY <1>5, <2>1, OthersServe
<1> QED BY <1>6, <1>7, <1>8

LEMMA WorkerServes ==
    ASSUME TInv, AllServed, NEW w \in Workers, WorkerStep(w)
    PROVE  AllServed'
<1>1. UNCHANGED <<device, target>>
  BY DEF WorkerStep, StartTask, FindMissing, InsertMissing, TimeIsUp, CommitTask,
     FinishTask, TaskConflict, DeadlockTask, RetryTask, CrashWorker, tables
<1>2. ASSUME NEW d \in Exist, NEW R \in TargetsOf(device[d], target), NEW s \in ServicesOf[R]
      PROVE  Served(d, s)'
  <2>1. Served(d, s)
    BY DEF AllServed
  <2> QED BY <2>1, StartTaskServes, FindMissingServes, InsertMissingServes, TimeIsUpServes,
             CommitTaskServes, LeaveTaskServes DEF WorkerStep
<1> QED BY <1>1, <1>2 DEF AllServed, Exist

LEMMA CommitServes ==
    ASSUME RInv, TInv, AInv, serial, NEW q \in Requests, Commit(q)
    PROVE  AllServed'
<1> DEFINE r == request[q]
           row == [d \in Devices |-> IF r.mine[d] # None THEN r.mine[d] ELSE device[d]]
           t == IF r.kind = "app" THEN [target EXCEPT ![r.body.app] = r.body.target] ELSE target
<1>1. /\ Good(r, device) /\ TasksFor(r, device, target) /\ Loaded(r) /\ r.pc = "open" /\ AllServed
      /\ worker' = worker
  BY DEF RInv, AInv, TInv, Active, Commit
<1>2. RequestType(r) /\ WritesIds(r, device) /\ Bodied(r) /\ r.ins = {} /\ r.ids \subseteq Devices
  <2>1. RequestType(r) /\ WritesIds(r, device) /\ Bodied(r) /\ r.ins = {}
    BY <1>1 DEF Good, TasksFor
  <2> QED BY <2>1 DEF RequestType
<1>3. CASE ~RulesHold(r)
  <2>1. UNCHANGED <<device, target, installs, tasks>>
    BY <1>3 DEF Commit
  <2> QED BY <1>1, <2>1 DEF AllServed, Exist, Served
<1>4. CASE RulesHold(r)
  <2>1. device' = row /\ target' = t /\ installs' = installs \ r.del /\ tasks' = tasks (+) r.posted
    BY <1>2, <1>4 DEF Commit, SeenInstalls
  <2>2. \A d : In(d, tasks') <=> In(d, tasks) \/ In(d, r.posted)
    BY <1>1, <2>1, InAdded DEF Loaded, TInv, TaskBag
  <2>3. ASSUME NEW d, NEW s, Served(d, s), <<d, s>> \notin r.del PROVE Served(d, s)'
    BY <1>1, <2>1, <2>2, <2>3 DEF Served
  <2>4. ASSUME NEW d, In(d, r.posted), NEW s PROVE Served(d, s)'
    BY <2>2, <2>4 DEF Served
  <2>5. /\ \A d \in Devices : device'[d] = IF r.mine[d] # None THEN r.mine[d] ELSE device[d]
        /\ \A d \in Devices : device[d] \in Row \cup {Null}
        /\ target \in [Apps -> Releases \cup {Null}]
    BY <2>1 DEF RInv, TablesType
  <2> SUFFICES ASSUME NEW d \in Devices, device'[d] # Null, NEW R \in TargetsOf(device'[d], target'),
                      NEW s \in ServicesOf[R], ~In(d, r.posted)
               PROVE  Served(d, s)'
    BY <2>4 DEF AllServed, Exist
  <2>6. ASSUME d \in Exist, R \in TargetsOf(device[d], target), <<d, s>> \notin r.del PROVE Served(d, s)'
    BY <1>1, <2>3, <2>6 DEF AllServed
  <2>7. CASE r.kind = "app"
    <3>1. device'[d] = device[d] /\ d \in Exist /\ r.del = {} /\ device[d] \in Row
      BY <1>1, <1>2, <2>5, <2>7 DEF WritesIds, TasksFor, Exist
    <3>2. r.body.app \in Apps /\ r.body.target \in Releases \cup {Null}
      BY <1>2, <2>7 DEF Bodied, AppBody
    <3>3. \A a \in Apps : target'[a] = IF a = r.body.app THEN r.body.target ELSE target[a]
      BY <2>1, <2>5, <2>7, <3>2
    <3>4. \/ R \in TargetsOf(device[d], target)
          \/ r.body.target # Null /\ device[d].app = r.body.app /\ device[d].pin = Null
      BY <3>1, <3>3 DEF TargetsOf, ShouldBeRunning, Row
    <3>5. ~(r.body.target # Null /\ device[d].app = r.body.app /\ device[d].pin = Null)
      BY <1>1, <2>7, <3>1 DEF TasksFor, Exist
    <3> QED BY <2>6, <3>1, <3>4, <3>5
  <2>8. CASE r.kind = "post"
    <3>1. r.mine[d] = None /\ r.del = {}
      BY <1>1, <2>8 DEF TasksFor
    <3>2. device'[d] = device[d] /\ d \in Exist /\ target' = target
      BY <2>1, <2>5, <2>8, <3>1 DEF Exist
    <3> QED BY <2>6, <3>1, <3>2
  <2>9. CASE r.kind = "device"
    <3>1. PatchPosts(r, device, target) /\ target' = target
      BY <1>1, <2>1, <2>9 DEF TasksFor
    <3>2. CASE d \notin r.ids
      <4>1. r.mine[d] = None /\ <<d, s>> \notin r.del
        BY <1>1, <1>2, <2>9, <3>1, <3>2 DEF WritesIds, PatchPosts
      <4>2. device'[d] = device[d] /\ d \in Exist
        BY <2>5, <4>1 DEF Exist
      <4> QED BY <2>6, <3>1, <4>1, <4>2
    <3>3. CASE d \in r.ids
      <4>1. ~Given(r.body.app) /\ TargetsOf(r.mine[d], target) \subseteq TargetsOf(device[d], target)
        BY <1>1, <3>1, <3>3 DEF PatchPosts
      <4>2. <<d, s>> \notin r.del /\ d \in Exist
        BY <1>1, <1>2, <2>9, <3>1, <3>3, <4>1 DEF PatchPosts, WritesIds, Exist
      <4>3. R \in TargetsOf(device[d], target)
        BY <2>5, <3>1, <4>1
      <4> QED BY <2>6, <4>2, <4>3
    <3> QED BY <3>2, <3>3
  <2> QED BY <1>2, <2>7, <2>8, <2>9 DEF RequestType
<1> QED BY <1>3, <1>4

LEMMA AInvStep ==
    ASSUME Async, RInv, SInv, TInv, AInv, [Next]_vars
    PROVE  AInv'
<1>1. ASSUME UNCHANGED <<device, target, installs, tasks, worker, request, serial>> PROVE AInv'
  BY <1>1 DEF AInv, AllServed, Exist, Served
<1>2. ASSUME NEW w \in Workers, WorkerStep(w) PROVE AInv'
  <2>1. UNCHANGED <<device, target, request, serial>>
    BY <1>2 DEF WorkerStep, StartTask, FindMissing, InsertMissing, TimeIsUp, CommitTask,
       FinishTask, TaskConflict, DeadlockTask, RetryTask, CrashWorker, tables, ghosts
  <2> QED BY <1>2, <2>1, WorkerServes DEF AInv
<1>3. ASSUME NEW q \in Requests, Commit(q) PROVE AInv'
  <2>1. serial' = serial
    BY <1>3 DEF Commit
  <2>2. \E rec : request' = [request EXCEPT ![q] = rec] /\ rec.pc \in {"idle", "notify"}
    <3>1. \/ request' = [request EXCEPT ![q] = Idle]
          \/ request' = [request EXCEPT ![q] = [Idle EXCEPT !.pc = "notify", !.kind = request[q].kind,
                                                  !.body = request[q].body, !.tell = request[q].tell]]
      BY <1>3 DEF Commit, Goto, RollBack
    <3>2. Idle.pc = "idle" /\ [Idle EXCEPT !.pc = "notify", !.kind = request[q].kind,
                                 !.body = request[q].body, !.tell = request[q].tell].pc = "notify"
      BY DEF Idle
    <3> QED BY <3>1, <3>2
  <2>3. ~Active(request'[q]) /\ \A p \in Requests \ {q} : request'[p] = request[p]
    BY <2>2 DEF RInv, TablesType, Active
  <2>4. Active(request[q])
    BY <1>3 DEF Commit, Active
  <2>5. serial => \A p \in Requests : ~Active(request'[p])
    BY <2>3, <2>4 DEF SInv, Alone
  <2> QED BY <1>3, <2>1, <2>5, CommitServes DEF AInv, Active
<1>4. ASSUME NEW q \in Requests, RequestStep(q), ~Commit(q) PROVE AInv'
  <2>1. UNCHANGED <<device, target, installs, tasks, worker>> /\ (serial' => serial)
    <3>1. CASE ReceivePatch(q) \/ PostDevice(q) \/ PatchApplication(q)
      BY <3>1, Zenon DEF ReceivePatch, PostDevice, PatchApplication, tables
    <3>2. CASE PreRun(q) \/ SetSupervisor(q) \/ Update(q)
      <4>1. UNCHANGED <<device, target, installs, tasks, worker, serial>>
        BY <3>2, Zenon DEF PreRun, SetSupervisor, Update, tables, ghosts
      <4> QED BY <4>1
    <3>3. CASE PostRun(q) \/ Insert(q) \/ Notify(q) \/ FailRequest(q)
      <4>1. UNCHANGED <<device, target, installs, tasks, worker, serial>>
        BY <3>3, Zenon DEF PostRun, Insert, Notify, FailRequest, tables, ghosts
      <4> QED BY <4>1
    <3> QED BY <1>4, <3>1, <3>2, <3>3 DEF RequestStep
  <2>2. PICK rec : request' = [request EXCEPT ![q] = rec]
    BY <1>4, StepIsGoto
  <2>3. request'[q] = rec /\ \A p \in Requests \ {q} : request'[p] = request[p]
    BY <2>2 DEF RInv, TablesType
  <2>4. serial /\ Active(rec) => TasksFor(rec, device, target)
    BY <1>4, <2>2, TasksGoto
  <2>5. serial' => AllServed'
    BY <2>1 DEF AInv, AllServed, Exist, Served
  <2>6. serial' => \A p \in Requests : Active(request'[p]) => TasksFor(request'[p], device', target')
    BY <2>1, <2>3, <2>4 DEF AInv
  <2> QED BY <2>5, <2>6 DEF AInv, Active
<1>5. ASSUME NEW d \in Reporting, Report(d)
      PROVE  UNCHANGED <<device, target, installs, tasks, worker, request, serial>>
  BY <1>5 DEF Report
<1>6. ASSUME NEW x \in Withdrawn, Invalidate(x)
      PROVE  UNCHANGED <<device, target, installs, tasks, worker, request, serial>>
  BY <1>6 DEF Invalidate, ghosts
<1>7. ASSUME UNCHANGED vars PROVE UNCHANGED <<device, target, installs, tasks, worker, request, serial>>
  BY <1>7 DEF vars, tables, ghosts
<1> QED BY <1>1, <1>2, <1>3, <1>4, <1>5, <1>6, <1>7 DEF Next

LEMMA AInvInit == Init => AInv
<1> SUFFICES ASSUME Init PROVE AInv
  OBVIOUS
<1>1. \A q \in Requests : ~Active(request[q])
  BY DEF Init, Idle, Active
<1>2. AllServed
  BY IInvInit DEF IInv, Complete, AllServed, Served, Init
<1> QED BY <1>1, <1>2 DEF AInv

LEMMA ServedInQuiet ==
    ASSUME AInv PROVE InstallsComplete
<1> SUFFICES ASSUME Quiet, serial, NEW d \in Exist, NEW R \in TargetsOf(device[d], target), NEW s \in ServicesOf[R]
             PROVE  <<d, s>> \in installs
  BY DEF InstallsComplete, Lacks
<1>1. Served(d, s)
  BY DEF AInv, AllServed
<1>2. ~In(d, tasks)
  BY EmptyTasks DEF Quiet, In
<1>3. \A w \in Workers : ~Delivers(worker[w], d, s)
  BY DEF Quiet, Delivers
<1> QED BY <1>1, <1>2, <1>3 DEF Served

(* Rows, requests, tasks and workers are well-formed whatever overlaps,    *)
(* fails and is tried again; and when no request and no task is left, with *)
(* requests that ran one after the other, no service install is missing.   *)
(* With tasks: no move, pin, new target, registration, conflict or         *)
(* deadlock of two tasks, timeout or restart loses a device, since every   *)
(* service install that is missing stays with a task that will insert it.  *)
THEOREM FleetIsConsistent == Async \/ Immediate => (Spec => []FleetInv)
<1>1. Init => RInv /\ SInv /\ TInv /\ IInv /\ AInv
  BY RInvInit, SInvInit, TInvInit, IInvInit, AInvInit
<1>2. RInv /\ SInv /\ TInv /\ [Next]_vars => RInv' /\ SInv' /\ TInv'
  BY RInvStep, SInvStep, TInvStep
<1>3. ASSUME Async PROVE Spec => []FleetInv
  <2>1. RInv /\ SInv /\ TInv /\ AInv /\ [Next]_vars => AInv'
    BY <1>3, AInvStep
  <2>2. RInv /\ TInv /\ AInv => FleetInv
    BY TypesOk, ServedInQuiet DEF FleetInv
  <2> QED BY <1>1, <1>2, <2>1, <2>2, PTL DEF Spec
<1>4. ASSUME Immediate PROVE Spec => []FleetInv
  <2>1. RInv /\ SInv /\ IInv /\ [Next]_vars => IInv'
    BY <1>4, IInvStep
  <2>2. RInv /\ TInv /\ IInv => FleetInv
    BY TypesOk DEF FleetInv, IInv, Complete, InstallsComplete, Lacks
  <2> QED BY <1>1, <1>2, <2>1, <2>2, PTL DEF Spec
<1> QED BY <1>3, <1>4
=============================================================================
