------------------------------ MODULE MCFleet ------------------------------
(* Instances of Fleet. *)
EXTENDS Fleet, TLC

CONSTANTS d1, d2, A, B, H, G, S, a1, a2, b1, h1, h2, h3, g2, s1, s2, s3, sp, sq, sr, sx, sy, sz

Rel(app, semver, revision) ==
    [app |-> app, semver |-> semver, tag |-> Null, success |-> TRUE, variant |-> "",
     tagVariant |-> Null, created |-> 1, revision |-> revision]

AppRow(type, host, sv, range) ==
    [type |-> type, is_host |-> host, is_supervisor |-> sv, range |-> range]

(* Two fleets, a host app for each of two device types, the supervisor.    *)
MCApp ==
    A :> AppRow("t1", FALSE, FALSE, Null) @@ B :> AppRow("t1", FALSE, FALSE, 2) @@
    H :> AppRow("t1", TRUE, FALSE, Null) @@ G :> AppRow("t2", TRUE, FALSE, Null) @@
    S :> AppRow("t1", FALSE, TRUE, Null)

(* h2 has its version in a tag, h3 is a draft, s3 a draft of the version   *)
(* of s2.                                                                  *)
MCRelease ==
    a1 :> Rel(A, 1, 0) @@ a2 :> Rel(A, 2, 0) @@ b1 :> Rel(B, 1, 0) @@
    h1 :> Rel(H, 1, 0) @@ h2 :> [Rel(H, 0, 0) EXCEPT !.tag = 2] @@
    h3 :> Rel(H, 3, Null) @@ g2 :> Rel(G, 2, 0) @@
    s1 :> Rel(S, 1, 0) @@ s2 :> Rel(S, 2, 0) @@ s3 :> [Rel(S, 2, Null) EXCEPT !.created = 2]

MCServices ==
    a1 :> {sp} @@ a2 :> {sp, sq} @@ b1 :> {sr} @@
    h1 :> {sx} @@ h2 :> {sx} @@ h3 :> {sx, sy} @@ g2 :> {} @@ s1 :> {sz} @@ s2 :> {sz} @@ s3 :> {sz}
MCServiceApp == sp :> A @@ sq :> A @@ sr :> B @@ sx :> H @@ sy :> H @@ sz :> S

MCCpuArch == "t1" :> "amd64" @@ "t2" :> "amd64"
MCRevision == [v \in 0 .. 4 |-> 0]

NoValues ==
    [app |-> Undefined, pin |-> Undefined, managed |-> Undefined, operated |-> Undefined,
     type |-> Undefined, os |-> Undefined, variant |-> Undefined, sv |-> Undefined]

MCRow ==
    [app |-> A, pin |-> Null, managed |-> Null, operated |-> Null, type |-> "t1",
     os |-> Null, variant |-> Null, sv |-> Null]

(* Moves, pins and changes of the target of a fleet. *)
MoveBodies ==
    {[NoValues EXCEPT !.app = A], [NoValues EXCEPT !.app = B],
     [NoValues EXCEPT !.pin = a1], [NoValues EXCEPT !.pin = Null]}
MovePinBodies ==
    {[NoValues EXCEPT !.app = B], [NoValues EXCEPT !.app = A, !.pin = a2],
     [NoValues EXCEPT !.pin = a1], [NoValues EXCEPT !.pin = Null]}
MoveAppBodies == {[app |-> A, target |-> t] : t \in {a2, Null}}
MovePosts == {[MCRow EXCEPT !.pin = a2]}
MoveTarget == [a \in Apps |-> CASE a = A -> a1 [] a = B -> b1 [] OTHER -> Null]
MoveInitDevice == d1 :> [MCRow EXCEPT !.os = 2] @@ d2 :> Null

(* Reports of the versions of the OS and the supervisor, and upgrades. *)
OsBodies ==
    {[NoValues EXCEPT !.os = v, !.variant = "prod"] : v \in {1, 2, 4}} \cup
    {[NoValues EXCEPT !.os = 3], [NoValues EXCEPT !.os = Unparsable],
     [NoValues EXCEPT !.variant = "dev"],
     [NoValues EXCEPT !.operated = h1], [NoValues EXCEPT !.operated = h3],
     [NoValues EXCEPT !.type = "t2"],
     [NoValues EXCEPT !.type = "t1", !.operated = h2],
     [NoValues EXCEPT !.sv = 1], [NoValues EXCEPT !.sv = 2],
     [NoValues EXCEPT !.managed = s1], [NoValues EXCEPT !.managed = s3]}
OsPosts == {[MCRow EXCEPT !.os = 3, !.variant = "prod", !.sv = 2]}
OsInitDevice == d1 :> MCRow @@ d2 :> Null
AllBodies ==
    OsBodies \cup {[NoValues EXCEPT !.app = B], [NoValues EXCEPT !.pin = a1],
                   [NoValues EXCEPT !.pin = Null]}

MCSymmetry == Permutations(Requests)
===========================================================================
