------------------------------ MODULE MCAccess ------------------------------
(* Two instances; two registrations of one device that carry the same api  *)
(* key and join each other's lookups on the first, deletions on the second.*)
EXTENDS Access

CONSTANTS i1, i2, r1, r2, k1

MCInstances == {i1, i2}
MCRegistrations == {r1, r2}
MCAt == [r \in MCRegistrations |-> i1]
MCDeletesAt == {i2}
MCKeys == {k1}
MCKeyOf == [r \in MCRegistrations |-> k1]
=============================================================================
