--------------------------- MODULE MCStateReport ---------------------------
(* Instances of StateReport: what the device may report. *)
EXTENDS DeviceStatus, TLC

CONSTANTS i1, i2

Svc(s, r, p) == [status |-> s, release |-> r, progress |-> p]

Report(v, f, m, a) == [version |-> v, fields |-> f, metrics |-> m, apps |-> a]

(* Image i2 replaces image i1, and the supervisor a version of the report. *)
MCUpdate ==
    {Report("v2", "A", 1, [i \in {i1} |-> Svc("Running", 1, Undefined)]),
     Report("v3", "B", Undefined, [i \in {i2} |-> Svc("Downloading", 2, 50)]),
     Report("v3", Undefined, 1, None)}

MCSymmetry == Permutations(Requests)
============================================================================
