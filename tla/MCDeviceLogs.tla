---------------------------- MODULE MCDeviceLogs ----------------------------
(* Instances of DeviceLogs: readers 2 and 3 share instance 2, reader 1 is   *)
(* served by instance 1; instance 0 serves the write request.               *)
EXTENDS DeviceLogs

MCInstanceOf == [r \in Readers |-> IF r = 1 THEN 1 ELSE 2]

(* Readers 1 and 3 are plain streams, reader 2 asks for two items. *)
MCCount == [r \in Readers |-> IF r = 2 THEN 2 ELSE 0]

MCApart == [n \in 1 .. MaxLogs |-> n]
MCSameMillisecond == [n \in 1 .. MaxLogs |-> 1 + n \div 2]
=============================================================================
