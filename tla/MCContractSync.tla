--------------------------- MODULE MCContractSync ---------------------------
(* Two instances; the second version of the repositories has a device       *)
(* family for the device type, and a new alias for it.                      *)
EXTENDS ContractSync

CONSTANTS a1, f1, t1, i1, i2, h1, h2

MCContractType == a1 :> "arch.sw" @@ f1 :> "hw.device-family" @@ t1 :> "hw.device-type"
Plain(n) == [data |-> n, refs |-> {}, aliases |-> {}]
MCVersions ==
    <<a1 :> Plain(1) @@ f1 :> None @@ t1 :> [data |-> 1, refs |-> {a1}, aliases |-> {t1}],
      a1 :> Plain(1) @@ f1 :> Plain(1) @@ t1 :> [data |-> 2, refs |-> {a1, f1}, aliases |-> {t1, f1}]>>
MCInstanceOf == h1 :> i1 @@ h2 :> i2
=============================================================================
