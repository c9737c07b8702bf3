------------------------------ MODULE MCRegistry ------------------------------
(* A fleet of two devices with two releases, one to move to, and a public   *)
(* host application with an extension that a profile gates, updated by a    *)
(* block of its own.                                                        *)
EXTENDS Registry, TLC

CONSTANTS A, B, H, U, a1, a2, b1, h1, u1, u2, iA, iA2, iB, iH, iP, iX, iU, iU2,
          sA, sB, sH, sP, sX, sU, d1, d2, t1

MCAppOf == a1 :> A @@ a2 :> A @@ b1 :> B @@ h1 :> H @@ u1 :> U @@ u2 :> U
MCImagesOf == a1 :> {iA} @@ a2 :> {iA2, iP} @@ b1 :> {iB} @@ h1 :> {iH, iX} @@ u1 :> {iU} @@ u2 :> {iU2}
MCServiceOf == iA :> sA @@ iA2 :> sA @@ iB :> sB @@ iH :> sH @@ iX :> sX @@ iP :> sP @@ iU :> sU @@ iU2 :> sU
MCServiceApp == sA :> A @@ sB :> B @@ sH :> H @@ sX :> H @@ sP :> A @@ sU :> U
MCImageProfiles == iA :> {} @@ iA2 :> {} @@ iB :> {} @@ iH :> {} @@ iX :> {"gpu"} @@ iP :> {"gpu"} @@ iU :> {} @@ iU2 :> {}
MCActiveProfiles == A :> {<<"gpu", H>>} @@ B :> {} @@ H :> {} @@ U :> {}
MCImageLabel == iA :> 30 @@ iA2 :> Unset @@ iB :> Unset @@ iH :> Unset @@ iX :> Unset @@ iP :> Unset @@ iU :> Unset @@ iU2 :> Unset
MCServiceLabel == sA :> Unset @@ sB :> 20 @@ sH :> Unset @@ sX :> Unset @@ sP :> Unset @@ sU :> Unset
MCIsPublic == A :> FALSE @@ B :> FALSE @@ H :> TRUE @@ U :> TRUE
MCTypeOf == A :> t1 @@ B :> t1 @@ H :> t1 @@ U :> t1 @@ d1 :> t1 @@ d2 :> t1
MCUpdatedBy == A :> Unset @@ B :> Unset @@ H :> U @@ U :> Unset
MCInitialDevice ==
    d1 :> [app |-> A, pin |-> Unset, operated |-> h1, managed |-> Unset] @@
    d2 :> [app |-> B, pin |-> b1, operated |-> Unset, managed |-> Unset]
MCInitialTarget == A :> a1 @@ B :> Unset @@ H :> h1 @@ U :> u1
MCInitialVar ==
    [k \in Keys |-> IF k \in {AppVar(A), AppConfig(A, UpdateStrategy), AppConfig(A, PollInterval)}
                    THEN 20 ELSE Unset]
MCDeletable == {{iA2, iB}}
MCDevicePatches ==
    d1 :> {[app |-> A, pin |-> Unset], [app |-> A, pin |-> a1], [app |-> B, pin |-> Unset]} @@
    d2 :> {}
MCVarKeys ==
    {AppConfig(A, UpdateStrategy), AppVar(H), ServiceVar(sA), ImageVar(iA2), DeviceServiceVar(d1, sA)}
MCScopes ==
    {[name |-> [kind |-> "v2", image |-> iA2], actions |-> Actions],
     [name |-> [kind |-> "alias", app |-> A, version |-> Unset], actions |-> {"pull"}],
     [name |-> [kind |-> "alias", app |-> A, version |-> a2], actions |-> {"pull"}],
     [name |-> [kind |-> "resinos"], actions |-> Actions]}
MCSymmetry == Permutations(Requests)
==============================================================================
