-------------------------- MODULE ReleaseTracking --------------------------
(***************************************************************************)
(* ReleaseVersioning with a history variable: whether two requests have    *)
(* ever been in flight together.                                           *)
(***************************************************************************)
EXTENDS ReleaseVersioning

VARIABLE overlapped

Busy == {t \in Txs : pc[t] # "idle"}

TrackingInit == Init /\ overlapped = FALSE

TrackingNext == Next /\ overlapped' = (overlapped \/ Cardinality(Busy') > 1)

TrackingSpec == TrackingInit /\ [][TrackingNext]_<<vars, overlapped>>

(* Between requests, an application that tracks the latest release runs    *)
(* the most recently started trackable one, as long as requests came one   *)
(* after the other (updateLatestRelease).                                  *)
TargetIsLatestInTurn == ~overlapped => TargetIsLatest
=============================================================================
