------------------------------ MODULE Revisions ------------------------------
(***************************************************************************)
(* What release versioning promises (src/features/ci-cd/hooks/             *)
(* release-versioning.ts): the final releases of a version are numbered,   *)
(* one commit after the other, and "in order to have predictable revision  *)
(* ordering" those of one commit in the order of their ids.                *)
(***************************************************************************)
EXTENDS Naturals

CONSTANTS Releases, None

VARIABLE numbered    \* the version and revision of each final release

RevisionsInit == numbered = [r \in Releases |-> None]

RevisionsIn(table, S, version) ==
    {table[q].rev : q \in {s \in S : table[s] # None /\ table[s].version = version}}

(* The releases F are numbered.  A release that another request had        *)
(* numbered meanwhile may be among them and is numbered again.             *)
Number(F) ==
    /\ \A r \in Releases \ F : numbered'[r] = numbered[r]
    /\ \A r \in F :
         /\ numbered'[r] # None
         /\ LET version == numbered'[r].version
                n == numbered'[r].rev
                before == RevisionsIn(numbered', {q \in F : q < r}, version)
            IN  /\ numbered[r] # None => numbered[r].version = version
                /\ \A m \in before \cup RevisionsIn(numbered, Releases \ F, version) : m < n
                /\ n = 0 \/ n - 1 \in before \cup RevisionsIn(numbered, Releases, version)

RevisionsNext == numbered' # numbered /\ \E F \in SUBSET Releases : Number(F)

RevisionsSpec == RevisionsInit /\ [][RevisionsNext]_numbered
==============================================================================
