------------------------ MODULE MCReleaseVersioning ------------------------
(* Instances of ReleaseVersioning: what the requests of a run may ask for. *)
EXTENDS ReleaseVersioning, TLC

Draft(a, s, v, g) == [app |-> a, sem |-> s, var |-> v, is_final |-> FALSE, good |-> g]
Final(a, s, v, g) == [app |-> a, sem |-> s, var |-> v, is_final |-> TRUE, good |-> g]

Finalize == [NoPatch EXCEPT !.is_final = TRUE]
Retag(s) == [NoPatch EXCEPT !.sem = s]
Judge(g) == [NoPatch EXCEPT !.good = g]

(* The version that releases are created with. *)
Before == CHOOSE s \in Semvers : TRUE

(* Final releases of the first application and drafts of the others, and   *)
(* PATCHes that finalize releases as another version.                      *)
MCEachApp == {Final(1, Before, v, TRUE) : v \in Variants}
                \cup {Draft(a, Before, v, TRUE) : a \in Apps \ {1}, v \in Variants}
MCFinalizeAs == {[Finalize EXCEPT !.sem = s] : s \in Semvers \ {Before}}

(* Drafts that fail their build at first, and PATCHes that finalize them,  *)
(* change their version or mark them as successful.                        *)
MCFailedDrafts == {Draft(1, Before, v, FALSE) : v \in Variants}
MCFinalizeRetagOrJudge == {Finalize, Judge(TRUE)} \cup {Retag(s) : s \in Semvers \ {Before}}

MCOneOrAll == {{r} : r \in Releases} \cup {Releases}
MCPairs == {{1, 2}, {3, 4}}

MCSymmetry == Permutations(Txs)
============================================================================
