---------------------------- MODULE MCManagedWork ----------------------------
(* Instances of ManagedWork: one work item, and one session in a repository  *)
(* of its own.                                                              *)
EXTENDS ManagedWork, TLC

CONSTANTS i1, repo, other

MCSessionRepo == [s \in Sessions |-> other]

Plain == [repo |-> Keep, chg |-> Keep, review |-> Keep, vrun |-> Keep, vstatus |-> Keep]

(* The repository is cleared, a change is named, or the evidence arrives. *)
MCUpdates ==
    {[Plain EXCEPT !.repo = NULL]}
    \cup {[Plain EXCEPT !.chg = c] : c \in Changes}
    \cup {[repo |-> Keep, chg |-> c, review |-> TRUE, vrun |-> TRUE, vstatus |-> "passed"] :
            c \in Changes}

(* Runs, ports and hooks are interchangeable. *)
Symmetry == Permutations(Runs) \cup Permutations(Ports) \cup Permutations(Hooks)
=============================================================================
