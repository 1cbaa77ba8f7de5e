-------------------------- MODULE MCSynthesisCache --------------------------
(* Instances of SynthesisCache for TLC. *)
EXTENDS SynthesisCache, TLC

CONSTANTS k1, k2, r1

\* Two providers asked about one rule.
OneRule == (k1 :> r1 @@ k2 :> r1)

\* One key, one rule.
OneKey == (k1 :> r1)

Interchangeable ==
    Permutations(Commands) \cup Permutations(Answers) \cup Permutations(Owners)
=============================================================================
