--------------------------- MODULE MCRuleLifecycle ---------------------------
(* Instances of RuleLifecycle for TLC. *)
EXTENDS RuleLifecycle, TLC

CONSTANTS r1, r2, e1, e2, c1, c2

S(e, c) == [evidence |-> e, contradiction |-> c]
Plain(s) == [canonical |-> s, loaded |-> s]

\* The first rule alone, the second alone, and both, the first with changed
\* evidence and contradictions; it then has a generated alias that keeps the
\* first evidence and is the occurrence that is loaded.
SomeCatalogs ==
    LET same    == Plain(S(e1, c1))
        changed == [canonical |-> S(e2, c2), loaded |-> S(e1, c2)]
    IN  {r1 :> same @@ r2 :> NULL, r1 :> NULL @@ r2 :> same,
         r1 :> changed @@ r2 :> same}

Interchangeable == Permutations(Reviewers)
=============================================================================
