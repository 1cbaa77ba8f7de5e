---------------------------- MODULE ReadyCatalog ----------------------------
(***************************************************************************)
(* What the archaeology job store promises its readers, and nothing about  *)
(* how it keeps the promise: a repository shows no catalog, or one whole   *)
(* validated catalog.  The catalog on show changes only by being replaced, *)
(* in one step, with another validated catalog of the source state the  *)
(* repository currently has.  It is never edited in place and never        *)
(* withdrawn.                                                              *)
(***************************************************************************)
CONSTANTS Repos, Runs, Sources, ValidContents, Null

VARIABLES
    current,   \* the source the latest inventory of each repository saw
    shown      \* the catalog each repository shows, Nothing before the first

Nothing  == [run |-> 0, source |-> Null, content |-> Null]
Catalogs == [run : Runs, source : Sources, content : ValidContents]

Init ==
    /\ current = [r \in Repos |-> Null]
    /\ shown = [r \in Repos |-> Nothing]

Inventory(r, src) ==
    /\ current' = [current EXCEPT ![r] = src]
    /\ UNCHANGED shown

Publish(r, catalog) ==
    /\ catalog.run # shown[r].run
    /\ catalog.source = current[r]
    /\ shown' = [shown EXCEPT ![r] = catalog]
    /\ UNCHANGED current

Next ==
    \E r \in Repos :
        \/ \E src \in Sources : Inventory(r, src)
        \/ \E catalog \in Catalogs : Publish(r, catalog)

Spec == Init /\ [][Next]_<<current, shown>>
=============================================================================
