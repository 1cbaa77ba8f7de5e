------------------------------ MODULE WorkItems ------------------------------
(***************************************************************************)
(* The Board's work items (commands/work_items.rs): rows of agent_tasks    *)
(* that collect the evidence for one piece of work (its repository, the    *)
(* attached agent session, the change identity, review and verification)   *)
(* and are moved between the columns of the Board.  Every command holds    *)
(* the database lock from its first read to its last write, so each is one *)
(* action; what is hard here is the order in which legal commands arrive.  *)
(***************************************************************************)
EXTENDS Naturals, FiniteSets

CONSTANTS
    Items,        \* identifiers of work items
    Repos,        \* repositories, compared by same_project_path
    Sessions,     \* live terminals and indexed provider sessions
    SessionRepo,  \* the authoritative repository of each session
    Changes,      \* change identities an update may carry
    Updates,      \* the inputs update_work_item is called with
    Columns,      \* the open columns an item is moved to
    NULL,         \* an SQL NULL
    Keep          \* a field the update input leaves out

VerificationStates == {"missing", "running", "passed", "failed", "stale"}

ASSUME SessionAssumption == SessionRepo \in [Sessions -> Repos]
ASSUME NullAssumption ==
    /\ NULL \notin Repos \cup Sessions \cup Changes
    /\ Keep \notin Repos \cup Sessions \cup Changes \cup {NULL}
    /\ Keep # TRUE /\ \A v \in VerificationStates : Keep # v

VARIABLE
    item  \* the agent_tasks rows

(* The fields of CreateWorkItemInput and UpdateWorkItemInput that the       *)
(* commands tell apart; titles, texts and the preferred provider are not.  *)
UpdateInputs ==
    [repo : Repos \cup {NULL, Keep}, chg : Changes \cup {Keep},
     review : {TRUE, Keep}, vrun : {TRUE, Keep},
     vstatus : VerificationStates \cup {Keep}]

ASSUME UpdatesAssumption == Updates \subseteq UpdateInputs

(* A row.  "vfor" is a history variable: the change identity the row held   *)
(* when its verification status was last written.                          *)
ItemRows ==
    [exists : BOOLEAN, repo : Repos \cup {NULL}, session : Sessions \cup {NULL},
     chg : Changes \cup {NULL}, review : BOOLEAN, vrun : BOOLEAN,
     vstatus : VerificationStates, vfor : Changes \cup {NULL},
     status : Columns \cup {"plan", "done"},
     disp : {NULL, "verified", "waived"}]

NoItem ==
    [exists |-> FALSE, repo |-> NULL, session |-> NULL, chg |-> NULL,
     review |-> FALSE, vrun |-> FALSE, vstatus |-> "missing", vfor |-> NULL,
     status |-> "plan", disp |-> NULL]

InitItems == item = [i \in Items |-> NoItem]

-----------------------------------------------------------------------------
CreateItem(i, repo) ==
    /\ ~item[i].exists
    /\ item' = [item EXCEPT ![i] = [NoItem EXCEPT !.exists = TRUE, !.repo = repo]]

(* COALESCE(?n, column) *)
Coalesce(new, old) == IF new = Keep THEN old ELSE new

(* Mutant: clearing the repository is not treated as changing it. *)
RepositoryReplaced(row, u) == u.repo \notin {Keep, NULL} /\ u.repo # row.repo

(* An update that names a different repository, or clears it, detaches the  *)
(* session; a matching or absent path leaves it attached.                  *)
RepositoryChanged(row, u) == u.repo # Keep /\ u.repo # row.repo

Updated(row, u) ==
    [row EXCEPT !.repo = Coalesce(u.repo, @),
                !.session = IF RepositoryChanged(row, u) THEN NULL ELSE @,
                !.chg = Coalesce(u.chg, @),
                !.review = Coalesce(u.review, @),
                !.vrun = Coalesce(u.vrun, @),
                !.vstatus = Coalesce(u.vstatus, @),
                !.vfor = IF u.vstatus = Keep THEN @ ELSE Coalesce(u.chg, row.chg)]

UpdateItem(i, u) ==
    /\ item[i].exists
    /\ item' = [item EXCEPT ![i] = Updated(@, u)]

(* A session is attached only from the repository of the item; an item      *)
(* without one takes the session's.                                        *)
SessionBelongs(row, s) == row.repo \in {NULL, SessionRepo[s]}

AttachSession(i, s) ==
    /\ item[i].exists
    /\ SessionBelongs(item[i], s)
    /\ item' = [item EXCEPT ![i].session = s,
                            ![i].repo = IF @ = NULL THEN SessionRepo[s] ELSE @]

(* The evidence "verified" asks for. *)
EvidenceComplete(row) ==
    row.review /\ row.vrun /\ row.vstatus = "passed" /\ row.chg # NULL

(* Mutant: moving a done item back leaves its disposition in place. *)
TransitionKeepingDisposition(i, status, disp) ==
    /\ item[i].exists
    /\ status = "done" => /\ disp # NULL
                          /\ disp = "verified" => EvidenceComplete(item[i])
    /\ item' = [item EXCEPT ![i].status = status,
                            ![i].disp = IF disp = NULL THEN @ ELSE disp]

TransitionItem(i, status, disp) ==
    /\ item[i].exists
    /\ status = "done" => /\ disp # NULL
                          /\ disp = "verified" => EvidenceComplete(item[i])
    /\ item' = [item EXCEPT ![i].status = status,
                            ![i].disp = IF status = "done" THEN disp ELSE NULL]

RemoveItem(i) ==
    /\ item[i].exists
    /\ item' = [item EXCEPT ![i] = NoItem]

EditBoard ==
    \E i \in Items :
        \/ \E repo \in Repos \cup {NULL} : CreateItem(i, repo)
        \/ \E u \in Updates : UpdateItem(i, u)
        \/ \E s \in Sessions : AttachSession(i, s)
        \/ \E status \in Columns \cup {"done"}, disp \in {NULL, "verified", "waived"} :
              TransitionItem(i, status, disp)

NextItems == EditBoard \/ \E i \in Items : RemoveItem(i)

SpecItems == InitItems /\ [][NextItems]_item

-----------------------------------------------------------------------------
(* Every row is a row of agent_tasks, and only a done item has a completion *)
(* disposition: moving it back to an open column withdraws it.              *)
ItemsTypeOK ==
    /\ item \in [Items -> ItemRows]
    /\ \A i \in Items : item[i].status = "done" <=> item[i].disp # NULL

(* The session attached to an item ran in the item's repository.  Attaching *)
(* checks it once; every later update of the repository has to keep it, in  *)
(* whatever order attachments, clearings and updates arrive.               *)
SessionInRepository ==
    \A i \in Items :
        item[i].session # NULL => item[i].repo = SessionRepo[item[i].session]

(* The stale-state rules of docs/architecture/verification-workbench.md say *)
(* that evidence is compared with the current identity and a new decision   *)
(* is required when it differs: an item completed as "verified" has passed  *)
(* the verification of the change it now names (a verification recorded    *)
(* before any change identity is not held against it).                     *)
VerifiedChangeWasVerified ==
    \A i \in Items :
        item[i].disp = "verified" =>
            item[i].vfor \in {NULL, item[i].chg}

=============================================================================
