-------------------------- MODULE WorkItems_proofs --------------------------
(***************************************************************************)
(* Theorems about WorkItems, for every set of items, repositories,         *)
(* sessions and updates.                                                   *)
(***************************************************************************)
EXTENDS WorkItems, TLAPS

\* Fields of the right kind make a row: the place of the work.
LEMMA RowPlaced ==
    ASSUME NEW row \in ItemRows, NEW repo \in Repos \cup {NULL},
           NEW session \in Sessions \cup {NULL}, NEW chg \in Changes \cup {NULL}
    PROVE  [row EXCEPT !.repo = repo, !.session = session, !.chg = chg] \in ItemRows
BY DEF ItemRows

\* Fields of the right kind make a row: the evidence.
LEMMA RowWithEvidence ==
    ASSUME NEW row \in ItemRows, NEW review \in BOOLEAN, NEW vrun \in BOOLEAN,
           NEW vstatus \in VerificationStates, NEW vfor \in Changes \cup {NULL}
    PROVE  [row EXCEPT !.review = review, !.vrun = vrun, !.vstatus = vstatus,
                       !.vfor = vfor] \in ItemRows
BY DEF ItemRows

\* An updated row is a row, and keeps its column and its disposition.
LEMMA UpdatedRow ==
    ASSUME NEW row \in ItemRows, NEW u \in UpdateInputs
    PROVE  /\ Updated(row, u) \in ItemRows
           /\ Updated(row, u).status = row.status
           /\ Updated(row, u).disp = row.disp
           /\ Updated(row, u).repo = Coalesce(u.repo, row.repo)
           /\ Updated(row, u).session =
                  IF RepositoryChanged(row, u) THEN NULL ELSE row.session
<1>1. Coalesce(u.repo, row.repo) \in Repos \cup {NULL}
  BY DEF ItemRows, UpdateInputs, Coalesce
<1>2. Coalesce(u.chg, row.chg) \in Changes \cup {NULL}
  BY DEF ItemRows, UpdateInputs, Coalesce
<1>3. Coalesce(u.review, row.review) \in BOOLEAN
  BY Zenon DEF ItemRows, UpdateInputs, Coalesce
<1>4. Coalesce(u.vrun, row.vrun) \in BOOLEAN
  BY Zenon DEF ItemRows, UpdateInputs, Coalesce
<1>5. Coalesce(u.vstatus, row.vstatus) \in VerificationStates
  BY DEF ItemRows, UpdateInputs, Coalesce
<1>6. row.session \in Sessions \cup {NULL} /\ row.vfor \in Changes \cup {NULL}
  BY DEF ItemRows
<1>7. (IF u.vstatus = Keep THEN row.vfor ELSE Coalesce(u.chg, row.chg))
          \in Changes \cup {NULL}
  BY <1>2, <1>6
<1>8. (IF RepositoryChanged(row, u) THEN NULL ELSE row.session) \in Sessions \cup {NULL}
  BY <1>6
<1> DEFINE placed == [row EXCEPT !.repo = Coalesce(u.repo, row.repo),
                                 !.session = IF RepositoryChanged(row, u) THEN NULL
                                             ELSE row.session,
                                 !.chg = Coalesce(u.chg, row.chg)]
<1>9. placed \in ItemRows
  BY <1>1, <1>2, <1>8, RowPlaced, Zenon
<1>10. Updated(row, u) =
         [placed EXCEPT !.review = Coalesce(u.review, row.review),
                        !.vrun = Coalesce(u.vrun, row.vrun),
                        !.vstatus = Coalesce(u.vstatus, row.vstatus),
                        !.vfor = IF u.vstatus = Keep THEN row.vfor
                                 ELSE Coalesce(u.chg, row.chg)]
  BY DEF Updated
<1> HIDE DEF placed
<1> DEFINE review == Coalesce(u.review, row.review)
           vrun == Coalesce(u.vrun, row.vrun)
           vstatus == Coalesce(u.vstatus, row.vstatus)
           vfor == IF u.vstatus = Keep THEN row.vfor ELSE Coalesce(u.chg, row.chg)
<1>11. Updated(row, u) \in ItemRows
  <2>1. /\ review \in BOOLEAN /\ vrun \in BOOLEAN
        /\ vstatus \in VerificationStates /\ vfor \in Changes \cup {NULL}
    BY <1>3, <1>4, <1>5, <1>7, Zenon
  <2>2. Updated(row, u) = [placed EXCEPT !.review = review, !.vrun = vrun,
                                         !.vstatus = vstatus, !.vfor = vfor]
    BY <1>10
  <2> HIDE DEF review, vrun, vstatus, vfor
  <2>3. [placed EXCEPT !.review = review, !.vrun = vrun, !.vstatus = vstatus,
                       !.vfor = vfor] \in ItemRows
    BY <1>9, <2>1, RowWithEvidence
  <2>4. QED
    BY <2>2, <2>3, Zenon
<1>12. /\ Updated(row, u).status = row.status
       /\ Updated(row, u).disp = row.disp
       /\ Updated(row, u).repo = Coalesce(u.repo, row.repo)
       /\ Updated(row, u).session =
              IF RepositoryChanged(row, u) THEN NULL ELSE row.session
  BY DEF Updated, ItemRows
<1>13. QED
  BY <1>11, <1>12

\* A row that does not exist counts as a planned one.
LEMMA NoItemIsRow == NoItem \in ItemRows /\ NoItem.status = "plan" /\ NoItem.disp = NULL
BY DEF NoItem, ItemRows, VerificationStates

\* Every command of the Board writes rows, and done goes with a disposition.
LEMMA RowStep ==
    ASSUME ItemsTypeOK, NextItems
    PROVE  ItemsTypeOK'
<1>1. ASSUME NEW i \in Items, NEW repo \in Repos \cup {NULL}, CreateItem(i, repo)
      PROVE  ItemsTypeOK'
  <2> DEFINE new == [NoItem EXCEPT !.exists = TRUE, !.repo = repo]
  <2>1. new \in ItemRows /\ new.status = "plan" /\ new.disp = NULL
    BY NoItemIsRow DEF ItemRows
  <2>2. QED
    BY <1>1, <2>1 DEF CreateItem, ItemsTypeOK
<1>2. ASSUME NEW i \in Items, NEW u \in Updates, UpdateItem(i, u)
      PROVE  ItemsTypeOK'
  <2>1. u \in UpdateInputs /\ item[i] \in ItemRows
    BY UpdatesAssumption DEF ItemsTypeOK
  <2>2. /\ Updated(item[i], u) \in ItemRows
        /\ Updated(item[i], u).status = item[i].status
        /\ Updated(item[i], u).disp = item[i].disp
    BY <2>1, UpdatedRow, Zenon
  <2>3. QED
    BY <1>2, <2>2 DEF UpdateItem, ItemsTypeOK
<1>3. ASSUME NEW i \in Items, NEW s \in Sessions, AttachSession(i, s)
      PROVE  ItemsTypeOK'
  <2>1. SessionRepo[s] \in Repos
    BY SessionAssumption
  <2>2. item[i] \in ItemRows
    BY DEF ItemsTypeOK
  <2> DEFINE new == [item[i] EXCEPT !.session = s,
                        !.repo = IF item[i].repo = NULL THEN SessionRepo[s]
                                 ELSE item[i].repo]
  <2>3. new \in ItemRows /\ new.status = item[i].status /\ new.disp = item[i].disp
    BY <2>1, <2>2 DEF ItemRows
  <2>4. item' = [item EXCEPT ![i] = new]
    BY <1>3, <2>2 DEF AttachSession, ItemsTypeOK, ItemRows
  <2>5. QED
    BY <2>3, <2>4 DEF ItemsTypeOK
<1>4. ASSUME NEW i \in Items, NEW status \in Columns \cup {"done"},
             NEW disp \in {NULL, "verified", "waived"},
             TransitionItem(i, status, disp)
      PROVE  ItemsTypeOK'
  <2>1. item[i] \in ItemRows
    BY DEF ItemsTypeOK
  <2> DEFINE new == [item[i] EXCEPT !.status = status,
                        !.disp = IF status = "done" THEN disp ELSE NULL]
  <2>2. new \in ItemRows
    BY <2>1 DEF ItemRows
  <2>3. new.status = "done" <=> new.disp # NULL
    BY <1>4, <2>1 DEF TransitionItem, ItemRows
  <2>4. item' = [item EXCEPT ![i] = new]
    BY <1>4, <2>1 DEF TransitionItem, ItemsTypeOK, ItemRows
  <2>5. QED
    BY <2>2, <2>3, <2>4 DEF ItemsTypeOK
<1>5. ASSUME NEW i \in Items, RemoveItem(i)
      PROVE  ItemsTypeOK'
  BY <1>5, NoItemIsRow DEF RemoveItem, ItemsTypeOK
<1>6. QED
  BY <1>1, <1>2, <1>3, <1>4, <1>5 DEF NextItems, EditBoard

\* Every command of the Board keeps the attached session in the item's repository:
\* attaching asks for it, and an update that moves the item detaches the session.
LEMMA SessionStep ==
    ASSUME ItemsTypeOK, SessionInRepository, NextItems
    PROVE  SessionInRepository'
<1>1. ASSUME NEW i \in Items, NEW row \in ItemRows,
             item' = [item EXCEPT ![i] = row],
             row.session # NULL => row.repo = SessionRepo[row.session]
      PROVE  SessionInRepository'
  BY <1>1 DEF SessionInRepository, ItemsTypeOK
<1>2. ASSUME NEW i \in Items, NEW repo \in Repos \cup {NULL}, CreateItem(i, repo)
      PROVE  SessionInRepository'
  <2> DEFINE new == [NoItem EXCEPT !.exists = TRUE, !.repo = repo]
  <2>1. new \in ItemRows
    BY NoItemIsRow DEF ItemRows
  <2>2. new.session = NULL
    BY DEF NoItem
  <2>3. QED
    BY <1>1, <1>2, <2>1, <2>2 DEF CreateItem
<1>3. ASSUME NEW i \in Items, NEW u \in Updates, UpdateItem(i, u)
      PROVE  SessionInRepository'
  <2>1. u \in UpdateInputs /\ item[i] \in ItemRows
    BY UpdatesAssumption DEF ItemsTypeOK
  <2>2. /\ Updated(item[i], u) \in ItemRows
        /\ Updated(item[i], u).repo = Coalesce(u.repo, item[i].repo)
        /\ Updated(item[i], u).session =
               IF RepositoryChanged(item[i], u) THEN NULL ELSE item[i].session
    BY <2>1, UpdatedRow, Zenon
  <2>3. ~RepositoryChanged(item[i], u) => Coalesce(u.repo, item[i].repo) = item[i].repo
    BY DEF RepositoryChanged, Coalesce
  <2>4. item[i].session # NULL => item[i].repo = SessionRepo[item[i].session]
    BY DEF SessionInRepository
  <2>5. item' = [item EXCEPT ![i] = Updated(item[i], u)]
    BY <1>3 DEF UpdateItem, ItemsTypeOK
  <2>6. QED
    BY <1>1, <2>2, <2>3, <2>4, <2>5
<1>4. ASSUME NEW i \in Items, NEW s \in Sessions, AttachSession(i, s)
      PROVE  SessionInRepository'
  <2>1. SessionRepo[s] \in Repos /\ item[i] \in ItemRows
    BY SessionAssumption DEF ItemsTypeOK
  <2> DEFINE new == [item[i] EXCEPT !.session = s,
                        !.repo = IF item[i].repo = NULL THEN SessionRepo[s]
                                 ELSE item[i].repo]
  <2>2. new \in ItemRows /\ new.session = s /\ new.repo = SessionRepo[s]
    BY <1>4, <2>1 DEF ItemRows, AttachSession, SessionBelongs
  <2>3. item' = [item EXCEPT ![i] = new]
    BY <1>4, <2>1 DEF AttachSession, ItemsTypeOK, ItemRows
  <2>4. QED
    BY <1>1, <2>2, <2>3
<1>5. ASSUME NEW i \in Items, NEW status \in Columns \cup {"done"},
             NEW disp \in {NULL, "verified", "waived"},
             TransitionItem(i, status, disp)
      PROVE  SessionInRepository'
  <2>1. item[i] \in ItemRows
    BY DEF ItemsTypeOK
  <2> DEFINE new == [item[i] EXCEPT !.status = status,
                        !.disp = IF status = "done" THEN disp ELSE NULL]
  <2>2. new \in ItemRows /\ new.session = item[i].session /\ new.repo = item[i].repo
    BY <2>1 DEF ItemRows
  <2>3. item' = [item EXCEPT ![i] = new]
    BY <1>5, <2>1 DEF TransitionItem, ItemsTypeOK, ItemRows
  <2>4. item[i].session # NULL => item[i].repo = SessionRepo[item[i].session]
    BY DEF SessionInRepository
  <2>5. QED
    BY <1>1, <2>2, <2>3, <2>4
<1>6. ASSUME NEW i \in Items, RemoveItem(i)
      PROVE  SessionInRepository'
  <2>1. NoItem.session = NULL
    BY DEF NoItem
  <2>2. QED
    BY <1>1, <1>6, <2>1, NoItemIsRow DEF RemoveItem
<1>7. QED
  BY <1>2, <1>3, <1>4, <1>5, <1>6 DEF NextItems, EditBoard

-----------------------------------------------------------------------------
\* Every row of the Board is well formed in every reachable state, and an item has a
\* completion disposition exactly while it is done (work_items.rs, transition).
THEOREM BoardTypeCorrect == SpecItems => []ItemsTypeOK
<1>1. InitItems => ItemsTypeOK
  BY NoItemIsRow DEF InitItems, ItemsTypeOK
<1>2. ItemsTypeOK /\ [NextItems]_item => ItemsTypeOK'
  <2>1. CASE NextItems
    BY <2>1, RowStep
  <2>2. CASE UNCHANGED item
    BY <2>2 DEF ItemsTypeOK
  <2>3. QED
    BY <2>1, <2>2
<1>3. QED
  BY <1>1, <1>2, PTL DEF SpecItems

\* The session attached to an item ran in the item's repository, whatever the order of
\* attachments, updates and clearings (work_items.rs, attach_session and update).
THEOREM SessionStaysInRepository == SpecItems => []SessionInRepository
<1>1. InitItems => SessionInRepository
  BY DEF InitItems, SessionInRepository, NoItem
<1>2. ItemsTypeOK /\ SessionInRepository /\ [NextItems]_item => SessionInRepository'
  <2>1. CASE NextItems
    BY <2>1, SessionStep
  <2>2. CASE UNCHANGED item
    BY <2>2 DEF SessionInRepository
  <2>3. QED
    BY <2>1, <2>2
<1>3. QED
  BY <1>1, <1>2, BoardTypeCorrect, PTL DEF SpecItems

=============================================================================
