------------------------ MODULE ArchaeologyJobs_proofs ------------------------
(***************************************************************************)
(* Proofs about the archaeology job store, for any number of repositories, *)
(* runs, owners and clock readings.                                        *)
(***************************************************************************)
EXTENDS ArchaeologyJobs, FiniteSetTheorems, WellFoundedInduction, TLAPS

-----------------------------------------------------------------------------
(* Type correctness. *)

\* The state, stage and checkpoint names the statements write are column values.
LEMMA Names ==
    /\ {"running", "paused", "cancelling", "completed", "failed", "cancelled",
        "deleted"} \subseteq JobStates
    /\ \A s \in Stages \cup {"parse", "link", "derive", "synthesize", "validate",
                             "publish", "cleanup", "idle"} :
          s \in Stages \cup {"idle"}
    /\ {"plan", "link", "derive", "catalog", "receipt"} \subseteq CheckpointIds
    /\ Cursors \subseteq CheckpointIds
    /\ {"staging", "ready", "superseded", "failed", "cancelled", "deleted"}
          \subseteq GenerationStatuses
  BY DEF JobStates, ActiveStates, TerminalStates, Stages, CheckpointIds,
         GenerationStatuses

\* The empty tables are well typed.
LEMMA TypeInit == Init => TypeOK
  BY TimesAssumption, ContentsAssumption, BoundsAssumption
  DEF Init, TypeOK, RepoRows, GenRows, JobRows, JobStates, CheckpointIds,
      GenerationStatuses, NoRun, NoTotal

\* No operation of the store leaves a row outside its table's column types.
LEMMA TypeStep == TypeOK /\ [Next]_vars => TypeOK'
  <1> SUFFICES ASSUME TypeOK, [Next]_vars PROVE TypeOK'
    OBVIOUS
  <1>0. CASE UNCHANGED vars
    BY <1>0 DEF vars, TypeOK
  <1>1. ASSUME NEW now \in Times, NEW r \in Repos, NEW src \in Sources,
               RegisterInventory(r, src, now)
        PROVE  TypeOK'
    <2>1. /\ repo \in [Repos -> RepoRows] /\ repo[r] \in RepoRows
          /\ UNCHANGED <<gen, job>>
          /\ repo' = [repo EXCEPT ![r].registered = TRUE, ![r].source = src, ![r].updated = now]
      BY <1>1 DEF RegisterInventory, TypeOK
    <2> DEFINE row == [repo[r] EXCEPT !.registered = TRUE, !.source = src, !.updated = now]
    <2>2. row \in RepoRows /\ repo' = [repo EXCEPT ![r] = row]
      BY <2>1 DEF RepoRows
    <2> HIDE DEF row
    <2> QED
      BY <2>1, <2>2 DEF TypeOK
  <1>2. ASSUME NEW now \in Times, NEW r \in Repos, NEW src \in Sources,
               NEW i \in Runs, NEW o \in Owners, NEW cfg \in Configs,
               NEW total \in 0..MaxUnits,
               StartJob(i, r, o, src, cfg, total, now)
        PROVE  TypeOK'
    <2>1. [status |-> "staging", repo |-> r, source |-> src, config |-> cfg,
           content |-> NoRows, created |-> now] \in GenRows
      BY Names, ContentsAssumption DEF GenRows
    <2>2. [state |-> "running", stage |-> "inventory", owner |-> o,
           cancel |-> FALSE, ckpt |-> "none", sealed |-> NoRows,
           completed |-> 0, total |-> total, updated |-> now] \in JobRows
      BY Names, ContentsAssumption, BoundsAssumption
      DEF JobRows, CheckpointIds, Stages, NoTotal
    <2> QED
      BY <1>2, <2>1, <2>2 DEF StartJob, TypeOK
  <1>3. ASSUME NEW now \in Times, NEW i \in Runs, NEW o \in Owners,
               Staging(i, o)
        PROVE  TypeOK'
    <2>0. \A c \in Contents : [gen[i] EXCEPT !.content = c] \in GenRows
      BY DEF TypeOK, GenRows
    <2>1. CASE \E c \in Contents : \/ StageRows(i, o, c)
                                   \/ StageCoverage(i, c)
                                   \/ CloneRows(i, c)
      BY <2>0, <2>1 DEF StageRows, StageCoverage, CloneRows, TypeOK
    <2>2. CASE DiscardNoOp(i, o)
      <3>1. [job[i] EXCEPT !.state = "deleted", !.stage = "idle"] \in JobRows
        BY Names DEF TypeOK, JobRows
      <3>2. [gen[i] EXCEPT !.status = "deleted"] \in GenRows
        BY Names DEF TypeOK, GenRows
      <3> QED
        BY <2>2, <3>1, <3>2 DEF TypeOK, DiscardNoOp
    <2> QED
      BY <1>3, <2>1, <2>2 DEF Staging
  <1>4. ASSUME NEW now \in Times, NEW i \in Runs, NEW o \in Owners,
               Working(i, o, now)
        PROVE  TypeOK'
    <2>r. job[i] \in JobRows /\ gen[i] \in GenRows
      BY DEF TypeOK
    <2>0. ASSUME NEW s \in Stages, NEW m \in CheckpointIds, NEW c \in Contents
          PROVE  /\ [job[i] EXCEPT !.stage = s, !.ckpt = m, !.updated = now]
                       \in JobRows
                 /\ [gen[i] EXCEPT !.content = c] \in GenRows
      <3>1. [job[i] EXCEPT !.stage = s, !.ckpt = m, !.updated = now] \in JobRows
        BY <2>r DEF JobRows
      <3>2. [gen[i] EXCEPT !.content = c] \in GenRows
        BY <2>r DEF GenRows
      <3> QED
        BY <3>1, <3>2
    <2>1. CASE \E next \in {"parse", "link"} : FinishInventory(i, o, next, now)
      <3>1. PICK next \in Stages : FinishInventory(i, o, next, now)
        BY <2>1 DEF Stages
      <3>2. [job[i] EXCEPT !.stage = next, !.ckpt = "plan", !.updated = now]
               \in JobRows
        BY <2>0, Names, ContentsAssumption
      <3> QED
        BY <3>1, <3>2 DEF FinishInventory, TypeOK
    <2>2. CASE FinishParse(i, o, now)
      <3>1. [job[i] EXCEPT !.stage = "link", !.updated = now] \in JobRows
        BY Names DEF TypeOK, JobRows
      <3> QED
        BY <2>2, <3>1 DEF TypeOK, FinishParse
    <2>3. ASSUME NEW c \in Contents,
                 \/ LinkGeneration(i, o, c, now)
                 \/ DeriveTemplateCandidates(i, o, c, now)
                 \/ FinalizeSynthesisCatalog(i, o, c, now)
          PROVE  TypeOK'
      <3>1. PICK from \in Stages, to \in Stages, mark \in CheckpointIds :
                 AdvanceStage(i, o, from, to, mark, c, now)
        BY <2>3 DEF LinkGeneration, DeriveTemplateCandidates,
                    FinalizeSynthesisCatalog, Stages, CheckpointIds
      <3> QED
        BY <2>0, <3>1 DEF AdvanceStage, TypeOK
    <2>4. CASE ValidateGenerationForPublication(i, o, now)
      <3>1. gen[i].content \in Contents /\ "publish" \in Stages
        BY DEF TypeOK, GenRows, Stages
      <3>2. [job[i] EXCEPT !.stage = "publish", !.ckpt = "receipt",
                           !.sealed = gen[i].content,
                           !.updated = now] \in JobRows
        BY <3>1, Names DEF TypeOK, JobRows
      <3> QED
        BY <2>4, <3>2 DEF TypeOK, ValidateGenerationForPublication
    <2>5. CASE PublishGeneration(i, o, now)
      <3>0. "cleanup" \in Stages
        BY DEF Stages
      <3>1. [job[i] EXCEPT !.stage = "cleanup", !.updated = now] \in JobRows
        BY <2>r, <3>0 DEF JobRows
      <3>2. \A k \in Runs : /\ [gen[k] EXCEPT !.status = "ready"] \in GenRows
                            /\ [gen[k] EXCEPT !.status = "superseded"] \in GenRows
        BY Names DEF TypeOK, GenRows
      <3>3. gen' \in [Runs -> GenRows]
        BY <2>5, <3>2 DEF PublishGeneration, TypeOK
      <3>4. \A r \in Repos : [repo[r] EXCEPT !.ready = i, !.updated = now] \in RepoRows
        BY DEF TypeOK, RepoRows
      <3>5. repo' \in [Repos -> RepoRows]
        BY <2>5, <3>4 DEF PublishGeneration, TypeOK
      <3> QED
        BY <2>5, <3>1, <3>3, <3>5 DEF PublishGeneration, TypeOK
    <2> QED
      BY <1>4, <2>1, <2>2, <2>3, <2>4, <2>5 DEF Working
  <1>5. ASSUME NEW now \in Times, NEW i \in Runs, NEW o \in Owners,
               Managing(i, o, now)
        PROVE  TypeOK'
    <2>1. ASSUME NEW move \in CheckpointMoves, NEW cursor \in Cursors,
                 NEW completed \in 0..MaxUnits, NEW total \in NoTotal..MaxUnits,
                 CheckpointJob(i, o, move[1], move[2], cursor, completed, total, now)
          PROVE  TypeOK'
      <3> DEFINE known == IF total = NoTotal THEN job[i].total ELSE total
      <3>1. move[2] \in Stages
        BY DEF CheckpointMoves, Stages
      <3>2. known \in NoTotal..MaxUnits
        BY DEF TypeOK, JobRows
      <3> HIDE DEF known
      <3>3. [job[i] EXCEPT !.stage = move[2], !.ckpt = cursor,
                           !.completed = completed, !.total = known,
                           !.updated = now] \in JobRows
        BY <3>1, <3>2, Names DEF TypeOK, JobRows
      <3> QED
        BY <2>1, <3>3 DEF CheckpointJob, TypeOK, known
    <2>2. CASE HeartbeatJob(i, o, now)
      <3>1. [job[i] EXCEPT !.updated = now] \in JobRows
        BY Names DEF TypeOK, JobRows
      <3> QED
        BY <2>2, <3>1 DEF TypeOK, HeartbeatJob
    <2>3. CASE PauseJob(i, o, now)
      <3>1. [job[i] EXCEPT !.state = "paused", !.cancel = FALSE,
                           !.updated = now] \in JobRows
        BY Names DEF TypeOK, JobRows
      <3> QED
        BY <2>3, <3>1 DEF TypeOK, PauseJob, TransitionState
    <2>4. CASE ResumeJob(i, o, now)
      <3>1. [job[i] EXCEPT !.state = "running", !.cancel = FALSE,
                           !.updated = now] \in JobRows
        BY Names DEF TypeOK, JobRows
      <3> QED
        BY <2>4, <3>1 DEF TypeOK, ResumeJob, TransitionState
    <2>5. CASE RequestCancel(i, o, now)
      <3>1. [job[i] EXCEPT !.state = "cancelling", !.cancel = TRUE,
                           !.updated = now] \in JobRows
        BY Names DEF TypeOK, JobRows
      <3> QED
        BY <2>5, <3>1 DEF TypeOK, RequestCancel
    <2> QED
      BY <1>5, <2>1, <2>2, <2>3, <2>4, <2>5 DEF Managing
  <1>6. ASSUME NEW now \in Times, NEW i \in Runs, NEW o \in Owners,
               Ending(i, o, now)
        PROVE  TypeOK'
    <2>1. CASE AcknowledgeCancel(i, o, now)
      <3>1. [job[i] EXCEPT !.state = "cancelled", !.stage = "idle",
                           !.updated = now] \in JobRows
        BY Names DEF TypeOK, JobRows
      <3>2. [gen[i] EXCEPT !.status = "cancelled"] \in GenRows
        BY Names DEF TypeOK, GenRows
      <3> QED
        BY <2>1, <3>1, <3>2 DEF TypeOK, AcknowledgeCancel, CloseGeneration
    <2>2. CASE FailJob(i, o, now)
      <3>1. [job[i] EXCEPT !.state = "failed", !.stage = "idle",
                           !.updated = now] \in JobRows
        BY Names DEF TypeOK, JobRows
      <3>2. [gen[i] EXCEPT !.status = "failed"] \in GenRows
        BY Names DEF TypeOK, GenRows
      <3> QED
        BY <2>2, <3>1, <3>2 DEF TypeOK, FailJob, CloseGeneration
    <2>3. CASE CompleteJob(i, o, now)
      <3>1. [job[i] EXCEPT !.state = "completed", !.stage = "idle",
                           !.updated = now] \in JobRows
        BY Names DEF TypeOK, JobRows
      <3> QED
        BY <2>3, <3>1 DEF TypeOK, CompleteJob
    <2>4. CASE \E staleBefore \in Times : RecoverStaleJob(i, o, staleBefore, now)
      <3> DEFINE kept == IF job[i].state = "running" THEN "paused" ELSE job[i].state
      <3>1. kept \in JobStates
        BY Names DEF TypeOK, JobRows
      <3> HIDE DEF kept
      <3>2. [job[i] EXCEPT !.owner = o, !.state = kept, !.updated = now] \in JobRows
        BY <3>1 DEF TypeOK, JobRows
      <3> QED
        BY <2>4, <3>2 DEF RecoverStaleJob, TypeOK, kept
    <2>5. CASE \E retain \in 0..MaxCleanup : CleanupGenerations(i, o, retain, now)
      <3>1. [job[i] EXCEPT !.updated = now] \in JobRows
        BY DEF TypeOK, JobRows
      <3>2. \A k \in Runs : [gen[k] EXCEPT !.status = "deleted"] \in GenRows
        BY Names DEF TypeOK, GenRows
      <3> QED
        BY <2>5, <3>1, <3>2 DEF CleanupGenerations, TypeOK
    <2> QED
      BY <1>6, <2>1, <2>2, <2>3, <2>4, <2>5 DEF Ending
  <1> QED
    BY <1>0, <1>1, <1>2, <1>3, <1>4, <1>5, <1>6 DEF Next, Starting

\* Every row keeps its type, whatever the clients do.
THEOREM TypeCorrect == Spec => []TypeOK
  BY TypeInit, TypeStep, PTL DEF Spec

-----------------------------------------------------------------------------
(***************************************************************************)
(* The safety invariant.  ReadyPointerAgrees and ActiveRunsCanEnd need each *)
(* other and three facts more: start_job inserts both rows of a run at     *)
(* once, the unique index admits one active job per repository, and a      *)
(* requested cancellation is past every state a client could leave again.  *)
(***************************************************************************)
RowsInsertedTogether ==
    \A i \in Runs :
        /\ job[i].state = "unused" <=> gen[i].status = "unused"
        /\ gen[i].status # "unused" => /\ gen[i].repo \in Repos
                                       /\ gen[i].source \in Sources

OneActiveJob ==
    \A i, k \in Runs :
        Active(i) /\ Active(k) /\ gen[i].repo = gen[k].repo => i = k

CancelIsFinal ==
    \A i \in Runs :
        job[i].cancel => job[i].state \in {"cancelling", "cancelled", "failed"}

Inv ==
    /\ TypeOK
    /\ RowsInsertedTogether
    /\ OneActiveJob
    /\ CancelIsFinal
    /\ ReadyPointerAgrees
    /\ ActiveRunsCanEnd
    /\ PublishedIsSealed

\* Runs are positive, so the NULL pointer is no run.
LEMMA NoRunIsNoRun == NoRun \notin Runs
  BY RunsAssumption DEF NoRun

\* What ReadyPointerAgrees says of one generation.
LEMMA ReadyIsPointer ==
    ASSUME ReadyPointerAgrees, NEW i \in Runs, gen[i].repo \in Repos
    PROVE  gen[i].status = "ready" <=> repo[gen[i].repo].ready = i
  BY NoRunIsNoRun DEF ReadyPointerAgrees, ReadyRows

\* A generation the pointer names belongs to the repository of the pointer.
LEMMA PointerIsReady ==
    ASSUME ReadyPointerAgrees, NEW r \in Repos, NEW i \in Runs, repo[r].ready = i
    PROVE  gen[i].repo = r /\ gen[i].status = "ready"
  BY NoRunIsNoRun DEF ReadyPointerAgrees, ReadyRows

\* The empty store satisfies the invariant.
LEMMA InvInit == Init => Inv
  <1> SUFFICES ASSUME Init PROVE Inv
    OBVIOUS
  <1>1. TypeOK
    BY TypeInit
  <1>2. \A i \in Runs : /\ job[i].state = "unused" /\ ~job[i].cancel
                        /\ gen[i].status = "unused"
    BY DEF Init
  <1>3. \A i \in Runs : ~Active(i)
    BY <1>2 DEF Active, ActiveStates
  <1>4. \A r \in Repos : repo[r].ready = NoRun
    BY DEF Init
  <1> QED
    BY <1>1, <1>2, <1>3, <1>4
    DEF Inv, RowsInsertedTogether, OneActiveJob, CancelIsFinal,
        ReadyPointerAgrees, ReadyRows, ActiveRunsCanEnd, PublishedIsSealed

(***************************************************************************)
(* Most operations work on one active run and leave its generation's       *)
(* status alone.  They keep the invariant when they keep the run among the *)
(* known states, do not carry it across publication, and write no rows and *)
(* no receipt of a published generation.                                   *)
(***************************************************************************)
LEMMA WorkOnActiveRun ==
    ASSUME Inv, TypeOK', NEW i \in Runs, UNCHANGED repo,
           \A k \in Runs \ {i} : job'[k] = job[k] /\ gen'[k] = gen[k],
           gen'[i].status = gen[i].status, gen'[i].repo = gen[i].repo,
           gen'[i].source = gen[i].source,
           \/ gen[i].status \notin {"ready", "superseded"}
           \/ gen'[i].content = gen[i].content /\ job'[i].sealed = job[i].sealed,
           Active(i) \/ job'[i] = job[i],
           job'[i].state # "unused" \/ job'[i] = job[i],
           job'[i].state \in ActiveStates =>
               (job'[i].stage = "cleanup" <=> job[i].stage = "cleanup"),
           job'[i].cancel =>
               job'[i].state \in {"cancelling", "cancelled", "failed"}
    PROVE  Inv'
  <1>1. \A k \in Runs : /\ gen'[k].status = gen[k].status
                        /\ gen'[k].repo = gen[k].repo
                        /\ gen'[k].source = gen[k].source
                        /\ Active(k)' => Active(k)
    BY DEF Active
  <1>2. job[i].state = "unused" <=> job'[i].state = "unused"
    BY DEF Active, ActiveStates
  <1>3. RowsInsertedTogether'
    BY <1>1, <1>2 DEF Inv, RowsInsertedTogether
  <1>4. OneActiveJob'
    BY <1>1 DEF Inv, OneActiveJob
  <1>5. CancelIsFinal'
    BY DEF Inv, CancelIsFinal
  <1>6. ReadyPointerAgrees'
    BY <1>1 DEF Inv, ReadyPointerAgrees, ReadyRows
  <1>7. ActiveRunsCanEnd'
    BY <1>1 DEF Inv, ActiveRunsCanEnd, IsPublished, Active
  <1>8. PublishedIsSealed'
    BY <1>1 DEF Inv, PublishedIsSealed
  <1> QED
    BY <1>3, <1>4, <1>5, <1>6, <1>7, <1>8 DEF Inv

(***************************************************************************)
(* Ending an active run: the job leaves the active states, and its         *)
(* generation leaves "staging" or, being published, does not change.       *)
(***************************************************************************)
LEMMA EndRun ==
    ASSUME Inv, TypeOK', NEW i \in Runs, UNCHANGED repo, Active(i),
           \A k \in Runs \ {i} : job'[k] = job[k] /\ gen'[k] = gen[k],
           job'[i].state \in {"completed", "failed", "cancelled", "deleted"},
           job'[i].cancel => job'[i].state \in {"cancelled", "failed"},
           job'[i].sealed = job[i].sealed,
           \/ gen'[i] = gen[i]
           \/ /\ gen[i].status = "staging"
              /\ gen'[i].status \in {"failed", "cancelled", "deleted"}
              /\ gen'[i].repo = gen[i].repo
              /\ gen'[i].source = gen[i].source
    PROVE  Inv'
  <1>1. \A k \in Runs : /\ gen'[k].repo = gen[k].repo
                        /\ gen'[k].source = gen[k].source
                        /\ gen'[k].status = "ready" <=> gen[k].status = "ready"
                        /\ Active(k)' <=> Active(k) /\ k # i
    BY DEF Active, ActiveStates
  <1>2. gen[i].status # "unused" /\ gen'[i].status # "unused"
    BY DEF Inv, RowsInsertedTogether, Active, ActiveStates
  <1>3. RowsInsertedTogether'
    BY <1>1, <1>2 DEF Inv, RowsInsertedTogether
  <1>4. OneActiveJob'
    BY <1>1 DEF Inv, OneActiveJob
  <1>5. CancelIsFinal'
    BY DEF Inv, CancelIsFinal
  <1>6. ReadyPointerAgrees'
    BY <1>1 DEF Inv, ReadyPointerAgrees, ReadyRows
  <1>7. ActiveRunsCanEnd'
    BY <1>1 DEF Inv, ActiveRunsCanEnd, IsPublished
  <1>8. PublishedIsSealed'
    BY DEF Inv, PublishedIsSealed
  <1> QED
    BY <1>3, <1>4, <1>5, <1>6, <1>7, <1>8 DEF Inv

\* start_job adds a staging generation under the only active job.
LEMMA StartKeepsInv ==
    ASSUME Inv, TypeOK', NEW i \in Runs, NEW r \in Repos, NEW o \in Owners,
           NEW src \in Sources, NEW cfg \in Configs, NEW total \in 0..MaxUnits,
           NEW now \in Times, StartJob(i, r, o, src, cfg, total, now)
    PROVE  Inv'
  <1>1. /\ UNCHANGED repo
        /\ \A k \in Runs \ {i} : job'[k] = job[k] /\ gen'[k] = gen[k]
        /\ gen'[i].status = "staging" /\ gen'[i].repo = r /\ gen'[i].source = src
        /\ job'[i].state = "running" /\ job'[i].stage = "inventory"
        /\ ~job'[i].cancel
    BY DEF StartJob, Inv, TypeOK
  <1>2. gen[i].status = "unused"
    BY DEF StartJob, Inv, RowsInsertedTogether
  <1>3. \A k \in Runs : Active(k)' <=> Active(k) \/ k = i
    BY <1>1 DEF Active, ActiveStates
  <1>4. \A k \in Runs \ {i} : Active(k) => gen[k].repo # r
    BY DEF StartJob, NoActiveJob
  <1>5. RowsInsertedTogether'
    BY <1>1 DEF Inv, RowsInsertedTogether
  <1>6. OneActiveJob'
    BY <1>1, <1>3, <1>4 DEF Inv, OneActiveJob
  <1>7. CancelIsFinal'
    BY <1>1 DEF Inv, CancelIsFinal
  <1>8. ReadyPointerAgrees'
    <2>1. \A q \in Repos : ReadyRows(q)' = ReadyRows(q)
      BY <1>1, <1>2 DEF ReadyRows
    <2> QED
      BY <1>1, <2>1 DEF Inv, ReadyPointerAgrees
  <1>9. ActiveRunsCanEnd'
    BY <1>1, <1>3 DEF Inv, ActiveRunsCanEnd, IsPublished
  <1>10. PublishedIsSealed'
    BY <1>1 DEF Inv, PublishedIsSealed
  <1> QED
    BY <1>5, <1>6, <1>7, <1>8, <1>9, <1>10 DEF Inv

\* publish_generation moves the pointer and both generations together; the
\* generation it supersedes is not one an active job still depends on.
LEMMA PublishKeepsInv ==
    ASSUME Inv, TypeOK', NEW i \in Runs, NEW o \in Owners, NEW now \in Times,
           PublishGeneration(i, o, now)
    PROVE  Inv'
  <1> DEFINE r == gen[i].repo
             prior == repo[r].ready
  <1>1. Active(i) /\ gen[i].status = "staging" /\ ReceiptHolds(i) /\ ~job[i].cancel
    BY DEF PublishGeneration, LeaseHeld, Active, ActiveStates
  <1>2. r \in Repos
    BY <1>1 DEF Inv, RowsInsertedTogether
  <1>3. /\ \A k \in Runs \ {i} : job'[k] = job[k]
        /\ job'[i].stage = "cleanup" /\ job'[i].state = job[i].state
        /\ job'[i].cancel = job[i].cancel /\ job'[i].sealed = job[i].sealed
    BY DEF PublishGeneration, Inv, TypeOK, JobRows
  <1>4. \A k \in Runs : /\ gen'[k].repo = gen[k].repo
                        /\ gen'[k].source = gen[k].source
                        /\ gen'[k].content = gen[k].content
                        /\ gen'[k].status = IF k = i THEN "ready"
                                            ELSE IF k = prior THEN "superseded"
                                            ELSE gen[k].status
    <2> TAKE k \in Runs
    <2>1. gen'[k] = CASE k = i     -> [gen[k] EXCEPT !.status = "ready"]
                      [] k = prior -> [gen[k] EXCEPT !.status = "superseded"]
                      [] OTHER     -> gen[k]
      BY DEF PublishGeneration
    <2>2. gen[k] \in GenRows
      BY DEF Inv, TypeOK
    <2>3. i # prior
      BY <1>1, <1>2, PointerIsReady DEF Inv
    <2> HIDE DEF prior
    <2>4. CASE k = i
      BY <2>1, <2>2, <2>3, <2>4 DEF GenRows
    <2>5. CASE k # i /\ k = prior
      BY <2>1, <2>2, <2>5 DEF GenRows
    <2>6. CASE k # i /\ k # prior
      BY <2>1, <2>6
    <2> QED
      BY <2>4, <2>5, <2>6
  <1>5. /\ repo'[r].ready = i
        /\ \A q \in Repos \ {r} : repo'[q].ready = repo[q].ready
    BY <1>2 DEF PublishGeneration, Inv, TypeOK, RepoRows
  <1>6. prior \in Runs => gen[prior].repo = r /\ gen[prior].status = "ready"
    BY <1>2, PointerIsReady DEF Inv
  <1>7. \A k \in Runs : Active(k)' <=> Active(k)
    BY <1>3 DEF Active
  <1>8. RowsInsertedTogether'
    BY <1>1, <1>3, <1>4, <1>6 DEF Inv, RowsInsertedTogether
  <1>9. OneActiveJob'
    BY <1>4, <1>7 DEF Inv, OneActiveJob
  <1>10. CancelIsFinal'
    BY <1>3 DEF Inv, CancelIsFinal
  <1>11. ReadyPointerAgrees'
    <2> SUFFICES ASSUME NEW q \in Repos
                 PROVE  ReadyRows(q)' = {repo'[q].ready} \ {NoRun}
      BY DEF ReadyPointerAgrees
    <2>1. CASE q = r
      <3>1. \A k \in Runs : k # i /\ gen[k].repo = r /\ gen[k].status = "ready" => k = prior
        BY <1>2 DEF Inv, ReadyPointerAgrees, ReadyRows
      <3>2. ReadyRows(q)' = {i}
        BY <1>4, <2>1, <3>1 DEF ReadyRows
      <3> QED
        BY <1>5, <2>1, <3>2, NoRunIsNoRun
    <2>2. CASE q # r
      <3>1. ReadyRows(q)' = ReadyRows(q)
        BY <1>4, <1>6, <2>2 DEF ReadyRows
      <3> QED
        BY <1>5, <2>2, <3>1 DEF Inv, ReadyPointerAgrees
    <2> QED
      BY <2>1, <2>2
  <1>12. ActiveRunsCanEnd'
    <2> SUFFICES ASSUME NEW k \in Runs, Active(k)
                 PROVE  \/ gen'[k].status = "staging" /\ job'[k].stage # "cleanup"
                        \/ IsPublished(k)' /\ job'[k].stage = "cleanup"
      BY <1>7 DEF ActiveRunsCanEnd
    <2>1. CASE k = i
      BY <1>2, <1>3, <1>4, <1>5, <2>1 DEF IsPublished
    <2>2. CASE k # i
      <3>1. gen[k].repo # r
        BY <1>1, <2>2 DEF Inv, OneActiveJob
      <3>2. gen[k].repo \in Repos
        BY DEF Inv, RowsInsertedTogether, Active, ActiveStates
      <3>3. k # prior
        BY <1>6, <3>1
      <3> QED
        BY <1>3, <1>4, <1>5, <2>2, <3>1, <3>2, <3>3
        DEF Inv, ActiveRunsCanEnd, IsPublished
    <2> QED
      BY <2>1, <2>2
  <1>13. PublishedIsSealed'
    BY <1>1, <1>3, <1>4, <1>6 DEF Inv, PublishedIsSealed, ReceiptHolds
  <1> QED
    BY <1>8, <1>9, <1>10, <1>11, <1>12, <1>13 DEF Inv

\* cleanup_generations deletes neither a ready generation nor an active run's.
LEMMA CleanupKeepsInv ==
    ASSUME Inv, TypeOK', NEW i \in Runs, NEW o \in Owners, NEW now \in Times,
           NEW retain \in 0..MaxCleanup, CleanupGenerations(i, o, retain, now)
    PROVE  Inv'
  <1> DEFINE batch == CleanupBatch(i, o, retain)
  <1>1. \A k \in batch : /\ k \in Runs /\ ~Active(k)
                         /\ gen[k].status \notin {"unused", "ready"}
    BY DEF CleanupBatch, CleanupCandidates, Removable
  <1>2. \A k \in Runs : /\ job'[k].state = job[k].state
                        /\ job'[k].stage = job[k].stage
                        /\ job'[k].cancel = job[k].cancel
                        /\ job'[k].sealed = job[k].sealed
    BY DEF CleanupGenerations, Inv, TypeOK, JobRows
  <1>3. \A k \in Runs : gen'[k] = IF k \in batch
                                  THEN [gen[k] EXCEPT !.status = "deleted"]
                                  ELSE gen[k]
    BY DEF CleanupGenerations
  <1> HIDE DEF batch
  <1>4. \A k \in Runs : /\ gen'[k].repo = gen[k].repo
                        /\ gen'[k].source = gen[k].source
                        /\ gen'[k].content = gen[k].content
                        /\ gen'[k].status = IF k \in batch THEN "deleted"
                                            ELSE gen[k].status
    BY <1>3 DEF Inv, TypeOK, GenRows
  <1>5. UNCHANGED repo /\ \A k \in Runs : Active(k)' <=> Active(k)
    BY <1>2 DEF CleanupGenerations, Active
  <1>6. RowsInsertedTogether'
    BY <1>1, <1>2, <1>4 DEF Inv, RowsInsertedTogether
  <1>7. OneActiveJob'
    BY <1>4, <1>5 DEF Inv, OneActiveJob
  <1>8. CancelIsFinal'
    BY <1>2 DEF Inv, CancelIsFinal
  <1>9. ReadyPointerAgrees'
    <2>1. \A q \in Repos : ReadyRows(q)' = ReadyRows(q)
      BY <1>1, <1>4 DEF ReadyRows
    <2> QED
      BY <1>5, <2>1 DEF Inv, ReadyPointerAgrees
  <1>10. ActiveRunsCanEnd'
    BY <1>1, <1>2, <1>4, <1>5 DEF Inv, ActiveRunsCanEnd, IsPublished
  <1>11. PublishedIsSealed'
    BY <1>2, <1>4 DEF Inv, PublishedIsSealed
  <1> QED
    BY <1>6, <1>7, <1>8, <1>9, <1>10, <1>11 DEF Inv

\* Every operation keeps the invariant.
LEMMA InvStep == Inv /\ [Next]_vars => Inv'
  <1> SUFFICES ASSUME Inv, [Next]_vars PROVE Inv'
    OBVIOUS
  <1>0. TypeOK /\ TypeOK'
    BY TypeStep DEF Inv
  <1>1. CASE UNCHANGED vars
    BY <1>1 DEF vars, Inv, TypeOK, RowsInsertedTogether, OneActiveJob,
                CancelIsFinal, ReadyPointerAgrees, ReadyRows, ActiveRunsCanEnd,
                IsPublished, PublishedIsSealed, Active
  <1>2. ASSUME NEW now \in Times, NEW r \in Repos, NEW src \in Sources,
               RegisterInventory(r, src, now)
        PROVE  Inv'
    <2>1. UNCHANGED <<gen, job>> /\ \A q \in Repos : repo'[q].ready = repo[q].ready
      BY <1>0, <1>2 DEF RegisterInventory, TypeOK, RepoRows
    <2>2. ReadyPointerAgrees'
      BY <2>1 DEF Inv, ReadyPointerAgrees, ReadyRows
    <2>3. ActiveRunsCanEnd'
      BY <2>1 DEF Inv, ActiveRunsCanEnd, IsPublished, Active, ActiveStates,
                  RowsInsertedTogether
    <2> QED
      BY <1>0, <2>1, <2>2, <2>3
      DEF Inv, RowsInsertedTogether, OneActiveJob, CancelIsFinal,
          PublishedIsSealed, Active
  <1>3. ASSUME NEW now \in Times, NEW r \in Repos, NEW src \in Sources,
               NEW i \in Runs, NEW o \in Owners, NEW cfg \in Configs,
               NEW total \in 0..MaxUnits,
               StartJob(i, r, o, src, cfg, total, now)
        PROVE  Inv'
    BY <1>0, <1>3, StartKeepsInv
  <1>4. ASSUME NEW now \in Times, NEW i \in Runs, NEW o \in Owners,
               Staging(i, o)
        PROVE  Inv'
    <2>0. job[i] \in JobRows /\ gen[i] \in GenRows
      BY <1>0 DEF TypeOK
    <2>1. CASE \E c \in Contents : \/ StageRows(i, o, c)
                                   \/ StageCoverage(i, c)
                                   \/ CloneRows(i, c)
      <3>1. /\ UNCHANGED <<repo, job>>
            /\ gen[i].status \notin {"ready", "superseded"}
            /\ \E c \in Contents : gen' = [gen EXCEPT ![i].content = c]
        BY <2>1 DEF StageRows, StageCoverage, CloneRows
      <3>2. /\ \A k \in Runs \ {i} : gen'[k] = gen[k]
            /\ gen'[i].status = gen[i].status /\ gen'[i].repo = gen[i].repo
            /\ gen'[i].source = gen[i].source
        BY <1>0, <3>1 DEF TypeOK, GenRows
      <3>3. job[i].cancel => job[i].state \in {"cancelling", "cancelled", "failed"}
        BY DEF Inv, CancelIsFinal
      <3> QED
        BY <1>0, <3>1, <3>2, <3>3, WorkOnActiveRun
    <2>2. CASE DiscardNoOp(i, o)
      <3>1. /\ \A k \in Runs \ {i} : job'[k] = job[k] /\ gen'[k] = gen[k]
            /\ job'[i].state = "deleted" /\ job'[i].cancel = job[i].cancel
            /\ job'[i].sealed = job[i].sealed
            /\ gen'[i].status = "deleted" /\ gen'[i].repo = gen[i].repo
            /\ gen'[i].source = gen[i].source
        BY <1>0, <2>0, <2>2 DEF DiscardNoOp, TypeOK, JobRows, GenRows
      <3>2. /\ Active(i) /\ ~job[i].cancel /\ gen[i].status = "staging"
            /\ UNCHANGED repo
        BY <2>2 DEF DiscardNoOp, LeaseHeld, Active, ActiveStates
      <3> QED
        BY <1>0, <3>1, <3>2, EndRun
    <2> QED
      BY <1>4, <2>1, <2>2 DEF Staging
  <1>5. ASSUME NEW now \in Times, NEW i \in Runs, NEW o \in Owners,
               Working(i, o, now)
        PROVE  Inv'
    <2>0. job[i] \in JobRows /\ gen[i] \in GenRows
      BY <1>0 DEF TypeOK
    <2>1. CASE \/ \E next \in {"parse", "link"} : FinishInventory(i, o, next, now)
               \/ FinishParse(i, o, now)
               \/ ValidateGenerationForPublication(i, o, now)
      <3>1. /\ UNCHANGED <<repo, gen>> /\ Active(i) /\ ~job[i].cancel
            /\ job[i].state = "running" /\ job[i].stage # "cleanup"
        BY <2>1 DEF FinishInventory, FinishParse, LeaseHeld, Active,
                    ActiveStates, ValidateGenerationForPublication
      <3>2. /\ \A k \in Runs \ {i} : job'[k] = job[k]
            /\ job'[i].state = job[i].state /\ job'[i].cancel = job[i].cancel
            /\ job'[i].stage # "cleanup"
            /\ gen[i].status = "staging" \/ job'[i].sealed = job[i].sealed
        BY <1>0, <2>0, <2>1
        DEF TypeOK, JobRows, FinishInventory, FinishParse,
            ValidateGenerationForPublication
      <3> QED
        BY <1>0, <3>1, <3>2, WorkOnActiveRun
    <2>2. CASE \E c \in Contents :
                  \/ LinkGeneration(i, o, c, now)
                  \/ DeriveTemplateCandidates(i, o, c, now)
                  \/ FinalizeSynthesisCatalog(i, o, c, now)
      <3>1. PICK c \in Contents, from \in Stages \ {"cleanup"},
                 to \in Stages \ {"cleanup"}, mark \in CheckpointIds :
                 AdvanceStage(i, o, from, to, mark, c, now)
        BY <2>2 DEF LinkGeneration, DeriveTemplateCandidates,
                    FinalizeSynthesisCatalog, Stages, CheckpointIds
      <3>2. /\ UNCHANGED repo /\ Active(i) /\ ~job[i].cancel
            /\ gen[i].status = "staging"
            /\ job[i].state = "running" /\ job[i].stage # "cleanup"
        BY <3>1 DEF AdvanceStage, LeaseHeld, Active, ActiveStates
      <3>3. /\ \A k \in Runs \ {i} : job'[k] = job[k] /\ gen'[k] = gen[k]
            /\ job'[i].state = job[i].state /\ job'[i].cancel = job[i].cancel
            /\ job'[i].stage # "cleanup"
            /\ gen'[i].status = gen[i].status /\ gen'[i].repo = gen[i].repo
            /\ gen'[i].source = gen[i].source
        BY <1>0, <2>0, <3>1 DEF TypeOK, JobRows, GenRows, AdvanceStage
      <3> QED
        BY <1>0, <3>2, <3>3, WorkOnActiveRun
    <2>3. CASE PublishGeneration(i, o, now)
      BY <1>0, <2>3, PublishKeepsInv
    <2> QED
      BY <1>5, <2>1, <2>2, <2>3 DEF Working
  <1>6. ASSUME NEW now \in Times, NEW i \in Runs, NEW o \in Owners,
               Managing(i, o, now)
        PROVE  Inv'
    <2>0. job[i] \in JobRows
      BY <1>0 DEF TypeOK
    <2>1. ASSUME NEW move \in CheckpointMoves, NEW cursor \in Cursors,
                 NEW completed \in 0..MaxUnits, NEW total \in NoTotal..MaxUnits,
                 CheckpointJob(i, o, move[1], move[2], cursor, completed, total, now)
          PROVE  Inv'
      <3>1. move[1] = "cleanup" <=> move[2] = "cleanup"
        BY DEF CheckpointMoves, Stages
      <3>2. /\ UNCHANGED <<repo, gen>> /\ Active(i)
            /\ job[i].stage = move[1] /\ job[i].state = "running"
        BY <2>1 DEF CheckpointJob, Active, ActiveStates
      <3>3. /\ \A k \in Runs \ {i} : job'[k] = job[k]
            /\ job'[i].stage = move[2] /\ job'[i].state = job[i].state
            /\ job'[i].cancel = job[i].cancel /\ job'[i].sealed = job[i].sealed
        BY <1>0, <2>0, <2>1 DEF TypeOK, JobRows, CheckpointJob
      <3>4. ~job[i].cancel
        BY <3>2 DEF Inv, CancelIsFinal
      <3> QED
        BY <1>0, <3>1, <3>2, <3>3, <3>4, WorkOnActiveRun
    <2>2. CASE HeartbeatJob(i, o, now)
      <3>1. /\ UNCHANGED <<repo, gen>> /\ Active(i)
        BY <2>2 DEF HeartbeatJob, Active, ActiveStates
      <3>2. /\ \A k \in Runs \ {i} : job'[k] = job[k]
            /\ job'[i].stage = job[i].stage /\ job'[i].state = job[i].state
            /\ job'[i].cancel = job[i].cancel /\ job'[i].sealed = job[i].sealed
        BY <1>0, <2>0, <2>2 DEF TypeOK, JobRows, HeartbeatJob
      <3>3. job[i].cancel => job[i].state \in {"cancelling", "cancelled", "failed"}
        BY DEF Inv, CancelIsFinal
      <3>4. job[i].state # "unused"
        BY <3>1 DEF Active, ActiveStates
      <3> QED
        BY <1>0, <3>1, <3>2, <3>3, <3>4, WorkOnActiveRun
    <2>3. CASE \/ PauseJob(i, o, now)
               \/ ResumeJob(i, o, now)
               \/ RequestCancel(i, o, now)
      <3>1. /\ UNCHANGED <<repo, gen>> /\ Active(i)
        BY <2>3 DEF PauseJob, ResumeJob, TransitionState, RequestCancel, Active,
                    ActiveStates
      <3>2. /\ \A k \in Runs \ {i} : job'[k] = job[k]
            /\ job'[i].stage = job[i].stage /\ job'[i].sealed = job[i].sealed
            /\ \/ job'[i].state \in {"paused", "running"} /\ ~job'[i].cancel
               \/ job'[i].state = "cancelling" /\ job'[i].cancel
        BY <1>0, <2>0, <2>3 DEF TypeOK, JobRows, PauseJob, ResumeJob,
                                TransitionState, RequestCancel
      <3> QED
        BY <1>0, <3>1, <3>2, WorkOnActiveRun
    <2> QED
      BY <1>6, <2>1, <2>2, <2>3 DEF Managing
  <1>7. ASSUME NEW now \in Times, NEW i \in Runs, NEW o \in Owners,
               Ending(i, o, now)
        PROVE  Inv'
    <2>0. job[i] \in JobRows /\ gen[i] \in GenRows
      BY <1>0 DEF TypeOK
    <2>1. CASE AcknowledgeCancel(i, o, now) \/ FailJob(i, o, now)
      <3>1. /\ Active(i) /\ UNCHANGED repo
            /\ CloseGeneration(i, "cancelled") \/ CloseGeneration(i, "failed")
        BY <2>1 DEF AcknowledgeCancel, FailJob, Active, ActiveStates
      <3>2. /\ \A k \in Runs \ {i} : job'[k] = job[k]
            /\ job'[i].state \in {"cancelled", "failed"}
            /\ job'[i].sealed = job[i].sealed
        BY <1>0, <2>0, <2>1 DEF TypeOK, JobRows, AcknowledgeCancel, FailJob
      <3>3. /\ \A k \in Runs \ {i} : gen'[k] = gen[k]
            /\ \/ gen'[i] = gen[i]
               \/ /\ gen[i].status = "staging"
                  /\ gen'[i].status \in {"failed", "cancelled", "deleted"}
                  /\ gen'[i].repo = gen[i].repo
                  /\ gen'[i].source = gen[i].source
        BY <1>0, <2>0, <3>1 DEF TypeOK, GenRows, CloseGeneration
      <3> QED
        BY <1>0, <3>1, <3>2, <3>3, EndRun
    <2>2. CASE CompleteJob(i, o, now)
      <3>1. Active(i) /\ UNCHANGED <<repo, gen>> /\ ~job[i].cancel
        BY <2>2 DEF CompleteJob, LeaseHeld, Active, ActiveStates
      <3>2. /\ \A k \in Runs \ {i} : job'[k] = job[k]
            /\ job'[i].state = "completed" /\ job'[i].cancel = job[i].cancel
            /\ job'[i].sealed = job[i].sealed
        BY <1>0, <2>0, <2>2 DEF TypeOK, JobRows, CompleteJob
      <3> QED
        BY <1>0, <3>1, <3>2, EndRun
    <2>3. CASE \E staleBefore \in Times : RecoverStaleJob(i, o, staleBefore, now)
      <3>1. Active(i) /\ UNCHANGED <<repo, gen>>
        BY <2>3 DEF RecoverStaleJob
      <3>2. /\ \A k \in Runs \ {i} : job'[k] = job[k]
            /\ job'[i].state = IF job[i].state = "running" THEN "paused"
                               ELSE job[i].state
            /\ job'[i].stage = job[i].stage /\ job'[i].cancel = job[i].cancel
            /\ job'[i].sealed = job[i].sealed
        BY <1>0, <2>0, <2>3 DEF TypeOK, JobRows, RecoverStaleJob
      <3>3. job[i].cancel => job[i].state \in {"cancelling", "cancelled", "failed"}
        BY DEF Inv, CancelIsFinal
      <3>4. job'[i].state # "unused"
        BY <3>1, <3>2 DEF Active, ActiveStates
      <3> QED
        BY <1>0, <3>1, <3>2, <3>3, <3>4, WorkOnActiveRun
    <2>4. CASE \E retain \in 0..MaxCleanup : CleanupGenerations(i, o, retain, now)
      BY <1>0, <2>4, CleanupKeepsInv
    <2> QED
      BY <1>7, <2>1, <2>2, <2>3, <2>4 DEF Ending
  <1> QED
    BY <1>1, <1>2, <1>3, <1>4, <1>5, <1>6, <1>7 DEF Next, Starting

\* The invariant holds of every reachable store.
LEMMA SpecInv == Spec => []Inv
  BY InvInit, InvStep, PTL DEF Spec

\* The ready pointer of every repository names exactly its ready generation,
\* through every publication, failure, cancellation, recovery and cleanup.
THEOREM ReadyPointerCorrect == Spec => []ReadyPointerAgrees
  BY SpecInv, PTL DEF Inv

\* No active job is ever in a state that update_staging_generation refuses to
\* end: a repository is never blocked by a job that cannot be cancelled or
\* failed.
THEOREM ActiveRunsEnd == Spec => []ActiveRunsCanEnd
  BY SpecInv, PTL DEF Inv

\* What publish_generation made visible is what the validation receipt sealed.
THEOREM PublicationIsSealed == Spec => []PublishedIsSealed
  BY SpecInv, PTL DEF Inv

-----------------------------------------------------------------------------
(* A requested cancellation cannot be undone. *)

\* No step withdraws a cancellation or publishes a run that has one.
LEMMA CancelStep ==
    Inv /\ Inv' /\ [Next]_vars =>
        [\A i \in Runs :
            job[i].cancel =>
                /\ job'[i].cancel
                /\ gen[i].status = "staging" => gen'[i].status # "ready"]_vars
  <1> SUFFICES ASSUME Inv, Next, NEW k \in Runs, job[k].cancel
               PROVE  /\ job'[k].cancel
                      /\ gen[k].status = "staging" => gen'[k].status # "ready"
    OBVIOUS
  <1> DEFINE Goal == /\ job'[k].cancel
                     /\ gen[k].status = "staging" => gen'[k].status # "ready"
  <1>0. /\ TypeOK /\ job[k] \in JobRows /\ gen[k] \in GenRows
        /\ job[k].state \in {"cancelling", "cancelled", "failed"}
    BY DEF Inv, TypeOK, CancelIsFinal
  <1>1. ASSUME NEW now \in Times, Starting(now) PROVE Goal
    BY <1>0, <1>1 DEF Starting, RegisterInventory, StartJob, TypeOK
  <1>2. ASSUME NEW i \in Runs, NEW o \in Owners, Staging(i, o) PROVE Goal
    <2>1. CASE DiscardNoOp(i, o)
      BY <1>0, <2>1 DEF DiscardNoOp, LeaseHeld, TypeOK
    <2>2. CASE \E c \in Contents : \/ StageRows(i, o, c)
                                   \/ StageCoverage(i, c)
                                   \/ CloneRows(i, c)
      BY <1>0, <2>2 DEF StageRows, StageCoverage, CloneRows, TypeOK, GenRows
    <2> QED
      BY <1>2, <2>1, <2>2 DEF Staging
  <1>3. ASSUME NEW now \in Times, NEW i \in Runs, NEW o \in Owners,
               Working(i, o, now)
        PROVE  Goal
    <2>1. LeaseHeld(i, o)
      BY <1>3 DEF Working, FinishInventory, FinishParse, LinkGeneration,
                  DeriveTemplateCandidates, FinalizeSynthesisCatalog,
                  AdvanceStage, ValidateGenerationForPublication,
                  PublishGeneration
    <2>2. k # i
      BY <2>1 DEF LeaseHeld
    <2>3. job'[k] = job[k]
      BY <1>0, <1>3, <2>2
      DEF Working, FinishInventory, FinishParse, LinkGeneration,
          DeriveTemplateCandidates, FinalizeSynthesisCatalog, AdvanceStage,
          ValidateGenerationForPublication, PublishGeneration, TypeOK
    <2>4. gen[k].status = "staging" => gen'[k].status # "ready"
      <3>1. CASE PublishGeneration(i, o, now)
        <4>1. \/ gen'[k] = gen[k]
              \/ gen'[k] = [gen[k] EXCEPT !.status = "superseded"]
          BY <2>2, <3>1 DEF PublishGeneration
        <4> QED
          BY <1>0, <4>1 DEF GenRows
      <3>2. CASE ~PublishGeneration(i, o, now)
        BY <1>0, <1>3, <2>2, <3>2
        DEF Working, FinishInventory, FinishParse, LinkGeneration,
            DeriveTemplateCandidates, FinalizeSynthesisCatalog, AdvanceStage,
            ValidateGenerationForPublication, TypeOK
      <3> QED
        BY <3>1, <3>2
    <2> QED
      BY <2>3, <2>4
  <1>4. ASSUME NEW now \in Times, NEW i \in Runs, NEW o \in Owners,
               Managing(i, o, now)
        PROVE  Goal
    <2>1. ASSUME NEW from, NEW to, NEW cursor, NEW completed, NEW total,
                 CheckpointJob(i, o, from, to, cursor, completed, total, now)
          PROVE  Goal
      <3>1. UNCHANGED gen /\ job[i].state = "running"
        BY <2>1 DEF CheckpointJob
      <3>2. job'[k] = job[k]
        BY <1>0, <2>1, <3>1 DEF CheckpointJob, TypeOK
      <3> QED
        BY <3>1, <3>2
    <2>2. CASE HeartbeatJob(i, o, now)
      BY <1>0, <2>2 DEF HeartbeatJob, TypeOK, JobRows
    <2>3. CASE PauseJob(i, o, now) \/ ResumeJob(i, o, now)
      BY <1>0, <2>3 DEF PauseJob, ResumeJob, TransitionState, TypeOK
    <2>4. CASE RequestCancel(i, o, now)
      BY <1>0, <2>4 DEF RequestCancel, TypeOK
    <2> QED
      BY <1>4, <2>1, <2>2, <2>3, <2>4 DEF Managing
  <1>5. ASSUME NEW now \in Times, NEW i \in Runs, NEW o \in Owners,
               Ending(i, o, now)
        PROVE  Goal
    <2>1. CASE AcknowledgeCancel(i, o, now) \/ FailJob(i, o, now)
      <3>1. job'[k].cancel
        BY <1>0, <2>1 DEF AcknowledgeCancel, FailJob, TypeOK, JobRows
      <3>2. CloseGeneration(i, "cancelled") \/ CloseGeneration(i, "failed")
        BY <2>1 DEF AcknowledgeCancel, FailJob
      <3>3. gen[k].status = "staging" => gen'[k].status # "ready"
        BY <1>0, <3>2 DEF CloseGeneration, TypeOK, GenRows
      <3> QED
        BY <3>1, <3>3
    <2>2. CASE CompleteJob(i, o, now)
      BY <1>0, <2>2 DEF CompleteJob, LeaseHeld, TypeOK, JobRows
    <2>3. CASE \E staleBefore \in Times : RecoverStaleJob(i, o, staleBefore, now)
      BY <1>0, <2>3 DEF RecoverStaleJob, TypeOK, JobRows
    <2>4. ASSUME NEW retain \in 0..MaxCleanup, CleanupGenerations(i, o, retain, now)
          PROVE  Goal
      <3>1. job'[k].cancel
        BY <1>0, <2>4 DEF CleanupGenerations, TypeOK, JobRows
      <3>2. gen'[k] = gen[k] \/ gen'[k] = [gen[k] EXCEPT !.status = "deleted"]
        BY <2>4 DEF CleanupGenerations
      <3> QED
        BY <1>0, <3>1, <3>2 DEF GenRows
    <2> QED
      BY <1>5, <2>1, <2>2, <2>3, <2>4 DEF Ending
  <1> QED
    BY <1>1, <1>2, <1>3, <1>4, <1>5 DEF Next

\* A requested cancellation survives recovery, pauses, resumes and checkpoints,
\* and the generation it was requested for is not published afterwards.
THEOREM CancellationIsFinal == Spec => CancellationSticks
  BY SpecInv, CancelStep, PTL DEF Spec, CancellationSticks

-----------------------------------------------------------------------------
(***************************************************************************)
(* The store implements the abstract catalog of ReadyCatalog.              *)
(***************************************************************************)
Current == [r \in Repos |-> repo[r].source]
OnShow  == [r \in Repos |-> Shown(r)]

\* The empty store shows no catalog.
LEMMA CatalogInit == Init => Catalog!Init
  BY DEF Init, Catalog!Init, Catalog!Nothing, Shown

\* Only publication changes what a repository shows; only an inventory changes
\* what it is compared with.
LEMMA OtherStepsHide ==
    ASSUME Inv, UNCHANGED repo,
           \A k \in Runs : gen[k].status = "ready" =>
                              /\ gen'[k].source = gen[k].source
                              /\ gen'[k].content = gen[k].content
    PROVE  UNCHANGED <<Current, OnShow>>
  <1>1. \A q \in Repos : repo[q].ready # NoRun =>
            /\ repo[q].ready \in Runs
            /\ gen[repo[q].ready].status = "ready"
    BY PointerIsReady DEF Inv, TypeOK, RepoRows
  <1>2. \A q \in Repos : Shown(q)' = Shown(q)
    BY <1>1 DEF Shown
  <1> QED
    BY <1>2 DEF Current, OnShow

\* Every step of the store is a step of the catalog or is invisible in it.
LEMMA CatalogStep ==
    Inv /\ [Next]_vars => [Catalog!Next]_<<Current, OnShow>>
  <1> SUFFICES ASSUME Inv, [Next]_vars
               PROVE  Catalog!Next \/ UNCHANGED <<Current, OnShow>>
    OBVIOUS
  <1> DEFINE Goal == Catalog!Next \/ UNCHANGED <<Current, OnShow>>
             Hidden == /\ UNCHANGED repo
                       /\ \A k \in Runs : gen[k].status = "ready" =>
                              /\ gen'[k].source = gen[k].source
                              /\ gen'[k].content = gen[k].content
  <1>0. TypeOK
    BY DEF Inv
  <1>1. CASE UNCHANGED vars
    BY <1>1, OtherStepsHide DEF vars
  <1>2. ASSUME NEW now \in Times, NEW r \in Repos, NEW src \in Sources,
               RegisterInventory(r, src, now)
        PROVE  Goal
    <2>1. UNCHANGED gen /\ \A q \in Repos : repo'[q].ready = repo[q].ready
      BY <1>0, <1>2 DEF RegisterInventory, TypeOK, RepoRows
    <2>2. \A q \in Repos : Shown(q)' = Shown(q)
      BY <2>1 DEF Shown
    <2>3. \A q \in Repos : repo'[q].source = IF q = r THEN src ELSE repo[q].source
      BY <1>0, <1>2 DEF RegisterInventory, TypeOK, RepoRows
    <2>4. Catalog!Inventory(r, src)
      BY <2>2, <2>3 DEF Catalog!Inventory
    <2> QED
      BY <2>4 DEF Catalog!Next
  <1>3. ASSUME NEW now \in Times, NEW r \in Repos, NEW src \in Sources,
               NEW i \in Runs, NEW o \in Owners, NEW cfg \in Configs,
               NEW total \in 0..MaxUnits,
               StartJob(i, r, o, src, cfg, total, now)
        PROVE  Goal
    <2>1. gen[i].status = "unused"
      BY <1>3 DEF Inv, RowsInsertedTogether, StartJob
    <2>2. Hidden
      BY <1>0, <1>3, <2>1 DEF StartJob, TypeOK
    <2> QED
      BY <2>2, OtherStepsHide
  <1>4. ASSUME NEW i \in Runs, NEW o \in Owners, Staging(i, o)
        PROVE  Goal
    <2>1. Hidden
      BY <1>0, <1>4
      DEF Staging, StageRows, StageCoverage, CloneRows, DiscardNoOp, TypeOK
    <2> QED
      BY <2>1, OtherStepsHide
  <1>5. ASSUME NEW now \in Times, NEW i \in Runs, NEW o \in Owners,
               Working(i, o, now), ~PublishGeneration(i, o, now)
        PROVE  Goal
    <2>1. Hidden
      BY <1>0, <1>5
      DEF Working, FinishInventory, FinishParse, LinkGeneration,
          DeriveTemplateCandidates, FinalizeSynthesisCatalog, AdvanceStage,
          ValidateGenerationForPublication, TypeOK
    <2> QED
      BY <2>1, OtherStepsHide
  <1>6. ASSUME NEW now \in Times, NEW i \in Runs, NEW o \in Owners,
               PublishGeneration(i, o, now)
        PROVE  Goal
    <2>1. gen[i].status = "staging" /\ gen[i].content \in ValidContents
      BY <1>6 DEF PublishGeneration, ReceiptHolds
    <2>2. gen[i].repo \in Repos /\ gen[i].source \in Sources
      BY <2>1 DEF Inv, RowsInsertedTogether
    <2>r. PICK r \in Repos : r = gen[i].repo
      BY <2>2
    <2>c. PICK catalog : catalog = [run |-> i, source |-> gen[i].source,
                                    content |-> gen[i].content]
      OBVIOUS
    <2>3. catalog \in Catalog!Catalogs
      BY <2>1, <2>2, <2>c DEF Catalog!Catalogs
    <2>4. catalog.run # Shown(r).run
      BY <2>1, <2>c, PointerIsReady, NoRunIsNoRun DEF Shown, NoRun, Inv
    <2>5. repo[r].source = gen[i].source
      BY <1>6, <2>r DEF PublishGeneration, SourceIsCurrent
    <2>6. /\ repo'[r].ready = i
          /\ \A q \in Repos \ {r} : repo'[q].ready = repo[q].ready
          /\ \A q \in Repos : repo'[q].source = repo[q].source
      BY <1>0, <1>6, <2>r DEF PublishGeneration, TypeOK, RepoRows
    <2>7. \A k \in Runs : /\ gen'[k].source = gen[k].source
                          /\ gen'[k].content = gen[k].content
      <3> TAKE k \in Runs
      <3>1. \/ gen'[k] = gen[k]
            \/ gen'[k] = [gen[k] EXCEPT !.status = "ready"]
            \/ gen'[k] = [gen[k] EXCEPT !.status = "superseded"]
        BY <1>6 DEF PublishGeneration
      <3>2. gen[k] \in GenRows
        BY <1>0 DEF TypeOK
      <3> QED
        BY <3>1, <3>2 DEF GenRows
    <2>8. \A q \in Repos \ {r} : Shown(q)' = Shown(q)
      <3> TAKE q \in Repos \ {r}
      <3>1. repo[q].ready = NoRun \/ repo[q].ready \in Runs
        BY <1>0 DEF TypeOK, RepoRows
      <3> QED
        BY <2>6, <2>7, <3>1 DEF Shown
    <2>9. Shown(r)' = catalog
      BY <2>6, <2>7, <2>c, NoRunIsNoRun DEF Shown
    <2>10. Catalog!Publish(r, catalog)
      <3>1. catalog.source = repo[r].source
        BY <2>5, <2>c
      <3>2. [q \in Repos |-> Shown(q)]' = [[q \in Repos |-> Shown(q)]
                                             EXCEPT ![r] = catalog]
        BY <2>8, <2>9
      <3>3. UNCHANGED [q \in Repos |-> repo[q].source]
        BY <2>6
      <3> QED
        BY <2>4, <3>1, <3>2, <3>3 DEF Catalog!Publish
    <2> QED
      BY <2>3, <2>10 DEF Catalog!Next
  <1>7. ASSUME NEW now \in Times, NEW i \in Runs, NEW o \in Owners,
               Managing(i, o, now)
        PROVE  Goal
    <2>1. ASSUME NEW from, NEW to, NEW cursor, NEW completed, NEW total,
                 CheckpointJob(i, o, from, to, cursor, completed, total, now)
          PROVE  Hidden
      BY <2>1 DEF CheckpointJob
    <2>2. Hidden
      BY <1>7, <2>1 DEF Managing, HeartbeatJob, PauseJob, ResumeJob,
                        TransitionState, RequestCancel
    <2> QED
      BY <2>2, OtherStepsHide
  <1>8. ASSUME NEW now \in Times, NEW i \in Runs, NEW o \in Owners,
               Ending(i, o, now)
        PROVE  Goal
    <2>1. CASE AcknowledgeCancel(i, o, now) \/ FailJob(i, o, now)
      <3>1. UNCHANGED repo /\ \E outcome \in GenerationStatuses : CloseGeneration(i, outcome)
        BY <2>1, Names DEF AcknowledgeCancel, FailJob
      <3>2. Hidden
        BY <1>0, <3>1 DEF CloseGeneration, TypeOK, GenRows
      <3> QED
        BY <3>2, OtherStepsHide
    <2>2. CASE \/ CompleteJob(i, o, now)
               \/ \E staleBefore \in Times : RecoverStaleJob(i, o, staleBefore, now)
      BY <2>2, OtherStepsHide DEF CompleteJob, RecoverStaleJob
    <2>3. ASSUME NEW retain \in 0..MaxCleanup, CleanupGenerations(i, o, retain, now)
          PROVE  Goal
      <3>1. \A k \in Runs : gen'[k] = gen[k]
                            \/ gen'[k] = [gen[k] EXCEPT !.status = "deleted"]
        BY <2>3 DEF CleanupGenerations
      <3>2. Hidden
        BY <1>0, <2>3, <3>1 DEF CleanupGenerations, TypeOK, GenRows
      <3> QED
        BY <3>2, OtherStepsHide
    <2> QED
      BY <1>8, <2>1, <2>2, <2>3 DEF Ending
  <1> QED
    BY <1>1, <1>2, <1>3, <1>4, <1>5, <1>6, <1>7, <1>8 DEF Next, Starting

\* Whatever the clients do, readers see whole validated catalogs, replaced in
\* one step by a catalog of the repository's current source, never withdrawn.
THEOREM Refinement == Spec => ImplementsCatalog
  BY SpecInv, CatalogInit, CatalogStep, PTL
  DEF Spec, ImplementsCatalog, Catalog!Spec, Current, OnShow

-----------------------------------------------------------------------------
(***************************************************************************)
(* What cleanup leaves.  CleanupKeepsNewest counts generations, so it      *)
(* needs that only finitely many have been created; then a set of them has *)
(* a newest and an oldest member.                                          *)
(***************************************************************************)
Used == {k \in Runs : gen[k].status # "unused"}

\* A step creates at most one generation.
LEMMA UsedStep ==
    ASSUME Inv, Next
    PROVE  \E i \in Runs \cup {NoRun} : Used' \subseteq Used \cup {i}
  <1> DEFINE Goal == \E i \in Runs \cup {NoRun} : Used' \subseteq Used \cup {i}
  <1> SUFFICES Goal
    OBVIOUS
  <1>0. TypeOK
    BY DEF Inv
  <1>1. ASSUME NEW i \in Runs,
               \A k \in Runs \ {i} : gen'[k].status = "unused" <=> gen[k].status = "unused"
        PROVE  Goal
    BY <1>1 DEF Used
  <1>2. UNCHANGED gen => Goal
    BY DEF Used
  <1>3. ASSUME NEW i \in Runs, NEW g, gen' = [gen EXCEPT ![i] = g] PROVE Goal
    BY <1>0, <1>1, <1>3 DEF TypeOK
  <1>4. ASSUME NEW now \in Times, Starting(now) PROVE Goal
    <2>1. CASE \E r \in Repos, src \in Sources : RegisterInventory(r, src, now)
      BY <1>2, <1>4, <2>1 DEF RegisterInventory
    <2>2. ASSUME NEW r \in Repos, NEW src \in Sources, NEW i \in Runs, NEW o \in Owners,
                 NEW cfg \in Configs, NEW total \in 0..MaxUnits,
                 StartJob(i, r, o, src, cfg, total, now)
          PROVE  Goal
      <3>1. \E g : gen' = [gen EXCEPT ![i] = g]
        BY <2>2 DEF StartJob
      <3> QED
        BY <1>3, <3>1
    <2> QED
      BY <1>4, <2>1, <2>2 DEF Starting
  <1>5. ASSUME NEW now \in Times, NEW i \in Runs, NEW o \in Owners, Staging(i, o)
        PROVE  Goal
    <2>1. \E g : gen' = [gen EXCEPT ![i] = g]
      BY <1>5 DEF Staging, StageRows, StageCoverage, CloneRows, DiscardNoOp
    <2> QED
      BY <1>3, <2>1
  <1>6. ASSUME NEW now \in Times, NEW i \in Runs, NEW o \in Owners, Working(i, o, now)
        PROVE  Goal
    <2>1. CASE PublishGeneration(i, o, now)
      <3>1. \A k \in Runs \ {i} :
                gen'[k] = gen[k] \/ (k = repo[gen[i].repo].ready
                                     /\ gen'[k] = [gen[k] EXCEPT !.status = "superseded"])
        BY <2>1 DEF PublishGeneration
      <3>2. gen[i].repo \in Repos
        BY <2>1 DEF Inv, RowsInsertedTogether, PublishGeneration
      <3>3. \A k \in Runs : repo[gen[i].repo].ready = k => gen[k].status = "ready"
        BY <3>2, PointerIsReady DEF Inv
      <3>4. ASSUME NEW k \in Runs \ {i}
            PROVE  gen'[k].status = "unused" <=> gen[k].status = "unused"
        <4>1. gen[k] \in GenRows
          BY <1>0 DEF TypeOK
        <4> QED
          BY <3>1, <3>3, <4>1 DEF GenRows
      <3> QED
        BY <1>1, <3>4
    <2>2. CASE ~PublishGeneration(i, o, now)
      <3>1. UNCHANGED gen \/ \E g : gen' = [gen EXCEPT ![i] = g]
        BY <1>6, <2>2 DEF Working, FinishInventory, FinishParse, LinkGeneration,
           DeriveTemplateCandidates, FinalizeSynthesisCatalog, AdvanceStage,
           ValidateGenerationForPublication
      <3> QED
        BY <1>2, <1>3, <3>1
    <2> QED
      BY <2>1, <2>2
  <1>7. ASSUME NEW now \in Times, NEW i \in Runs, NEW o \in Owners, Managing(i, o, now)
        PROVE  Goal
    <2>1. ASSUME NEW from, NEW to, NEW cursor, NEW completed, NEW total,
                 CheckpointJob(i, o, from, to, cursor, completed, total, now)
          PROVE  UNCHANGED gen
      BY <2>1 DEF CheckpointJob
    <2>2. CASE \/ HeartbeatJob(i, o, now) \/ PauseJob(i, o, now)
               \/ ResumeJob(i, o, now) \/ RequestCancel(i, o, now)
      BY <1>2, <2>2 DEF HeartbeatJob, PauseJob, ResumeJob, TransitionState, RequestCancel
    <2> QED
      BY <1>2, <1>7, <2>1, <2>2 DEF Managing
  <1>8. ASSUME NEW now \in Times, NEW i \in Runs, NEW o \in Owners, Ending(i, o, now)
        PROVE  Goal
    <2>1. ASSUME NEW retain \in 0..MaxCleanup, CleanupGenerations(i, o, retain, now)
          PROVE  Goal
      <3>1. \A k \in CleanupBatch(i, o, retain) : gen[k].status # "unused"
        BY DEF CleanupBatch, CleanupCandidates, Removable
      <3>2. ASSUME NEW k \in Runs
            PROVE  gen'[k].status = "unused" <=> gen[k].status = "unused"
        <4>1. gen[k] \in GenRows
          BY <1>0 DEF TypeOK
        <4>2. gen'[k] = IF k \in CleanupBatch(i, o, retain)
                        THEN [gen[k] EXCEPT !.status = "deleted"] ELSE gen[k]
          BY <2>1 DEF CleanupGenerations
        <4> QED
          BY <3>1, <4>1, <4>2 DEF GenRows
      <3> QED
        BY <1>1, <3>2
    <2>2. CASE ~\E retain \in 0..MaxCleanup : CleanupGenerations(i, o, retain, now)
      <3>1. UNCHANGED gen \/ \E g : gen' = [gen EXCEPT ![i] = g]
        BY <1>8, <2>2 DEF Ending, AcknowledgeCancel, FailJob, CompleteJob, RecoverStaleJob,
           CloseGeneration
      <3> QED
        BY <1>2, <1>3, <3>1
    <2> QED
      BY <2>1, <2>2
  <1> QED
    BY <1>4, <1>5, <1>6, <1>7, <1>8 DEF Next

\* Only finitely many generations have been created.
LEMMA UsedFinite == Spec => []IsFiniteSet(Used)
  <1>1. Init => IsFiniteSet(Used)
    <2> SUFFICES ASSUME Init PROVE IsFiniteSet(Used)
      OBVIOUS
    <2>1. Used = {}
      BY DEF Init, Used
    <2> QED
      BY <2>1, FS_EmptySet
  <1>2. Inv /\ IsFiniteSet(Used) /\ [Next]_vars => IsFiniteSet(Used)'
    <2> SUFFICES ASSUME Inv, IsFiniteSet(Used), [Next]_vars PROVE IsFiniteSet(Used')
      OBVIOUS
    <2>1. CASE UNCHANGED vars
      BY <2>1 DEF vars, Used
    <2>2. CASE Next
      <3>1. PICK i \in Runs \cup {NoRun} : Used' \subseteq Used \cup {i}
        BY <2>2, UsedStep
      <3>2. IsFiniteSet(Used \cup {i})
        BY FS_AddElement
      <3> QED
        BY <3>1, <3>2, FS_Subset
    <2> QED
      BY <2>1, <2>2
  <1> QED
    BY <1>1, <1>2, SpecInv, PTL DEF Spec

\* Ids break the ties of the creation time: the order is total.
LEMMA NewerIsOrder ==
    ASSUME TypeOK
    PROVE  /\ \A k \in Runs : ~Newer(k, k)
           /\ \A k, m \in Runs : k = m \/ Newer(k, m) \/ Newer(m, k)
           /\ \A k, m, n \in Runs : Newer(k, m) /\ Newer(m, n) => Newer(k, n)
  <1>1. \A k \in Runs : gen[k].created \in Nat /\ k \in Nat
    BY RunsAssumption, TimesAssumption DEF TypeOK, GenRows
  <1>2. \A k, m \in Runs : Newer(k, m) <=> \/ gen[k].created > gen[m].created
                                           \/ gen[k].created = gen[m].created /\ k > m
    BY DEF Newer
  <1> QED
    BY <1>1, <1>2

\* A finite set of generations has a newest and an oldest member.
LEMMA ExtremeGenerations ==
    ASSUME TypeOK, NEW T, T \subseteq Runs, IsFiniteSet(T), T # {}
    PROVE  /\ \E m \in T : \A k \in T : ~Newer(k, m)
           /\ \E m \in T : \A k \in T : ~Newer(m, k)
  <1> DEFINE less == StrictSubsetOrdering(T)
  <1>0. /\ \A k \in T : ~Newer(k, k)
        /\ \A k, m, n \in T : Newer(k, m) /\ Newer(m, n) => Newer(k, n)
    BY NewerIsOrder
  <1>w. \A U : U \subseteq FiniteSubsetsOf(T) /\ U # {} =>
                   \E x \in U : \A y \in U : <<y, x>> \notin less
    BY FS_StrictSubsetOrderingWellFounded, WFMin
  <1>l. \A A, B \in SUBSET T : A \subseteq B /\ A # B => <<A, B>> \in less
    BY DEF StrictSubsetOrdering
  <1>f. \A A \in SUBSET T : A \in FiniteSubsetsOf(T)
    BY FS_Subset DEF FiniteSubsetsOf
  <1> HIDE DEF less
  <1>1. \E m \in T : \A k \in T : ~Newer(k, m)
    <2> DEFINE Above(k) == {x \in T : Newer(x, k)}
               U == {Above(k) : k \in T}
    <2>1. PICK M \in U : \A y \in U : <<y, M>> \notin less
      <3>1. U \subseteq FiniteSubsetsOf(T) /\ U # {}
        BY <1>f
      <3> QED
        BY <1>w, <3>1
    <2>2. PICK m \in T : M = Above(m)
      OBVIOUS
    <2>3. ASSUME NEW k \in T, Newer(k, m) PROVE FALSE
      <3>1. Above(k) \subseteq Above(m) /\ k \in Above(m) /\ k \notin Above(k)
        BY <1>0, <2>3
      <3>2. Above(k) \in U /\ Above(k) \in SUBSET T /\ Above(m) \in SUBSET T
        OBVIOUS
      <3> QED
        BY <1>l, <2>1, <2>2, <3>1, <3>2
    <2> QED
      BY <2>3
  <1>2. \E m \in T : \A k \in T : ~Newer(m, k)
    <2> DEFINE Below(k) == {x \in T : Newer(k, x)}
               U == {Below(k) : k \in T}
    <2>1. PICK M \in U : \A y \in U : <<y, M>> \notin less
      <3>1. U \subseteq FiniteSubsetsOf(T) /\ U # {}
        BY <1>f
      <3> QED
        BY <1>w, <3>1
    <2>2. PICK m \in T : M = Below(m)
      OBVIOUS
    <2>3. ASSUME NEW k \in T, Newer(m, k) PROVE FALSE
      <3>1. Below(k) \subseteq Below(m) /\ k \in Below(m) /\ k \notin Below(k)
        BY <1>0, <2>3
      <3>2. Below(k) \in U /\ Below(k) \in SUBSET T /\ Below(m) \in SUBSET T
        OBVIOUS
      <3> QED
        BY <1>l, <2>1, <2>2, <3>1, <3>2
    <2> QED
      BY <2>3
  <1> QED
    BY <1>1, <1>2

\* The superseded generations a cleanup call would leave are the newest.
LEMMA CleanupLeavesNewest ==
    ASSUME TypeOK, IsFiniteSet(Used)
    PROVE  CleanupKeepsNewest
  <1> SUFFICES ASSUME NEW i \in Runs, NEW o \in Owners, NEW retain \in 0..MaxCleanup,
                      repo[gen[i].repo].ready = i
               PROVE  LET r     == gen[i].repo
                          gone  == CleanupBatch(i, o, retain) \cap Superseded(r)
                          kept  == Superseded(r) \ gone
                          whole == CleanupBatch(i, o, retain)
                                       = CleanupCandidates(i, o, retain)
                      IN  /\ \A k \in kept, m \in gone : Newer(k, m)
                          /\ gone # {} => Cardinality(kept) >= retain
                          /\ whole => Cardinality(kept) <= retain
    BY DEF CleanupKeepsNewest
  <1> DEFINE r     == gen[i].repo
             S     == Superseded(r)
             all   == CleanupCandidates(i, o, retain)
             batch == CleanupBatch(i, o, retain)
             gone  == batch \cap S
             kept  == S \ gone
             Above(k) == {m \in S : Newer(m, k)}
             Older(k) == {m \in all : Newer(k, m)}
  <1>0. /\ \A k \in Runs : ~Newer(k, k)
        /\ \A k, m \in Runs : k = m \/ Newer(k, m) \/ Newer(m, k)
        /\ \A k, m, n \in Runs : Newer(k, m) /\ Newer(m, n) => Newer(k, n)
    BY NewerIsOrder
  <1>1. /\ S \subseteq Runs /\ S \subseteq Used /\ all \subseteq Runs /\ all \subseteq Used
        /\ retain \in Nat /\ MaxCleanup \in Nat
    BY BoundsAssumption DEF Superseded, Removable, Used, CleanupCandidates
  <1>2. /\ IsFiniteSet(S) /\ IsFiniteSet(all)
        /\ \A T : T \subseteq S => IsFiniteSet(T) /\ Cardinality(T) \in Nat
        /\ \A T : T \subseteq all => IsFiniteSet(T) /\ Cardinality(T) \in Nat
    BY <1>1, FS_Subset, FS_CardinalityType
  <1>3. \A k \in S : k \in all <=> Cardinality(Above(k)) >= retain
    <2> SUFFICES ASSUME NEW k \in S PROVE k \in all <=> Cardinality(Above(k)) >= retain
      OBVIOUS
    <2>1. {m \in Removable(r) : gen[m].status = gen[k].status /\ Newer(m, k)} = Above(k)
      BY DEF Superseded
    <2>2. StatusRank(r, k) = 1 + Cardinality(Above(k)) /\ Cardinality(Above(k)) \in Nat
      BY <1>2, <2>1 DEF StatusRank
    <2>3. k \in Removable(r) /\ gen[k].status = "superseded"
      BY DEF Superseded
    <2>4. k \in all <=> StatusRank(r, k) > retain
      BY <2>3 DEF CleanupCandidates
    <2> QED
      BY <1>1, <2>2, <2>4
  <1>4. \A k \in all : k \in batch <=> Cardinality(Older(k)) < MaxCleanup
    BY DEF CleanupBatch
  <1>5. batch \subseteq all
    BY DEF CleanupBatch
  <1> HIDE DEF S, all, batch
  <1>6. ASSUME NEW k \in kept, NEW m \in gone PROVE Newer(k, m)
    <2>1. k \in S /\ m \in S /\ m \in all /\ m \in batch /\ k # m /\ k \notin batch
      BY <1>5
    <2>2. SUFFICES ASSUME Newer(m, k) PROVE FALSE
      BY <1>0, <1>1, <2>1
    <2>3. Above(m) \subseteq Above(k)
      BY <1>0, <1>1, <2>1, <2>2
    <2>4. Cardinality(Above(m)) <= Cardinality(Above(k))
      BY <1>2, <2>3, FS_Subset
    <2>5. k \in all
      BY <1>1, <1>2, <1>3, <2>1, <2>4
    <2>6. Older(k) \subseteq Older(m)
      BY <1>0, <1>1, <2>1, <2>2, <2>5
    <2>7. Cardinality(Older(k)) <= Cardinality(Older(m))
      BY <1>2, <2>6, FS_Subset
    <2>8. Cardinality(Older(k)) \in Nat /\ Cardinality(Older(m)) \in Nat
      BY <1>2
    <2> QED
      BY <1>1, <1>4, <2>1, <2>5, <2>7, <2>8
  <1>7. ASSUME gone # {} PROVE Cardinality(kept) >= retain
    <2>1. gone \subseteq Runs /\ IsFiniteSet(gone)
      BY <1>1, <1>2
    <2>2. PICK m \in gone : \A k \in gone : ~Newer(k, m)
      BY <1>7, <2>1, ExtremeGenerations
    <2>3. Above(m) \subseteq kept
      BY <2>2
    <2>4. Cardinality(Above(m)) <= Cardinality(kept)
      BY <1>2, <2>3, FS_Subset
    <2>5. Cardinality(Above(m)) >= retain
      BY <1>3, <1>5
    <2> QED
      BY <1>1, <1>2, <2>4, <2>5
  <1>8. ASSUME batch = all PROVE Cardinality(kept) <= retain
    <2>1. CASE kept = {}
      BY <1>1, <2>1, FS_EmptySet
    <2>2. CASE kept # {}
      <3>1. kept \subseteq Runs /\ IsFiniteSet(kept)
        BY <1>1, <1>2
      <3>2. PICK m \in kept : \A k \in kept : ~Newer(m, k)
        BY <2>2, <3>1, ExtremeGenerations
      <3>3. kept \subseteq Above(m) \cup {m}
        BY <1>0, <1>1, <3>2
      <3>4. m \notin all
        BY <1>8, <3>2
      <3>5. Cardinality(Above(m)) \in Nat /\ Cardinality(Above(m)) < retain
        BY <1>1, <1>2, <1>3, <3>2, <3>4
      <3>6. IsFiniteSet(Above(m) \cup {m}) /\ Cardinality(Above(m) \cup {m}) <= Cardinality(Above(m)) + 1
        <4>1. IsFiniteSet(Above(m))
          BY <1>2
        <4> HIDE DEF Above
        <4>2. /\ IsFiniteSet(Above(m) \cup {m})
              /\ \/ Cardinality(Above(m) \cup {m}) = Cardinality(Above(m)) + 1
                 \/ Cardinality(Above(m) \cup {m}) = Cardinality(Above(m))
          BY <4>1, FS_AddElement
        <4> QED
          BY <3>5, <4>2
      <3>7. Cardinality(kept) <= Cardinality(Above(m) \cup {m})
        BY <3>3, <3>6, FS_Subset
      <3>8. Cardinality(kept) \in Nat /\ Cardinality(Above(m) \cup {m}) \in Nat
        BY <3>1, <3>6, FS_CardinalityType
      <3> QED
        BY <1>1, <3>5, <3>6, <3>7, <3>8
    <2> QED
      BY <2>1, <2>2
  <1> QED
    BY <1>6, <1>7, <1>8 DEF S, all, batch

\* Whatever bound cleanup_generations is called with, the superseded
\* generations it leaves are the newest, and as many as the caller retains.
THEOREM CleanupIsByAge == Spec => []CleanupKeepsNewest
  <1>1. TypeOK /\ IsFiniteSet(Used) => CleanupKeepsNewest
    BY CleanupLeavesNewest
  <1> QED
    BY <1>1, TypeCorrect, UsedFinite, PTL
=============================================================================
