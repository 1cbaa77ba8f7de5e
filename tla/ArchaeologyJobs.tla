-------------------------- MODULE ArchaeologyJobs --------------------------
(***************************************************************************)
(* The durable job store of business-rule archaeology                      *)
(* (crates/codevetter-core/src/commands/business_rule_archaeology/jobs.rs) *)
(* over the SQLite tables archaeology_repositories, archaeology_generations *)
(* and archaeology_jobs.                                                   *)
(*                                                                         *)
(* Every SQLite transaction of the store is one action, because SQLite     *)
(* serialises them.  Any client may call any operation at any time, under  *)
(* any owner identity and with any clock reading: what holds here holds    *)
(* however the commands, their workers and their crashes interleave.  The  *)
(* commands themselves are in ArchaeologyRefresh.                          *)
(*                                                                         *)
(* A refresh mints a job id and a generation id together and start_job     *)
(* inserts both rows in one transaction, so one "run" indexes both:        *)
(* job[i] is run i's row of archaeology_jobs, gen[i] its row of            *)
(* archaeology_generations.  A NULL archaeology_jobs.generation_id is      *)
(* gen[i].status = "deleted" (ON DELETE SET NULL).                         *)
(***************************************************************************)
EXTENDS Integers, FiniteSets

CONSTANTS
    Repos,          \* repositories
    Runs,           \* run numbers; the numeric order is that of generation ids
    Owners,         \* owner identities, one minted per refresh
    Null,           \* column of a row that has not been inserted
    Sources,        \* what an inventory saw: (revision_sha, source_identity)
    Configs,        \* (parser, algorithm, config) identities
    Contents,       \* what the rows staged for a generation may be
    NoRows,         \* a generation for which nothing is staged yet
    ValidContents,  \* the contents validate_integrity accepts
    Cursors,        \* checkpoint identities a generic checkpoint may carry
    Times,          \* clock readings
    MaxUnits,       \* bound on completed_units and total_units
    MaxCleanup      \* MAX_CLEANUP_GENERATIONS

ASSUME RunsAssumption == Runs \subseteq Nat \ {0}
ASSUME NullAssumption == Null \notin Owners \cup Repos \cup Sources \cup Configs
ASSUME ContentsAssumption == ValidContents \subseteq Contents /\ NoRows \in Contents
ASSUME TimesAssumption == Times \subseteq Nat /\ 0 \in Times
ASSUME BoundsAssumption == MaxUnits \in Nat /\ MaxCleanup \in Nat \ {0}

VARIABLES
    repo,   \* archaeology_repositories
    gen,    \* archaeology_generations
    job     \* archaeology_jobs

vars == <<repo, gen, job>>

NoRun   == 0     \* ready_generation_id IS NULL
NoTotal == -1    \* total_units IS NULL

ActiveStates   == {"running", "paused", "cancelling"}
TerminalStates == {"completed", "failed", "cancelled"}
JobStates      == ActiveStates \cup TerminalStates \cup {"unused", "deleted"}

Stages == {"inventory", "parse", "link", "derive", "synthesize", "validate",
           "publish", "cleanup"}

GenerationStatuses == {"unused", "staging", "ready", "superseded", "failed",
                       "cancelled", "deleted"}

\* checkpoint_identity: none, the marker each stage leaves, the publication
\* receipt, or the token of a generic checkpoint.
CheckpointIds == {"none", "plan", "link", "derive", "catalog", "receipt"}
                     \cup Cursors

RepoRows == [registered : BOOLEAN, source : Sources \cup {Null},
             ready : Runs \cup {NoRun}, updated : Times]

GenRows == [status : GenerationStatuses, repo : Repos \cup {Null},
            source : Sources \cup {Null}, config : Configs \cup {Null},
            content : Contents, created : Times]

JobRows == [state : JobStates, stage : Stages \cup {"idle"},
            owner : Owners \cup {Null}, cancel : BOOLEAN,
            ckpt : CheckpointIds, sealed : Contents,
            completed : 0..MaxUnits, total : NoTotal..MaxUnits,
            updated : Times]

TypeOK ==
    /\ repo \in [Repos -> RepoRows]
    /\ gen \in [Runs -> GenRows]
    /\ job \in [Runs -> JobRows]

Init ==
    /\ repo = [r \in Repos |-> [registered |-> FALSE, source |-> Null,
                                ready |-> NoRun, updated |-> 0]]
    /\ gen = [i \in Runs |-> [status |-> "unused", repo |-> Null,
                              source |-> Null, config |-> Null,
                              content |-> NoRows, created |-> 0]]
    /\ job = [i \in Runs |->
                 [state |-> "unused", stage |-> "idle", owner |-> Null,
                  cancel |-> FALSE, ckpt |-> "none", sealed |-> NoRows,
                  completed |-> 0, total |-> NoTotal, updated |-> 0]]

-----------------------------------------------------------------------------
(***************************************************************************)
(* Conditions the statements share.                                        *)
(***************************************************************************)
Active(i)   == job[i].state \in ActiveStates
Terminal(i) == job[i].state \in TerminalStates

\* The partial unique indexes: one active job per repository, one staging or
\* ready generation per repository and identity.
NoActiveJob(r) == \A k \in Runs : ~(gen[k].repo = r /\ Active(k))
IdentityFree(r, src, cfg) ==
    \A k \in Runs : ~(/\ gen[k].repo = r
                      /\ gen[k].source = src
                      /\ gen[k].config = cfg
                      /\ gen[k].status \in {"staging", "ready"})

\* owner_id = ? AND state = 'running' AND cancellation_requested = 0
LeaseHeld(i, o) ==
    job[i].owner = o /\ job[i].state = "running" /\ ~job[i].cancel

\* julianday(now) >= julianday(updated_at)
Fresh(i, now) == now >= job[i].updated

\* The ready row and the ready pointer name the same generation.
IsPublished(i) == gen[i].status = "ready" /\ repo[gen[i].repo].ready = i

-----------------------------------------------------------------------------
(***************************************************************************)
(* Starting a run.                                                         *)
(***************************************************************************)

\* run_inventory_refresh records what it scanned, before and outside the
\* transaction that creates the job, with no condition on the current row.
RegisterInventory(r, src, now) ==
    /\ repo' = [repo EXCEPT ![r].registered = TRUE, ![r].source = src,
                            ![r].updated = now]
    /\ UNCHANGED <<gen, job>>

StartJob(i, r, o, src, cfg, total, now) ==
    /\ job[i].state = "unused"
    /\ repo[r].registered
    /\ NoActiveJob(r)
    /\ IdentityFree(r, src, cfg)
    /\ gen' = [gen EXCEPT ![i] = [status |-> "staging", repo |-> r,
                                  source |-> src, config |-> cfg,
                                  content |-> NoRows, created |-> now]]
    /\ job' = [job EXCEPT ![i] =
                  [state |-> "running", stage |-> "inventory", owner |-> o,
                   cancel |-> FALSE, ckpt |-> "none", sealed |-> NoRows,
                   completed |-> 0, total |-> total, updated |-> now]]
    /\ UNCHANGED repo

-----------------------------------------------------------------------------
(***************************************************************************)
(* Staging rows.                                                           *)
(***************************************************************************)

\* The inventory manifest and the parse work items: under the job's lease.
StageRows(i, o, c) ==
    /\ LeaseHeld(i, o)
    /\ gen[i].status = "staging"
    /\ gen' = [gen EXCEPT ![i].content = c]
    /\ UNCHANGED <<repo, job>>

\* run_inventory_refresh writes the generation's coverage after start_job, in a
\* statement that asks only for a staging generation.
StageCoverage(i, c) ==
    /\ gen[i].status = "staging"
    /\ gen' = [gen EXCEPT ![i].content = c]
    /\ UNCHANGED <<repo, job>>

\* clone_unaffected_ready_facts asks for a staging generation and a ready one
\* to copy from, and does not look at the job.  It asks before it opens the
\* transaction that writes, so a cancellation or a failure may come between.
\* Publication cannot: the job leaves "inventory" only after the clone.
CloneRows(i, c) ==
    /\ gen[i].status \in {"staging", "failed", "cancelled"}
    /\ repo[gen[i].repo].ready # NoRun
    /\ gen' = [gen EXCEPT ![i].content = c]
    /\ UNCHANGED <<repo, job>>

\* A refresh whose plan has nothing to do removes its job and generation.
DiscardNoOp(i, o) ==
    /\ LeaseHeld(i, o)
    /\ job[i].stage = "inventory"
    /\ gen[i].status = "staging"
    /\ repo[gen[i].repo].ready # NoRun
    /\ job' = [job EXCEPT ![i].state = "deleted", ![i].stage = "idle"]
    /\ gen' = [gen EXCEPT ![i].status = "deleted"]
    /\ UNCHANGED repo

-----------------------------------------------------------------------------
(***************************************************************************)
(* The stages.                                                             *)
(***************************************************************************)

\* Leave "inventory" for "parse", or for "link" when only synthesis changed.
\* This statement and FinishParse do not compare clocks.
FinishInventory(i, o, next, now) ==
    /\ LeaseHeld(i, o)
    /\ job[i].stage = "inventory"
    /\ job' = [job EXCEPT ![i].stage = next, ![i].ckpt = "plan",
                          ![i].updated = now]
    /\ UNCHANGED <<repo, gen>>

FinishParse(i, o, now) ==
    /\ LeaseHeld(i, o)
    /\ job[i].stage = "parse"
    /\ job' = [job EXCEPT ![i].stage = "link", ![i].updated = now]
    /\ UNCHANGED <<repo, gen>>

\* One stage transaction: rows and checkpoint change together.
AdvanceStage(i, o, from, to, mark, c, now) ==
    /\ LeaseHeld(i, o)
    /\ job[i].stage = from
    /\ Fresh(i, now)
    /\ gen[i].status = "staging"
    /\ gen' = [gen EXCEPT ![i].content = c]
    /\ job' = [job EXCEPT ![i].stage = to, ![i].ckpt = mark,
                          ![i].updated = now]
    /\ UNCHANGED repo

LinkGeneration(i, o, c, now) ==
    AdvanceStage(i, o, "link", "derive", "link", c, now)

DeriveTemplateCandidates(i, o, c, now) ==
    AdvanceStage(i, o, "derive", "synthesize", "derive", c, now)

FinalizeSynthesisCatalog(i, o, c, now) ==
    AdvanceStage(i, o, "synthesize", "validate", "catalog", c, now)

\* The receipt seals the rows as they are when they pass validation.
ValidateGenerationForPublication(i, o, now) ==
    /\ LeaseHeld(i, o)
    /\ job[i].stage = "validate"
    /\ Fresh(i, now)
    /\ gen[i].status = "staging"
    /\ gen[i].content \in ValidContents
    /\ job' = [job EXCEPT ![i].stage = "publish", ![i].ckpt = "receipt",
                          ![i].sealed = gen[i].content, ![i].updated = now]
    /\ UNCHANGED <<repo, gen>>

\* Mutated: publication trusts the stored receipt and does not recompute it.
ReceiptExists(i) ==
    /\ job[i].ckpt = "receipt"
    /\ gen[i].status \in {"staging", "ready"}
    /\ gen[i].content \in ValidContents

\* verify_validation_receipt: the stored receipt is one, the rows still
\* validate, and the receipt they give now is the stored one.
ReceiptHolds(i) ==
    /\ job[i].ckpt = "receipt"
    /\ gen[i].status \in {"staging", "ready"}
    /\ gen[i].content \in ValidContents
    /\ job[i].sealed = gen[i].content

\* Mutated: publication takes any registered source for the current one.
SourceKnown(i) == repo[gen[i].repo].source # Null

\* The revision and source identity of the repository are the generation's.
SourceIsCurrent(i) == repo[gen[i].repo].source = gen[i].source

ReadyRows(r) == {k \in Runs : gen[k].repo = r /\ gen[k].status = "ready"}

\* Swap the ready generation.  A repeated publication finds its own work
\* done and changes nothing, so only the first one is an action.
PublishGeneration(i, o, now) ==
    LET r     == gen[i].repo
        prior == repo[r].ready
    IN  /\ LeaseHeld(i, o)
        /\ job[i].stage = "publish"
        /\ Fresh(i, now)
        /\ ReceiptHolds(i)
        /\ gen[i].status = "staging"
        /\ ReadyRows(r) = {prior} \ {NoRun}
        /\ SourceIsCurrent(i)
        /\ now >= repo[r].updated
        /\ job' = [job EXCEPT ![i].stage = "cleanup", ![i].updated = now]
        /\ gen' = [k \in Runs |->
                      CASE k = i     -> [gen[k] EXCEPT !.status = "ready"]
                        [] k = prior -> [gen[k] EXCEPT !.status = "superseded"]
                        [] OTHER     -> gen[k]]
        /\ repo' = [repo EXCEPT ![r].ready = i, ![r].updated = now]

-----------------------------------------------------------------------------
(***************************************************************************)
(* Progress, pause and cancellation.                                       *)
(***************************************************************************)

\* Mutated: a generic checkpoint may also cross the boundary of publication.
CheckpointAnyNext ==
    {<<s, s>> : s \in Stages}
        \cup {<<"inventory", "parse">>, <<"parse", "link">>,
              <<"link", "derive">>, <<"derive", "synthesize">>,
              <<"publish", "cleanup">>}

\* Stay in a stage or advance by one; the three boundaries that need an
\* atomic transaction of their own cannot be crossed.
CheckpointMoves ==
    {<<s, s>> : s \in Stages}
        \cup {<<"inventory", "parse">>, <<"parse", "link">>,
              <<"link", "derive">>, <<"derive", "synthesize">>}

CheckpointJob(i, o, from, to, cursor, completed, total, now) ==
    LET known == IF total = NoTotal THEN job[i].total ELSE total
    IN  /\ <<from, to>> \in CheckpointMoves
        /\ job[i].owner = o
        /\ job[i].state = "running"
        /\ job[i].stage = from
        /\ job[i].completed <= completed
        /\ job[i].total = NoTotal \/ job[i].total = known
        /\ known = NoTotal \/ completed <= known
        /\ \/ from # to
           \/ job[i].completed < completed
           \/ job[i].ckpt \in {"none", cursor}
        /\ Fresh(i, now)
        /\ job' = [job EXCEPT ![i].stage = to, ![i].ckpt = cursor,
                              ![i].completed = completed, ![i].total = known,
                              ![i].updated = now]
        /\ UNCHANGED <<repo, gen>>

HeartbeatJob(i, o, now) ==
    /\ job[i].owner = o
    /\ job[i].state \in {"running", "cancelling"}
    /\ Fresh(i, now)
    /\ job' = [job EXCEPT ![i].updated = now]
    /\ UNCHANGED <<repo, gen>>

TransitionState(i, o, from, to, now) ==
    /\ job[i].owner = o
    /\ job[i].state = from
    /\ Fresh(i, now)
    /\ job' = [job EXCEPT ![i].state = to, ![i].cancel = FALSE,
                          ![i].updated = now]
    /\ UNCHANGED <<repo, gen>>

PauseJob(i, o, now)  == TransitionState(i, o, "running", "paused", now)
ResumeJob(i, o, now) == TransitionState(i, o, "paused", "running", now)

RequestCancel(i, o, now) ==
    /\ job[i].owner = o
    /\ job[i].state \in {"running", "paused"}
    /\ Fresh(i, now)
    /\ \/ gen[i].status = "staging"
       \/ gen[i].status = "ready" /\ job[i].stage = "cleanup"
    /\ job' = [job EXCEPT ![i].state = "cancelling", ![i].cancel = TRUE,
                          ![i].updated = now]
    /\ UNCHANGED <<repo, gen>>

-----------------------------------------------------------------------------
(***************************************************************************)
(* Ending a run.                                                           *)
(***************************************************************************)

\* Mutated: the outcome of the job is written to a published generation too.
CloseAnyGeneration(i, outcome) ==
    /\ gen[i].status \in {"staging", "ready"}
    /\ gen' = [gen EXCEPT ![i].status = outcome]

\* update_staging_generation: a staging generation takes the job's outcome;
\* one that is already published keeps it, and anything else is an error.
CloseGeneration(i, outcome) ==
    \/ /\ gen[i].status = "staging"
       /\ gen' = [gen EXCEPT ![i].status = outcome]
    \/ /\ IsPublished(i)
       /\ UNCHANGED gen

AcknowledgeCancel(i, o, now) ==
    /\ job[i].owner = o
    /\ job[i].state = "cancelling"
    /\ Fresh(i, now)
    /\ job' = [job EXCEPT ![i].state = "cancelled", ![i].stage = "idle",
                          ![i].updated = now]
    /\ CloseGeneration(i, "cancelled")
    /\ UNCHANGED repo

\* Mutated: the stage column takes the outcome instead of 'idle'.
FailJobInPlace(i, o, now) ==
    /\ job[i].owner = o
    /\ Active(i)
    /\ Fresh(i, now)
    /\ job' = [job EXCEPT ![i].state = "failed", ![i].stage = "failed",
                          ![i].updated = now]
    /\ CloseGeneration(i, "failed")
    /\ UNCHANGED repo

FailJob(i, o, now) ==
    /\ job[i].owner = o
    /\ Active(i)
    /\ Fresh(i, now)
    /\ job' = [job EXCEPT ![i].state = "failed", ![i].stage = "idle",
                          ![i].updated = now]
    /\ CloseGeneration(i, "failed")
    /\ UNCHANGED repo

CompleteJob(i, o, now) ==
    /\ LeaseHeld(i, o)
    /\ job[i].stage = "cleanup"
    /\ Fresh(i, now)
    /\ gen[i].status = "ready"
    /\ job' = [job EXCEPT ![i].state = "completed", ![i].stage = "idle",
                          ![i].updated = now]
    /\ UNCHANGED <<repo, gen>>

-----------------------------------------------------------------------------
(***************************************************************************)
(* Recovery of an abandoned run.                                           *)
(***************************************************************************)

\* Mutated: every recovered job is paused, one that is being cancelled too.
RecoverAsPaused(i, o, staleBefore, now) ==
    /\ Active(i)
    /\ job[i].owner # o
    /\ staleBefore <= now
    /\ job[i].updated < staleBefore
    /\ job' = [job EXCEPT ![i].owner = o, ![i].state = "paused",
                          ![i].updated = now]
    /\ UNCHANGED <<repo, gen>>

\* The new owner finds a running job paused; a pause or a cancellation in
\* progress is kept.  The read and the conditional update are two
\* statements, but the update repeats every column the decision used.
RecoverStaleJob(i, o, staleBefore, now) ==
    /\ Active(i)
    /\ job[i].owner # o
    /\ staleBefore <= now
    /\ job[i].updated < staleBefore
    /\ job' = [job EXCEPT ![i].owner = o,
                          ![i].state = IF @ = "running" THEN "paused" ELSE @,
                          ![i].updated = now]
    /\ UNCHANGED <<repo, gen>>

-----------------------------------------------------------------------------
(***************************************************************************)
(* Deleting generations nobody needs.                                      *)
(***************************************************************************)

CleanupAuthorized(i, o, now) ==
    /\ job[i].owner = o
    /\ \/ LeaseHeld(i, o) /\ job[i].stage = "cleanup"
       \/ Terminal(i) /\ job[i].stage = "idle"
    /\ Fresh(i, now)

\* Neither the ready generation nor one an active job works on.
Removable(r) ==
    {k \in Runs : /\ gen[k].repo = r
                  /\ gen[k].status \in {"staging", "failed", "cancelled",
                                        "superseded"}
                  /\ repo[r].ready # k
                  /\ ~Active(k)}

\* ORDER BY created_at, generation_id
Newer(k, m) ==
    \/ gen[k].created > gen[m].created
    \/ gen[k].created = gen[m].created /\ k > m

\* Mutated: the rank counts from zero.
StatusRankFromZero(r, k) ==
    Cardinality({m \in Removable(r) : /\ gen[m].status = gen[k].status
                                      /\ Newer(m, k)})

\* status_rank among the removable generations of the same status.
StatusRank(r, k) ==
    1 + Cardinality({m \in Removable(r) : /\ gen[m].status = gen[k].status
                                          /\ Newer(m, k)})

\* Old superseded generations go only to the run that is the ready one;
\* dead staging data only to the owner whose finished job staged it.
CleanupCandidates(i, o, retain) ==
    LET r == gen[i].repo
    IN  {k \in Removable(r) :
            \/ /\ gen[k].status = "superseded"
               /\ repo[r].ready = i
               /\ StatusRank(r, k) > retain
            \/ /\ gen[k].status \in {"staging", "failed", "cancelled"}
               /\ job[k].owner = o
               /\ Terminal(k)}

\* The oldest MaxCleanup of them; the caller repeats while more remain.
CleanupBatch(i, o, retain) ==
    LET all == CleanupCandidates(i, o, retain)
    IN  {k \in all : Cardinality({m \in all : Newer(k, m)}) < MaxCleanup}

CleanupGenerations(i, o, retain, now) ==
    /\ CleanupAuthorized(i, o, now)
    /\ retain <= MaxCleanup
    /\ gen' = [k \in Runs |->
                  IF k \in CleanupBatch(i, o, retain)
                  THEN [gen[k] EXCEPT !.status = "deleted"]
                  ELSE gen[k]]
    /\ job' = [job EXCEPT ![i].updated = now]
    /\ UNCHANGED repo

-----------------------------------------------------------------------------
Starting(now) ==
    \E r \in Repos, src \in Sources :
        \/ RegisterInventory(r, src, now)
        \/ \E i \in Runs, o \in Owners, cfg \in Configs, total \in 0..MaxUnits :
              StartJob(i, r, o, src, cfg, total, now)

Staging(i, o) ==
    \/ \E c \in Contents : \/ StageRows(i, o, c)
                        \/ StageCoverage(i, c)
                        \/ CloneRows(i, c)
    \/ DiscardNoOp(i, o)

Working(i, o, now) ==
    \/ \E next \in {"parse", "link"} : FinishInventory(i, o, next, now)
    \/ FinishParse(i, o, now)
    \/ \E c \in Contents :
          \/ LinkGeneration(i, o, c, now)
          \/ DeriveTemplateCandidates(i, o, c, now)
          \/ FinalizeSynthesisCatalog(i, o, c, now)
    \/ ValidateGenerationForPublication(i, o, now)
    \/ PublishGeneration(i, o, now)

Managing(i, o, now) ==
    \/ \E move \in CheckpointMoves, cursor \in Cursors,
          completed \in 0..MaxUnits, total \in NoTotal..MaxUnits :
          CheckpointJob(i, o, move[1], move[2], cursor, completed, total, now)
    \/ HeartbeatJob(i, o, now)
    \/ PauseJob(i, o, now)
    \/ ResumeJob(i, o, now)
    \/ RequestCancel(i, o, now)

Ending(i, o, now) ==
    \/ AcknowledgeCancel(i, o, now)
    \/ FailJob(i, o, now)
    \/ CompleteJob(i, o, now)
    \/ \E staleBefore \in Times : RecoverStaleJob(i, o, staleBefore, now)
    \/ \E retain \in 0..MaxCleanup : CleanupGenerations(i, o, retain, now)

Next ==
    \E now \in Times :
        \/ Starting(now)
        \/ \E i \in Runs, o \in Owners :
              \/ Staging(i, o)
              \/ Working(i, o, now)
              \/ Managing(i, o, now)
              \/ Ending(i, o, now)

Spec == Init /\ [][Next]_vars

-----------------------------------------------------------------------------
(***************************************************************************)
(* Properties.                                                             *)
(***************************************************************************)

\* The ready pointer of a repository and the status of its generations agree:
\* publish_generation moves the old row, the new row and the pointer together,
\* and nothing else (a failure, a cancellation, cleanup, recovery) moves one
\* of them alone.
ReadyPointerAgrees ==
    \A r \in Repos : ReadyRows(r) = {repo[r].ready} \ {NoRun}

\* A job that is still active can always be ended: its generation is staging,
\* or it is the published one and the job is past publication.  Otherwise
\* update_staging_generation would refuse acknowledge_cancel and fail_job for
\* ever and the job would block its repository.
ActiveRunsCanEnd ==
    \A i \in Runs :
        Active(i) => \/ gen[i].status = "staging" /\ job[i].stage # "cleanup"
                     \/ IsPublished(i) /\ job[i].stage = "cleanup"

\* What was published is what was validated: no write that reached the
\* generation after its receipt was sealed is ever shown, and a published
\* generation is not written again.
PublishedIsSealed ==
    \A i \in Runs :
        gen[i].status \in {"ready", "superseded"} =>
            /\ gen[i].content \in ValidContents
            /\ job[i].sealed = gen[i].content

\* A requested cancellation is not lost: neither recovery by another owner nor
\* a pause, a resume or a checkpoint forgets it, and a generation that was
\* still staging when it was requested is never published.
CancellationSticks ==
    [][\A i \in Runs :
          job[i].cancel =>
              /\ job'[i].cancel
              /\ gen[i].status = "staging" => gen'[i].status # "ready"]_vars

Superseded(r) == {k \in Removable(r) : gen[k].status = "superseded"}

\* However a cleanup call is bounded, the superseded generations it would
\* leave are the newest ones and at least as many as it was asked to retain;
\* when the bound does not cut the batch they are exactly that many.
CleanupKeepsNewest ==
    \A i \in Runs, o \in Owners, retain \in 0..MaxCleanup :
        \A now \in Times :
            CleanupAuthorized(i, o, now) /\ repo[gen[i].repo].ready = i =>
                LET r     == gen[i].repo
                    gone  == CleanupBatch(i, o, retain) \cap Superseded(r)
                    kept  == Superseded(r) \ gone
                    whole == CleanupBatch(i, o, retain)
                                 = CleanupCandidates(i, o, retain)
                IN  /\ \A k \in kept, m \in gone : Newer(k, m)
                    /\ gone # {} => Cardinality(kept) >= retain
                    /\ whole => Cardinality(kept) <= retain

Shown(r) ==
    IF repo[r].ready = NoRun
    THEN [run |-> 0, source |-> Null, content |-> Null]
    ELSE [run |-> repo[r].ready,
          source |-> gen[repo[r].ready].source,
          content |-> gen[repo[r].ready].content]

Catalog == INSTANCE ReadyCatalog
               WITH current <- [r \in Repos |-> repo[r].source],
                    shown   <- [r \in Repos |-> Shown(r)]

\* The store implements the abstract catalog: readers see whole, validated,
\* current catalogs and never a partial or a withdrawn one.
ImplementsCatalog == Catalog!Spec
=============================================================================
