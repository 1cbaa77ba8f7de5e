------------------------ MODULE ArchaeologyRefresh ------------------------
(***************************************************************************)
(* The archaeology commands over the job store: starting a refresh         *)
(* (run_inventory_refresh and prepare_incremental_refresh in jobs.rs),     *)
(* continuing it (continue_refresh in refresh_command.rs), cancelling it   *)
(* and cleaning up.                                                        *)
(*                                                                         *)
(* A command is a sequence of SQLite transactions with local state in      *)
(* between.  Each command runs on a connection of its own, so the          *)
(* transactions of any number of them interleave; each may be cut off      *)
(* between two transactions, by an error or by the end of the process.     *)
(* The transactions are the actions of ArchaeologyJobs; this module adds   *)
(* who calls them, in which order, and with which rows.                    *)
(*                                                                         *)
(* Every refresh mints its owner identity together with its run, so run i  *)
(* is owner i.  Clocks are left to ArchaeologyJobs: here every command     *)
(* reads the same time.                                                    *)
(***************************************************************************)
EXTENDS Integers, FiniteSets

CONSTANTS
    Repos, Runs, Null, Sources, Configs, MaxCleanup,  \* as in ArchaeologyJobs
    Paths,       \* source paths
    Versions,    \* contents a path may have
    Manifest,    \* [Sources -> [Paths -> Versions \cup {"absent"}]]
    ConfigOf,    \* [Sources -> Configs], the identities of the build and tree
    DependsOn,   \* pairs <<dependent, prerequisite>> the facts of both show
    Relabelled,  \* paths whose parser resolves another dialect than the
                 \* inventory stored
    Unparsable,  \* pairs <<path, version>>: contents whose parser returns an
                 \* error, the same each time
    OverBound,   \* pairs <<source, stage>>: the stage refuses what is stored
                 \* of the source, by a bound that repeating does not change
    Starters,    \* concurrent start commands
    Drivers,     \* concurrent continue commands
    Cancellers,  \* concurrent cancel commands
    MaxBatch,    \* items of one parse batch (32 in continue_refresh)
    MaxMishaps   \* bound on interruptions and pauses

ASSUME StoreAssumption ==
    /\ Runs \subseteq Nat \ {0} /\ MaxCleanup \in Nat \ {0}
    /\ Null \notin Runs \cup Repos \cup Sources \cup Configs
    /\ IsFiniteSet(Paths)
ASSUME ManifestAssumption ==
    /\ Manifest \in [Sources -> [Paths -> Versions \cup {"absent"}]]
    /\ \A src \in Sources : \E p \in Paths : Manifest[src][p] # "absent"
    /\ ConfigOf \in [Sources -> Configs]
ASSUME DependsAssumption ==
    DependsOn \subseteq Paths \X Paths /\ Relabelled \subseteq Paths
ASSUME RefusalAssumption ==
    /\ Unparsable \subseteq Paths \X Versions
    /\ OverBound \subseteq
           Sources \X {"link", "derive", "synthesize", "validate", "publish"}
ASSUME MarkersAssumption == {"absent", "pending"} \cap Versions = {}
ASSUME BatchAssumption == MaxBatch \in Nat \ {0} /\ MaxMishaps \in Nat

VARIABLES
    repo, gen, job,  \* the store
    items,           \* archaeology_refresh_work_items not completed, per run
    deps,            \* archaeology_source_dependencies, per run
    starter,         \* local state of the start commands
    driver,          \* local state of the continue commands
    canceller,       \* the run whose cancellation a cancel command is about
                     \* to acknowledge
    mishaps

store   == <<repo, gen, job>>
workers == <<starter, driver, canceller>>
vars    == <<repo, gen, job, items, deps, starter, driver, canceller, mishaps>>

-----------------------------------------------------------------------------
(***************************************************************************)
(* The rows of a generation: for each path the version whose facts are     *)
(* stored ("pending" until it is parsed or cloned), and the versions the   *)
(* rules were derived from.                                                *)
(***************************************************************************)
Facts     == [Paths -> Versions \cup {"absent", "pending"}]
NoFacts   == [p \in Paths |-> "absent"]
Rows      == [facts : Facts, rules : Facts]
EmptyRows == [facts |-> NoFacts, rules |-> NoFacts]

\* validate_integrity: there are source units, and none still carries the
\* parser id 'inventory:pending', which is outside every parser manifest.
ValidRows ==
    {c \in Rows : /\ \A p \in Paths : c.facts[p] # "pending"
                  /\ c.facts # NoFacts}

Store == INSTANCE ArchaeologyJobs
             WITH Owners <- Runs, Contents <- Rows, NoRows <- EmptyRows,
                  ValidContents <- ValidRows, Cursors <- {}, Times <- {0},
                  MaxUnits <- Cardinality(Paths)

NoRun == 0

IdleStarter == [pc |-> "idle", run |-> NoRun, repo |-> Null, src |-> Null,
                changed |-> {}, base |-> NoRun, mode |-> "none",
                invalidated |-> {}]
IdleDriver  == [pc |-> "idle", run |-> NoRun, state |-> "none",
                stage |-> "idle", todo |-> {}]

StarterPcs == {"idle", "registered", "start", "manifest", "compare", "plan",
               "discard", "clone", "copy", "queue", "checkpoint"}
DriverPcs  == {"idle", "step", "parse", "metadata", "reload"}

TypeOK ==
    /\ Store!TypeOK
    /\ items \in [Runs -> SUBSET Paths]
    /\ deps \in [Runs -> SUBSET DependsOn]
    /\ starter \in [Starters ->
          [pc : StarterPcs, run : Runs \cup {NoRun}, repo : Repos \cup {Null},
           src : Sources \cup {Null}, changed : SUBSET Paths,
           base : Runs \cup {NoRun}, mode : {"none", "scoped", "global"},
           invalidated : SUBSET Paths]]
    /\ driver \in [Drivers ->
          [pc : DriverPcs, run : Runs \cup {NoRun},
           state : Store!JobStates \cup {"none"},
           stage : Store!Stages \cup {"idle"}, todo : SUBSET Paths]]
    /\ canceller \in [Cancellers -> Runs \cup {NoRun}]
    /\ mishaps \in 0..MaxMishaps

Init ==
    /\ Store!Init
    /\ items = [i \in Runs |-> {}]
    /\ deps = [i \in Runs |-> {}]
    /\ starter = [s \in Starters |-> IdleStarter]
    /\ driver = [d \in Drivers |-> IdleDriver]
    /\ canceller = [c \in Cancellers |-> NoRun]
    /\ mishaps = 0

Present(src) == {p \in Paths : Manifest[src][p] # "absent"}
Ready(r)     == repo[r].ready

\* require_staging_generation_scope and require_active_job_scope
StagingScope(i) == gen[i].status = "staging"
ActiveScope(i)  == Store!LeaseHeld(i, i) /\ StagingScope(i)

-----------------------------------------------------------------------------
(***************************************************************************)
(* The start command.                                                      *)
(***************************************************************************)
StarterAt(s, pc) == starter[s].pc = pc
StarterGoes(s, pc) == starter' = [starter EXCEPT ![s].pc = pc]
StarterEnds(s)     == starter' = [starter EXCEPT ![s] = IdleStarter]

\* ready_head_is_exact_noop and ready_inventory_is_exact_noop: the ready
\* generation has the same head, inputs and manifest.
SameAsReady(r, src) ==
    /\ Ready(r) # NoRun
    /\ gen[Ready(r)].source = src
    /\ gen[Ready(r)].config = ConfigOf[src]

\* Scan the repository and record what was seen, unless the ready generation
\* already is that.  The identities of the run are minted first.
Scan(s, i, r, src) ==
    /\ StarterAt(s, "idle")
    /\ job[i].state = "unused"
    /\ \A t \in Starters : starter[t].run # i
    /\ ~(repo[r].source = src /\ SameAsReady(r, src))
    /\ Store!RegisterInventory(r, src, 0)
    /\ starter' = [starter EXCEPT ![s] = [IdleStarter EXCEPT
                      !.pc = "registered", !.run = i, !.repo = r, !.src = src]]
    /\ UNCHANGED <<items, deps, driver, canceller, mishaps>>

\* The second look at the ready generation, after the scan was recorded.
CheckReady(s) ==
    /\ StarterAt(s, "registered")
    /\ IF SameAsReady(starter[s].repo, starter[s].src)
       THEN StarterEnds(s)
       ELSE StarterGoes(s, "start")
    /\ UNCHANGED <<store, items, deps, driver, canceller, mishaps>>

Start(s) ==
    LET w == starter[s]
    IN  /\ StarterAt(s, "start")
        /\ Store!StartJob(w.run, w.repo, w.run, w.src, ConfigOf[w.src],
                          Cardinality(Present(w.src)), 0)
        /\ StarterGoes(s, "manifest")
        /\ UNCHANGED <<items, deps, driver, canceller, mishaps>>

\* Every path of the inventory gets a source unit that is still to be parsed.
ManifestRows(src) ==
    [facts |-> [p \in Paths |-> IF p \in Present(src) THEN "pending" ELSE "absent"],
     rules |-> NoFacts]

PersistManifest(s) ==
    LET w == starter[s]
    IN  /\ StarterAt(s, "manifest")
        /\ job[w.run].stage = "inventory"
        /\ Store!StageRows(w.run, w.run, ManifestRows(w.src))
        /\ StarterGoes(s, "compare")
        /\ UNCHANGED <<items, deps, driver, canceller, mishaps>>

\* Mutated: only added and removed paths count, not changed contents.
AddedOrRemovedPaths(src, r) ==
    IF Ready(r) = NoRun
    THEN Present(src)
    ELSE LET prior == Present(gen[Ready(r)].source)
         IN  (prior \ Present(src)) \cup (Present(src) \ prior)

\* changed_source_paths, against the manifest the ready generation's own
\* inventory stored.  A dialect the parser resolved since counts as a change.
ChangedPaths(src, r) ==
    IF Ready(r) = NoRun
    THEN Present(src)
    ELSE LET prior == gen[Ready(r)].source
         IN  {p \in Paths : \/ Manifest[src][p] # Manifest[prior][p]
                            \/ p \in Relabelled \cap Present(prior)}

\* The inputs and, there being no facts yet, no dependencies are stored; then
\* the manifests are compared.  Both ask for a staging generation.
ComparePaths(s) ==
    LET w == starter[s]
    IN  /\ StarterAt(s, "compare")
        /\ StagingScope(w.run)
        /\ deps' = [deps EXCEPT ![w.run] = {}]
        /\ starter' = [starter EXCEPT ![s].pc = "plan",
                           ![s].changed = ChangedPaths(w.src, w.repo)]
        /\ UNCHANGED <<store, items, driver, canceller, mishaps>>

\* reverse_dependency_closure: the least set of paths that has the seeds and,
\* with a prerequisite, everything that depends on it.
ReverseClosure(seeds, edges) ==
    {p \in Paths :
        \A C \in SUBSET Paths :
            /\ seeds \subseteq C
            /\ \A e \in edges : e[2] \in C => e[1] \in C
            => p \in C}

\* plan_generation_invalidation.  unresolved is what the lineage of either
\* generation says; it, no ready generation or another config rebuilds all.
PlanRefresh(s, unresolved) ==
    LET w      == starter[s]
        base   == Ready(w.repo)
        global == \/ base = NoRun
                  \/ unresolved
                  \/ gen[base].config # ConfigOf[w.src]
        noop   == ~global /\ w.changed = {}
    IN  /\ StarterAt(s, "plan")
        /\ gen[w.run].status # "deleted"
        /\ starter' = [starter EXCEPT
               ![s].base = base,
               ![s].pc   = IF noop THEN "discard" ELSE "clone",
               ![s].mode = CASE noop   -> "none"
                             [] global -> "global"
                             [] OTHER  -> "scoped",
               ![s].invalidated =
                   CASE noop   -> {}
                     [] global -> Present(w.src) \cup
                                  (IF base = NoRun THEN {}
                                   ELSE Present(gen[base].source))
                     [] OTHER  -> ReverseClosure(w.changed, deps[base])]
        /\ UNCHANGED <<store, items, deps, driver, canceller, mishaps>>

\* A commit that changed no file is discarded.
Discard(s) ==
    /\ StarterAt(s, "discard")
    /\ Store!DiscardNoOp(starter[s].run, starter[s].run)
    /\ StarterEnds(s)
    /\ UNCHANGED <<items, deps, driver, canceller, mishaps>>

\* clone_unaffected_ready_facts checks both generations and then writes, in
\* a transaction that does not check again.
CheckClone(s) ==
    LET w == starter[s]
    IN  /\ StarterAt(s, "clone")
        /\ StagingScope(w.run)
        /\ w.base # NoRun => gen[w.base].status = "ready"
        /\ StarterGoes(s, IF w.base = NoRun THEN "queue" ELSE "copy")
        /\ UNCHANGED <<store, items, deps, driver, canceller, mishaps>>

\* A path in both manifests that is not invalidated takes the old facts.
ClonedRows(mine, old, invalidated) ==
    [facts |-> [p \in Paths |->
                   IF p \in invalidated \/ "absent" \in {mine[p], old[p]}
                   THEN mine[p] ELSE old[p]],
     rules |-> NoFacts]

CloneFacts(s) ==
    LET w == starter[s]
    IN  /\ StarterAt(s, "copy")
        /\ Store!CloneRows(w.run, ClonedRows(gen[w.run].content.facts,
                                            gen[w.base].content.facts,
                                            w.invalidated))
        /\ StarterGoes(s, "queue")
        /\ UNCHANGED <<items, deps, driver, canceller, mishaps>>

\* persist_refresh_work_plan
QueueWork(s) ==
    LET w == starter[s]
    IN  /\ StarterAt(s, "queue")
        /\ ActiveScope(w.run)
        /\ items' = [items EXCEPT ![w.run] = w.invalidated]
        /\ StarterGoes(s, "checkpoint")
        /\ UNCHANGED <<store, deps, driver, canceller, mishaps>>

EnterParse(s) ==
    /\ StarterAt(s, "checkpoint")
    /\ Store!FinishInventory(starter[s].run, starter[s].run, "parse", 0)
    /\ StarterEnds(s)
    /\ UNCHANGED <<items, deps, driver, canceller, mishaps>>

StarterWork(s) ==
    \/ CheckReady(s)
    \/ Start(s)
    \/ PersistManifest(s)
    \/ ComparePaths(s)
    \/ \E unresolved \in BOOLEAN : PlanRefresh(s, unresolved)
    \/ Discard(s)
    \/ CheckClone(s)
    \/ CloneFacts(s)
    \/ QueueWork(s)
    \/ EnterParse(s)

\* A command whose next transaction is refused returns its error.
StarterRefused(s) ==
    /\ ~StarterAt(s, "idle")
    /\ ~ENABLED StarterWork(s)
    /\ StarterEnds(s)
    /\ UNCHANGED <<store, items, deps, driver, canceller, mishaps>>

-----------------------------------------------------------------------------
(***************************************************************************)
(* The continue command: a bounded number of steps, each chosen by the     *)
(* job status read after the one before.                                   *)
(***************************************************************************)
DriverAt(d, pc, stage) ==
    /\ driver[d].pc = pc
    /\ driver[d].state = "running"
    /\ driver[d].stage = stage
DriverGoes(d, pc) == driver' = [driver EXCEPT ![d].pc = pc, ![d].todo = {}]
DriverEnds(d)     == driver' = [driver EXCEPT ![d] = IdleDriver]

\* Mutated: a job that is being cancelled is left to whoever asked for it.
FollowRunning(d, i, state) ==
    driver' = [driver EXCEPT ![d] =
        IF state = "running" /\ job[i].stage \notin {"inventory", "idle"}
        THEN [IdleDriver EXCEPT !.pc = "step", !.run = i, !.state = state,
                                !.stage = job[i].stage]
        ELSE IdleDriver]

\* Look at the status: there is a step to take, or the command is over.
Follow(d, i, state) ==
    driver' = [driver EXCEPT ![d] =
        IF \/ state = "cancelling"
           \/ state = "running" /\ job[i].stage \notin {"inventory", "idle"}
        THEN [IdleDriver EXCEPT !.pc = "step", !.run = i, !.state = state,
                                !.stage = job[i].stage]
        ELSE IdleDriver]

\* Mutated: a paused job is read but not resumed.
BeginContinueNoResume(d, i) ==
    /\ driver[d].pc = "idle"
    /\ Store!Active(i)
    /\ Follow(d, i, job[i].state)
    /\ UNCHANGED <<store, items, deps, starter, canceller, mishaps>>

\* load_refresh_context, load_job and, for a paused job, resume_job.  A call
\* for a job that has ended only reads.
BeginContinue(d, i) ==
    /\ driver[d].pc = "idle"
    /\ Store!Active(i)
    /\ \/ /\ Store!ResumeJob(i, i, 0)
          /\ Follow(d, i, "running")
       \/ /\ job[i].state # "paused"
          /\ Follow(d, i, job[i].state)
          /\ UNCHANGED store
    /\ UNCHANGED <<items, deps, starter, canceller, mishaps>>

Reload(d) ==
    /\ driver[d].pc = "reload"
    /\ \/ Follow(d, driver[d].run, job[driver[d].run].state)
       \/ DriverEnds(d)   \* max_steps taken
    /\ UNCHANGED <<store, items, deps, starter, canceller, mishaps>>

AcknowledgeSeenCancel(d) ==
    /\ driver[d].pc = "step"
    /\ driver[d].state = "cancelling"
    /\ Store!AcknowledgeCancel(driver[d].run, driver[d].run, 0)
    /\ DriverEnds(d)
    /\ UNCHANGED <<items, deps, starter, canceller, mishaps>>

\* execute_refresh_work_batch_for_phase: read a batch, then one transaction
\* per item.
LoadBatch(d) ==
    LET i == driver[d].run
    IN  /\ DriverAt(d, "step", "parse")
        /\ ActiveScope(i)
        /\ \E batch \in SUBSET items[i] :
              /\ Cardinality(batch) <= MaxBatch
              /\ Cardinality(batch) = MaxBatch \/ batch = items[i]
              /\ driver' = [driver EXCEPT ![d].pc = "parse", ![d].todo = batch]
        /\ UNCHANGED <<store, items, deps, starter, canceller, mishaps>>

\* parse_refresh_item answers with an error: the content is not in Git, or the
\* adapter refuses it for another reason than syntax or the lack of facts.  A
\* path to be removed is not parsed.
ParserErrs(i, p) == <<p, Manifest[gen[i].source][p]>> \in Unparsable

\* The parser's output replaces the facts of the path.
ParsedRows(i, p) ==
    [gen[i].content EXCEPT !.facts[p] = Manifest[gen[i].source][p]]

ParseItem(d) ==
    LET i == driver[d].run
    IN  /\ DriverAt(d, "parse", "parse")
        /\ \E p \in driver[d].todo :
              /\ p \in items[i]
              /\ ~ParserErrs(i, p)
              /\ Store!StageRows(i, i, ParsedRows(i, p))
              /\ items' = [items EXCEPT ![i] = @ \ {p}]
              /\ driver' = [driver EXCEPT ![d].todo = @ \ {p}]
        /\ UNCHANGED <<deps, starter, canceller, mishaps>>

\* The transaction of the item is rolled back and the command is over: the
\* item stays pending, whatever else the batch held.
ParseItemFails(d) ==
    /\ DriverAt(d, "parse", "parse")
    /\ \E p \in driver[d].todo : ParserErrs(driver[d].run, p)
    /\ DriverEnds(d)
    /\ UNCHANGED <<store, items, deps, starter, canceller, mishaps>>

\* Mutated: the stage is left after a batch, whatever remains.
FinishBatchUncounted(d) ==
    /\ DriverAt(d, "parse", "parse")
    /\ driver[d].todo = {}
    /\ Store!FinishParse(driver[d].run, driver[d].run, 0)
    /\ DriverGoes(d, "reload")
    /\ UNCHANGED <<items, deps, starter, canceller, mishaps>>

\* execute_incremental_parse_batch: leave the stage when nothing remains.
FinishBatch(d) ==
    LET i == driver[d].run
    IN  /\ DriverAt(d, "parse", "parse")
        /\ driver[d].todo = {}
        /\ IF items[i] = {} THEN Store!FinishParse(i, i, 0) ELSE UNCHANGED store
        /\ DriverGoes(d, "reload")
        /\ UNCHANGED <<items, deps, starter, canceller, mishaps>>

\* A stage that finds its own receipt reports the work as done.
AlreadyDone(i, stage, mark) ==
    /\ ActiveScope(i)
    /\ job[i].stage = stage
    /\ job[i].ckpt = mark
    /\ UNCHANGED store

\* The bounds of link_generation, derive_template_candidates, the final catalog,
\* the validation and, in publication, the lifecycle streams.
Admits(i, stage) == <<gen[i].source, stage>> \notin OverBound

Link(d) ==
    LET i == driver[d].run
    IN  /\ DriverAt(d, "step", "link")
        /\ \/ Admits(i, "link") /\ Store!LinkGeneration(i, i, gen[i].content, 0)
           \/ AlreadyDone(i, "derive", "link")
        /\ DriverGoes(d, "reload")
        /\ UNCHANGED <<items, deps, starter, canceller, mishaps>>

\* persist_deterministic_rules: the rules are rebuilt from all the facts.
DerivedRows(i) == [gen[i].content EXCEPT !.rules = gen[i].content.facts]

Derive(d) ==
    LET i == driver[d].run
    IN  /\ DriverAt(d, "step", "derive")
        /\ \/ /\ Admits(i, "derive")
              /\ Store!DeriveTemplateCandidates(i, i, DerivedRows(i), 0)
           \/ AlreadyDone(i, "synthesize", "derive")
        /\ DriverGoes(d, "metadata")
        /\ UNCHANGED <<items, deps, starter, canceller, mishaps>>

\* Mutated: dependent and prerequisite are swapped.
PersistSwappedDependencies(d) ==
    LET i == driver[d].run
    IN  /\ DriverAt(d, "metadata", "derive")
        /\ StagingScope(i)
        /\ deps' = [deps EXCEPT ![i] = {<<e[2], e[1]>> : e \in DependsOn}]
        /\ DriverGoes(d, "reload")
        /\ UNCHANGED <<store, items, starter, canceller, mishaps>>

\* derive_provable_dependencies: what the facts of a source show.
ProvableDependencies(src) ==
    {e \in DependsOn : e[1] \in Present(src) /\ e[2] \in Present(src)}

\* After the derivation has committed, in a transaction of its own, the
\* dependencies are computed again, now from the facts.
PersistDependencies(d) ==
    LET i == driver[d].run
    IN  /\ DriverAt(d, "metadata", "derive")
        /\ StagingScope(i)
        /\ deps' = [deps EXCEPT ![i] = ProvableDependencies(gen[i].source)]
        /\ DriverGoes(d, "reload")
        /\ UNCHANGED <<store, items, starter, canceller, mishaps>>

Finalize(d) ==
    LET i == driver[d].run
    IN  /\ DriverAt(d, "step", "synthesize")
        /\ \/ /\ Admits(i, "synthesize")
              /\ Store!FinalizeSynthesisCatalog(i, i, gen[i].content, 0)
           \/ AlreadyDone(i, "validate", "catalog")
        /\ DriverGoes(d, "reload")
        /\ UNCHANGED <<items, deps, starter, canceller, mishaps>>

Validate(d) ==
    LET i == driver[d].run
    IN  /\ DriverAt(d, "step", "validate")
        /\ Admits(i, "validate")
        /\ Store!ValidateGenerationForPublication(i, i, 0)
        /\ DriverGoes(d, "reload")
        /\ UNCHANGED <<items, deps, starter, canceller, mishaps>>

\* publication_is_already_committed, asked once the receipt has been verified
AlreadyPublished(i) ==
    /\ Store!ReceiptHolds(i)
    /\ job[i].state \in {"running"} \cup Store!TerminalStates
    /\ job[i].stage \in {"cleanup", "idle"}
    /\ Store!IsPublished(i)
    /\ UNCHANGED store

\* publish_generation answers a repeated call first; then the reconciliation
\* of the lifecycle may refuse, and the job stays in the stage.
Publish(d) ==
    LET i == driver[d].run
    IN  /\ DriverAt(d, "step", "publish")
        /\ \/ Admits(i, "publish") /\ Store!PublishGeneration(i, i, 0)
           \/ AlreadyPublished(i)
        /\ DriverGoes(d, "reload")
        /\ UNCHANGED <<items, deps, starter, canceller, mishaps>>

Complete(d) ==
    LET i == driver[d].run
    IN  /\ DriverAt(d, "step", "cleanup")
        /\ Store!CompleteJob(i, i, 0)
        /\ DriverGoes(d, "reload")
        /\ UNCHANGED <<items, deps, starter, canceller, mishaps>>

DriverWork(d) ==
    \/ Reload(d)
    \/ AcknowledgeSeenCancel(d)
    \/ LoadBatch(d)
    \/ ParseItem(d)
    \/ ParseItemFails(d)
    \/ FinishBatch(d)
    \/ Link(d)
    \/ Derive(d)
    \/ PersistDependencies(d)
    \/ Finalize(d)
    \/ Validate(d)
    \/ Publish(d)
    \/ Complete(d)

DriverRefused(d) ==
    /\ driver[d].pc # "idle"
    /\ ~ENABLED DriverWork(d)
    /\ DriverEnds(d)
    /\ UNCHANGED <<store, items, deps, starter, canceller, mishaps>>

-----------------------------------------------------------------------------
(***************************************************************************)
(* Cancelling is two transactions.  Cleanup is one.  Pausing has no        *)
(* command of its own; it is there for whoever holds the store.            *)
(***************************************************************************)
Cancel(c, i) ==
    /\ canceller[c] = NoRun
    /\ Store!RequestCancel(i, i, 0)
    /\ canceller' = [canceller EXCEPT ![c] = i]
    /\ UNCHANGED <<items, deps, starter, driver, mishaps>>

AcknowledgeOwnCancel(c) ==
    LET i == canceller[c]
    IN  /\ i # NoRun
        /\ IF job[i].state = "cancelling"
           THEN Store!AcknowledgeCancel(i, i, 0)
           ELSE UNCHANGED store
        /\ canceller' = [canceller EXCEPT ![c] = NoRun]
        /\ UNCHANGED <<items, deps, starter, driver, mishaps>>

Cleanup(i, retain) ==
    /\ Store!CleanupGenerations(i, i, retain, 0)
    /\ UNCHANGED <<items, deps, workers, mishaps>>

Pause(i) ==
    /\ mishaps < MaxMishaps
    /\ Store!PauseJob(i, i, 0)
    /\ mishaps' = mishaps + 1
    /\ UNCHANGED <<items, deps, workers>>

\* Commands are cut off: one by an error of the database or of Git, all of
\* them by the end of the process.  What they committed stays.
Interrupt ==
    /\ mishaps < MaxMishaps
    /\ mishaps' = mishaps + 1
    /\ \/ \E s \in Starters : starter[s] # IdleStarter /\ StarterEnds(s)
                              /\ UNCHANGED <<driver, canceller>>
       \/ \E d \in Drivers : driver[d] # IdleDriver /\ DriverEnds(d)
                             /\ UNCHANGED <<starter, canceller>>
       \/ /\ starter' = [s \in Starters |-> IdleStarter]
          /\ driver' = [d \in Drivers |-> IdleDriver]
          /\ canceller' = [c \in Cancellers |-> NoRun]
    /\ UNCHANGED <<store, items, deps>>

Next ==
    \/ \E s \in Starters :
          \/ \E i \in Runs, r \in Repos, src \in Sources : Scan(s, i, r, src)
          \/ StarterWork(s)
          \/ StarterRefused(s)
    \/ \E d \in Drivers :
          \/ \E i \in Runs : BeginContinue(d, i)
          \/ DriverWork(d)
          \/ DriverRefused(d)
    \/ \E c \in Cancellers :
          \/ \E i \in Runs : Cancel(c, i)
          \/ AcknowledgeOwnCancel(c)
    \/ \E i \in Runs, retain \in 0..MaxCleanup : Cleanup(i, retain)
    \/ \E i \in Runs : Pause(i)
    \/ Interrupt

Spec == Init /\ [][Next]_vars

\* A command that has begun goes on until it is done or cut off, and the
\* client goes on asking for an active job to be continued.
Fairness ==
    /\ \A s \in Starters : WF_vars(StarterWork(s) \/ StarterRefused(s))
    /\ \A d \in Drivers : WF_vars(DriverWork(d) \/ DriverRefused(d))
    /\ \A c \in Cancellers : WF_vars(AcknowledgeOwnCancel(c))
    /\ \A i \in Runs : WF_vars(\E d \in Drivers : BeginContinue(d, i))

FairSpec == Spec /\ Fairness

-----------------------------------------------------------------------------
(***************************************************************************)
(* Properties.                                                             *)
(***************************************************************************)

\* What a repository shows is what a rebuild from scratch would show: the
\* facts of every path are those of the version the generation's revision
\* has, whether cloned, parsed, re-parsed after an interruption or raced for
\* by two continue commands, and the rules were derived from exactly them.
ReadyFactsCurrent ==
    \A i \in Runs :
        gen[i].status = "ready" =>
            /\ gen[i].content.facts = Manifest[gen[i].source]
            /\ gen[i].content.rules = gen[i].content.facts

\* A job that parses has a work item left for every path whose facts are
\* missing, and when it leaves the stage none is missing: clone, plan and
\* parse are separate transactions but no path falls between them.
MissingFactsHaveWork ==
    \A i \in Runs :
        LET missing == {p \in Paths : gen[i].content.facts[p] = "pending"}
        IN  /\ Store!Active(i) /\ job[i].stage = "parse" => missing \subseteq items[i]
            /\ Store!Active(i) /\ job[i].stage \notin {"inventory", "parse"} =>
                   missing = {} /\ items[i] = {}

\* A job that stops at the same error however often it is continued: one of
\* its items cannot be parsed, or a stage to come refuses its source.
Stuck(i) ==
    \/ \E p \in items[i] : ParserErrs(i, p)
    \/ \E stage \in Store!Stages : ~Admits(i, stage)

\* A job whose plan is stored is brought to an end by repeating the continue
\* command, through pauses, errors and restarts, unless another inventory has
\* seen another source since.  The exception is a job that is stuck: nothing
\* in the code ends it but its cancellation.
PlannedJobFinishes ==
    \A i \in Runs :
        (/\ Store!Active(i)
         /\ job[i].stage # "inventory"
         /\ Store!SourceIsCurrent(i)
         /\ ~Stuck(i))
            ~> (~Store!Active(i) \/ ~Store!SourceIsCurrent(i))

\* A requested cancellation takes effect even when the command that requested
\* it is cut off before it acknowledges it.
CancellationEnds ==
    \A i \in Runs : job[i].state = "cancelling" ~> ~Store!Active(i)

\* docs/BUSINESS_RULE_ARCHAEOLOGY.md: an interrupted job is resumed from its
\* checkpoint.
InterruptedJobResumes ==
    \A i \in Runs :
        (Store!Active(i) /\ Store!SourceIsCurrent(i))
            ~> (~Store!Active(i) \/ ~Store!SourceIsCurrent(i))

\* invalidation.rs: a scoped plan holds the changed paths and all their
\* reverse dependencies, never a partial closure.
PlansCoverDependents ==
    \A s \in Starters :
        LET w == starter[s]
        IN  w.mode = "scoped" =>
                w.invalidated =
                    ReverseClosure(w.changed,
                                   ProvableDependencies(gen[w.base].source))
=============================================================================
