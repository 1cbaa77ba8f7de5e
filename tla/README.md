# TLA+ models of CodeVetter

CodeVetter is a local verification workbench: a Rust core (`crates/codevetter-core`)
over a SQLite database, called by a macOS application, a command line and an MCP
server. This directory models the parts of it where several actors meet over shared
state:

* *business-rule archaeology*, which indexes a Git repository into a catalog of rules in
  a long job that runs as many short commands, may be paused, cancelled or cut off at any
  point, may ask a model about each rule, and replaces the catalog readers see in one step;
  reviewers then decide on the rules, and their decisions outlive the catalog;
* the *pull request watcher*, which polls a repository and runs a sandbox for new heads;
* *managed work*: the Board's work items and the isolated runs agents work in.

Paths below without a directory are in
`crates/codevetter-core/src/commands/business_rule_archaeology/`, or in `commands/` above it
where the text says so.

## Inventory

| Part | State | Operations | What is hard | What makes it correct |
| --- | --- | --- | --- | --- |
| Job store (`jobs.rs`, `db/schema/business_rule_archaeology.sql`) | `archaeology_repositories` (current source, ready pointer), `archaeology_generations` (status, rows), `archaeology_jobs` (state, stage, owner, cancellation, checkpoint) | start, stage transitions, validate, publish, checkpoint, heartbeat, pause, resume, request and acknowledge cancel, fail, complete, recover, cleanup | any caller at any time; lost owners; retries; a job that ends after it published; rows that change after validation | pointer and rows agree; only validated rows are shown; active jobs can be ended; cancellation is final; cleanup keeps what it must |
| Refresh commands (`refresh_command.rs`, `cleanup_command.rs`, `invalidation_store.rs`, `invalidation.rs`) | local state between transactions; `archaeology_refresh_work_items`, `archaeology_source_dependencies` | start (scan, manifest, compare, plan, clone, queue), continue (one stage or batch per step), cancel, cleanup | concurrent commands with one owner identity on connections of their own; interruption between any two transactions; incremental reuse of older facts | what is published equals a rebuild from scratch; no path falls between plan, clone and parse; planned jobs end; cancellations take effect |
| Model synthesis (`synthesis_runtime.rs`, `synthesis_command.rs`) | `archaeology_synthesis_cache`, `archaeology_synthesis_attempts` | reserve, begin, finish, finalize, exclude, take over a stale reservation, clean up | a model call of up to 90 s between reservation and completion; late answers; two commands of one job that carry the same owner identity; cancellation during the call | every paid call in the ledger and bounded, settled answers final, a rule keeps the answer it was made from, cancellations settle |
| Rule lifecycle and review (`lifecycle.rs`, `lifecycle_store.rs`, `review_command.rs`, `identity_store.rs`, `temporal_store.rs`) | one append-only event stream per stable rule, alias events, supersession edges | accept, reject, annotate, link, unlink, supersede; reconcile at publication | decisions made from an older read; decisions carried over to changed evidence, across a generation without the rule, or through generated aliases; a supersession that fails half-way | a decision on show was made on the evidence the rule has had since, from the state on show; superseded rules lead to a live one |
| Inventory, parsers, rule derivation (`inventory.rs`, the adapters, `deterministic_rules.rs`) | none | scan, parse, link, derive | none concurrent | functional |
| Readers and export (`read.rs`, `export.rs`) | none | queries | see one generation | follow the ready pointer |
| Pull request watcher (`commands/trex_watcher.rs`) | watcher rows, a task and a slot per repository, in-flight sets, receipts per head, commit statuses on GitHub | tick, force poll, headless poll, start, stop, enable, disable, resume; post, execute, post, record, release | overlapping polls with in-flight sets of their own, pushes during a run, restart, stop during a run, errors half-way through a tick | one run per head and set, receipts that agree with the status, no head forgotten |
| Work items (`commands/work_items.rs`) | `agent_tasks`: repository, session, change identity, review and verification evidence, column, disposition | create, update, attach session, transition, delete | long sequences of legal updates | the session belongs to the repository; a completed item has its evidence |
| Managed work (`commands/managed_work.rs`, `db/verification_workbench_schema.rs`) | runs, port reservations, checkpoints, closures; worktrees and processes outside the database | create, attach process, reconcile, run hook, archive, close | a hook awaits its program for minutes without a lock; the agent writes at any time; creation fails half-way; the item is deleted meanwhile | one live run per item, ports its own, checkpoints numbered, no work destroyed |
| Agent terminal and sessions (`commands/agent_terminal.rs`, `native_agent_island.rs`, `codex_app_server.rs`) | processes, streams, request tables | spawn, write, resize, stop | output after exit, late answers | every request answered or failed once |
| Structural graph, history graph | indexed snapshots | index, publish, query | same pattern as the job store | same abstract catalog |
| Others (verification service, warm verification, review and fix attempts, unpack, ledger, MCP server, navigator, transport, macOS application, site and scripts) | mostly files and rows written by one caller | | little concurrency of their own | listed in `PROJECT.json` with the reason |

The parts meet in the database. The archaeology commands call the job store and nothing else
writes its three tables; the readers follow `ready_generation_id`; a cleanup runs
under the identity of a job. Commands are separate blocking tasks: start and continue
each open a connection of their own (`open_archaeology_worker_connection`), the cancel
command uses the shared one, so their transactions interleave freely while each
transaction is atomic. A synthesis command belongs to a job at stage `synthesize` and moves
it on when it has materialised its answer. The watcher shares nothing with these but the
database connection. Managed runs belong to a work item and go with it when it is deleted;
everything they say about the work (checkpoints, closures) is about a worktree that the
database lock does not protect. At this commit no host registers the commands of managed
work and of the Board; they are modelled as the functions they are, callable in any order,
and nothing is assumed of who calls them.

## Modules

| Module | Content |
| --- | --- |
| `ReadyCatalog` | What the store promises its readers: a repository shows nothing or one validated catalog, replaced in one step by another one of the repository's current source. |
| `ArchaeologyJobs` | The job store. One action per transaction. Any owner, any clock reading, any order of calls. |
| `ArchaeologyJobs_proofs` | Theorems about `ArchaeologyJobs`. |
| `ArchaeologyRefresh` | The commands as processes. Every change of the three tables is an action of `ArchaeologyJobs` (`Store == INSTANCE ArchaeologyJobs WITH ...`), conjoined with the caller's local state. |
| `ArchaeologyRefresh_proofs` | Theorems about `ArchaeologyRefresh`. |
| `SynthesisCache` | The synthesis commands as processes over the reservation cache and the attempt ledger, with the job operations they race with. |
| `SynthesisCache_proofs` | Theorems about `SynthesisCache`. |
| `RuleLifecycle` | The streams of review events across generations: publication with reconciliation, and the review commands of clients that read earlier. |
| `RuleLifecycle_proofs` | Theorems about `RuleLifecycle`. |
| `TrexWatcher` | The watcher of one repository: its row, task and slot, the runs it detaches, receipts and commit statuses. |
| `TrexWatcher_proofs` | Theorems about `TrexWatcher`. |
| `WorkItems` | The Board's items. One action per command. |
| `ManagedWork` | Runs, ports, hooks, archiving and closures. Extends `WorkItems`: the item commands are actions of the composition (`EditItem`), and deleting an item (`DeleteItem`) is `RemoveItem` with the cascades of the foreign keys. |
| `WorkItems_proofs` | Theorems about `WorkItems`. |
| `ManagedWork_proofs` | Theorems about `ManagedWork`. Extends `WorkItems_proofs`. |
| `MC...` | Symmetry sets, the constant functions of the instances and their restrictions. |

### ArchaeologyJobs

`start_job` inserts the generation and the job in one transaction under identifiers
minted together, so one *run* indexes both: `gen[i]` and `job[i]` are the rows of run
`i`. A row that does not exist is `"unused"`; a deleted one `"deleted"`.
`repo[r].source` is `(current_revision, source_identity)`; `gen[i].config` the parser,
algorithm and configuration identities.

All rows staged for a generation (units, spans, facts, rules, clauses, search
manifest, coverage) are one value, `gen[i].content`, out of a set `Contents`;
`ValidContents` are those `validate_integrity` accepts. The validation receipt, which
in the code is a JSON of digests over those rows, is the sealed value itself,
`job[i].sealed`: two receipts are equal exactly when the rows are (digest collisions
aside). `checkpoint_identity` keeps only what the code compares: which stage left it,
or which generic cursor.

Guards follow the `WHERE` clauses: owner, state, cancellation flag, stage, and the
`julianday` comparison where a statement has it. Two statements do not have it, the
moves out of `inventory` and `parse`, and neither do their actions.
`clone_unaffected_ready_facts` checks before it opens its transaction, so `CloneRows`
may still write when the generation has been cancelled or failed since; `StageCoverage`
is the coverage update of `run_inventory_refresh`, which looks at the generation only.
A repeated publication, an acknowledged recovery by the same owner and a dry-run
cleanup change nothing and are stuttering.

### ArchaeologyRefresh

Four kinds of process: start commands (`starter`), continue commands (`driver`),
cancel commands (`canceller`), and cleanup, which is one transaction. A program counter
names the next transaction; the record holds what the command keeps in memory between
two of them, such as the plan, or the job status a continue command loaded and acts on.
A command whose transaction is refused ends (`StarterRefused`, `DriverRefused`).
`max_steps` is a choice to stop after any step. `Interrupt` ends one command, or all of
them; what was committed stays. `Pause` is `pause_job`, which has no command of its
own in this version.

The content of a generation is, for each path, the version whose facts are stored, or
`"pending"` as the inventory leaves it, and the facts the rules were derived from.
`Manifest` gives the versions each source has. `DependsOn` is what
`derive_provable_dependencies` finds once facts are stored. `ReverseClosure` is defined
as the least closed set; the code computes it breadth first. Whether lineage is
unresolved (which forces a global rebuild) is a free choice.

Two errors come back however often the job is continued, and are constants. `Unparsable` has the
versions of paths for which `parse_refresh_item` answers with an error (the blob is not in Git, or
the adapter refuses it for another reason than syntax or the lack of facts): the item's
transaction is rolled back, the item stays pending and the command is over (`ParseItemFails`).
`OverBound` has the sources a later stage refuses (`Admits`): the limits of `link_generation`, of
`derive_template_candidates`, of the final catalog and of the validation, and the lifecycle
reconciliation inside the publication, which `RuleLifecycle` models. A refused job stays in its
stage.

Left out of this module: the synthesis-only mode (`run_inventory_refresh` cannot reach
it: a change of the synthesis identity alone leaves the generation identity unchanged
and the identity index refuses the run), the coverage summary, bounds that refuse a start
command (it ends, which `Interrupt` covers) and clock readings.

### SynthesisCache

A command takes the database lock several times, and what it does under one lock is one
action: look up (`Start`), exclude protected evidence, reserve or take over, build the
provider, record the beginning of an attempt and call, record its end, sleep, check the job,
and settle or publish. `cmd[c]` holds what the command keeps in memory: the ordinal it is
at, the local list of attempt outcomes that `persist_attempts` writes again at the end, and
what its watcher has told it. `watch_owned_job` polls the job every 25 ms beside the call and
is the action `Watch`.

A reservation goes stale when its `updated_at` is more than 120 s old (`GrowStale`). A call is
bounded by 90 s of the monotonic clock, but the comparison uses the wall clock, which jumps
when the machine sleeps or is set: `jumped` remembers that a reservation looked stale while
its command was working, and `SingleFlight` is about behaviours where that has not happened.
Owner identities are the job's, so the compare-and-set on `owner_id` does not tell two commands
of one job apart; `CallsAccounted`, `SettledIsFinal` and `RulesKeepTheirAnswer` are checked
without that assumption.

The rest of the job is what the commands can see of it: `job` has the state, stage, owner and
cancellation flag, and the operations of `ArchaeologyJobs` that change them are restated over
that record (`Disturbances` selects which interleave). An answer is a model value; prompts,
prices and the validation of responses decide only which outcome an attempt has.

### RuleLifecycle

Rules are stable identities of one kind in one repository. A generation brings some of them,
each with a snapshot: the identity of its evidence and parser, and of its contradictions.
The description is left out, since a change of prose is compatible
(`evaluate_snapshot_compatibility`). Storage allows a rule to have a generated alias with the
same stable identity and other evidence; readers and reconciliation look at the canonical
occurrence, `load_occurrence` at whichever row the query meets. `Occurrences` has both.

A stream is kept as what `project_lifecycle` and `project_stored_lifecycle` make of its events:
its length, the last event that is not an annotation, and the generation and snapshot that
event was made for. Every command is one `IMMEDIATE` transaction and one action; one that is
refused rolls back and is no step. What the command is asked to expect comes from an earlier
read, `view[c]`. `PublishGeneration` reconciles every rule of the new generation in the
publication's own transaction and is refused as a whole when one stream cannot take its event.
The rest of the job is `Stage` and `Fail`: the publication's other guards are
`ArchaeologyJobs`'. `Remove` is cleanup; the rules of a removed generation stay in the state
for `DecisionsStand` only, every guard looks at the status.

### TrexWatcher

A tick lists the open pull requests and considers the first `MAX_PRS_PER_TICK` of them. The
lookups for one pull request happen under the in-flight lock and the database lock and are
one action (`ConsiderOutcome`); the run it detaches posts a pending status, executes, posts the
verdict, records the receipt and leaves the set, in separate actions any of which may fail as
the code lets it. `Sets` numbers the in-flight sets: each task and each forced poll gets a
fresh one, and the runs keep theirs alive after the task is gone. Headless polls and retries
run in another process and have none (set 0). `Mishaps` says which commands and failures may
happen: forced and headless polls, stop, enabling and disabling the row from another process,
a database error in a tick, a listing or a receipt that fails, a subprocess that never ends, the
end of the application.

The requests to GitHub have a timeout of 20 s; the subprocesses have none: `gh pr list` (`:661`),
`git fetch` (`:719`), `gh auth token` (`:1062`), the agent and what the sandbox installs and runs.
`Hang` is a run that waits for one for ever: it keeps its pull request in flight. `HangListing` is
a tick that waits for the list: the task does nothing more and keeps its slot.

`byHand`, `arrived` and `receipts` are history. `arrived` counts how often a head became the
head, `receipts` how often it was recorded. The sandbox is its verdict.

### WorkItems and ManagedWork

Every Board command holds the lock from its first read to its last write. A row keeps the
fields its commands tell apart; `vfor` is history, the change identity the row had when its
verification status was written. Texts, criteria and the preferred provider are left out.

`create_managed_run` and `archive_run` hold the lock but act on the file system in between,
which can fail and which the agent does not lock: they are several actions, and `op` is the
command that holds the lock. A hook reads its sequence number under one lock, inserts its
checkpoint under the next, awaits the program without one, computes the change identity, and
writes its verdict under a third. A worktree is what matters of it: its change identity, what
a program in it reads, whether it is dirty and whether it has files git does not track.
`EditKinds` are the things an agent does there, `"racing"` allowing them while a hook runs;
`Faults` are the steps that may fail, the loss of the temporary directory and the end of the
application. Provider profiles and argument checks only refuse requests and are left out.

## Runs

| Run | Instance | Shows |
| --- | --- | --- |
| `JobsInterleaving` | 1 repository, 2 runs, 2 owners, 2 sources, 2 contents, both valid, 1 cursor, 2 clock readings for one of the runs | `TypeOK`, `ReadyPointerAgrees`, `ActiveRunsCanEnd`, `PublishedIsSealed`, `CancellationSticks` in every interleaving of the store's operations, recovery of a stale job at any stage included, and `ImplementsCatalog`: refinement of `ReadyCatalog` |
| `JobsRetention` | 4 runs, batch bound 2, 2 creation times, the straight path of a run only (`HistorySpec`) | `CleanupKeepsNewest` over histories of up to three superseded generations and failed ones |
| `RefreshRestart` | 2 runs, 4 sources over 3 paths, a dependency, a relabelled dialect, 2 continue commands, batches of 2, 1 mishap | `TypeOK`, `ReadyFactsCurrent`, `MissingFactsHaveWork` under concurrent commands with an interruption or a pause anywhere |
| `RefreshProgress` | 2 runs, 3 sources over 2 paths, of one of which a path is unparsable and of another the publication refused, 1 continue, 1 cancel command, batches of 1, 1 mishap, fairness | `PlannedJobFinishes` while another inventory may move the source, `CancellationEnds` |
| `RefreshInterrupted` | 1 run, 1 mishap, fairness | **violated**: `InterruptedJobResumes` |
| `RefreshDependents` | 2 runs, 2 sources, a dependency, 1 mishap | **violated**: `PlansCoverDependents` |
| `SynthesisTakeover` | 2 commands, 1 key, 2 owners, 2 answers, 2 attempts, every disturbance | `TypeOK`, `CallsAccounted`, `RulesKeepTheirAnswer`, `SingleFlight`, `SettledIsFinal` |
| `SynthesisCancel` | 2 commands, 2 keys of one rule, one protected, 2 answers, 2 attempts, fairness | `CancelDuringCallSettles` |
| `TrexWatch` | 1 pull request, 2 heads, 2 pushes, 3 in-flight sets, any 1 mishap of 8 kinds, hangs included, fairness | `TypeOK`, `OneRunPerSet`, `HeadsRunOnce`, `ReceiptMatchesStatus`, `NewHeadIsRun` |
| `WorkBoard` | 1 item, 2 repositories, a session of one of them, 2 runs, 1 hook, 1 process, 2 ports, every fault | `ItemsTypeOK`, `SessionInRepository`, `OneLiveRun`, `PortsAreReserved` |
| `WorkHooks` | 1 item, 1 run, 2 hooks, 2 edits of every kind, 1 closure, crashes | `TypeOK`, `CheckpointsAreNumbered`, `ArchiveKeepsWork` |
| `RuleReviews` | 2 rules, 2 reviewers, 3 generations out of 3 catalogs, streams of 3 events, 2 alias events | `TypeOK`, `DecisionsStand`, `SupersededHasSuccessor`, `AliasesAreStars`, `DecisionsAreInformed` |

Deadlock is checked in every run but the synthesis, watcher and review ones, which may stop: a job
that has ended takes no more commands, an application that was closed for good leaves the
watcher's bounds used up, and so do the last generation and full streams those of the reviews. For
the others, even when the instance has used up its runs, an inventory or a cleanup is still
possible.

### Bounds

`Runs` bounds how many refreshes a behaviour has. Two are enough for a publication that
supersedes another, a second job on a repository with an ended one, and cleanup of one by
the other; ranking needs more, hence four in `JobsRetention`. Two contents that validate
are what a receipt has to tell apart. `MaxUnits` bounds the progress counters,
`MaxCleanup` stands for `MAX_CLEANUP_GENERATIONS` (256), `MaxBatch` for the 32 items of a
parse batch: a batch smaller than the work is what matters. `MaxMishaps` bounds
interruptions and pauses together. `RefreshProgress` has a source that is
fine, one with an unparsable path and one the publication refuses, so that each clause of
`Stuck` is needed (without either the run is violated), and a second inventory can move the
source under an active job; it has one continue command, because two make too many states for
liveness, and two race in `RefreshRestart`. `Times` is a set of readings any caller may have at
any step, so clocks go forwards and backwards. In `JobsInterleaving` only one of the two runs
is worked on with both readings, until it ends; the rest happens at the later one
(`OneRunGoesStale`, an action constraint: both runs with both readings take TLC too long). The
other runs use one reading, for which every comparison holds. One repository is enough for
the interleavings of a run's own operations; that repositories do not disturb each other is
shown by the theorems, which hold for any number of them.

Three generations let a rule be accepted, disappear and come back, or be superseded by a rule
of a later generation while it is still in the ready one. The catalogs are the first rule
alone, the second alone, and both with the first one changed and aliased. Three events fill
a stream with a candidate, a decision and one more, so that a full stream meets every command.

`MaxAttempts` is a parameter of the code; two attempts are a retry, a takeover after a first
attempt, and a takeover that finds none left. One pull request is the most
TLC can do with fairness; that two do not disturb each other's runs and receipts is shown by the
theorems, and that one past the prefix is never looked at is in the table of unmet expectations.
`MaxPushes` 2 lets a head come back, which is
what `HeadsRunOnce` has to tell from a second run. Two pull requests with the same head commit
share one commit status, and whichever is recorded last wins; `ReceiptMatchesStatus`
therefore leaves out a commit that has been the head of another pull request (`Sole`), of which
this instance has none. `Sets` 3 are the first task, and a restart or a forced poll
after it. Two runs of an item are enough to be live together, two hooks to read one number,
two edits to make a file untracked and then edit or commit it. `MaxClosures` bounds the
closures of an item. `SYMMETRY` is used only in runs without liveness, over sets that no
constant function tells apart.

### Fairness

`RefreshProgress` and `RefreshInterrupted` use `FairSpec`: weak fairness of each started
command, which runs on a thread of its own, until it is done or cut off; of the second
half of a cancel command; and of *some* continue command being called again for an active
job. The last one is an assumption on the caller: nothing in the core calls continue by
itself. A started command reads local Git objects and computes, and is taken to come to an end.
Nothing is assumed of interruptions, pauses, scans or cancellations.

`SynthesisCancel`: weak fairness of a command that has begun (each provider call and each
sleep is bounded by a timeout) and of its watcher, which polls. `TrexWatch`: weak fairness of
the tick (an interval timer), of the rest of a forced poll, and of each run that does not hang.
The subprocesses a tick and a run wait for have no timeout, so that they end is not assumed: a
subprocess that does not is a step of the model (`Hang`, `HangListing`), after which no fairness
moves that run or that task again. Neither assumes that anybody starts, restarts or
cancels anything. Managed work has no liveness: nothing in the code drives it.

## What the two violated properties show

* **An interrupted start cannot be resumed.** The operations guide says of a paused or
  interrupted job "Resume from its checkpoint"
  (`docs/BUSINESS_RULE_ARCHAEOLOGY.md:97`). `start_job` commits a running job at stage
  `inventory`; the manifest, the plan and the move to `parse` are later transactions. If
  the command ends in between, `continue_refresh` sees stage `inventory` and leaves its
  loop (`refresh_command.rs:378`), and a new refresh is refused by the active-job index.
  Only a cancellation frees the repository. `PlannedJobFinishes` is the part that does hold: a job
  past `inventory`, of the current source, ends unless it is `Stuck` (see below).
* **Dependencies can be lost.** The derivation commits stage `synthesize`; only then does
  `persist_generation_invalidation_metadata` store the dependencies the facts show
  (`refresh_command.rs:326`). A command cut off between the two is resumed at
  `synthesize`, and the generation is published with the empty relation stored before
  parsing. The next scoped plan closes over that, and dependents of a changed path are
  not re-parsed, although `invalidation.rs:64` promises the changed paths plus their
  reverse dependencies and never a partial closure. `ReadyFactsCurrent` still holds because
  in the model the facts of a path are a function of its own content.

A third observation is not a violation of anything written down: a refused second refresh has
already moved the repository's current revision (`jobs.rs:464` before `jobs.rs:515`), and the
active job can then no longer publish. `PlannedJobFinishes`, whose run has such inventories,
therefore has the condition that the job's source is still the current one, and
`ImplementsCatalog` shows that the outdated catalog is indeed not published.

## Unmet expectations

These are statements of the documents, comments or error messages that the code does not meet.
Each is a definition that TLC refutes when it is put in place of the properties of the
configuration named; none of them is part of a run.

| Definition, configuration | What happens | Where |
| --- | --- | --- |
| `SynthesisCache!CancelAfterResponseSettles`, `SynthesisCancel` | The command checks the job, releases the lock, and takes it again to publish the answer (`synthesis_command.rs:362`). A cancellation in between makes `finalize_synthesis_run` refuse; the command ends, the reservation stays pending and the job `cancelling`. | `synthesis_runtime.rs:1485`: "Cancellation can race immediately after reservation or arrive after a response that must be discarded." |
| `TrexWatcher!NoConcurrentRuns`, `TrexWatch` | A forced poll has an in-flight set of its own (`commands/trex_watcher.rs:432`) and starts a second run of a head the watcher's tick is running. | `trex_watcher.rs:11`: "so two ticks can't kick off the same PR sandbox concurrently" |
| `NewHeadIsRun` without `Abandoned`, `TrexWatch` | Ways for a head never to be run by a live, enabled watcher: a run waits for a subprocess that never ends, and its pull request stays in flight, or the tick waits for the list (`:719`, `:661`, no timeout); an error between the insertion into the in-flight set and the detached run leaves the pull request in the set (`:552`); a task that saw its row disabled leaves its slot, and a later start finds it "already running" (`:472`); a pull request listed after the first `MAX_PRS_PER_TICK` is not looked at, whether or not the ones before it need a run (`:541`). | `trex_watcher.rs:1`: "whenever a PR's head SHA changes"; `docs/knowledge/learnings/new-things.md:118`: "with per-watcher error recovery and retry" |
| `PlannedJobFinishes` without `Stuck`, `RefreshProgress` | An item whose parsing errs stays pending, and every continue command ends at it again (`invalidation_store.rs:485`, `refresh_command.rs:627`); so does a stage whose input is over a bound, or a publication whose reconciliation is refused (`jobs.rs:3921`). The job stays active and keeps new refreshes of the repository out until it is cancelled; nothing counts the attempts or fails the job. | `docs/BUSINESS_RULE_ARCHAEOLOGY.md:97`: "Resume from its checkpoint" |
| `WorkItems!VerifiedChangeWasVerified`, `WorkBoard` with two `Changes` | An item that passed its verification gets another change identity by an update; the status stays `passed` and the item may be completed as verified (`commands/work_items.rs:313`). | `docs/architecture/verification-workbench.md:53`: "Compare it with the persisted evidence identity" and the two rules after it |
| `ManagedWork!RunningOwnsAProcess`, `WorkHooks` | A hook that succeeds writes `running` (`commands/managed_work.rs:329`) also for a run no process was attached to, or whose process has ended. | the same document, line 66: "Managed runs use owned processes and isolated worktrees" |
| `ManagedWork!ArchivedIsFinal`, `WorkHooks` | A hook looks at the state of its run neither when it writes `checking` (`commands/managed_work.rs:269`) nor when it writes its verdict (`:329`). On an archived run, or one archived while the program ran, it makes the run live again, without a worktree, and the item can have no other run. | `managed_work.rs:674`: reconciliation returns an archived run untouched |
| `ManagedWork!PassedIsWhatIsThere`, `WorkHooks` | The change identity of a passed checkpoint is computed after the program ended (`managed_work.rs:288`), so an edit in between is in the identity and not in what the program saw. Edits of an untracked file never change the identity, which has the names of such files only (`:1180`). | line 23: "exact change identity", stale when "the worktree change identity advances" |
| `ManagedWork!MovedClosureIsStale`, `WorkHooks` | A closure may hold the run's change identity, and is compared with the item's (`managed_work.rs:936`): without one it never becomes stale. | line 24: "Repository or diff identity advances after the decision" |
| `RuleLifecycle!RefreshedRequestIsAccepted`, `RuleReviews` | A request is compared with the lifecycle that applies to the loaded occurrence, readers show the canonical one's. Where a generated alias is loaded (`review_command.rs:433`) and its evidence differs, the request a reviewer makes from what is shown is refused, and reading again does not help. | `review_command.rs:153`: "Archaeology review state changed; refresh before retrying" |
| `RuleLifecycle!UnchangedCatalogIsPublishable`, `RuleReviews` | A rule that is still in the ready generation with changed evidence may be superseded through its occurrence in an older one. It then has a successor and a closed stream, and the next publication that brings it is refused, because the stream takes no `review_needed` event (`lifecycle.rs:287`). A stream of `MAX_LIFECYCLE_EVENTS_PER_RULE` events blocks the publication the same way once its rule changes. | `docs/BUSINESS_RULE_ARCHAEOLOGY.md:39`: "Incompatible evidence, parser, or contradiction changes preserve the prior decision but require review, conflict handling, or an explicit successor" |

## Proofs

Every invariant and every action property that a run checks and finds to hold is also a theorem,
for every value of the constants that satisfies the named assumptions; so is the refinement of
`ReadyCatalog`. The run shows it on the instance of its configuration. Each module below rests on
an inductive invariant, proved in the usual three parts (it holds initially, a step keeps it, it
implies the property), with lemmas for its conjuncts.

### ArchaeologyJobs_proofs

`ArchaeologyJobs_proofs` proves, for every choice of the constants that satisfies the
named assumptions of `ArchaeologyJobs`:

| Theorem | Statement |
| --- | --- |
| `TypeCorrect` | `Spec => []TypeOK` |
| `ReadyPointerCorrect` | `Spec => []ReadyPointerAgrees` |
| `ActiveRunsEnd` | `Spec => []ActiveRunsCanEnd` |
| `PublicationIsSealed` | `Spec => []PublishedIsSealed` |
| `CancellationIsFinal` | `Spec => CancellationSticks` |
| `CleanupIsByAge` | `Spec => []CleanupKeepsNewest` |
| `Refinement` | `Spec => ImplementsCatalog` |

The assumptions: runs are positive numbers (0 is the null pointer), `Null` is none of the
values it stands in for, valid contents are contents, times are natural numbers that
include 0, the bounds are natural numbers. None of them bounds the number of runs, owners
or repositories.

The invariants are proved together because each needs the others:

    Inv == /\ TypeOK
           /\ RowsInsertedTogether   \* a run without a job row has no generation row
           /\ OneActiveJob           \* the unique index, as a fact about states
           /\ CancelIsFinal          \* the flag goes with cancelling or an ended job
           /\ ReadyPointerAgrees
           /\ ActiveRunsCanEnd
           /\ PublishedIsSealed

Publishing run `i` supersedes the prior ready generation; that this does not strand an
active job in `cleanup` needs `OneActiveJob`. That a late clone cannot touch a published
generation is its guard; that a late stage write cannot needs that such a write asks for
`staging`. `CancelIsFinal` is what makes a paused or resumed job, whose flag is reset, one
that had no cancellation. `WorkOnActiveRun` and `EndRun` treat the actions that only move
one active job, or end it, at once; starting, publishing and cleaning up have a lemma each.
The refinement is proved from `Inv`: every action but the registration and the publication
leaves what is shown unchanged (`OtherStepsHide`), and a publication is one `Publish` step
of `ReadyCatalog` because the receipt holds and the source is current.

`CleanupKeepsNewest` follows from the types and from one fact about histories: only finitely many
runs have been used (`UsedFinite`), so that the ranks of a batch are numbers even when `Runs` is
infinite. `Newer` is a total order on them (`NewerIsOrder`); the generations a batch keeps are
then the newest by comparing cardinalities (`CleanupLeavesNewest`).

### ArchaeologyRefresh_proofs

| Theorem | Statement |
| --- | --- |
| `TypeCorrect` | `Spec => []TypeOK` |
| `ReadyIsCurrent` | `Spec => []ReadyFactsCurrent` |
| `NoPathIsForgotten` | `Spec => []MissingFactsHaveWork` |
| `CommandsUseTheStore` | `Spec => Store!Spec` |

The assumptions (`StoreAssumption`, `ManifestAssumption`, `DependsAssumption`,
`MarkersAssumption`, `BatchAssumption`, `RefusalAssumption`): paths are finitely many, runs are
positive, every source has a present path and a manifest of known versions, the words for a
missing and a pending version are no versions, any versions of paths may be unparsable and any
sources refused by any stage. Any number of start, continue and cancel commands, runs,
repositories and sources.

    Inv == /\ TypeOK
           /\ \A i \in Runs : RunSound(i)  \* what a run's rows hold in each stage
           /\ OneJob                       \* one active job of a repository
           /\ PointerSound                 \* the pointer names a ready generation
           /\ StartersSound                \* what a start command knows is still true
           /\ DriversSound                 \* continue commands are past the plan

Neither property is inductive: that a published generation is current has to be traced back
through validation, derivation and parsing to the plan. `RunSound` says so stage by stage, down
to `parse`, where every path is parsed or has a work item; `StartersSound` continues in the local
state of the start command, where a path outside the plan is unchanged in the generation cloned
from. That generation may have been superseded meanwhile, or the job cancelled, but published
facts do not change (`BaseKept`), and if another command ended the job the store refuses the next
transaction. That no continue command parses, and no other start command writes, before the plan
is stored is `DriversSound` and the uniqueness of the run a start command has minted. The plan
itself is right because the reverse closure has the changed paths (`PlanCovers`). A step is first
reduced to what it does to the store (`StepEffect`: one of eight effects), and the conjuncts are
proved from the effect.

`CommandsUseTheStore` shows that the composition implements the store: every step is a
transaction `ArchaeologyJobs` allows, with the arguments in their sets, or leaves the three tables
alone. `StoreIsWellConfigured` shows that the instance satisfies the assumptions of
`ArchaeologyJobs`; so what is proved of the store (the pointer, the seal, cancellation, the
refinement of the catalog) holds of the commands. The last inference is not a formal one, because
the prover cannot cite theorems of an instance.

### SynthesisCache_proofs

| Theorem | Statement |
| --- | --- |
| `TypeCorrect` | `Spec => []TypeOK` |
| `CallsAreAccounted` | `Spec => []CallsAccounted` |
| `RulesKeepAnswers` | `Spec => []RulesKeepTheirAnswer` |
| `OneCommandPerReservation` | `Spec => []SingleFlight` |
| `SettledRowsAreFinal` | `Spec => SettledIsFinal` |

The assumption (`SynthesisAssumption`): every key belongs to a rule, there is at least one
attempt, and `Null` is none of the values it stands in for. The invariant adds to the properties
what makes them inductive. `OwnEntries`: while the job synthesizes, the entries a command has in
its local list are ledger rows it made itself, so that writing the list again at the end adds no
row and cannot overwrite the attempt of the command that took over. `Accounts`: the count also
holds for rows cleanup has removed as long as a reservation may come back. `ReadyHasSuccess` and
`RulesEndSynthesis`: a ready row has a successful attempt, and there is no rule made by a model
while a reservation can still be changed. `ProtectedRows`: protected keys have no reservation to
settle. `Flight`: the reservation of a command at work is pending and fresh, which is what keeps
others away, unless the clock jumped. `SettledIsFinal` needs `ProtectedRows` for the exclusion,
whose upsert has no condition on the status.

### TrexWatcher_proofs

| Theorem | Statement |
| --- | --- |
| `TypeCorrect` | `Spec => []TypeOK` |
| `RunsAreApart` | `Spec => []OneRunPerSet` |
| `ReceiptsAreEarned` | `Spec => []HeadsRunOnce` |
| `ReceiptsAreTrue` | `Spec => []ReceiptMatchesStatus` |

The assumption (`WatcherAssumption`): in-flight sets are numbered from 1, `Order` lists pull
requests, the bounds are numbers. `RunsSound` is the reason for the first half of `OneRunPerSet`:
a run with a set is a member of it from the insertion to the release. The rest is about a watcher
left to itself (`~byHand`). `Alone`: then one set is in use at a time, also
after a restart of the application, and an open run is about a head without a receipt.
`Once` is the measure that bounds the receipts: from the newest receipt of a pull request, over
the run under way and the entry of the tick's list, to its present head, every step that arrives
at a head is one receipt that head may still get, and together with those it has they are no more
than its arrivals. `Posted` and `Shown` follow the status from the post to the receipt. The proof
showed that `ReceiptMatchesStatus` had been stated too strongly: two pull requests with one head
commit share its status (`trex_watcher.rs:804` posts to the commit), which an instance with one
pull request cannot show; the property now excepts such commits.

### RuleLifecycle_proofs

`RuleLifecycle_proofs` proves, for any rules, reviewers, catalogs and bounds:

| Theorem | Statement |
| --- | --- |
| `LifecycleTypeCorrect` | `Spec => []TypeOK` |
| `ShownDecisionsStand` | `Spec => []DecisionsStand` |
| `ReviewsAreInformed` | `Spec => DecisionsAreInformed` |
| `SupersessionIsConsistent` | `Spec => []SupersededHasSuccessor` |
| `AliasLinksFormStars` | `Spec => []AliasesAreStars` |

The assumptions are that catalogs map rules to occurrences or to `NULL`, that `NULL` is none of
the values it stands in for, and that the bounds are natural numbers. All five rest on
`Base`: the types, `GenerationsInOrder` (generations are staged one at a time in the order of
their numbers, and the ready one is the newest published) and `ViewsArePublished` (what a
reviewer read was published and had the rule). `CommandExtends`, `SupersedeExtends` and
`PublishExtends` say once what each kind of step may make of a stream. `DecisionsStand` is then
inductive: a command decides for the ready generation, after which nothing is published yet,
and a publication leaves a decision alone only if the prior ready generation had the rule and
the snapshot is the same. `DecisionsAreInformed` needs `ViewsStand`: a request that is still
about the ready generation finds the state its reviewer saw, or a later event for the loaded
occurrence, which the comparison in `Accepts` then sees, or a superseded rule, which takes no
decision. For `SupersededHasSuccessor` the new edge starts at a rule that had no successor and
ends at one no edge touched, so a set closed under the old edges stays closed when the end is
added to it.

### WorkItems_proofs and ManagedWork_proofs

`WorkItems_proofs` proves `BoardTypeCorrect` (`SpecItems => []ItemsTypeOK`) and
`SessionStaysInRepository` (`SpecItems => []SessionInRepository`) for any items, repositories,
sessions and updates; each row's part is inductive on its own.

`ManagedWork_proofs` proves, of the runs:

| Theorem | Statement |
| --- | --- |
| `TypeCorrect` | `Spec => []TypeOK` |
| `RunsLiveAlone` | `Spec => []OneLiveRun` |
| `PortsStayReserved` | `Spec => []PortsAreReserved` |
| `CheckpointsStayNumbered` | `Spec => []CheckpointsAreNumbered` |
| `ArchiveDestroysNothing` | `Spec => ArchiveKeepsWork` |

The assumption (`ManagedAssumption`): `NULL` is no identifier, hook invocations are finitely many,
the bounds are numbers, the faults and edits are those of the model. The row of a run refers to
its item, ports, checkpoints and closures, so one lemma says what a step does to a run
(`RunEffect`: it is created, written or deleted, and no other run is touched), and the others use
it. `OpSound` is what the command that holds the lock may rely on between its steps, and
`HooksSound` what a hook may rely on after it has given the lock up. `OneLiveRun` is inductive
because a run is planned out of `starting`, which is live already. `Numbered` strengthens the
numbering: besides the numbers from 1 to n, each once, all numbers below the one a hook has read
are taken, whoever inserted in between, so that the one it inserts is either the next or refused by
the unique index. The cascades of a deletion take all checkpoints of a run or none.
`ArchiveKeepsWork` is about the steps of the archiving (`op' # op`): a worktree whose temporary
directory is lost while the command holds the lock was not removed by it.

### What stays with TLC

Liveness, because the prover handles neither fairness nor `ENABLED`: `PlannedJobFinishes`,
`CancellationEnds`, `CancelDuringCallSettles` and `NewHeadIsRun`, and the violated
`InterruptedJobResumes`. `PlansCoverDependents` is false and has a run that shows it. What a
recursive definition computes would need induction over data, which is out of reach too, but no
module declares one.

## Plan

1. **More proofs**, where new properties are stated: for the models below, the same three steps.
2. The snapshot publication of the structural graph as a second implementation of `ReadyCatalog`.
3. Session retention: plans that are applied after the archive has changed.
4. The request table of the Codex app server and the output of agent terminals after exit.

## Not modelled

The models cover the code in which two actors or two transactions can meet: about a twentieth
of the implementation's lines. Most of the rest is sequential, and a state machine of it would
restate it: the language adapters, the derivation of rules and the other analyses are functions
of text; the readers, exports, benchmarks and reports are queries over rows whose changes are
modelled; the synthetic QA agent, reviews and fix attempts are prompts, processes and the parsing
of their output; the macOS application, the site and the scripts are user interface and I/O. In the
modelled parts, size limits, argument checks, digests, wording and timestamps that nothing compares
are left out. `identity_store.rs` and `temporal_store.rs` compute, inside the publication's
transaction, matches and edges that no modelled guard reads. The candidates that do have
concurrency of their own, and are not modelled yet, are in the plan.
