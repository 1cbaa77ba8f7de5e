---------------------------- MODULE TrexWatcher ----------------------------
(***************************************************************************)
(* The pull request watcher of one repository (commands/trex_watcher.rs):  *)
(* the row of trex_watchers, the watcher task and its slot in              *)
(* WatcherHandles, the sandbox runs it detaches, their receipts in         *)
(* trex_pr_runs and the commit statuses they post on GitHub.               *)
(*                                                                         *)
(* A tick lists the open pull requests, then considers each: the lookups   *)
(* under the in-flight lock and the database lock are one action.  A run   *)
(* posts, executes, posts, records and releases in separate actions.  Each *)
(* watcher task and each forced poll has an in-flight set of its own, and  *)
(* its runs keep that set alive after it is gone.                          *)
(***************************************************************************)
EXTENDS Integers, Sequences, FiniteSets

CONSTANTS
    PRs,            \* open pull requests
    Order,          \* the order gh lists them in
    Heads,          \* head commits
    Null,           \* no head, no status
    Outcomes,       \* commit statuses the sandbox's verdicts lead to
    MaxPerTick,     \* MAX_PRS_PER_TICK
    Sets,           \* in-flight sets (bounds the tasks and forced polls)
    Workers,        \* concurrent runs (more than can be started)
    MaxPushes,      \* bound on head changes
    MaxMishaps,     \* bound on the events of Mishaps
    Mishaps         \* "force", "stop", "disable", "headless", "dberror", "ioerror", "hang",
                    \* "crash"

ASSUME WatcherAssumption ==
    /\ Sets \subseteq Nat \ {0} /\ 1 \in Sets
    /\ MaxPerTick \in Nat \ {0} /\ MaxPushes \in Nat /\ MaxMishaps \in Nat
    /\ Order \in Seq(PRs)
    /\ Outcomes \subseteq {"success", "pending", "failure"}
    /\ Null \notin Heads

VARIABLES
    enabled,    \* trex_watchers.enabled
    slot,       \* does WatcherHandles hold an entry for the repository?
    task,       \* the watcher task: its in-flight set (0: none) and its todo list
    forced,     \* a forced poll in progress
    inFlight,   \* the in-flight sets
    used,       \* sets handed out so far
    run,        \* the detached runs, and those of a headless poll
    latest,     \* newest receipt of each pull request: head and status_state
    shown,      \* the commit status GitHub shows for a head
    head,       \* the head GitHub reports
    up,         \* is the application open?
    pushes, mishaps,
    byHand,     \* history: was a poll forced, a run headless or the task stopped?
    arrived,    \* history: how often a head became the head of a pull request
    receipts    \* history: how many receipts it has

watcher == <<enabled, slot, task, forced, inFlight, used>>
world   == <<head, up, pushes, mishaps, byHand, arrived>>
records == <<latest, shown, receipts>>
vars    == <<watcher, run, records, world>>

Statuses == {"success", "pending", "failure"}
NoTask   == [set |-> 0, todo |-> <<>>, busy |-> FALSE]
NoRun    == [pc |-> "none", pr |-> Null, head |-> Null, set |-> 0, state |-> Null]
NoReceipt == [head |-> Null, state |-> Null]

TypeOK ==
    /\ enabled \in BOOLEAN /\ slot \in BOOLEAN /\ up \in BOOLEAN /\ byHand \in BOOLEAN
    /\ \A t \in {task, forced} :
          /\ t.set \in Sets \cup {0} /\ t.busy \in BOOLEAN
          /\ t.todo \in Seq(PRs \X Heads) /\ Len(t.todo) <= MaxPerTick
    /\ inFlight \in [Sets -> SUBSET PRs] /\ used \in Sets \cup {0}
    /\ run \in [Workers -> [pc : {"none", "pending", "execute", "post", "record", "release",
                                  "hung"},
                            pr : PRs \cup {Null}, head : Heads \cup {Null},
                            set : Sets \cup {0}, state : Statuses \cup {Null}]]
    /\ latest \in [PRs -> [head : Heads \cup {Null}, state : Statuses \cup {Null}]]
    /\ shown \in [Heads -> Statuses \cup {Null}]
    /\ head \in [PRs -> Heads]
    /\ pushes \in 0..MaxPushes /\ mishaps \in 0..MaxMishaps
    /\ arrived \in [PRs -> [Heads -> Nat]] /\ receipts \in [PRs -> [Heads -> Nat]]

\* The watcher has just been started on a repository with open pull requests.
Init ==
    /\ enabled = TRUE /\ slot = TRUE /\ up = TRUE
    /\ used = 1
    /\ task = [NoTask EXCEPT !.set = 1] /\ forced = NoTask
    /\ inFlight = [s \in Sets |-> {}]
    /\ run = [w \in Workers |-> NoRun]
    /\ latest = [p \in PRs |-> NoReceipt]
    /\ shown = [h \in Heads |-> Null]
    /\ head \in [PRs -> Heads]
    /\ pushes = 0 /\ mishaps = 0 /\ byHand = FALSE
    /\ arrived = [p \in PRs |-> [h \in Heads |-> IF head[p] = h THEN 1 ELSE 0]]
    /\ receipts = [p \in PRs |-> [h \in Heads |-> 0]]

-----------------------------------------------------------------------------
(***************************************************************************)
(* A tick.                                                                 *)
(***************************************************************************)

\* list_open_prs, then take(MAX_PRS_PER_TICK).
Listed == LET n == IF Len(Order) < MaxPerTick THEN Len(Order) ELSE MaxPerTick
          IN  [i \in 1..n |-> <<Order[i], head[Order[i]]>>]

\* A task for a run: any of those that are idle.
Detach(p, h, set) ==
    LET idle == {w \in Workers : run[w].pc = "none"}
    IN  /\ idle # {}
        /\ run' = [run EXCEPT ![CHOOSE w \in idle : TRUE] =
                      [pc |-> "pending", pr |-> p, head |-> h, set |-> set, state |-> Null]]

\* Mutated: the in-flight set is not asked.
NeverBusy(set, p) == FALSE

\* s.contains(&pr_number)
Busy(set, p) == p \in inFlight[set]

\* Mutated: the receipts are not asked.
AlwaysRequiresRun(p, h) == TRUE

\* Mutated: any receipt of the pull request will do.
RequiresFirstRun(p, h) == latest[p].head = Null

\* pr_head_requires_run
RequiresRun(p, h) == latest[p].head # h

\* The slot of the pull request is taken; then the newest receipt decides
\* whether it is given back or a run is detached.
ConsiderOutcome(set, p, h) ==
    IF Busy(set, p) THEN UNCHANGED <<inFlight, run>>
    ELSE IF ~RequiresRun(p, h) THEN UNCHANGED <<inFlight, run>>
    ELSE /\ inFlight' = [inFlight EXCEPT ![set] = @ \cup {p}]
         /\ Detach(p, h, set)

\* The periodic tick: a disabled watcher leaves without giving up its slot.
BeginTick ==
    /\ task.set # 0 /\ ~task.busy
    /\ IF enabled
       THEN task' = [task EXCEPT !.busy = TRUE, !.todo = Listed]
       ELSE task' = NoTask
    /\ UNCHANGED <<enabled, slot, forced, inFlight, used, run, records, world>>

TickConsiders ==
    /\ task.busy /\ task.todo # <<>>
    /\ ConsiderOutcome(task.set, Head(task.todo)[1], Head(task.todo)[2])
    /\ task' = [task EXCEPT !.todo = Tail(@)]
    /\ UNCHANGED <<enabled, slot, forced, used, records, world>>

EndTick ==
    /\ task.busy /\ task.todo = <<>>
    /\ task' = [task EXCEPT !.busy = FALSE]
    /\ UNCHANGED <<enabled, slot, forced, inFlight, used, run, records, world>>

-----------------------------------------------------------------------------
(***************************************************************************)
(* A run.                                                                  *)
(***************************************************************************)
SetRun(w, r) == run' = [run EXCEPT ![w] = r]

\* The pending status; a failed post is ignored.
PostPending(w) ==
    /\ run[w].pc = "pending"
    /\ SetRun(w, [run[w] EXCEPT !.pc = "execute"])
    /\ \/ shown' = [shown EXCEPT ![run[w].head] = "pending"]
       \/ UNCHANGED shown
    /\ UNCHANGED <<watcher, latest, receipts, world>>

\* materialize_pr_head and the sandbox; a run that fails is a BLOCK.
Execute(w) ==
    /\ run[w].pc = "execute"
    /\ \E s \in Outcomes : SetRun(w, [run[w] EXCEPT !.pc = "post", !.state = s])
    /\ UNCHANGED <<watcher, records, world>>

\* Mutated: the receipt claims a status whether or not the post succeeded.
PostVerdictBlindly(w) ==
    /\ run[w].pc = "post"
    /\ SetRun(w, [run[w] EXCEPT !.pc = "record"])
    /\ \/ shown' = [shown EXCEPT ![run[w].head] = run[w].state]
       \/ UNCHANGED shown
    /\ UNCHANGED <<watcher, latest, receipts, world>>

\* Mutated: a failed post is recorded as a status of its own.
PostVerdictOrError(w) ==
    /\ run[w].pc = "post"
    /\ \/ /\ shown' = [shown EXCEPT ![run[w].head] = run[w].state]
          /\ SetRun(w, [run[w] EXCEPT !.pc = "record"])
       \/ /\ SetRun(w, [run[w] EXCEPT !.pc = "record", !.state = "error"])
          /\ UNCHANGED shown
    /\ UNCHANGED <<watcher, latest, receipts, world>>

\* The verdict is posted, or the post fails and the receipt says so.
PostVerdict(w) ==
    /\ run[w].pc = "post"
    /\ \/ /\ shown' = [shown EXCEPT ![run[w].head] = run[w].state]
          /\ SetRun(w, [run[w] EXCEPT !.pc = "record"])
       \/ /\ SetRun(w, [run[w] EXCEPT !.pc = "record", !.state = Null])
          /\ UNCHANGED shown
    /\ UNCHANGED <<watcher, latest, receipts, world>>

\* insert_pr_run
Record(w) ==
    LET r == run[w]
    IN  /\ r.pc = "record"
        /\ latest' = [latest EXCEPT ![r.pr] = [head |-> r.head, state |-> r.state]]
        /\ receipts' = [receipts EXCEPT ![r.pr][r.head] = @ + 1]
        /\ SetRun(w, IF r.set = 0 THEN NoRun ELSE [r EXCEPT !.pc = "release"])
        /\ UNCHANGED <<watcher, shown, world>>

Release(w) ==
    /\ run[w].pc = "release"
    /\ inFlight' = [inFlight EXCEPT ![run[w].set] = @ \ {run[w].pr}]
    /\ SetRun(w, NoRun)
    /\ UNCHANGED <<enabled, slot, task, forced, used, records, world>>

Work(w) == PostPending(w) \/ Execute(w) \/ PostVerdict(w) \/ Record(w) \/ Release(w)

-----------------------------------------------------------------------------
(***************************************************************************)
(* Commands and mishaps.                                                   *)
(***************************************************************************)
Mishap(kind) ==
    /\ kind \in Mishaps
    /\ mishaps < MaxMishaps
    /\ mishaps' = mishaps + 1
    /\ byHand' = (byHand \/ kind \in {"force", "headless", "stop"})
    /\ UNCHANGED <<head, pushes, arrived>>

FreshSet == used + 1

\* spawn_watcher_task: an entry in the map is taken for a running task.
Spawn ==
    IF slot THEN UNCHANGED <<slot, task, used>>
    ELSE /\ FreshSet \in Sets
         /\ slot' = TRUE
         /\ used' = FreshSet
         /\ task' = [NoTask EXCEPT !.set = FreshSet]

\* start_trex_watcher
Start ==
    /\ up /\ ~enabled
    /\ enabled' = TRUE
    /\ Spawn
    /\ UNCHANGED <<forced, inFlight, run, records, world>>

\* stop_trex_watcher: the task is aborted, the runs it detached go on.
Stop ==
    /\ Mishap("stop")
    /\ up
    /\ enabled' = FALSE /\ slot' = FALSE /\ task' = NoTask
    /\ UNCHANGED <<forced, inFlight, used, run, records, up>>

\* disable_trex_watcher_headless, in another process.
DisableHeadless ==
    /\ Mishap("disable")
    /\ enabled
    /\ enabled' = FALSE
    /\ UNCHANGED <<slot, task, forced, inFlight, used, run, records, up>>

\* enable_trex_watcher_headless: the row only.
EnableHeadless ==
    /\ "disable" \in Mishaps
    /\ ~enabled
    /\ enabled' = TRUE
    /\ UNCHANGED <<slot, task, forced, inFlight, used, run, records, world>>

\* force_poll_trex_watcher: a tick with a new, empty in-flight set.
BeginForcedPoll ==
    /\ Mishap("force")
    /\ up /\ ~forced.busy
    /\ FreshSet \in Sets
    /\ used' = FreshSet
    /\ forced' = [set |-> FreshSet, todo |-> Listed, busy |-> Listed # <<>>]
    /\ UNCHANGED <<enabled, slot, task, inFlight, run, records, up>>

ForcedConsiders ==
    /\ forced.busy /\ forced.todo # <<>>
    /\ ConsiderOutcome(forced.set, Head(forced.todo)[1], Head(forced.todo)[2])
    /\ forced' = [forced EXCEPT !.todo = Tail(@), !.busy = Len(forced.todo) > 1]
    /\ UNCHANGED <<enabled, slot, task, used, records, world>>

\* poll_trex_watcher_headless and retry_trex_watcher_headless look at the
\* receipts only; a retry not even at them.
HeadlessRun(p) ==
    /\ Mishap("headless")
    /\ Detach(p, head[p], 0)
    /\ UNCHANGED <<watcher, records, up>>

\* The lookup of the newest receipt fails: the tick returns at once, and the
\* pull request it had just put in its set stays there.
DbErrorInTick ==
    /\ Mishap("dberror")
    /\ task.busy /\ task.todo # <<>>
    /\ ~Busy(task.set, Head(task.todo)[1])
    /\ inFlight' = [inFlight EXCEPT ![task.set] = @ \cup {Head(task.todo)[1]}]
    /\ task' = [task EXCEPT !.busy = FALSE, !.todo = <<>>]
    /\ UNCHANGED <<enabled, slot, forced, used, run, records, up>>

\* gh cannot list the pull requests: the tick ends.
ListError ==
    /\ Mishap("ioerror")
    /\ task.busy
    /\ task.todo = Listed
    /\ task' = [task EXCEPT !.busy = FALSE, !.todo = <<>>]
    /\ UNCHANGED <<enabled, slot, forced, inFlight, used, run, records, up>>

\* insert_pr_run fails and the run does not notice.
RecordError(w) ==
    /\ Mishap("ioerror")
    /\ run[w].pc = "record" /\ run[w].set # 0
    /\ SetRun(w, [run[w] EXCEPT !.pc = "release"])
    /\ UNCHANGED <<watcher, records, up>>

\* gh auth token, git fetch, the agent, an installation or a test that leaves
\* the sandbox's pipes open: none has a timeout, so a run may wait for ever.
\* The requests to GitHub give up after twenty seconds.
Hang(w) ==
    /\ Mishap("hang")
    /\ run[w].pc \in {"pending", "execute"}
    /\ SetRun(w, [run[w] EXCEPT !.pc = "hung"])
    /\ UNCHANGED <<watcher, records, up>>

\* Nor has gh pr list.  A task that waits for it does nothing more: like one
\* that has left, it only keeps its slot.
HangListing ==
    /\ Mishap("hang")
    /\ task.set # 0 /\ ~task.busy /\ enabled
    /\ task' = NoTask
    /\ UNCHANGED <<enabled, slot, forced, inFlight, used, run, records, up>>

\* The application is closed or dies, and everything in it.
Crash ==
    /\ Mishap("crash")
    /\ up
    /\ up' = FALSE
    /\ slot' = FALSE /\ task' = NoTask /\ forced' = NoTask
    /\ run' = [w \in Workers |-> IF run[w].set = 0 THEN run[w] ELSE NoRun]
    /\ inFlight' = [s \in Sets |-> {}]
    /\ UNCHANGED <<enabled, used, records>>

\* resume_enabled_watchers
Restart ==
    /\ ~up
    /\ up' = TRUE
    /\ IF enabled THEN Spawn ELSE UNCHANGED <<slot, task, used>>
    /\ UNCHANGED <<enabled, forced, inFlight, run, records>>
    /\ UNCHANGED <<head, pushes, mishaps, byHand, arrived>>

\* Somebody pushes to a pull request.
Push(p, h) ==
    /\ pushes < MaxPushes
    /\ head[p] # h
    /\ pushes' = pushes + 1
    /\ head' = [head EXCEPT ![p] = h]
    /\ arrived' = [arrived EXCEPT ![p][h] = @ + 1]
    /\ UNCHANGED <<watcher, run, records, up, mishaps, byHand>>

Tick == BeginTick \/ TickConsiders \/ EndTick

Next ==
    \/ Tick
    \/ ForcedConsiders
    \/ \E w \in Workers : Work(w) \/ RecordError(w) \/ Hang(w)
    \/ Start \/ Stop \/ DisableHeadless \/ EnableHeadless \/ BeginForcedPoll
    \/ DbErrorInTick \/ ListError \/ HangListing
    \/ Crash \/ Restart
    \/ \E p \in PRs : HeadlessRun(p) \/ \E h \in Heads : Push(p, h)

Spec == Init /\ [][Next]_vars

\* The ticker fires every interval, the requests to GitHub have a timeout, and
\* a subprocess ends sooner or later or is one of those that hang.
Fairness ==
    /\ WF_vars(Tick)
    /\ WF_vars(ForcedConsiders)
    /\ \A w \in Workers : WF_vars(Work(w))

FairSpec == Spec /\ Fairness

-----------------------------------------------------------------------------
(***************************************************************************)
(* Properties.                                                             *)
(***************************************************************************)
Running(p) == {w \in Workers : run[w].pc \notin {"none", "release"} /\ run[w].pr = p}

\* "The Tokio task per watcher holds an in-memory in-flight set so two ticks
\* can't kick off the same PR sandbox concurrently."
NoConcurrentRuns == \A p \in PRs : Cardinality(Running(p)) <= 1

\* What an in-flight set does guarantee, whatever else starts runs, stops the
\* task or fails: no two runs of one set are about the same pull request, and
\* a run in progress is in its set.  Until a poll is forced, a run headless or
\* the task stopped, there is one set, and so one run of a pull request.
OneRunPerSet ==
    \A p \in PRs :
        /\ \A w, v \in Running(p) : run[w].set = run[v].set /\ run[w].set # 0 => w = v
        /\ \A w \in Running(p) : run[w].set # 0 => p \in inFlight[run[w].set]
        /\ ~byHand => Cardinality(Running(p)) <= 1

\* Unchanged heads are not run again: the watcher by itself leaves a head a
\* receipt for each time it became the head, at most, through pushes during a
\* run and a crash between the post and the receipt.
HeadsRunOnce ==
    ~byHand => \A p \in PRs, h \in Heads : receipts[p][h] <= arrived[p][h]

\* Has the commit been the head of no other pull request?  Its status on
\* GitHub (the context is always codevetter/t-rex) is shared by those it heads.
Sole(p, h) == \A q \in PRs \ {p} : arrived[q][h] = 0

\* GitHub shows what the newest receipt of a pull request claims to have
\* posted, through failed posts, lost receipts, pushes and crashes, unless runs
\* were started besides the watcher's or another pull request has that commit.
ReceiptMatchesStatus ==
    ~byHand =>
        \A p \in PRs :
            LET r == latest[p]
            IN  r.state # Null /\ Sole(p, r.head) => shown[r.head] = r.state

\* The ways in which an enabled watcher has given up on a pull request: its
\* task is gone (it met a disabled row and left its slot, or the row alone was
\* enabled) or waits for ever for the list of pull requests; the pull request
\* stays in the in-flight set, because a failed lookup left it there with no
\* run to take it out or because its run hangs; or it is past the prefix a tick
\* takes.
Abandoned(p) ==
    \/ task.set = 0
    \/ /\ p \in inFlight[task.set]
       /\ \A w \in Workers :
              run[w].set = task.set /\ run[w].pr = p => run[w].pc = "hung"
    \/ p \notin {Listed[i][1] : i \in DOMAIN Listed}

\* "runs the T-Rex sandbox whenever a PR's head SHA changes": while the
\* watcher is enabled and the application open, the current head gets its
\* receipt unless a newer head replaces it, through lost statuses and receipts,
\* failed listings, forced polls, stops and restarts.  What the code does not
\* recover from, a subprocess that never ends among it, is what Abandoned names.
NewHeadIsRun ==
    \A p \in PRs, h \in Heads :
        (up /\ enabled /\ head[p] = h) ~>
            (latest[p].head = h \/ head[p] # h \/ ~up \/ ~enabled \/ Abandoned(p))
=============================================================================
