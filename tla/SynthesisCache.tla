--------------------------- MODULE SynthesisCache ---------------------------
(***************************************************************************)
(* Model-assisted synthesis of business rules: the commands of             *)
(* synthesis_command.rs, the reservations and the attempt ledger of        *)
(* synthesis_runtime.rs (tables archaeology_synthesis_cache and            *)
(* archaeology_synthesis_attempts) for the generation of one job.          *)
(*                                                                         *)
(* A command takes the database lock several times; what it does under one *)
(* lock is one action.  Between two of them anything may happen: other     *)
(* commands, the cancellation or the recovery of the job, a crash.  The    *)
(* owner identity a command carries is the job's, so two commands of one   *)
(* job are indistinguishable to every compare-and-set on owner_id.         *)
(***************************************************************************)
EXTENDS Integers, Sequences, FiniteSets

CONSTANTS
    Commands,       \* run_business_rule_synthesis calls
    Keys,           \* cache keys: one per evidence packet, provider and policy
    Rules,          \* canonical rules of the generation
    RuleOf,         \* the rule a key's packet is about
    Protected,      \* keys whose evidence lies in protected source
    Owners,         \* owner identities of the job
    Answers,        \* responses a provider may give
    Null,           \* SQL NULL
    MaxAttempts,    \* selection.execution.max_attempts
    Disturbances    \* job operations of other commands that may interleave

ASSUME SynthesisAssumption ==
    /\ RuleOf \in [Keys -> Rules]
    /\ Protected \subseteq Keys
    /\ MaxAttempts \in Nat \ {0}
    /\ Null \notin Owners \cup Answers \cup Commands \cup Keys

VARIABLES
    job,        \* the row of archaeology_jobs
    cache,      \* archaeology_synthesis_cache
    attempts,   \* archaeology_synthesis_attempts
    rule,       \* archaeology_rules: the key and the answer a rule was made from
    cmd,        \* the commands in progress
    calls,      \* history: provider invocations made for each key
    jumped      \* history: did a reservation look stale while its command worked?

history == <<calls, jumped>>
vars    == <<job, cache, attempts, rule, cmd, history>>

Settled == {"ready", "excluded", "failed", "cancelled"}

Row(status, owner, answer) ==
    [status |-> status, owner |-> owner, answer |-> answer, stale |-> FALSE]

NoRow     == Row("absent", Null, Null)
NoAttempt == [status |-> "none", by |-> Null]
Idle      == [pc |-> "idle", key |-> Null, owner |-> Null, next |-> 0,
              log |-> <<>>, told |-> "no", answer |-> Null]
Plain     == [key |-> Null, answer |-> Null]     \* trust = 'deterministic'

AttemptStatuses == {"cancelled", "timeout", "transient", "permanent", "success"}

TypeOK ==
    /\ job \in [state : {"running", "paused", "cancelling", "cancelled", "completed"},
                stage : {"synthesize", "validate", "cleanup", "idle"},
                owner : Owners, cancel : BOOLEAN]
    /\ cache \in [Keys -> [status : Settled \cup {"absent", "pending"},
                           owner : Owners \cup {Null},
                           answer : Answers \cup {Null}, stale : BOOLEAN]]
    /\ attempts \in [Keys -> [1..MaxAttempts ->
                        [status : AttemptStatuses \cup {"none", "pending"},
                         by : Commands \cup {Null}]]]
    /\ rule \in [Rules -> [key : Keys \cup {Null}, answer : Answers \cup {Null}]]
    /\ cmd \in [Commands ->
                  [pc : {"idle", "exclude", "reserve", "cached", "build",
                         "begin", "call", "sleep", "outcome", "settle", "publish", "fail"},
                   key : Keys \cup {Null}, owner : Owners \cup {Null},
                   next : 0..MaxAttempts, log : Seq(AttemptStatuses),
                   told : {"no", "cancelled", "lost"},
                   answer : Answers \cup {Null}]]
    /\ calls \in [Keys -> Nat] /\ jumped \in BOOLEAN

\* The job has derived its deterministic rules.
Init ==
    /\ job \in [state : {"running"}, stage : {"synthesize"}, owner : Owners,
                cancel : {FALSE}]
    /\ cache = [k \in Keys |-> NoRow]
    /\ attempts = [k \in Keys |-> [n \in 1..MaxAttempts |-> NoAttempt]]
    /\ rule = [r \in Rules |-> Plain]
    /\ cmd = [c \in Commands |-> Idle]
    /\ calls = [k \in Keys |-> 0] /\ jumped = FALSE

-----------------------------------------------------------------------------
(***************************************************************************)
(* Who may write: validate_persistence_actor.                              *)
(***************************************************************************)
ActiveActor(o, stage) ==
    /\ job.owner = o
    /\ job.stage = stage
    /\ job.state = "running"
    /\ ~job.cancel

AccountingActor(o) ==
    /\ job.owner = o
    /\ job.stage = "synthesize"
    /\ job.state \in {"running", "cancelling"}

\* Mutated: the owner and the status of the row are not compared.
OwnsAnyRow(k, o) == cache[k].status # "absent"

\* owner_id = ? AND status = 'pending'
OwnsPending(k, o) == cache[k].owner = o /\ cache[k].status = "pending"

\* owned_job_outcome and the check of watch_owned_job.
JobOutcome(o) ==
    IF job.owner # o \/ job.stage # "synthesize" THEN "lost"
    ELSE IF job.cancel \/ job.state = "cancelling" THEN "cancelled"
    ELSE IF job.state = "running" THEN "active"
    ELSE "lost"

-----------------------------------------------------------------------------
(***************************************************************************)
(* The attempt ledger.                                                     *)
(***************************************************************************)

\* Mutated: an attempt row that exists is taken for the caller's own.
AttemptIsAnyones(k, n) == TRUE

\* insert_pending_attempt: INSERT OR IGNORE must insert.
AttemptIsFree(k, n) == attempts[k][n] = NoAttempt

\* persist_attempt writes over a pending row, and otherwise the stored row
\* has to match, which only the same command's does: its duration is there.
Accepts(k, n, s, c) ==
    attempts[k][n].status \in {"none", "pending"} \/ attempts[k][n] = [status |-> s, by |-> c]

\* The ordinal of the i-th entry of a command's local list.
Ordinal(w, i) == w.next - Len(w.log) + i

AcceptsLog(c) ==
    LET w == cmd[c]
    IN  \A i \in DOMAIN w.log : Accepts(w.key, Ordinal(w, i), w.log[i], c)

\* persist_attempts
LedgerWith(c) ==
    LET w == cmd[c]
    IN  [attempts EXCEPT ![w.key] =
            [n \in 1..MaxAttempts |->
                IF \E i \in DOMAIN w.log : n = Ordinal(w, i)
                THEN [status |-> w.log[n - w.next + Len(w.log)], by |-> c]
                ELSE @[n]]]

\* COALESCE(MAX(ordinal), 0) + 1
NextOrdinal(k) ==
    1 + Cardinality({n \in 1..MaxAttempts :
                        \E m \in n..MaxAttempts : attempts[k][m] # NoAttempt})

-----------------------------------------------------------------------------
(***************************************************************************)
(* Materialising a rule: finalize_model_synthesis_catalog.                 *)
(***************************************************************************)
Leave(c) == cmd' = [cmd EXCEPT ![c] = Idle]
Go(c, pc) == cmd' = [cmd EXCEPT ![c].pc = pc]

\* At stage synthesize the rule must still be deterministic and the job moves
\* on; at stage validate the call is a repetition and changes nothing.
CanMaterialize(o, k) ==
    ActiveActor(o, "synthesize") /\ rule[RuleOf[k]] = Plain

Materialize(k, a) ==
    /\ rule' = [rule EXCEPT ![RuleOf[k]] = [key |-> k, answer |-> a]]
    /\ job' = [job EXCEPT !.stage = "validate"]

-----------------------------------------------------------------------------
(***************************************************************************)
(* The command.                                                            *)
(***************************************************************************)

\* Ownership, eligibility and a ready answer are looked up under one lock.  A
\* ready answer is materialised there and then, or the catalog refuses it.
Start(c, k, o) ==
    /\ cmd[c].pc = "idle"
    /\ ActiveActor(o, "synthesize") \/ ActiveActor(o, "validate")
    /\ \/ /\ k \in Protected
          /\ cmd' = [cmd EXCEPT ![c] = [Idle EXCEPT !.pc = "exclude", !.key = k,
                                                    !.owner = o]]
          /\ UNCHANGED <<job, rule>>
       \/ /\ k \notin Protected
          /\ cache[k].status # "ready"
          /\ cmd' = [cmd EXCEPT ![c] = [Idle EXCEPT !.pc = "reserve", !.key = k,
                                                    !.owner = o]]
          /\ UNCHANGED <<job, rule>>
       \/ /\ k \notin Protected
          /\ cache[k].status = "ready"
          /\ CanMaterialize(o, k)
          /\ Materialize(k, cache[k].answer)
          /\ UNCHANGED cmd
    /\ UNCHANGED <<cache, attempts, history>>

\* persist_synthesis_exclusion: an upsert over whatever the row was.
PersistExclusion(c) ==
    LET w == cmd[c]
    IN  /\ w.pc = "exclude"
        /\ cache' = IF ActiveActor(w.owner, "synthesize")
                    THEN [cache EXCEPT ![w.key] = Row("excluded", Null, Null)]
                    ELSE cache
        /\ Leave(c)
        /\ UNCHANGED <<job, attempts, rule, history>>

\* Mutated: a pending row is taken over however fresh it is.
TakesAnyPending(k) == cache[k].status = "pending"

\* "pending" if updated_at < stale_before
IsStale(k) == cache[k].status = "pending" /\ cache[k].stale

\* reserve_synthesis_cache: a new row, or a stale one taken over at the next
\* ordinal.
Reserve(c) ==
    LET w == cmd[c]
        k == w.key
        n == IF cache[k].status = "absent" THEN 1 ELSE NextOrdinal(k)
    IN  /\ w.pc = "reserve"
        /\ ActiveActor(w.owner, "synthesize")
        /\ cache[k].status = "absent" \/ IsStale(k)
        /\ n <= MaxAttempts
        /\ cache' = [cache EXCEPT ![k] = Row("pending", w.owner, Null)]
        /\ cmd' = [cmd EXCEPT ![c].pc = "build", ![c].next = n]
        /\ UNCHANGED <<job, attempts, rule, history>>

\* A stale row with no attempt left is failed on the spot.
ReserveExhausted(c) ==
    LET w == cmd[c]
    IN  /\ w.pc = "reserve"
        /\ ActiveActor(w.owner, "synthesize")
        /\ IsStale(w.key)
        /\ NextOrdinal(w.key) > MaxAttempts
        /\ cache' = [cache EXCEPT ![w.key] = Row("failed", Null, Null)]
        /\ Leave(c)
        /\ UNCHANGED <<job, attempts, rule, history>>

\* No lease any more, or the row is settled or busy: the command returns, or
\* takes the lock once more for an answer that became ready.
ReserveRefused(c) ==
    LET w == cmd[c]
        k == w.key
    IN  /\ w.pc = "reserve"
        /\ \/ ~ActiveActor(w.owner, "synthesize")
           \/ cache[k].status # "absent" /\ ~IsStale(k)
        /\ IF ActiveActor(w.owner, "synthesize") /\ cache[k].status = "ready"
           THEN Go(c, "cached")
           ELSE Leave(c)
        /\ UNCHANGED <<job, cache, attempts, rule, history>>

MaterializeCached(c) ==
    LET w == cmd[c]
    IN  /\ w.pc = "cached"
        /\ IF cache[w.key].status = "ready" /\ CanMaterialize(w.owner, w.key)
           THEN Materialize(w.key, cache[w.key].answer)
           ELSE UNCHANGED <<job, rule>>
        /\ Leave(c)
        /\ UNCHANGED <<cache, attempts, history>>

\* Settle a reservation this owner holds, or fail to (settle_failed_reservation
\* and the compare-and-set of the two failure finalisations).
SettleAs(k, o, status) ==
    cache' = IF AccountingActor(o) /\ OwnsPending(k, o)
             THEN [cache EXCEPT ![k] = Row(status, Null, Null)]
             ELSE cache

\* The provider is built, or the reservation is settled as failed.
BuildProvider(c) ==
    /\ cmd[c].pc = "build"
    /\ \/ Go(c, "begin") /\ UNCHANGED cache
       \/ SettleAs(cmd[c].key, cmd[c].owner, "failed") /\ Leave(c)
    /\ UNCHANGED <<job, attempts, rule, history>>

\* watch_owned_job runs beside the invocation and cancels it.
Watch(c) ==
    LET w == cmd[c]
    IN  /\ w.pc \in {"begin", "call", "sleep", "outcome"}
        /\ w.told = "no"
        /\ JobOutcome(w.owner) # "active"
        /\ cmd' = [cmd EXCEPT ![c].told = JobOutcome(w.owner)]
        /\ UNCHANGED <<job, cache, attempts, rule, history>>

\* recorder.begin, then the provider is invoked: the attempt is in the ledger
\* before the provider sees the prompt.
BeginAttempt(c) ==
    LET w == cmd[c]
    IN  /\ w.pc = "begin"
        /\ w.told = "no"
        /\ ActiveActor(w.owner, "synthesize")
        /\ AttemptIsFree(w.key, w.next)
        /\ attempts' = [attempts EXCEPT ![w.key][w.next] =
                           [status |-> "pending", by |-> c]]
        /\ calls' = [calls EXCEPT ![w.key] = @ + 1]
        /\ Go(c, "call")
        /\ UNCHANGED <<job, cache, rule, jumped>>

\* Told to stop, no lease, or the ordinal is taken.  The local list ends with
\* the attempt before this one.
BeginRefused(c) ==
    LET w == cmd[c]
    IN  /\ w.pc = "begin"
        /\ \/ w.told # "no"
           \/ ~ActiveActor(w.owner, "synthesize")
           \/ ~AttemptIsFree(w.key, w.next)
        /\ cmd' = [cmd EXCEPT ![c].pc = "outcome", ![c].next = @ - 1]
        /\ UNCHANGED <<job, cache, attempts, rule, history>>

\* Mutated: the retry after a timeout forgets the last ordinal.
AfterTimeoutAlways(s, n) ==
    CASE s = "transient" -> {"sleep"}
      [] s = "timeout"   -> {"sleep", "outcome"}
      [] OTHER           -> {"outcome"}

\* Where an attempt that ended with s leads; a timeout may have used up the
\* total deadline.
After(s, n) ==
    CASE s = "transient" -> {"sleep"}
      [] s = "timeout"   -> IF n = MaxAttempts THEN {"outcome"} ELSE {"sleep", "outcome"}
      [] OTHER           -> {"outcome"}

\* record_finished_attempt: the local list first, then the ledger.
FinishAttempt(c, s, a) ==
    LET w        == cmd[c]
        recorded == AccountingActor(w.owner) /\ Accepts(w.key, w.next, s, c)
    IN  /\ w.pc = "call"
        /\ s = "cancelled" => w.told # "no"
        /\ s = "transient" => w.next < MaxAttempts
        /\ attempts' = IF recorded
                       THEN [attempts EXCEPT ![w.key][w.next] =
                                [status |-> s, by |-> c]]
                       ELSE attempts
        /\ \E to \in IF recorded THEN After(s, w.next) ELSE {"outcome"} :
              cmd' = [cmd EXCEPT ![c].pc = to, ![c].log = Append(@, s),
                                 ![c].answer = IF recorded /\ s = "success"
                                               THEN a ELSE Null]
        /\ UNCHANGED <<job, cache, rule, history>>

\* sleep_retry ends by itself, at the total deadline, or when told to stop.
Wake(c) ==
    /\ cmd[c].pc = "sleep"
    /\ \/ cmd' = [cmd EXCEPT ![c].pc = "begin", ![c].next = @ + 1]
       \/ Go(c, "outcome")
    /\ UNCHANGED <<job, cache, attempts, rule, history>>

\* The watcher is stopped and the job read again.
CheckOutcome(c) ==
    LET w       == cmd[c]
        outcome == IF w.told = "lost" THEN "lost" ELSE JobOutcome(w.owner)
    IN  /\ w.pc = "outcome"
        /\ CASE outcome = "lost"      -> Leave(c)
             [] outcome = "cancelled" -> Go(c, "settle")
             [] OTHER                 -> Go(c, IF w.answer # Null THEN "publish" ELSE "fail")
        /\ UNCHANGED <<job, cache, attempts, rule, history>>

\* Mutated: the reservation is settled and the job is left cancelling.
SettleReservationOnly(c) ==
    LET w == cmd[c]
    IN  /\ w.pc = "settle"
        /\ SettleAs(w.key, w.owner, "cancelled")
        /\ Leave(c)
        /\ UNCHANGED <<job, attempts, rule, history>>

\* settle_cancelled_job: the reservation, then the job's acknowledgement.
SettleCancelled(c) ==
    LET w  == cmd[c]
        ok == AccountingActor(w.owner) /\ OwnsPending(w.key, w.owner)
    IN  /\ w.pc = "settle"
        /\ SettleAs(w.key, w.owner, "cancelled")
        /\ job' = IF ok /\ job.state = "cancelling"
                  THEN [job EXCEPT !.state = "cancelled", !.stage = "idle"]
                  ELSE job
        /\ Leave(c)
        /\ UNCHANGED <<attempts, rule, history>>

\* finalize_synthesis_run and finalize_model_catalog under one lock, in two
\* transactions: the catalog may refuse what the cache has taken.
PublishAnswer(c) ==
    LET w == cmd[c]
    IN  /\ w.pc = "publish"
        /\ IF /\ ActiveActor(w.owner, "synthesize")
              /\ AcceptsLog(c)
              /\ OwnsPending(w.key, w.owner)
           THEN /\ attempts' = LedgerWith(c)
                /\ cache' = [cache EXCEPT ![w.key] = Row("ready", Null, w.answer)]
                /\ \/ CanMaterialize(w.owner, w.key) /\ Materialize(w.key, w.answer)
                   \/ UNCHANGED <<job, rule>>
           ELSE UNCHANGED <<job, cache, attempts, rule>>
        /\ Leave(c)
        /\ UNCHANGED history

\* finalize_synthesis_failure, or finalize_synthesis_without_response when no
\* attempt was made.
PublishFailure(c) ==
    LET w      == cmd[c]
        status == IF w.log # <<>> /\ w.log[Len(w.log)] = "cancelled"
                  THEN "cancelled" ELSE "failed"
        ok     == AccountingActor(w.owner) /\ AcceptsLog(c)
    IN  /\ w.pc = "fail"
        /\ attempts' = IF ok /\ OwnsPending(w.key, w.owner) THEN LedgerWith(c)
                       ELSE attempts
        /\ IF ok THEN SettleAs(w.key, w.owner, status) ELSE UNCHANGED cache
        /\ Leave(c)
        /\ UNCHANGED <<job, rule, history>>

\* The process that runs the command dies.
Crash(c) ==
    /\ cmd[c].pc # "idle"
    /\ Leave(c)
    /\ UNCHANGED <<job, cache, attempts, rule, history>>

-----------------------------------------------------------------------------
(***************************************************************************)
(* Time, and what other commands do to the job.                            *)
(***************************************************************************)

\* The commands that work under a reservation of k.
Working(k) ==
    {c \in Commands : /\ cmd[c].key = k
                      /\ cmd[c].pc \notin {"idle", "exclude", "reserve", "cached"}}

\* RESERVATION_STALE_AFTER_SECONDS (120) passes.  An invocation ends within
\* MAX_TOTAL_TIMEOUT_MS (90 s) on the monotonic clock; only a suspended
\* machine or a changed wall clock makes a reservation stale before that.
GrowStale(k) ==
    /\ cache[k].status = "pending"
    /\ ~cache[k].stale
    /\ cache' = [cache EXCEPT ![k].stale = TRUE]
    /\ jumped' = (jumped \/ Working(k) # {})
    /\ UNCHANGED <<job, attempts, rule, cmd, calls>>

JobStep(to) ==
    /\ job' = to
    /\ UNCHANGED <<cache, attempts, rule, cmd, history>>

RequestCancel ==
    /\ job.state \in {"running", "paused"}
    /\ JobStep([job EXCEPT !.state = "cancelling", !.cancel = TRUE])

\* The cancel command of the refresh acknowledges its own request.
AcknowledgeCancel ==
    /\ job.state = "cancelling"
    /\ JobStep([job EXCEPT !.state = "cancelled", !.stage = "idle"])

PauseJob  == job.state = "running" /\ JobStep([job EXCEPT !.state = "paused", !.cancel = FALSE])
ResumeJob == job.state = "paused" /\ JobStep([job EXCEPT !.state = "running", !.cancel = FALSE])

RecoverStaleJob(o) ==
    /\ job.state \in {"running", "paused", "cancelling"}
    /\ job.owner # o
    /\ JobStep([job EXCEPT !.owner = o,
                           !.state = IF @ = "running" THEN "paused" ELSE @])

\* continue_business_rule_synthesis_without_model
ContinueWithoutModel ==
    /\ ActiveActor(job.owner, "synthesize")
    /\ JobStep([job EXCEPT !.stage = "validate"])

\* Validation and publication, two transactions that the cache cannot see.
PublishGeneration ==
    /\ ActiveActor(job.owner, "validate")
    /\ JobStep([job EXCEPT !.stage = "cleanup"])

CompleteJob ==
    /\ ActiveActor(job.owner, "cleanup")
    /\ JobStep([job EXCEPT !.state = "completed", !.stage = "idle"])

\* Mutated: rows a rule was made from are deleted too.
AnyRows(ks) == ks

\* NOT EXISTS (... rule.synthesis_identity = cache.cache_key)
Unreferenced(ks) == {k \in ks : \A r \in Rules : rule[r].key # k}

\* cleanup_synthesis_cache with mode Apply: the selected rows (a selector and
\* a limit of 100 choose them) and, by cascade, their attempts.
CleanupCache(ks) ==
    LET gone == Unreferenced(ks)
    IN  /\ ActiveActor(job.owner, "cleanup")
        /\ cache' = [k \in Keys |-> IF k \in gone THEN NoRow ELSE cache[k]]
        /\ attempts' = [k \in Keys |->
                           IF k \in gone THEN [n \in 1..MaxAttempts |-> NoAttempt]
                           ELSE attempts[k]]
        /\ UNCHANGED <<job, rule, cmd, history>>

Disturb ==
    \/ "acknowledge" \in Disturbances /\ AcknowledgeCancel
    \/ "pause" \in Disturbances /\ (PauseJob \/ ResumeJob)
    \/ "recover" \in Disturbances /\ \E o \in Owners : RecoverStaleJob(o)
    \/ "continue" \in Disturbances /\ ContinueWithoutModel
    \/ "crash" \in Disturbances /\ \E c \in Commands : Crash(c)

Advance(c) ==
    \/ PersistExclusion(c)
    \/ Reserve(c) \/ ReserveExhausted(c) \/ ReserveRefused(c)
    \/ MaterializeCached(c)
    \/ BuildProvider(c)
    \/ BeginAttempt(c) \/ BeginRefused(c)
    \/ \E s \in AttemptStatuses, a \in Answers : FinishAttempt(c, s, a)
    \/ Wake(c)
    \/ CheckOutcome(c) \/ SettleCancelled(c) \/ PublishAnswer(c) \/ PublishFailure(c)

Next ==
    \/ \E c \in Commands, k \in Keys, o \in Owners : Start(c, k, o)
    \/ \E c \in Commands : Advance(c) \/ Watch(c)
    \/ \E k \in Keys : GrowStale(k)
    \/ RequestCancel
    \/ PublishGeneration \/ CompleteJob
    \/ \E ks \in SUBSET Keys : CleanupCache(ks)
    \/ Disturb

Spec == Init /\ [][Next]_vars

\* A command that has begun goes on: every provider call and every sleep is
\* bounded by a timeout, and the watcher polls every 25 ms.
Fairness == \A c \in Commands : WF_vars(Advance(c)) /\ WF_vars(Watch(c))

FairSpec == Spec /\ Fairness

-----------------------------------------------------------------------------
(***************************************************************************)
(* Properties.                                                             *)
(***************************************************************************)

\* Every invocation of the provider has a ledger row of its own, written
\* before the call: takeovers and crashes never let two calls share one, so a
\* key is never paid for more than MaxAttempts times.
CallsAccounted ==
    \A k \in Keys :
        /\ calls[k] <= MaxAttempts
        /\ cache[k].status # "absent" =>
               calls[k] = Cardinality({n \in 1..MaxAttempts :
                                          attempts[k][n] # NoAttempt})

\* A rule made by a model keeps the evidence it was made from: the cache row
\* its synthesis_identity names is ready with that very answer, and the ledger
\* has a successful attempt for it, through late answers, exclusion and cleanup.
RulesKeepTheirAnswer ==
    \A r \in Rules :
        LET k == rule[r].key
        IN  k # Null =>
                /\ cache[k].status = "ready"
                /\ cache[k].answer = rule[r].answer
                /\ \E n \in 1..MaxAttempts : attempts[k][n].status = "success"

\* As long as the stale bound outlasts every call, two commands never work
\* under reservations of one key: a takeover finds its predecessor gone.
SingleFlight == ~jumped => \A k \in Keys : Cardinality(Working(k)) <= 1

\* A settled reservation is final: the late answer or late failure of a command
\* whose reservation was taken over does not change it.
SettledIsFinal ==
    [][\A k \in Keys :
          cache[k].status \in Settled =>
              cache'[k] = cache[k] \/ cache'[k] = NoRow]_vars

\* A cancellation that arrives while a provider is being called is settled by
\* the command: the reservation is closed and the job acknowledged, unless the
\* reservation looked stale during the call and may be another's by now.
CancelDuringCallSettles ==
    \A c \in Commands, k \in Keys :
        (job.cancel /\ cmd[c].pc = "call" /\ cmd[c].key = k)
            ~> ((cache[k].status \in Settled /\ job.state = "cancelled") \/ jumped)

\* synthesis_runtime.rs, finalize_synthesis_without_response: an owned
\* reservation is settled when a cancellation arrives after a response too.
CancelAfterResponseSettles ==
    \A c \in Commands, k \in Keys :
        (job.cancel /\ cmd[c].pc = "publish" /\ cmd[c].key = k)
            ~> cache[k].status \in Settled
=============================================================================
