---------------------------- MODULE RuleLifecycle ----------------------------
(***************************************************************************)
(* The review history of business rules (business_rule_archaeology:        *)
(* lifecycle.rs, lifecycle_store.rs and review_command.rs).  A rule keeps  *)
(* its stable identity from one generation of the catalog to the next, and *)
(* has one append-only stream of lifecycle events that outlives every      *)
(* generation.  Reviewers append to the streams of the ready generation's  *)
(* rules; a publication reconciles the streams of the rules it brings with *)
(* their new evidence, in its own transaction.                             *)
(*                                                                         *)
(* The model is one repository, and Rules are stable identities of one     *)
(* kind (supersession across kinds is refused).  Every command is one      *)
(* IMMEDIATE transaction, hence one action; a command that is refused rolls *)
(* back and is no step.  What a reviewer decides from is read earlier, in  *)
(* another transaction (ReadRule).                                         *)
(***************************************************************************)
EXTENDS Naturals

CONSTANTS
    Rules,           \* stable rule identities
    Evidence,        \* identities of supporting evidence and parser
    Contradictions,  \* identities of the contradiction state
    Catalogs,        \* the rules a generation may be derived with
    Reviewers,       \* clients of the review command
    MaxGen,          \* bound on generations
    MaxEvents,       \* MAX_LIFECYCLE_EVENTS_PER_RULE
    MaxAliasEvents,  \* MAX_ALIASES_PER_REPOSITORY, a bound on alias events
    NULL

\* ArchaeologyRuleSnapshotIdentity, without the description: prose changes
\* are compatible.  Evidence and parser changes have the same consequences.
Snapshots == [evidence : Evidence, contradiction : Contradictions]

\* The occurrences of a rule in a generation: the canonical one, which
\* readers show and publications reconcile, and the one load_occurrence
\* finds, which may be a generated alias of it.  An alias agrees with its
\* canonical rule in everything but the evidence.
Occurrences ==
    {o \in [canonical : Snapshots, loaded : Snapshots] :
        o.canonical.contradiction = o.loaded.contradiction}

ASSUME CatalogsAssumption == Catalogs \subseteq [Rules -> Occurrences \cup {NULL}]
ASSUME NullAssumption == NULL \notin Occurrences \cup Rules \cup Snapshots
ASSUME BoundsAssumption == MaxGen \in Nat /\ MaxEvents \in Nat /\ MaxAliasEvents \in Nat

Gens      == 1 .. MaxGen
Decisions == {"accepted", "rejected"}
States    == Decisions \cup {"candidate", "review_needed", "conflicted", "superseded"}
Statuses  == {"unused", "staging", "failed", "ready", "superseded", "removed"}

VARIABLES
    gen,     \* archaeology_generations: status and rules of each, by rowid
    ready,   \* ready_generation_id, 0 before the first publication
    stream,  \* the projection of each rule's event stream
    edges,   \* archaeology_rule_continuity_edges of kind 'supersedes'
    alias,   \* the human alias links in force, and how many alias events
    view     \* what each reviewer has read and not yet acted on

vars == <<gen, ready, stream, edges, alias, view>>

(* project_lifecycle: how long the stream is, its last event that is not an *)
(* annotation, and the generation and snapshot that event was made for.    *)
EmptyStream == [length |-> 0, state |-> "unavailable", gen |-> 0, snap |-> NULL]

Streams ==
    {EmptyStream} \cup
    [length : 1 .. MaxEvents, state : States, gen : Gens, snap : Snapshots]

Views == [rule : Rules, gen : Gens, state : States]

NoRules == [r \in Rules |-> NULL]

Init ==
    /\ gen = [g \in Gens |-> [status |-> "unused", rules |-> NoRules]]
    /\ ready = 0
    /\ stream = [r \in Rules |-> EmptyStream]
    /\ edges = {}
    /\ alias = [target |-> NoRules, events |-> 0]
    /\ view = [c \in Reviewers |-> NULL]

Has(g, r) == gen[g].rules[r] # NULL

-----------------------------------------------------------------------------
(* Streams *)

\* transition: only the first event makes a candidate, a superseded rule
\* takes no further state, and a state is never repeated.
Transition(from, to) ==
    /\ (from = "unavailable") <=> (to = "candidate")
    /\ from \notin {"superseded", to}

(* Mutant: the bound is not checked. *)
MayAppendUnbounded(s, to) == Transition(s.state, to)

MayAppend(s, to) == Transition(s.state, to) /\ s.length < MaxEvents

Appended(s, to, g, snap) ==
    [length |-> s.length + 1, state |-> to, gen |-> g, snap |-> snap]

\* evaluate_snapshot_compatibility: the lifecycle of a stream as it applies
\* to a snapshot.
Effective(s, snap) ==
    IF s.snap = snap THEN s.state
    ELSE IF /\ s.state = "accepted"
            /\ s.snap.contradiction # snap.contradiction
         THEN "conflicted"
         ELSE "review_needed"

\* ensure_candidate_lifecycle: a rule that is reviewed for the first time
\* gets its candidate event first.
WithCandidate(s, g, snap) ==
    IF s.length = 0 THEN Appended(s, "candidate", g, snap) ELSE s

\* Readers (effective_lifecycle_sql) show the last state event, whatever
\* snapshot it was made for, or the derived lifecycle of an unreviewed rule.
Shown(r) == IF stream[r].length = 0 THEN "candidate" ELSE stream[r].state

-----------------------------------------------------------------------------
(* Generations *)

\* A job derives the rules of a new generation; one job at a time.
Stage(g, rules) ==
    /\ gen[g].status = "unused"
    /\ \A h \in Gens : /\ h < g => gen[h].status # "unused"
                       /\ gen[h].status # "staging"
    /\ gen' = [gen EXCEPT ![g] = [status |-> "staging", rules |-> rules]]
    /\ UNCHANGED <<ready, stream, edges, alias, view>>

\* The job is cancelled, or fails; also after a refused publication.  Nobody
\* reads the rows it leaves, so the model drops them at once.
Fail(g) ==
    /\ gen[g].status = "staging"
    /\ gen' = [gen EXCEPT ![g] = [status |-> "failed", rules |-> NoRules]]
    /\ UNCHANGED <<ready, stream, edges, alias, view>>

\* Cleanup deletes the rows of superseded generations.  The model keeps the
\* rules for the properties; every guard looks at the status.
Remove(g) ==
    /\ gen[g].status = "superseded"
    /\ gen' = [gen EXCEPT ![g].status = "removed"]
    /\ UNCHANGED <<ready, stream, edges, alias, view>>

InPriorReady(r) == ready # 0 /\ Has(ready, r)

(* Mutant: a rule that comes back after a gap is compared with its last     *)
(* event like any other rule.                                              *)
ReconciledAcrossGaps(r, snap) == Effective(stream[r], snap)

\* reconcile_generation_lifecycle, for one rule with a stream: a rule the
\* prior ready generation did not have needs review, and so does one whose
\* snapshot changed.
Reconciled(r, snap) ==
    IF InPriorReady(r) THEN Effective(stream[r], snap) ELSE "review_needed"

NeedsEvent(g, r) ==
    /\ Has(g, r)
    /\ stream[r].length > 0
    /\ Reconciled(r, gen[g].rules[r].canonical) # stream[r].state

\* The publication is refused as a whole when one stream cannot take the
\* event it needs: its rule is superseded, or the stream is full.
ReconciliationAllowed(g) ==
    \A r \in Rules :
        NeedsEvent(g, r) =>
            MayAppend(stream[r], Reconciled(r, gen[g].rules[r].canonical))

PublishGeneration(g) ==
    /\ gen[g].status = "staging"
    /\ ReconciliationAllowed(g)
    /\ stream' = [r \in Rules |->
           IF NeedsEvent(g, r)
           THEN LET snap == gen[g].rules[r].canonical
                IN  Appended(stream[r], Reconciled(r, snap), g, snap)
           ELSE stream[r]]
    /\ gen' = [h \in Gens |->
           [status |-> IF h = g THEN "ready"
                       ELSE IF h = ready THEN "superseded"
                       ELSE gen[h].status,
            rules  |-> gen[h].rules]]
    /\ ready' = g
    /\ UNCHANGED <<edges, alias, view>>

-----------------------------------------------------------------------------
(* Reviews *)

\* A client reads a rule of the ready generation and makes up a request.
ReadRule(c, r) ==
    /\ InPriorReady(r)
    /\ view' = [view EXCEPT ![c] = [rule |-> r, gen |-> ready, state |-> Shown(r)]]
    /\ UNCHANGED <<gen, ready, stream, edges, alias>>

Loaded(v) == gen[v.gen].rules[v.rule].loaded
Before(v) == WithCandidate(stream[v.rule], v.gen, Loaded(v))

(* Mutant: the command is applied whatever was expected. *)
AcceptsAnyState(v) == v.gen = ready

\* What every mutation but a supersession checks: the request names the ready
\* generation and the lifecycle that applies to the loaded occurrence.
Accepts(v) ==
    /\ v.gen = ready
    /\ Effective(Before(v), Loaded(v)) = v.state

\* A request is recorded once: its event identity is a primary key.
Consume(c) == view' = [view EXCEPT ![c] = NULL]

Review(c, decision) ==
    LET v == view[c]
    IN  /\ v # NULL
        /\ Accepts(v)
        /\ MayAppend(Before(v), decision)
        /\ stream' = [stream EXCEPT ![v.rule] =
               Appended(Before(v), decision, v.gen, Loaded(v))]
        /\ Consume(c)
        /\ UNCHANGED <<gen, ready, edges, alias>>

Annotate(c) ==
    LET v == view[c]
    IN  /\ v # NULL
        /\ Accepts(v)
        /\ Before(v).length < MaxEvents
        /\ stream' = [stream EXCEPT ![v.rule] =
               [Before(v) EXCEPT !.length = @ + 1]]
        /\ Consume(c)
        /\ UNCHANGED <<gen, ready, edges, alias>>

(* Mutant: the links are not validated as a set. *)
LinkAnywhere(a, r) == a # r /\ alias.target[a] = NULL

\* append_alias_event with validate_rule_aliases: links form stars.
MayLink(a, r) ==
    /\ a # r
    /\ alias.target[a] = NULL
    /\ alias.target[r] = NULL
    /\ \A x \in Rules : alias.target[x] # a

\* The alias commands also start the canonical rule's stream.
SetAlias(c, a, target) ==
    LET v == view[c]
    IN  /\ Accepts(v)
        /\ Has(ready, a)
        /\ alias.events < MaxAliasEvents
        /\ 0 < MaxEvents
        /\ alias' = [target |-> [alias.target EXCEPT ![a] = target],
                     events |-> alias.events + 1]
        /\ stream' = [stream EXCEPT ![v.rule] = Before(v)]
        /\ Consume(c)
        /\ UNCHANGED <<gen, ready, edges>>

LinkAlias(c, a) ==
    /\ view[c] # NULL
    /\ MayLink(a, view[c].rule)
    /\ SetAlias(c, a, view[c].rule)

UnlinkAlias(c, a) ==
    /\ view[c] # NULL
    /\ alias.target[a] = view[c].rule
    /\ SetAlias(c, a, NULL)

-----------------------------------------------------------------------------
(* Supersession: a predecessor of an earlier generation is replaced by an   *)
(* unreviewed rule of the ready one.                                       *)

Successors(r) == {e[2] : e \in {f \in edges : f[1] = r}}

\* p is reached from s along the edges.
Reaches(s, p) ==
    \A closed \in SUBSET Rules :
        (/\ Successors(s) \subseteq closed
         /\ \A r \in closed : Successors(r) \subseteq closed) => p \in closed

\* validate_supersession_graph
SupersessionFits(p, s) ==
    /\ \A e \in edges : e[1] # p /\ e[2] # s
    /\ ~Reaches(s, p)

SupersessionRequested(v, p, pg) ==
    /\ v.gen = ready
    /\ v.state = "candidate"                          \* declared_lifecycle
    /\ gen[pg].status \in {"ready", "superseded"}
    /\ Has(pg, p)
    /\ stream[p].length > 0
    /\ p # v.rule
    /\ pg < v.gen
    /\ SupersessionFits(p, v.rule)
    /\ stream[v.rule].length = 0

\* The edge and the three events, in a savepoint of the transaction.  The
\* lifecycle the request expects of the predecessor is an input the caller
\* may choose, so it refuses nothing here.
Superseded(v, p, pg) ==
    /\ edges' = edges \cup {<<p, v.rule>>}
    /\ stream' = [stream EXCEPT
           ![p] = Appended(@, "superseded", pg, gen[pg].rules[p].loaded),
           ![v.rule] = Appended(Appended(@, "candidate", v.gen, Loaded(v)),
                              "review_needed", v.gen, Loaded(v))]

(* Mutant: the edge stays when an event after it is refused. *)
SupersedeKeepingEdge(c, p, pg) ==
    LET v == view[c]
    IN  /\ v # NULL
        /\ SupersessionRequested(v, p, pg)
        /\ IF MayAppend(stream[p], "superseded") /\ 1 < MaxEvents
           THEN Superseded(v, p, pg)
           ELSE edges' = edges \cup {<<p, v.rule>>} /\ UNCHANGED stream
        /\ Consume(c)
        /\ UNCHANGED <<gen, ready, alias>>

Supersede(c, p, pg) ==
    LET v == view[c]
    IN  /\ v # NULL
        /\ SupersessionRequested(v, p, pg)
        /\ MayAppend(stream[p], "superseded")
        /\ 1 < MaxEvents
        /\ Superseded(v, p, pg)
        /\ Consume(c)
        /\ UNCHANGED <<gen, ready, alias>>

-----------------------------------------------------------------------------
Next ==
    \/ \E g \in Gens :
        \/ \E rules \in Catalogs : Stage(g, rules)
        \/ Fail(g)
        \/ Remove(g)
        \/ PublishGeneration(g)
    \/ \E c \in Reviewers :
        \/ \E r \in Rules : ReadRule(c, r)
        \/ \E d \in Decisions : Review(c, d)
        \/ Annotate(c)
        \/ \E a \in Rules : LinkAlias(c, a) \/ UnlinkAlias(c, a)
        \/ \E p \in Rules, pg \in Gens : Supersede(c, p, pg)

Spec == Init /\ [][Next]_vars

-----------------------------------------------------------------------------
(* Properties *)

TypeOK ==
    /\ gen \in [Gens -> [status : Statuses, rules : [Rules -> Occurrences \cup {NULL}]]]
    /\ ready \in 0 .. MaxGen
    /\ stream \in [Rules -> Streams]
    /\ edges \subseteq Rules \X Rules
    /\ alias \in [target : [Rules -> Rules \cup {NULL}], events : 0 .. MaxAliasEvents]
    /\ view \in [Reviewers -> Views \cup {NULL}]

Published(g) == gen[g].status \in {"ready", "superseded", "removed"}

\* An acceptance or rejection that readers show for a rule of the ready
\* catalog was made on evidence the rule has had ever since: every generation
\* published from the one it was made for on has the rule, with an
\* occurrence of just that snapshot.  No publication carries a decision to
\* other evidence or across a generation without the rule, although readers
\* never compare snapshots (effective_lifecycle_sql).
DecisionsStand ==
    \A r \in Rules :
        (InPriorReady(r) /\ stream[r].state \in Decisions) =>
            \A g \in Gens :
                (Published(g) /\ stream[r].gen <= g) =>
                    /\ Has(g, r)
                    /\ stream[r].snap \in {gen[g].rules[r].canonical, gen[g].rules[r].loaded}

\* A decision changes only at the request of a reviewer who read the rule in
\* the generation that is still ready, in the state it is still shown in,
\* whatever other reviewers and publications did since.
DecisionsAreInformed ==
    [][\A r \in Rules :
        (stream'[r] # stream[r] /\ stream'[r].state \in Decisions) =>
            \E c \in Reviewers :
                /\ view[c] # NULL
                /\ view[c] = [rule |-> r, gen |-> ready, state |-> Shown(r)]
                /\ view'[c] = NULL]_vars

\* Supersession is all or nothing, and its edges lead from each superseded
\* rule along one path to a rule that is not superseded: a rule is superseded
\* exactly when it has a successor, the successor has a stream of its own,
\* no rule succeeds two, and no path returns.
SupersededHasSuccessor ==
    /\ \A r \in Rules : stream[r].state = "superseded" <=> Successors(r) # {}
    /\ \A e \in edges : /\ stream[e[2]].length > 1
                        /\ ~Reaches(e[2], e[1])
    /\ \A e, f \in edges : (e[1] = f[1]) <=> (e[2] = f[2])

\* Alias links form stars through any sequence of links and unlinks: a rule
\* others are linked to is never linked itself (validate_rule_aliases).
AliasesAreStars ==
    \A a \in Rules : alias.target[a] # NULL =>
        /\ alias.target[a] # a
        /\ alias.target[alias.target[a]] = NULL

(* Expectations the code does not meet; TLC refutes each. *)

\* "Archaeology review state changed; refresh before retrying": after reading
\* again, a request that expects the lifecycle on show is accepted.
RefreshedRequestIsAccepted ==
    \A r \in Rules : InPriorReady(r) =>
        Effective(WithCandidate(stream[r], ready, gen[ready].rules[r].loaded),
                  gen[ready].rules[r].loaded) = Shown(r)

\* A generation with the same rules as the ready one can be published.
UnchangedCatalogIsPublishable ==
    ready # 0 => ReconciliationAllowed(ready)
=============================================================================
