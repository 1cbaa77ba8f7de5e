------------------------ MODULE RuleLifecycle_proofs ------------------------
(***************************************************************************)
(* Theorems about RuleLifecycle, for any number of rules, generations,     *)
(* reviewers and events.                                                   *)
(***************************************************************************)
EXTENDS RuleLifecycle, TLAPS

(* Generations are staged one at a time, in the order of their numbers, and *)
(* the ready one is the newest that was published.                         *)
GenerationsInOrder ==
    /\ ready # 0 => gen[ready].status = "ready"
    /\ \A g \in Gens : Published(g) => g <= ready
    /\ \A g \in Gens : gen[g].status = "staging" => ready < g
    /\ \A g, h \in Gens :
        /\ (g < h /\ gen[g].status = "unused") => gen[h].status = "unused"
        /\ (gen[g].status = "staging" /\ gen[h].status = "staging") => g = h

(* What a reviewer read was published and had the rule. *)
ViewsArePublished ==
    \A c \in Reviewers : view[c] # NULL =>
        Published(view[c].gen) /\ Has(view[c].gen, view[c].rule)

Base == TypeOK /\ GenerationsInOrder /\ ViewsArePublished

\* The parts of a stream, by whether it is empty.
LEMMA StreamParts ==
    ASSUME NEW s \in Streams
    PROVE  /\ s.length \in 0 .. MaxEvents
           /\ s.length = 0 => s = EmptyStream
           /\ s.length > 0 => s.state \in States /\ s.gen \in Gens /\ s.snap \in Snapshots
           /\ (s.state = "unavailable") <=> (s.length = 0)
BY BoundsAssumption DEF Streams, EmptyStream, States, Decisions

\* One more event makes a stream of a stream that is not full.
LEMMA AppendedStream ==
    ASSUME NEW s \in Streams, s.length < MaxEvents, NEW to \in States,
           NEW g \in Gens, NEW snap \in Snapshots
    PROVE  /\ Appended(s, to, g, snap) \in Streams
           /\ Appended(s, to, g, snap).length = s.length + 1
           /\ Appended(s, to, g, snap).state = to
           /\ Appended(s, to, g, snap).gen = g
           /\ Appended(s, to, g, snap).snap = snap
<1>1. s.length \in Nat /\ s.length + 1 \in 1 .. MaxEvents
  BY StreamParts, BoundsAssumption
<1> QED
  BY <1>1 DEF Appended, Streams

\* The occurrences of a rule in a generation that has it.
LEMMA OccurrenceParts ==
    ASSUME TypeOK, NEW g \in Gens, NEW r \in Rules, Has(g, r)
    PROVE  /\ gen[g].rules[r].canonical \in Snapshots
           /\ gen[g].rules[r].loaded \in Snapshots
<1>1. gen[g].rules[r] \in Occurrences
  BY DEF TypeOK, Has
<1> QED
  BY <1>1 DEF Occurrences

\* The lifecycle that applies to a snapshot is a state; where it is a
\* decision, the snapshot is the one the decision was made for.
LEMMA EffectiveState ==
    ASSUME NEW s \in Streams, s.length > 0, NEW snap \in Snapshots
    PROVE  /\ Effective(s, snap) \in States
           /\ Effective(s, snap) \in {s.state, "conflicted", "review_needed"}
           /\ s.snap = snap => Effective(s, snap) = s.state
           /\ Effective(s, snap) \in Decisions => Effective(s, snap) = s.state /\ s.snap = snap
BY StreamParts DEF Effective, States, Decisions

\* A reviewer's stream before the command, with the candidate event it may
\* have to start with.
LEMMA BeforeStream ==
    ASSUME Base, NEW c \in Reviewers, view[c] # NULL, 0 < MaxEvents
    PROVE  /\ view[c] \in Views
           /\ Loaded(view[c]) \in Snapshots
           /\ Before(view[c]) \in Streams
           /\ Before(view[c]).length > 0
           /\ stream[view[c].rule].length > 0 => Before(view[c]) = stream[view[c].rule]
           /\ stream[view[c].rule].length = 0 =>
                Before(view[c]) = Appended(stream[view[c].rule], "candidate", view[c].gen, Loaded(view[c]))
<1> DEFINE v == view[c]
           s == stream[v.rule]
<1>1. v \in Views /\ v.rule \in Rules /\ v.gen \in Gens
  BY DEF Base, TypeOK, Views
<1>2. Loaded(v) \in Snapshots
  BY <1>1, OccurrenceParts DEF Base, ViewsArePublished, Loaded
<1>3. s \in Streams
  BY <1>1 DEF Base, TypeOK
<1>4. s.length \in 0 .. MaxEvents
  BY <1>3, StreamParts
<1>5. "candidate" \in States
  BY DEF States
<1>6. s.length = 0 => /\ Appended(s, "candidate", v.gen, Loaded(v)) \in Streams
                      /\ Appended(s, "candidate", v.gen, Loaded(v)).length = s.length + 1
  <2>1. SUFFICES ASSUME s.length = 0
                 PROVE  /\ Appended(s, "candidate", v.gen, Loaded(v)) \in Streams
                        /\ Appended(s, "candidate", v.gen, Loaded(v)).length = s.length + 1
    OBVIOUS
  <2>2. s.length < MaxEvents
    BY <2>1
  <2> HIDE DEF s, v
  <2> QED
    BY <1>1, <1>2, <1>3, <1>5, <2>2, AppendedStream
<1>7. Before(v) = IF s.length = 0 THEN Appended(s, "candidate", v.gen, Loaded(v)) ELSE s
  BY DEF Before, WithCandidate
<1> QED
  BY <1>1, <1>2, <1>3, <1>4, <1>6, <1>7

(* A command of a reviewer other than a supersession. *)
Command(c) ==
    \/ \E d \in Decisions : Review(c, d)
    \/ Annotate(c)
    \/ \E a \in Rules : LinkAlias(c, a) \/ UnlinkAlias(c, a)

(* What it may make of the stream of its rule: a last state event of its own, *)
(* for the loaded occurrence, or the last state event there was.           *)
Extends(new, s, v) ==
    /\ new \in Streams
    /\ new.length > 0
    /\ new.length >= s.length
    /\ \/ /\ s.state # "superseded"
          /\ new.state # "superseded"
          /\ new.snap = Loaded(v)
          /\ new.gen = v.gen
       \/ /\ s.length > 0
          /\ new.state = s.state
          /\ new.snap = s.snap
          /\ new.gen = s.gen

\* A stream with its candidate event extends the stream there was.
LEMMA BeforeExtends ==
    ASSUME Base, NEW c \in Reviewers, view[c] # NULL, 0 < MaxEvents
    PROVE  Extends(Before(view[c]), stream[view[c].rule], view[c])
<1> DEFINE v == view[c]
           s == stream[v.rule]
<1>1. v \in Views /\ v.rule \in Rules /\ v.gen \in Gens
  BY DEF Base, TypeOK, Views
<1>2. s \in Streams /\ s.length \in Nat
  BY <1>1, StreamParts DEF Base, TypeOK
<1>3. Before(v) \in Streams /\ Before(v).length > 0
  BY BeforeStream
<1>4. CASE s.length = 0
  <2>1. Before(v) = Appended(s, "candidate", v.gen, Loaded(v))
    BY <1>4, BeforeStream
  <2>2. s.state = "unavailable"
    BY <1>2, <1>4, StreamParts
  <2> QED
    BY <1>2, <1>3, <2>1, <2>2 DEF Extends, Appended
<1>5. CASE s.length > 0
  <2>1. Before(v) = s
    BY <1>5, BeforeStream
  <2> QED
    BY <1>2, <1>3, <1>5, <2>1 DEF Extends
<1> QED
  BY <1>2, <1>4, <1>5

\* Every command extends the stream of the rule the reviewer read in the
\* generation that is still ready, and uses up the reviewer's request.
LEMMA CommandExtends ==
    ASSUME Base, NEW c \in Reviewers, Command(c)
    PROVE  /\ view[c] # NULL
           /\ view[c] \in Views
           /\ Accepts(view[c])
           /\ 0 < MaxEvents
           /\ \E new : /\ Extends(new, stream[view[c].rule], view[c])
                       /\ stream' = [stream EXCEPT ![view[c].rule] = new]
           /\ view' = [view EXCEPT ![c] = NULL]
           /\ UNCHANGED <<gen, ready, edges>>
<1> DEFINE v == view[c]
           s == stream[v.rule]
<1>1. v # NULL /\ Accepts(v) /\ view' = [view EXCEPT ![c] = NULL]
      /\ UNCHANGED <<gen, ready, edges>>
  BY DEF Command, Review, Annotate, LinkAlias, UnlinkAlias, SetAlias, Consume
<1>2. v \in Views /\ v.rule \in Rules
  BY <1>1 DEF Base, TypeOK, Views
<1>3. s \in Streams /\ s.length \in 0 .. MaxEvents
  BY <1>2, StreamParts DEF Base, TypeOK
<1>4. 0 < MaxEvents
  <2>1. s.length > 0 => 0 < MaxEvents
    BY <1>3, BoundsAssumption
  <2>2. (s.length = 0 /\ Before(v).length < MaxEvents) => 0 < MaxEvents
    BY <1>3, BoundsAssumption DEF Before, WithCandidate, Appended
  <2>3. 0 < MaxEvents \/ Before(v).length < MaxEvents
    BY DEF Command, Review, Annotate, LinkAlias, UnlinkAlias, SetAlias, MayAppend
  <2> QED
    BY <1>3, <2>1, <2>2, <2>3
<1>5. Extends(Before(v), s, v) /\ Loaded(v) \in Snapshots /\ v.gen \in Gens
  BY <1>1, <1>2, <1>4, BeforeExtends, BeforeStream DEF Views
<1>6. Before(v).length \in 0 .. MaxEvents
  BY <1>5, StreamParts DEF Extends
<1>7. ASSUME NEW d \in Decisions, Review(c, d)
      PROVE  \E new : Extends(new, s, v) /\ stream' = [stream EXCEPT ![v.rule] = new]
  <2> DEFINE new == Appended(Before(v), d, v.gen, Loaded(v))
  <2>1. MayAppend(Before(v), d) /\ stream' = [stream EXCEPT ![v.rule] = new]
    BY <1>7 DEF Review
  <2>2. d \in States /\ d # "superseded"
    BY DEF States, Decisions
  <2>3. /\ new \in Streams
        /\ new.length = Before(v).length + 1
        /\ new.state = d
        /\ new.gen = v.gen
        /\ new.snap = Loaded(v)
    BY <1>5, <2>1, <2>2, AppendedStream DEF MayAppend, Extends
  <2>4. s.state # "superseded"
    BY <1>5, <2>1 DEF MayAppend, Transition, Extends
  <2>5. Extends(new, s, v)
    <3> HIDE DEF new
    <3> QED
      BY <1>3, <1>5, <1>6, <2>2, <2>3, <2>4 DEF Extends
  <2> QED
    BY <2>1, <2>5
<1>8. ASSUME Annotate(c)
      PROVE  \E new : Extends(new, s, v) /\ stream' = [stream EXCEPT ![v.rule] = new]
  <2> DEFINE b == Before(v)
             new == [b EXCEPT !.length = b.length + 1]
  <2>1. b.length < MaxEvents /\ stream' = [stream EXCEPT ![v.rule] = new]
    BY <1>8 DEF Annotate
  <2>2. b \in [length : 1 .. MaxEvents, state : States, gen : Gens, snap : Snapshots]
    BY <1>5 DEF Extends, Streams, EmptyStream
  <2>3. /\ new \in [length : 1 .. MaxEvents, state : States, gen : Gens, snap : Snapshots]
        /\ new.length = b.length + 1
        /\ new.state = b.state
        /\ new.gen = b.gen
        /\ new.snap = b.snap
    <3> HIDE DEF b
    <3> QED
      BY <2>1, <2>2, BoundsAssumption
  <2>4. Extends(new, s, v)
    <3> HIDE DEF new, b
    <3>1. new \in Streams
      BY <2>3 DEF Streams
    <3>2. Extends(b, s, v)
      BY <1>5 DEF b
    <3> QED
      BY <1>3, <2>2, <2>3, <3>1, <3>2 DEF Extends
  <2> QED
    BY <2>1, <2>4
<1>9. ASSUME NEW a \in Rules, LinkAlias(c, a) \/ UnlinkAlias(c, a)
      PROVE  \E new : Extends(new, s, v) /\ stream' = [stream EXCEPT ![v.rule] = new]
  BY <1>5, <1>9 DEF LinkAlias, UnlinkAlias, SetAlias
<1> QED
  BY <1>1, <1>2, <1>4, <1>7, <1>8, <1>9 DEF Command

\* A supersession closes the predecessor's stream and starts the successor's,
\* which had none.
LEMMA SupersedeExtends ==
    ASSUME Base, NEW c \in Reviewers, NEW p \in Rules, NEW pg \in Gens,
           Supersede(c, p, pg)
    PROVE  /\ view[c] # NULL
           /\ view[c] \in Views
           /\ view[c].gen = ready
           /\ p # view[c].rule
           /\ stream[p].state # "superseded"
           /\ stream[p].length > 0
           /\ stream[view[c].rule] = EmptyStream
           /\ \E old, new \in Streams :
                /\ old.state = "superseded"
                /\ old.length > 1
                /\ new.state = "review_needed"
                /\ new.length = 2
                /\ new.gen = view[c].gen
                /\ new.snap = Loaded(view[c])
                /\ stream' = [stream EXCEPT ![p] = old, ![view[c].rule] = new]
           /\ edges' = edges \cup {<<p, view[c].rule>>}
           /\ view' = [view EXCEPT ![c] = NULL]
           /\ UNCHANGED <<gen, ready, alias>>
<1> DEFINE v == view[c]
           s == stream[v.rule]
<1>1. /\ v # NULL
      /\ SupersessionRequested(v, p, pg)
      /\ MayAppend(stream[p], "superseded")
      /\ 1 < MaxEvents
      /\ Superseded(v, p, pg)
      /\ view' = [view EXCEPT ![c] = NULL]
      /\ UNCHANGED <<gen, ready, alias>>
  BY DEF Supersede, Consume
<1>2. v \in Views /\ v.rule \in Rules /\ v.gen \in Gens
  BY <1>1 DEF Base, TypeOK, Views
<1>3. s \in Streams /\ stream[p] \in Streams /\ stream \in [Rules -> Streams]
  BY <1>2 DEF Base, TypeOK
<1>4. /\ v.gen = ready
      /\ p # v.rule
      /\ stream[p].length > 0
      /\ s.length = 0
      /\ Has(pg, p)
  BY <1>1 DEF SupersessionRequested
<1>5. stream[p].state # "superseded" /\ stream[p].length < MaxEvents
  BY <1>1 DEF MayAppend, Transition
<1>6. s = EmptyStream
  BY <1>3, <1>4, StreamParts
<1>7. Loaded(v) \in Snapshots
  BY <1>1, <1>2, OccurrenceParts DEF Base, ViewsArePublished, Loaded
<1>8. gen[pg].rules[p].loaded \in Snapshots
  BY <1>4, OccurrenceParts DEF Base
<1> DEFINE old   == Appended(stream[p], "superseded", pg, gen[pg].rules[p].loaded)
           first == Appended(s, "candidate", v.gen, Loaded(v))
           new   == Appended(first, "review_needed", v.gen, Loaded(v))
<1>9. "superseded" \in States /\ "candidate" \in States /\ "review_needed" \in States
  BY DEF States
<1>10. old \in Streams /\ old.state = "superseded" /\ old.length = stream[p].length + 1
  BY <1>3, <1>5, <1>8, <1>9, AppendedStream
<1>11. first \in Streams /\ first.length = 1
  <2>1. s.length < MaxEvents
    BY <1>1, <1>4, BoundsAssumption
  <2>2. first \in Streams /\ first.length = s.length + 1
    BY <1>2, <1>3, <1>7, <1>9, <2>1, AppendedStream
  <2> QED
    BY <1>4, <2>2
<1>12. /\ new \in Streams
       /\ new.length = 2
       /\ new.state = "review_needed"
       /\ new.gen = v.gen
       /\ new.snap = Loaded(v)
  <2>1. first.length < MaxEvents
    BY <1>1, <1>11
  <2> HIDE DEF first
  <2>2. /\ new \in Streams
        /\ new.length = first.length + 1
        /\ new.state = "review_needed"
        /\ new.gen = v.gen
        /\ new.snap = Loaded(v)
    BY <1>2, <1>7, <1>9, <1>11, <2>1, AppendedStream
  <2> QED
    BY <1>11, <2>2
<1>13. old.length > 1
  <2>1. stream[p].length \in Nat
    BY <1>3, StreamParts
  <2> QED
    BY <1>4, <1>10, <2>1
<1>14. stream' = [stream EXCEPT ![p] = old, ![v.rule] = new]
  BY <1>1, <1>2, <1>3, <1>4 DEF Superseded
<1>15. edges' = edges \cup {<<p, v.rule>>}
  BY <1>1 DEF Superseded
<1> HIDE DEF old, first, new
<1> QED
  BY <1>1, <1>2, <1>4, <1>5, <1>6, <1>10, <1>12, <1>13, <1>14, <1>15

\* A publication leaves a stream alone, or asks for another look at its rule.
\* A decision it leaves on a rule it brings was made for that snapshot, and
\* the rule was in the prior ready generation.
LEMMA PublishExtends ==
    ASSUME Base, NEW g \in Gens, PublishGeneration(g), NEW r \in Rules
    PROVE  \/ /\ stream'[r] = stream[r]
              /\ (Has(g, r) /\ stream[r].state \in Decisions) =>
                    InPriorReady(r) /\ stream[r].snap = gen[g].rules[r].canonical
           \/ /\ stream'[r] \in Streams
              /\ stream'[r].state \in {"conflicted", "review_needed"}
              /\ stream'[r].length = stream[r].length + 1
              /\ stream[r].state # "superseded"
              /\ stream[r].length > 0
<1> DEFINE s    == stream[r]
           snap == gen[g].rules[r].canonical
           to   == Reconciled(r, snap)
<1>1. s \in Streams
  BY DEF Base, TypeOK
<1>2. stream'[r] = IF NeedsEvent(g, r) THEN Appended(s, to, g, snap) ELSE s
  BY DEF PublishGeneration
<1>3. ASSUME Has(g, r), s.length > 0
      PROVE  /\ to \in States
             /\ to # s.state => to \in {"conflicted", "review_needed"}
             /\ (to = s.state /\ to \in Decisions) => InPriorReady(r) /\ s.snap = snap
  <2>1. snap \in Snapshots
    BY <1>3, OccurrenceParts DEF Base
  <2>2. CASE InPriorReady(r)
    <3>1. to = Effective(s, snap)
      BY <2>2 DEF Reconciled
    <3> HIDE DEF s, snap, to
    <3> QED
      BY <1>1, <1>3, <2>1, <2>2, <3>1, EffectiveState
  <2>3. CASE ~InPriorReady(r)
    <3>1. to = "review_needed"
      BY <2>3 DEF Reconciled
    <3> QED
      BY <3>1 DEF States, Decisions
  <2> QED
    BY <2>2, <2>3
<1>4. CASE NeedsEvent(g, r)
  <2>1. Has(g, r) /\ s.length > 0 /\ to # s.state
    BY <1>4 DEF NeedsEvent
  <2>2. MayAppend(s, to)
    BY <1>4 DEF PublishGeneration, ReconciliationAllowed
  <2>3. s.length < MaxEvents /\ s.state # "superseded"
    BY <2>2 DEF MayAppend, Transition
  <2>4. snap \in Snapshots /\ to \in States /\ to \in {"conflicted", "review_needed"}
    BY <1>3, <2>1, OccurrenceParts DEF Base
  <2>5. stream'[r] = Appended(s, to, g, snap)
    BY <1>2, <1>4
  <2> HIDE DEF s, snap, to
  <2>6. /\ stream'[r] \in Streams
        /\ stream'[r].state = to
        /\ stream'[r].length = s.length + 1
    BY <1>1, <2>3, <2>4, <2>5, AppendedStream
  <2> QED
    BY <2>1, <2>3, <2>4, <2>6 DEF s
<1>5. CASE ~NeedsEvent(g, r)
  <2>1. stream'[r] = s
    BY <1>2, <1>5
  <2>2. ASSUME Has(g, r), s.state \in Decisions
        PROVE  InPriorReady(r) /\ s.snap = snap
    <3>1. s.length > 0
      BY <1>1, <2>2, StreamParts DEF Decisions
    <3>2. to = s.state
      BY <1>5, <2>2, <3>1 DEF NeedsEvent
    <3> QED
      BY <1>3, <2>2, <3>1, <3>2
  <2> QED
    BY <2>1, <2>2
<1> QED
  BY <1>4, <1>5

\* Publication as it changes the generations.
LEMMA PublishedGenerations ==
    ASSUME Base, NEW g \in Gens, PublishGeneration(g)
    PROVE  /\ gen' \in [Gens -> [status : Statuses, rules : [Rules -> Occurrences \cup {NULL}]]]
           /\ \A h \in Gens :
                /\ gen'[h].rules = gen[h].rules
                /\ gen'[h].status = IF h = g THEN "ready"
                                    ELSE IF h = ready THEN "superseded"
                                    ELSE gen[h].status
<1>1. ASSUME NEW h \in Gens
      PROVE  /\ gen[h].status \in Statuses
             /\ gen[h].rules \in [Rules -> Occurrences \cup {NULL}]
  BY DEF Base, TypeOK
<1>2. gen' = [h \in Gens |->
           [status |-> IF h = g THEN "ready"
                       ELSE IF h = ready THEN "superseded"
                       ELSE gen[h].status,
            rules  |-> gen[h].rules]]
  BY DEF PublishGeneration
<1> QED
  BY <1>1, <1>2 DEF Statuses

\* Commands keep the types.
LEMMA CommandTypes ==
    ASSUME Base, NEW c \in Reviewers, Command(c)
    PROVE  TypeOK'
<1>1. PICK new : /\ Extends(new, stream[view[c].rule], view[c])
                 /\ stream' = [stream EXCEPT ![view[c].rule] = new]
  BY CommandExtends
<1>2. stream' \in [Rules -> Streams]
  BY <1>1 DEF Base, TypeOK, Extends
<1>3. view' \in [Reviewers -> Views \cup {NULL}]
  BY CommandExtends DEF Base, TypeOK
<1>4. alias' \in [target : [Rules -> Rules \cup {NULL}], events : 0 .. MaxAliasEvents]
  <2>1. CASE UNCHANGED alias
    BY <2>1 DEF Base, TypeOK
  <2>2. ASSUME NEW a \in Rules, NEW t \in Rules \cup {NULL}, SetAlias(c, a, t)
        PROVE  alias' \in [target : [Rules -> Rules \cup {NULL}], events : 0 .. MaxAliasEvents]
    <3>1. alias.target \in [Rules -> Rules \cup {NULL}] /\ alias.events \in 0 .. MaxAliasEvents
      BY DEF Base, TypeOK
    <3>2. alias.events < MaxAliasEvents
          /\ alias' = [target |-> [alias.target EXCEPT ![a] = t], events |-> alias.events + 1]
      BY <2>2 DEF SetAlias
    <3> QED
      BY <3>1, <3>2, BoundsAssumption
  <2>3. view[c].rule \in Rules
    BY CommandExtends DEF Views
  <2> QED
    BY <2>1, <2>2, <2>3 DEF Command, Review, Annotate, LinkAlias, UnlinkAlias
<1> QED
  BY <1>2, <1>3, <1>4, CommandExtends DEF Base, TypeOK

\* Every step keeps the types, the order of the generations, and the reviewers'
\* views.
LEMMA BaseStep ==
    ASSUME Base, [Next]_vars
    PROVE  Base'
<1> USE DEF Base
<1>1. ASSUME NEW g \in Gens, NEW rules \in Catalogs, Stage(g, rules)
      PROVE  Base'
  <2>1. /\ gen[g].status = "unused"
        /\ \A h \in Gens : h < g => gen[h].status # "unused"
        /\ \A h \in Gens : gen[h].status # "staging"
        /\ gen' = [gen EXCEPT ![g] = [status |-> "staging", rules |-> rules]]
        /\ UNCHANGED <<ready, stream, edges, alias, view>>
    BY <1>1 DEF Stage
  <2>2. /\ gen'[g] = [status |-> "staging", rules |-> rules]
        /\ \A h \in Gens : h # g => gen'[h] = gen[h]
    BY <2>1 DEF TypeOK
  <2>3. TypeOK'
    BY <2>1, CatalogsAssumption DEF TypeOK, Statuses
  <2>4. ready < g
    <3>1. ready \in Nat /\ g \in Nat
      BY BoundsAssumption DEF TypeOK, Gens
    <3>2. CASE ready = 0
      BY <3>1, <3>2 DEF Gens
    <3>3. CASE ready # 0
      <4>1. ready \in Gens /\ gen[ready].status = "ready"
        BY <3>3, BoundsAssumption DEF TypeOK, Gens, GenerationsInOrder
      <4> QED
        BY <2>1, <3>1, <4>1 DEF GenerationsInOrder
    <3> QED
      BY <3>2, <3>3
  <2>5. \A h \in Gens : Published(h)' <=> Published(h)
    BY <2>1, <2>2 DEF Published
  <2>6. GenerationsInOrder'
    <3>1. ready' = ready /\ (ready # 0 => ready \in Gens)
      BY <2>1, BoundsAssumption DEF TypeOK, Gens
    <3>2. (ready # 0 => gen[ready].status = "ready")'
      BY <2>1, <2>2, <3>1 DEF GenerationsInOrder
    <3>3. \A h \in Gens : Published(h)' => h <= ready'
      BY <2>5, <3>1 DEF GenerationsInOrder
    <3>4. \A h \in Gens : gen'[h].status = "staging" => ready' < h
      BY <2>1, <2>2, <2>4, <3>1
    <3>5. \A h, i \in Gens :
            (gen'[h].status = "staging" /\ gen'[i].status = "staging") => h = i
      BY <2>1, <2>2
    <3>6. \A h, i \in Gens :
            (h < i /\ gen'[h].status = "unused") => gen'[i].status = "unused"
      <4>1. SUFFICES ASSUME NEW h \in Gens, NEW i \in Gens, h < i, gen'[h].status = "unused"
                     PROVE  gen'[i].status = "unused"
        OBVIOUS
      <4>2. h # g /\ gen[h].status = "unused"
        BY <2>2, <4>1
      <4>3. ~(h < g)
        BY <2>1, <4>2
      <4>4. i # g
        BY <4>1, <4>3
      <4> QED
        BY <2>2, <4>1, <4>2, <4>4 DEF GenerationsInOrder
    <3> QED
      BY <3>2, <3>3, <3>4, <3>5, <3>6 DEF GenerationsInOrder
  <2>7. ViewsArePublished'
    <3>1. SUFFICES ASSUME NEW c \in Reviewers, view[c] # NULL
                   PROVE  Published(view[c].gen)' /\ Has(view[c].gen, view[c].rule)'
      BY <2>1 DEF ViewsArePublished
    <3>2. view[c].gen \in Gens /\ Published(view[c].gen) /\ Has(view[c].gen, view[c].rule)
      BY <3>1 DEF ViewsArePublished, TypeOK, Views
    <3>3. view[c].gen # g
      BY <2>1, <3>2 DEF Published
    <3> QED
      BY <2>1, <2>2, <3>2, <3>3 DEF Published, Has
  <2> QED
    BY <2>3, <2>6, <2>7
<1>2. ASSUME NEW g \in Gens, Fail(g)
      PROVE  Base'
  <2>1. /\ gen[g].status = "staging"
        /\ gen' = [gen EXCEPT ![g] = [status |-> "failed", rules |-> NoRules]]
        /\ UNCHANGED <<ready, stream, edges, alias, view>>
    BY <1>2 DEF Fail
  <2>2. /\ gen'[g].status = "failed"
        /\ \A h \in Gens : h # g => gen'[h] = gen[h]
    BY <2>1 DEF TypeOK
  <2>3. TypeOK'
    BY <2>1 DEF TypeOK, Statuses, NoRules
  <2>4. GenerationsInOrder'
    <3>1. ready # 0 => ready \in Gens /\ ready # g
      BY <2>1, BoundsAssumption DEF TypeOK, Gens, GenerationsInOrder
    <3> QED
      BY <2>1, <2>2, <3>1 DEF GenerationsInOrder, Published
  <2>5. ViewsArePublished'
    <3>1. SUFFICES ASSUME NEW c \in Reviewers, view[c] # NULL
                   PROVE  Published(view[c].gen)' /\ Has(view[c].gen, view[c].rule)'
      BY <2>1 DEF ViewsArePublished
    <3>2. view[c].gen \in Gens /\ Published(view[c].gen) /\ Has(view[c].gen, view[c].rule)
      BY <3>1 DEF ViewsArePublished, TypeOK, Views
    <3>3. view[c].gen # g
      BY <2>1, <3>2 DEF Published
    <3> QED
      BY <2>1, <2>2, <3>2, <3>3 DEF Published, Has
  <2> QED
    BY <2>3, <2>4, <2>5
<1>3. ASSUME NEW g \in Gens, Remove(g)
      PROVE  Base'
  <2>1. /\ gen[g].status = "superseded"
        /\ gen' = [gen EXCEPT ![g].status = "removed"]
        /\ UNCHANGED <<ready, stream, edges, alias, view>>
    BY <1>3 DEF Remove
  <2>2. /\ gen'[g].status = "removed"
        /\ gen'[g].rules = gen[g].rules
        /\ \A h \in Gens : h # g => gen'[h] = gen[h]
    BY <2>1 DEF TypeOK
  <2>3. TypeOK'
    BY <2>1 DEF TypeOK, Statuses
  <2>4. \A h \in Gens : Published(h)' <=> Published(h)
    BY <2>1, <2>2 DEF Published
  <2>5. GenerationsInOrder'
    <3>1. ready # 0 => ready \in Gens /\ ready # g
      BY <2>1, BoundsAssumption DEF TypeOK, Gens, GenerationsInOrder
    <3> QED
      BY <2>1, <2>2, <2>4, <3>1 DEF GenerationsInOrder
  <2>6. ViewsArePublished'
    <3>1. SUFFICES ASSUME NEW c \in Reviewers, view[c] # NULL
                   PROVE  Published(view[c].gen)' /\ Has(view[c].gen, view[c].rule)'
      BY <2>1 DEF ViewsArePublished
    <3>2. view[c].gen \in Gens /\ Published(view[c].gen) /\ Has(view[c].gen, view[c].rule)
      BY <3>1 DEF ViewsArePublished, TypeOK, Views
    <3> QED
      BY <2>1, <2>2, <2>4, <3>2 DEF Published, Has
  <2> QED
    BY <2>3, <2>5, <2>6
<1>4. ASSUME NEW g \in Gens, PublishGeneration(g)
      PROVE  Base'
  <2>1. /\ gen[g].status = "staging"
        /\ ready' = g
        /\ UNCHANGED <<edges, alias, view>>
        /\ DOMAIN stream' = Rules
        /\ stream' = [r \in Rules |-> stream'[r]]
    BY <1>4 DEF PublishGeneration
  <2>2. /\ gen' \in [Gens -> [status : Statuses, rules : [Rules -> Occurrences \cup {NULL}]]]
        /\ \A h \in Gens :
             /\ gen'[h].rules = gen[h].rules
             /\ gen'[h].status = IF h = g THEN "ready"
                                 ELSE IF h = ready THEN "superseded"
                                 ELSE gen[h].status
    BY <1>4, PublishedGenerations
  <2>3. \A r \in Rules : stream'[r] \in Streams
    BY <1>4, PublishExtends DEF TypeOK
  <2>4. stream' \in [Rules -> Streams]
    BY <2>1, <2>3
  <2>5. TypeOK'
    BY <2>1, <2>2, <2>4, BoundsAssumption DEF TypeOK, Gens
  <2>6. ready < g /\ g \in Nat /\ ready \in Nat
    BY <2>1, BoundsAssumption DEF GenerationsInOrder, TypeOK, Gens
  <2>7. \A h \in Gens : h \in Nat /\ (Published(h)' => Published(h) \/ h = g \/ h = ready)
    BY <2>2 DEF Published, Gens
  <2>8. \A h \in Gens : Published(h) => Published(h)'
    BY <2>2 DEF Published
  <2>9. GenerationsInOrder'
    <3>1. (ready # 0 => gen[ready].status = "ready")'
      BY <2>1, <2>2
    <3>2. \A h \in Gens : Published(h)' => h <= ready'
      BY <2>1, <2>6, <2>7 DEF GenerationsInOrder
    <3>3. \A h \in Gens : gen'[h].status # "staging"
      BY <2>1, <2>2 DEF GenerationsInOrder
    <3>4. \A h, i \in Gens :
            (h < i /\ gen'[h].status = "unused") => gen'[i].status = "unused"
      <4>1. SUFFICES ASSUME NEW h \in Gens, NEW i \in Gens, h < i, gen'[h].status = "unused"
                     PROVE  gen'[i].status = "unused"
        OBVIOUS
      <4>2. gen[h].status = "unused"
        BY <2>2, <4>1
      <4>3. gen[i].status = "unused"
        BY <4>1, <4>2 DEF GenerationsInOrder
      <4>4. i # g
        BY <2>1, <4>3
      <4>5. i # ready
        <5>1. CASE ready = 0
          BY <5>1 DEF Gens
        <5>2. CASE ready # 0
          BY <4>3, <5>2 DEF GenerationsInOrder
        <5> QED
          BY <5>1, <5>2
      <4> QED
        BY <2>2, <4>3, <4>4, <4>5
    <3> QED
      BY <3>1, <3>2, <3>3, <3>4 DEF GenerationsInOrder
  <2>10. ViewsArePublished'
    <3>1. SUFFICES ASSUME NEW c \in Reviewers, view[c] # NULL
                   PROVE  Published(view[c].gen)' /\ Has(view[c].gen, view[c].rule)'
      BY <2>1 DEF ViewsArePublished
    <3>2. view[c].gen \in Gens /\ Published(view[c].gen) /\ Has(view[c].gen, view[c].rule)
      BY <3>1 DEF ViewsArePublished, TypeOK, Views
    <3> QED
      BY <2>1, <2>2, <2>8, <3>2 DEF Has, Published
  <2> QED
    BY <2>5, <2>9, <2>10
<1>5. ASSUME NEW c \in Reviewers, NEW r \in Rules, ReadRule(c, r)
      PROVE  Base'
  <2>1. /\ ready # 0
        /\ Has(ready, r)
        /\ view' = [view EXCEPT ![c] = [rule |-> r, gen |-> ready, state |-> Shown(r)]]
        /\ UNCHANGED <<gen, ready, stream, edges, alias>>
    BY <1>5 DEF ReadRule, InPriorReady
  <2>2. ready \in Gens
    BY <2>1, BoundsAssumption DEF TypeOK, Gens
  <2>3. Shown(r) \in States
    <3>1. stream[r] \in Streams
      BY DEF TypeOK
    <3>2. stream[r].length \in Nat /\ (stream[r].length > 0 => stream[r].state \in States)
      BY <3>1, StreamParts
    <3> QED
      BY <3>2 DEF Shown, States
  <2>4. TypeOK'
    BY <2>1, <2>2, <2>3 DEF TypeOK, Views
  <2>5. GenerationsInOrder'
    BY <2>1 DEF GenerationsInOrder, Published
  <2>6. Published(ready)
    BY <2>1, <2>2 DEF GenerationsInOrder, Published
  <2>7. ViewsArePublished'
    BY <2>1, <2>6 DEF ViewsArePublished, Published, Has, TypeOK
  <2> QED
    BY <2>4, <2>5, <2>7
<1>6. ASSUME NEW c \in Reviewers, Command(c)
      PROVE  Base'
  <2>1. TypeOK'
    BY <1>6, CommandTypes
  <2>2. view' = [view EXCEPT ![c] = NULL] /\ UNCHANGED <<gen, ready, edges>>
    BY <1>6, CommandExtends
  <2>3. GenerationsInOrder'
    BY <2>2 DEF GenerationsInOrder, Published
  <2>4. ViewsArePublished'
    BY <2>2 DEF ViewsArePublished, Published, Has, TypeOK
  <2> QED
    BY <2>1, <2>3, <2>4
<1>7. ASSUME NEW c \in Reviewers, NEW p \in Rules, NEW pg \in Gens, Supersede(c, p, pg)
      PROVE  Base'
  <2>1. /\ view[c] \in Views
        /\ edges' = edges \cup {<<p, view[c].rule>>}
        /\ view' = [view EXCEPT ![c] = NULL]
        /\ UNCHANGED <<gen, ready, alias>>
    BY <1>7, SupersedeExtends
  <2>2. PICK old \in Streams, new \in Streams :
            stream' = [stream EXCEPT ![p] = old, ![view[c].rule] = new]
    BY <1>7, SupersedeExtends
  <2>3. stream' \in [Rules -> Streams]
    BY <2>2 DEF TypeOK
  <2>4. TypeOK'
    BY <2>1, <2>3 DEF TypeOK, Views
  <2>5. GenerationsInOrder'
    BY <2>1 DEF GenerationsInOrder, Published
  <2>6. ViewsArePublished'
    BY <2>1 DEF ViewsArePublished, Published, Has, TypeOK
  <2> QED
    BY <2>4, <2>5, <2>6
<1>8. CASE UNCHANGED vars
  BY <1>8 DEF vars, TypeOK, GenerationsInOrder, ViewsArePublished, Published, Has
<1> QED
  BY <1>1, <1>2, <1>3, <1>4, <1>5, <1>6, <1>7, <1>8 DEF Next, Command

\* The invariant all the theorems start from.
LEMMA BaseHolds == Spec => []Base
<1>1. Init => Base
  <2>1. SUFFICES ASSUME Init PROVE Base
    OBVIOUS
  <2>2. \A g \in Gens : gen[g].status = "unused" /\ gen[g].rules = NoRules
    BY <2>1 DEF Init
  <2>3. TypeOK
    BY <2>1, BoundsAssumption DEF Init, TypeOK, Statuses, NoRules, Streams
  <2>4. GenerationsInOrder
    BY <2>1, <2>2 DEF Init, GenerationsInOrder, Published
  <2>5. ViewsArePublished
    BY <2>1 DEF Init, ViewsArePublished
  <2> QED
    BY <2>3, <2>4, <2>5 DEF Base
<1>2. Base /\ [Next]_vars => Base'
  BY BaseStep
<1> QED
  BY <1>1, <1>2, PTL DEF Spec

\* Every event, edge, alias link and request the commands and publications
\* leave is well formed; no stream grows past its bound.
THEOREM LifecycleTypeCorrect == Spec => []TypeOK
<1>1. Base => TypeOK
  BY DEF Base
<1> QED
  BY <1>1, BaseHolds, PTL

-----------------------------------------------------------------------------
(* Decisions stand *)

\* One rule's part of DecisionsStand.
Stands(r) ==
    (InPriorReady(r) /\ stream[r].state \in Decisions) =>
        \A g \in Gens :
            (Published(g) /\ stream[r].gen <= g) =>
                /\ Has(g, r)
                /\ stream[r].snap \in {gen[g].rules[r].canonical, gen[g].rules[r].loaded}

\* A rule whose last state event and whose published generations stay keeps
\* its part.
LEMMA StandsStays ==
    ASSUME NEW r \in Rules, Stands(r), TypeOK,
           ready' = ready,
           \A g \in Gens : Published(g)' => Published(g) /\ gen'[g].rules = gen[g].rules,
           ready # 0 => gen'[ready].rules = gen[ready].rules,
           stream'[r].state = stream[r].state,
           stream'[r].gen = stream[r].gen,
           stream'[r].snap = stream[r].snap
    PROVE  Stands(r)'
<1>1. InPriorReady(r)' => InPriorReady(r)
  BY DEF InPriorReady, Has
<1>2. \A g \in Gens : Published(g)' => (Has(g, r)' <=> Has(g, r))
  BY DEF Has
<1> QED
  BY <1>1, <1>2 DEF Stands

\* No step carries a decision to other evidence or across a gap.
LEMMA DecisionsStandStep ==
    ASSUME Base, DecisionsStand, [Next]_vars
    PROVE  DecisionsStand'
<1>1. \A r \in Rules : Stands(r)
  BY DEF DecisionsStand, Stands
<1>2. SUFFICES ASSUME NEW r \in Rules
               PROVE  Stands(r)'
  BY DEF DecisionsStand, Stands
<1>3. /\ TypeOK
      /\ ready \in Nat
      /\ ready # 0 => ready \in Gens /\ gen[ready].status = "ready"
      /\ Gens \subseteq Nat
  BY BoundsAssumption DEF Base, TypeOK, GenerationsInOrder, Gens
<1>4. ASSUME NEW g \in Gens,
             \/ \E rules \in Catalogs : Stage(g, rules)
             \/ Fail(g)
             \/ Remove(g)
      PROVE  Stands(r)'
  <2>1. UNCHANGED <<ready, stream>>
    BY <1>4 DEF Stage, Fail, Remove
  <2>2. \A h \in Gens : h # g => gen'[h] = gen[h]
    BY <1>3, <1>4 DEF Stage, Fail, Remove, TypeOK
  <2>3. \/ ~Published(g)' /\ gen[g].status # "ready"
        \/ Published(g) /\ gen'[g].rules = gen[g].rules
    BY <1>3, <1>4 DEF Stage, Fail, Remove, TypeOK, Published
  <2>4. \A h \in Gens : Published(h)' => Published(h) /\ gen'[h].rules = gen[h].rules
    BY <2>2, <2>3 DEF Published
  <2>5. ready # 0 => gen'[ready].rules = gen[ready].rules
    BY <1>3, <2>2, <2>3
  <2> QED
    BY <1>1, <1>3, <2>1, <2>4, <2>5, StandsStays
<1>5. ASSUME NEW g \in Gens, PublishGeneration(g)
      PROVE  Stands(r)'
  <2>1. ready' = g
    BY <1>5 DEF PublishGeneration
  <2>2. \A h \in Gens :
          /\ gen'[h].rules = gen[h].rules
          /\ gen'[h].status = IF h = g THEN "ready"
                              ELSE IF h = ready THEN "superseded"
                              ELSE gen[h].status
    BY <1>5, PublishedGenerations
  <2>3. SUFFICES ASSUME Has(g, r), stream'[r].state \in Decisions,
                        NEW h \in Gens, Published(h)', stream'[r].gen <= h
                 PROVE  /\ Has(h, r)
                        /\ stream'[r].snap \in {gen[h].rules[r].canonical, gen[h].rules[r].loaded}
    BY <2>1, <2>2 DEF Stands, InPriorReady, Has
  <2>4. stream'[r] = stream[r] /\ InPriorReady(r) /\ stream[r].snap = gen[g].rules[r].canonical
    BY <1>5, <2>3, PublishExtends DEF Decisions
  <2>5. CASE h = g
    BY <2>3, <2>4, <2>5
  <2>6. CASE h # g
    <3>1. Published(h)
      BY <1>3, <2>2, <2>3, <2>6 DEF Published, Gens
    <3> QED
      BY <1>1, <2>3, <2>4, <3>1 DEF Stands
  <2> QED
    BY <2>5, <2>6
<1>6. ASSUME NEW c \in Reviewers, NEW q \in Rules, ReadRule(c, q)
      PROVE  Stands(r)'
  BY <1>1, <1>6 DEF ReadRule, Stands, InPriorReady, Has, Published
<1>7. ASSUME NEW c \in Reviewers, Command(c)
      PROVE  Stands(r)'
  <2>1. /\ view[c] # NULL
        /\ view[c] \in Views
        /\ view[c].gen = ready
        /\ UNCHANGED <<gen, ready>>
    BY <1>7, CommandExtends DEF Accepts
  <2>2. PICK new : /\ Extends(new, stream[view[c].rule], view[c])
                   /\ stream' = [stream EXCEPT ![view[c].rule] = new]
    BY <1>7, CommandExtends
  <2>3. \A g \in Gens : Published(g)' => Published(g) /\ gen'[g].rules = gen[g].rules
    BY <2>1 DEF Published
  <2>4. CASE r # view[c].rule
    <3>1. stream'[r] = stream[r]
      BY <1>3, <2>2, <2>4 DEF TypeOK
    <3> QED
      BY <1>1, <1>3, <2>1, <2>3, <3>1, StandsStays
  <2>5. CASE r = view[c].rule
    <3>1. stream'[r] = new
      BY <1>3, <2>2, <2>5 DEF TypeOK
    <3>2. CASE new.snap = Loaded(view[c]) /\ new.gen = view[c].gen
      <4>1. \A g \in Gens : (Published(g) /\ ready <= g) => g = ready
        BY <1>3 DEF Base, GenerationsInOrder
      <4>2. Has(ready, r) /\ new.snap = gen[ready].rules[r].loaded /\ new.gen = ready
        BY <2>1, <2>5, <3>2 DEF Base, ViewsArePublished, Loaded
      <4>3. \A g \in Gens : (Published(g)' /\ stream'[r].gen <= g) => g = ready
        BY <2>3, <3>1, <4>1, <4>2
      <4> QED
        BY <2>1, <3>1, <4>2, <4>3 DEF Stands, Has
    <3>3. CASE /\ new.state = stream[r].state
               /\ new.snap = stream[r].snap
               /\ new.gen = stream[r].gen
      BY <1>1, <1>3, <2>1, <2>3, <3>1, <3>3, StandsStays
    <3> QED
      BY <2>2, <2>5, <3>2, <3>3 DEF Extends
  <2> QED
    BY <2>4, <2>5
<1>8. ASSUME NEW c \in Reviewers, NEW p \in Rules, NEW pg \in Gens, Supersede(c, p, pg)
      PROVE  Stands(r)'
  <2>1. UNCHANGED <<gen, ready>> /\ view[c].rule \in Rules /\ p # view[c].rule
    BY <1>8, SupersedeExtends DEF Views
  <2>2. PICK old \in Streams, new \in Streams :
          /\ old.state = "superseded"
          /\ new.state = "review_needed"
          /\ stream' = [stream EXCEPT ![p] = old, ![view[c].rule] = new]
    BY <1>8, SupersedeExtends
  <2>3. \A g \in Gens : Published(g)' => Published(g) /\ gen'[g].rules = gen[g].rules
    BY <2>1 DEF Published
  <2>4. CASE r \in {p, view[c].rule}
    <3>1. stream'[r].state \notin Decisions
      BY <1>3, <2>1, <2>2, <2>4 DEF TypeOK, Decisions
    <3> QED
      BY <3>1 DEF Stands
  <2>5. CASE r \notin {p, view[c].rule}
    <3>1. stream'[r] = stream[r]
      BY <1>3, <2>2, <2>5 DEF TypeOK
    <3> QED
      BY <1>1, <1>3, <2>1, <2>3, <3>1, StandsStays
  <2> QED
    BY <2>4, <2>5
<1>9. CASE UNCHANGED vars
  BY <1>1, <1>9 DEF vars, Stands, InPriorReady, Has, Published
<1> QED
  BY <1>4, <1>5, <1>6, <1>7, <1>8, <1>9 DEF Next, Command

\* A decision that readers show was made on the evidence the rule has had in
\* every generation published since: reconcile_generation_lifecycle runs in
\* the transaction of each publication, so readers need not compare snapshots.
THEOREM ShownDecisionsStand == Spec => []DecisionsStand
<1>1. Init => DecisionsStand
  BY DEF Init, DecisionsStand, InPriorReady
<1>2. Base /\ DecisionsStand /\ [Next]_vars => DecisionsStand'
  BY DecisionsStandStep
<1> QED
  BY <1>1, <1>2, BaseHolds, PTL DEF Spec

-----------------------------------------------------------------------------
(* Decisions are informed *)

(* What an outstanding request of the ready generation expects, where the   *)
(* last state event was not made for the loaded occurrence: nobody changed *)
(* the rule since it was read, except by superseding it.                   *)
ViewStands(c) ==
    (view[c] # NULL /\ view[c].gen = ready) =>
        \/ stream[view[c].rule].length = 0
        \/ stream[view[c].rule].snap = Loaded(view[c])
        \/ stream[view[c].rule].state = "superseded"
        \/ stream[view[c].rule].state = view[c].state

ViewsStand == \A c \in Reviewers : ViewStands(c)

\* Every step keeps what the outstanding requests rest on.
LEMMA ViewsStandStep ==
    ASSUME Base, ViewsStand, [Next]_vars
    PROVE  ViewsStand'
<1>1. SUFFICES ASSUME NEW c \in Reviewers, view'[c] # NULL, view'[c].gen = ready'
               PROVE  ViewStands(c)'
  BY DEF ViewsStand, ViewStands
<1>2. /\ TypeOK
      /\ ready \in Nat
      /\ ready # 0 => ready \in Gens /\ gen[ready].status = "ready"
      /\ Gens \subseteq Nat
      /\ 0 \notin Gens
  BY BoundsAssumption DEF Base, TypeOK, GenerationsInOrder, Gens
<1>3. ViewStands(c)
  BY DEF ViewsStand
<1>4. ASSUME UNCHANGED <<ready, stream, view>>, gen'[ready].rules = gen[ready].rules
      PROVE  ViewStands(c)'
  BY <1>3, <1>4 DEF ViewStands, Loaded
<1>5. ASSUME NEW g \in Gens,
             \/ \E rules \in Catalogs : Stage(g, rules)
             \/ Fail(g)
             \/ Remove(g)
      PROVE  ViewStands(c)'
  <2>1. UNCHANGED <<ready, stream, view>>
    BY <1>5 DEF Stage, Fail, Remove
  <2>2. view[c] \in Views /\ ready \in Gens
    BY <1>1, <1>2, <2>1 DEF TypeOK, Views
  <2>3. gen'[ready].rules = gen[ready].rules
    BY <1>2, <1>5, <2>2 DEF Stage, Fail, Remove, TypeOK
  <2> QED
    BY <1>4, <2>1, <2>3
<1>6. ASSUME NEW g \in Gens, PublishGeneration(g)
      PROVE  ViewStands(c)'
  <2>1. ready' = g /\ view' = view /\ gen[g].status = "staging"
    BY <1>6 DEF PublishGeneration
  <2>2. view[c].gen # g
    BY <1>1, <2>1 DEF Base, ViewsArePublished, Published
  <2> QED
    BY <1>1, <2>1, <2>2
<1>7. ASSUME NEW d \in Reviewers, NEW q \in Rules, ReadRule(d, q)
      PROVE  ViewStands(c)'
  <2>1. UNCHANGED <<gen, ready, stream>>
    BY <1>7 DEF ReadRule
  <2>2. CASE c = d
    <3>1. view'[c] = [rule |-> q, gen |-> ready, state |-> Shown(q)]
      BY <1>2, <1>7, <2>2 DEF ReadRule, TypeOK
    <3> QED
      BY <2>1, <3>1 DEF ViewStands, Shown
  <2>3. CASE c # d
    <3>1. view'[c] = view[c]
      BY <1>2, <1>7, <2>3 DEF ReadRule, TypeOK
    <3> QED
      BY <1>3, <2>1, <3>1 DEF ViewStands, Loaded
  <2> QED
    BY <2>2, <2>3
<1>8. ASSUME NEW d \in Reviewers, view' = [view EXCEPT ![d] = NULL]
      PROVE  c # d /\ view'[c] = view[c] /\ view[c] # NULL /\ view[c] \in Views
  BY <1>1, <1>2, <1>8 DEF TypeOK
<1>9. ASSUME NEW d \in Reviewers, Command(d)
      PROVE  ViewStands(c)'
  <2>1. /\ view[d] \in Views
        /\ view[d].gen = ready
        /\ view' = [view EXCEPT ![d] = NULL]
        /\ UNCHANGED <<gen, ready>>
    BY <1>9, CommandExtends DEF Accepts
  <2>2. PICK new : /\ Extends(new, stream[view[d].rule], view[d])
                   /\ stream' = [stream EXCEPT ![view[d].rule] = new]
    BY <1>9, CommandExtends
  <2>3. view'[c] = view[c] /\ view[c] # NULL /\ view[c] \in Views /\ view[c].gen = ready
    BY <1>1, <1>8, <2>1
  <2>4. view[c].rule \in Rules
    BY <2>3 DEF Views
  <2>5. CASE view[c].rule # view[d].rule
    <3>1. stream'[view[c].rule] = stream[view[c].rule]
      BY <1>2, <2>2, <2>4, <2>5 DEF TypeOK
    <3> QED
      BY <1>3, <2>1, <2>3, <3>1 DEF ViewStands, Loaded
  <2>6. CASE view[c].rule = view[d].rule
    <3>1. stream'[view[c].rule] = new
      BY <1>2, <2>2, <2>4, <2>6 DEF TypeOK
    <3>2. Loaded(view[c])' = Loaded(view[c]) /\ Loaded(view[c]) = Loaded(view[d])
      BY <2>1, <2>3, <2>6 DEF Loaded
    <3>3. CASE new.snap = Loaded(view[d])
      BY <3>1, <3>2, <3>3, <2>3 DEF ViewStands
    <3>4. CASE /\ stream[view[c].rule].length > 0
               /\ new.state = stream[view[c].rule].state
               /\ new.snap = stream[view[c].rule].snap
      <4>1. stream[view[c].rule].length # 0
        BY <3>4
      <4> QED
        BY <1>3, <2>1, <2>3, <3>1, <3>2, <3>4, <4>1 DEF ViewStands
    <3> QED
      BY <2>2, <2>6, <3>3, <3>4 DEF Extends
  <2> QED
    BY <2>5, <2>6
<1>10. ASSUME NEW d \in Reviewers, NEW p \in Rules, NEW pg \in Gens, Supersede(d, p, pg)
       PROVE  ViewStands(c)'
  <2>1. /\ view[d] \in Views
        /\ view[d].rule \in Rules
        /\ view[d].gen = ready
        /\ p # view[d].rule
        /\ view' = [view EXCEPT ![d] = NULL]
        /\ UNCHANGED <<gen, ready>>
    BY <1>10, SupersedeExtends DEF Views
  <2>2. PICK old \in Streams, new \in Streams :
          /\ old.state = "superseded"
          /\ new.snap = Loaded(view[d])
          /\ stream' = [stream EXCEPT ![p] = old, ![view[d].rule] = new]
    BY <1>10, SupersedeExtends
  <2>3. view'[c] = view[c] /\ view[c] # NULL /\ view[c] \in Views /\ view[c].gen = ready
    BY <1>1, <1>8, <2>1
  <2>4. view[c].rule \in Rules
    BY <2>3 DEF Views
  <2>5. Loaded(view[c])' = Loaded(view[c])
    BY <2>1, <2>3 DEF Loaded
  <2>6. CASE view[c].rule = p
    <3>1. stream'[p].state = "superseded"
      BY <1>2, <2>1, <2>2 DEF TypeOK
    <3> QED
      BY <2>3, <2>6, <3>1 DEF ViewStands
  <2>7. CASE view[c].rule = view[d].rule
    <3>1. stream'[view[c].rule] = new
      BY <1>2, <2>1, <2>2, <2>7 DEF TypeOK
    <3>2. new.snap = Loaded(view[c])
      BY <2>1, <2>2, <2>3, <2>7 DEF Loaded
    <3> QED
      BY <2>3, <2>5, <3>1, <3>2 DEF ViewStands
  <2>8. CASE view[c].rule \notin {p, view[d].rule}
    <3>1. stream'[view[c].rule] = stream[view[c].rule]
      BY <1>2, <2>2, <2>4, <2>8 DEF TypeOK
    <3> QED
      BY <1>3, <2>1, <2>3, <2>5, <3>1 DEF ViewStands
  <2> QED
    BY <2>6, <2>7, <2>8
<1>11. CASE UNCHANGED vars
  BY <1>4, <1>11 DEF vars
<1> QED
  BY <1>5, <1>6, <1>7, <1>9, <1>10, <1>11 DEF Next, Command

\* A command that leaves a decision was requested for the state on show.
LEMMA CommandIsInformed ==
    ASSUME Base, ViewsStand, NEW c \in Reviewers, Command(c), NEW r \in Rules,
           stream'[r] # stream[r], stream'[r].state \in Decisions
    PROVE  /\ view[c] # NULL
           /\ view[c] = [rule |-> r, gen |-> ready, state |-> Shown(r)]
           /\ view'[c] = NULL
<1> DEFINE v == view[c]
           s == stream[r]
<1>1. /\ v # NULL
      /\ v \in Views
      /\ Accepts(v)
      /\ 0 < MaxEvents
      /\ view' = [view EXCEPT ![c] = NULL]
  BY CommandExtends
<1>2. PICK new : /\ Extends(new, stream[v.rule], v)
                 /\ stream' = [stream EXCEPT ![v.rule] = new]
  BY CommandExtends
<1>3. r = v.rule /\ stream'[r] = new
  BY <1>2 DEF Base, TypeOK
<1>4. v.gen = ready /\ Effective(Before(v), Loaded(v)) = v.state
  BY <1>1 DEF Accepts
<1>5. /\ Loaded(v) \in Snapshots
      /\ Before(v) \in Streams
      /\ Before(v).length > 0
      /\ s.length > 0 => Before(v) = s
      /\ s.length = 0 => Before(v) = Appended(s, "candidate", v.gen, Loaded(v))
  BY <1>1, <1>3, BeforeStream
<1>6. s \in Streams /\ s.length \in Nat
  BY StreamParts DEF Base, TypeOK
<1>7. v.state = Shown(r)
  <2>1. CASE s.length = 0
    <3>1. Before(v).state = "candidate" /\ Before(v).snap = Loaded(v)
      BY <1>5, <2>1 DEF Appended
    <3>2. v.state = "candidate"
      BY <1>4, <3>1 DEF Effective
    <3> QED
      BY <2>1, <3>2 DEF Shown
  <2>2. CASE s.length > 0
    <3>1. Before(v) = s
      BY <1>5, <2>2
    <3>2. Shown(r) = s.state
      BY <1>6, <2>2 DEF Shown
    <3>3. CASE s.snap = Loaded(v)
      BY <1>4, <3>1, <3>2, <3>3 DEF Effective
    <3>4. CASE s.snap # Loaded(v)
      <4>1. s.state # "superseded"
        BY <1>2, <1>3 DEF Extends, Decisions
      <4>2. s.state = v.state
        BY <1>1, <1>3, <1>4, <1>6, <2>2, <3>4, <4>1 DEF ViewsStand, ViewStands
      <4> QED
        BY <3>2, <4>2
    <3> QED
      BY <3>3, <3>4
  <2> QED
    BY <1>6, <2>1, <2>2
<1>8. v = [rule |-> r, gen |-> ready, state |-> Shown(r)]
  BY <1>1, <1>3, <1>4, <1>7 DEF Views
<1>9. view'[c] = NULL
  BY <1>1 DEF Base, TypeOK
<1> QED
  BY <1>1, <1>8, <1>9

\* No decision is left by a request from an outdated read, although a request
\* is checked against the loaded occurrence and readers show the canonical
\* one's lifecycle.
THEOREM ReviewsAreInformed == Spec => DecisionsAreInformed
<1> DEFINE Informed ==
        \A r \in Rules :
            (stream'[r] # stream[r] /\ stream'[r].state \in Decisions) =>
                \E c \in Reviewers :
                    /\ view[c] # NULL
                    /\ view[c] = [rule |-> r, gen |-> ready, state |-> Shown(r)]
                    /\ view'[c] = NULL
<1>1. Init => ViewsStand
  BY DEF Init, ViewsStand, ViewStands
<1>2. Base /\ ViewsStand /\ [Next]_vars => ViewsStand'
  BY ViewsStandStep
<1>3. Base /\ ViewsStand /\ [Next]_vars => [Informed]_vars
  <2>1. SUFFICES ASSUME Base, ViewsStand, Next, NEW r \in Rules,
                        stream'[r] # stream[r], stream'[r].state \in Decisions
                 PROVE  \E c \in Reviewers :
                            /\ view[c] # NULL
                            /\ view[c] = [rule |-> r, gen |-> ready, state |-> Shown(r)]
                            /\ view'[c] = NULL
    OBVIOUS
  <2>2. ASSUME NEW g \in Gens, PublishGeneration(g)
        PROVE  FALSE
    BY <2>1, <2>2, PublishExtends DEF Decisions
  <2>3. ASSUME NEW c \in Reviewers, NEW p \in Rules, NEW pg \in Gens, Supersede(c, p, pg)
        PROVE  FALSE
    <3>1. p # view[c].rule /\ view[c].rule \in Rules
      BY <2>1, <2>3, SupersedeExtends DEF Views
    <3>2. PICK old \in Streams, new \in Streams :
            /\ old.state = "superseded"
            /\ new.state = "review_needed"
            /\ stream' = [stream EXCEPT ![p] = old, ![view[c].rule] = new]
      BY <2>1, <2>3, SupersedeExtends
    <3> QED
      BY <2>1, <3>1, <3>2 DEF Base, TypeOK, Decisions
  <2>4. PICK c \in Reviewers : Command(c)
    BY <2>1, <2>2, <2>3 DEF Next, Command, Stage, Fail, Remove, ReadRule
  <2> QED
    BY <2>1, <2>4, CommandIsInformed
<1> QED
  BY <1>1, <1>2, <1>3, BaseHolds, PTL DEF Spec, DecisionsAreInformed

-----------------------------------------------------------------------------
(* Supersession and aliases *)

\* Steps other than a supersession keep the edges; they lengthen streams, and
\* make no rule superseded.
LEMMA OrdinaryStep ==
    ASSUME Base, NEW r \in Rules,
           \/ UNCHANGED stream
           \/ \E g \in Gens : PublishGeneration(g)
           \/ \E c \in Reviewers : Command(c)
    PROVE  /\ stream[r].length \in Nat
           /\ stream'[r].length \in Nat
           /\ stream'[r].length >= stream[r].length
           /\ (stream'[r].state = "superseded") <=> (stream[r].state = "superseded")
<1>1. stream[r] \in Streams /\ stream[r].length \in Nat
  BY StreamParts DEF Base, TypeOK
<1>2. CASE UNCHANGED stream
  BY <1>1, <1>2
<1>3. ASSUME NEW g \in Gens, PublishGeneration(g)
      PROVE  /\ stream'[r].length \in Nat
             /\ stream'[r].length >= stream[r].length
             /\ (stream'[r].state = "superseded") <=> (stream[r].state = "superseded")
  BY <1>1, <1>3, PublishExtends
<1>4. ASSUME NEW c \in Reviewers, Command(c)
      PROVE  /\ stream'[r].length \in Nat
             /\ stream'[r].length >= stream[r].length
             /\ (stream'[r].state = "superseded") <=> (stream[r].state = "superseded")
  <2>1. PICK new : /\ Extends(new, stream[view[c].rule], view[c])
                   /\ stream' = [stream EXCEPT ![view[c].rule] = new]
    BY <1>4, CommandExtends
  <2>2. CASE r = view[c].rule
    <3>1. stream'[r] = new
      BY <2>1, <2>2 DEF Base, TypeOK
    <3>2. new.length \in Nat
      BY <2>1, StreamParts DEF Extends
    <3> QED
      BY <2>1, <2>2, <3>1, <3>2 DEF Extends
  <2>3. CASE r # view[c].rule
    BY <1>1, <2>1, <2>3 DEF Base, TypeOK
  <2> QED
    BY <2>2, <2>3
<1> QED
  BY <1>1, <1>2, <1>3, <1>4

\* A supersession adds one edge to edges it does not touch: the predecessor
\* had no successor, and the successor was at neither end of an edge.
LEMMA SupersedeStep ==
    ASSUME Base, SupersededHasSuccessor, NEW c \in Reviewers, NEW p \in Rules,
           NEW pg \in Gens, Supersede(c, p, pg)
    PROVE  SupersededHasSuccessor'
<1>0. PICK s \in Rules : s = view[c].rule
  BY SupersedeExtends DEF Views
<1>1. /\ s \in Rules
      /\ p # s
      /\ stream[p].state # "superseded"
      /\ stream[s] = EmptyStream
      /\ edges' = edges \cup {<<p, s>>}
      /\ edges \subseteq Rules \X Rules
  BY <1>0, SupersedeExtends DEF Base, TypeOK
<1>2. PICK old \in Streams, new \in Streams :
        /\ old.state = "superseded"
        /\ old.length > 1
        /\ new.state = "review_needed"
        /\ new.length = 2
        /\ stream' = [stream EXCEPT ![p] = old, ![s] = new]
  BY <1>0, SupersedeExtends
<1>3. /\ stream'[p] = old
      /\ stream'[s] = new
      /\ \A r \in Rules \ {p, s} : stream'[r] = stream[r]
  BY <1>1, <1>2 DEF Base, TypeOK
<1>4. Successors(p) = {} /\ Successors(s) = {}
  <2>1. stream[s].state # "superseded"
    BY <1>1 DEF EmptyStream
  <2> QED
    BY <1>1, <2>1 DEF SupersededHasSuccessor
<1>5. \A e \in edges : e[1] # p /\ e[1] # s
  BY <1>4 DEF Successors
<1>6. \A e \in edges : e[2] # s
  BY <1>1 DEF SupersededHasSuccessor, EmptyStream
<1>7. \A r \in Rules : Successors(r)' = IF r = p THEN {s} ELSE Successors(r)
  <2>1. \A r \in Rules : Successors(r)' = {e[2] : e \in {f \in edges \cup {<<p, s>>} : f[1] = r}}
    BY <1>1 DEF Successors
  <2>2. ASSUME NEW r \in Rules, r # p
        PROVE  Successors(r)' = Successors(r)
    <3>1. {f \in edges \cup {<<p, s>>} : f[1] = r} = {f \in edges : f[1] = r}
      BY <2>2
    <3> QED
      BY <2>1, <3>1 DEF Successors
  <2>3. Successors(p)' = {s}
    <3>1. {f \in edges \cup {<<p, s>>} : f[1] = p} = {<<p, s>>}
      BY <1>5
    <3>2. Successors(p)' = {e[2] : e \in {<<p, s>>}}
      BY <2>1, <3>1
    <3> QED
      BY <3>2
  <2> QED
    BY <2>2, <2>3
<1>8. \A r \in Rules : stream'[r].state = "superseded" <=> Successors(r)' # {}
  BY <1>1, <1>2, <1>3, <1>4, <1>7 DEF SupersededHasSuccessor
<1>9. ASSUME NEW e \in edges
      PROVE  stream'[e[2]].length > 1 /\ ~Reaches(e[2], e[1])'
  <2>1. e[1] \in Rules /\ e[2] \in Rules /\ e[2] # s /\ e[1] # s
    BY <1>1, <1>5, <1>6
  <2>2. stream'[e[2]].length > 1
    <3>1. stream[e[2]].length > 1
      BY DEF SupersededHasSuccessor
    <3> QED
      BY <1>2, <1>3, <2>1, <3>1
  <2>3. PICK closed \in SUBSET Rules :
          /\ Successors(e[2]) \subseteq closed
          /\ \A r \in closed : Successors(r) \subseteq closed
          /\ e[1] \notin closed
    BY DEF SupersededHasSuccessor, Reaches
  <2> DEFINE wider == closed \cup {s}
  <2>4. /\ wider \in SUBSET Rules
        /\ Successors(e[2])' \subseteq wider
        /\ \A r \in wider : Successors(r)' \subseteq wider
        /\ e[1] \notin wider
    BY <1>1, <1>4, <1>7, <2>1, <2>3
  <2>5. ~Reaches(e[2], e[1])'
    <3> HIDE DEF wider
    <3> QED
      BY <2>4 DEF Reaches
  <2> QED
    BY <2>2, <2>5
<1>10. stream'[s].length > 1 /\ ~Reaches(s, p)'
  <2>1. Successors(s)' = {}
    BY <1>1, <1>4, <1>7
  <2>2. ~Reaches(s, p)'
    BY <2>1 DEF Reaches
  <2> QED
    BY <1>2, <1>3, <2>2
<1>11. \A e \in edges' : stream'[e[2]].length > 1 /\ ~Reaches(e[2], e[1])'
  BY <1>1, <1>9, <1>10
<1>12. \A e, f \in edges' : (e[1] = f[1]) <=> (e[2] = f[2])
  BY <1>1, <1>5, <1>6 DEF SupersededHasSuccessor
<1> QED
  BY <1>8, <1>11, <1>12 DEF SupersededHasSuccessor

\* Supersession is all or nothing, for any number of rules: the superseded
\* rules are the ones with a successor, each path of edges has an end, and
\* no rule succeeds two.
THEOREM SupersessionIsConsistent == Spec => []SupersededHasSuccessor
<1>1. Init => SupersededHasSuccessor
  BY DEF Init, SupersededHasSuccessor, Successors, EmptyStream
<1>2. Base /\ SupersededHasSuccessor /\ [Next]_vars => SupersededHasSuccessor'
  <2>1. SUFFICES ASSUME Base, SupersededHasSuccessor, [Next]_vars
                 PROVE  SupersededHasSuccessor'
    OBVIOUS
  <2>2. ASSUME NEW c \in Reviewers, NEW p \in Rules, NEW pg \in Gens, Supersede(c, p, pg)
        PROVE  SupersededHasSuccessor'
    BY <2>1, <2>2, SupersedeStep
  <2>3. ASSUME UNCHANGED edges,
               \/ UNCHANGED stream
               \/ \E g \in Gens : PublishGeneration(g)
               \/ \E c \in Reviewers : Command(c)
        PROVE  SupersededHasSuccessor'
    <3>1. ASSUME NEW r \in Rules
          PROVE  /\ stream[r].length \in Nat
                 /\ stream'[r].length \in Nat
                 /\ stream'[r].length >= stream[r].length
                 /\ (stream'[r].state = "superseded") <=> (stream[r].state = "superseded")
      BY <2>1, <2>3, OrdinaryStep
    <3>2. \A r : Successors(r)' = Successors(r)
      BY <2>3 DEF Successors
    <3>3. \A r, q : Reaches(r, q)' <=> Reaches(r, q)
      BY <3>2 DEF Reaches
    <3>4. edges \subseteq Rules \X Rules
      BY <2>1 DEF Base, TypeOK
    <3>5. \A e \in edges : stream'[e[2]].length > 1
      BY <2>1, <3>1, <3>4 DEF SupersededHasSuccessor
    <3> QED
      BY <2>1, <2>3, <3>1, <3>2, <3>3, <3>5 DEF SupersededHasSuccessor
  <2>4. \/ UNCHANGED edges /\ UNCHANGED stream
        \/ \E g \in Gens : PublishGeneration(g) /\ UNCHANGED edges
        \/ \E c \in Reviewers : Command(c) /\ UNCHANGED edges
        \/ \E c \in Reviewers, p \in Rules, pg \in Gens : Supersede(c, p, pg)
    BY <2>1 DEF Next, Command, vars, Stage, Fail, Remove, PublishGeneration, ReadRule,
        Review, Annotate, LinkAlias, UnlinkAlias, SetAlias
  <2> QED
    BY <2>2, <2>3, <2>4
<1> QED
  BY <1>1, <1>2, BaseHolds, PTL DEF Spec

\* Alias links form stars after any number of links and unlinks.
THEOREM AliasLinksFormStars == Spec => []AliasesAreStars
<1>1. Init => AliasesAreStars
  BY DEF Init, AliasesAreStars, NoRules
<1>2. Base /\ AliasesAreStars /\ [Next]_vars => AliasesAreStars'
  <2>1. SUFFICES ASSUME Base, AliasesAreStars, [Next]_vars
                 PROVE  AliasesAreStars'
    OBVIOUS
  <2>2. alias.target \in [Rules -> Rules \cup {NULL}] /\ NULL \notin Rules
    BY <2>1, NullAssumption DEF Base, TypeOK
  <2>3. ASSUME NEW c \in Reviewers, NEW a \in Rules, LinkAlias(c, a)
        PROVE  AliasesAreStars'
    <3>1. MayLink(a, view[c].rule) /\ alias'.target = [alias.target EXCEPT ![a] = view[c].rule]
      BY <2>3 DEF LinkAlias, SetAlias
    <3>2. view[c].rule \in Rules
      BY <2>1, <2>3 DEF LinkAlias, Base, TypeOK, Views
    <3> QED
      BY <2>1, <2>2, <3>1, <3>2 DEF MayLink, AliasesAreStars
  <2>4. ASSUME NEW c \in Reviewers, NEW a \in Rules, UnlinkAlias(c, a)
        PROVE  AliasesAreStars'
    <3>1. alias'.target = [alias.target EXCEPT ![a] = NULL]
      BY <2>4 DEF UnlinkAlias, SetAlias
    <3> QED
      BY <2>1, <2>2, <3>1 DEF AliasesAreStars
  <2>5. CASE UNCHANGED alias
    BY <2>1, <2>5 DEF AliasesAreStars
  <2> QED
    BY <2>1, <2>3, <2>4, <2>5 DEF Next, vars, Stage, Fail, Remove, PublishGeneration,
        ReadRule, Review, Annotate, Supersede
<1> QED
  BY <1>1, <1>2, BaseHolds, PTL DEF Spec
=============================================================================
