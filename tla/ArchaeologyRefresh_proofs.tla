----------------------- MODULE ArchaeologyRefresh_proofs -----------------------
(***************************************************************************)
(* Proofs about the archaeology commands over the job store, for any       *)
(* number of start, continue and cancel commands that interleave and are   *)
(* cut off anywhere.                                                       *)
(*                                                                         *)
(* The invariant follows a generation from the scan to publication: what   *)
(* its rows hold in each stage, and what a start command knows about it    *)
(* between two of its transactions.                                        *)
(***************************************************************************)
EXTENDS ArchaeologyRefresh, FiniteSetTheorems, TLAPS

-----------------------------------------------------------------------------
(***************************************************************************)
(* The invariant.                                                          *)
(***************************************************************************)
ActiveStates == {"running", "paused", "cancelling"}
Working(i)   == job[i].state \in ActiveStates
Published(i) == gen[i].status \in {"ready", "superseded", "deleted"}
Now(i)       == Manifest[gen[i].source]

\* Every path is parsed, or waits to be.
Parseable(i) ==
    \A p \in Paths : gen[i].content.facts[p] \in {"pending", Now(i)[p]}
Missing(i) == {p \in Paths : gen[i].content.facts[p] = "pending"}

\* The two rows of a run agree, and the rows staged for it are those its
\* stage has made them.
RunSound(i) ==
    /\ job[i].state = "unused" <=> gen[i].status = "unused"
    /\ gen[i].status # "unused" => gen[i].repo \in Repos /\ gen[i].source \in Sources
    /\ Working(i) <=> job[i].stage # "idle"
    /\ gen[i].status = "staging" <=> Working(i) /\ job[i].stage # "cleanup"
    /\ job[i].stage = "cleanup" => gen[i].status = "ready"
    /\ job[i].stage = "parse" => Parseable(i) /\ Missing(i) \subseteq items[i]
    /\ job[i].stage \notin {"idle", "inventory", "parse"} =>
           gen[i].content.facts = Now(i) /\ items[i] = {}
    /\ job[i].stage \notin {"idle", "inventory", "parse", "link", "derive"} =>
           gen[i].content.rules = Now(i)
    /\ gen[i].status \in {"ready", "superseded"} =>
           gen[i].content.facts = Now(i) /\ gen[i].content.rules = Now(i)

\* One active job per repository.
OneJob ==
    \A i, k \in Runs : Working(i) /\ Working(k) /\ gen[i].repo = gen[k].repo => i = k

\* What a repository shows is a ready generation of its own.
PointerSound ==
    \A r \in Repos : repo[r].ready # NoRun =>
        gen[repo[r].ready].status = "ready" /\ gen[repo[r].ready].repo = r

\* A path outside a plan is the same in the generation it clones from.
PlanSound(w) ==
    \A p \in Paths \ w.invalidated :
        Manifest[w.src][p] = IF w.base = NoRun THEN "absent" ELSE Now(w.base)[p]

\* What a start command has planned is true as long as its generation has not
\* been ended by someone else.
StagedSound(w) ==
    /\ w.pc \in {"compare", "plan", "discard", "clone", "copy"} =>
           gen[w.run].content = ManifestRows(w.src)
    /\ w.pc = "plan" => w.changed = ChangedPaths(w.src, w.repo)
    /\ w.pc \in {"clone", "copy", "queue", "checkpoint"} => PlanSound(w)
    /\ w.pc \in {"queue", "checkpoint"} =>
           Parseable(w.run) /\ Missing(w.run) \subseteq w.invalidated
    /\ w.pc = "checkpoint" => items[w.run] = w.invalidated

StarterSound(w) ==
    /\ w.run \in Runs /\ w.repo \in Repos /\ w.src \in Sources
    /\ w.pc \in {"registered", "start"} => job[w.run].state = "unused"
    /\ w.pc \notin {"registered", "start"} =>
           /\ job[w.run].stage \in {"inventory", "idle"}
           /\ gen[w.run].status # "unused"
           /\ gen[w.run].source = w.src /\ gen[w.run].repo = w.repo
           /\ gen[w.run].status = "staging" => StagedSound(w)
    /\ w.pc = "copy" => w.base # NoRun
    /\ w.base # NoRun => Published(w.base) /\ gen[w.base].content.facts = Now(w.base)

StartersSound ==
    /\ \A s \in Starters : ~StarterAt(s, "idle") => StarterSound(starter[s])
    /\ \A s \in Starters : StarterAt(s, "idle") => starter[s].run = NoRun
    /\ \A s, t \in Starters : starter[s].run = starter[t].run => s = t \/ StarterAt(s, "idle")

\* A continue command is about a run whose plan is stored.
DriverSound(v) ==
    /\ v.run \in Runs
    /\ v.state = "running" => job[v.run].state # "unused" /\ job[v.run].stage # "inventory"
DriversSound == \A d \in Drivers : driver[d].pc # "idle" => DriverSound(driver[d])

Inv ==
    /\ TypeOK
    /\ \A i \in Runs : RunSound(i)
    /\ OneJob /\ PointerSound
    /\ StartersSound /\ DriversSound

-----------------------------------------------------------------------------
(***************************************************************************)
(* What a step does to the store.  Every transaction but publication and   *)
(* cleanup changes the rows of one run and no repository's pointer.        *)
(***************************************************************************)
Pointers     == \A r \in Repos : repo'[r].ready = repo[r].ready
SameRun(k)   == job'[k] = job[k] /\ gen'[k] = gen[k] /\ items'[k] = items[k]
Others(i)    == (\A k \in Runs \ {i} : SameRun(k)) /\ Pointers
Identity(i)  == gen'[i].repo = gen[i].repo /\ gen'[i].source = gen[i].source
Steps(s)     == starter'[s] # starter[s]
SameJob(i)   == job'[i].state = job[i].state /\ job'[i].stage = job[i].stage

Quiet == (\A k \in Runs : SameRun(k)) /\ Pointers

Queued ==
    \E s \in Starters :
        LET i == starter[s].run
        IN  /\ StarterAt(s, "queue") /\ Steps(s) /\ Others(i)
            /\ gen[i].status = "staging" /\ job[i].state = "running"
            /\ job'[i] = job[i] /\ gen'[i] = gen[i] /\ items'[i] = starter[s].invalidated

Started ==
    \E s \in Starters :
        LET w == starter[s]
            i == w.run
        IN  /\ StarterAt(s, "start") /\ Steps(s) /\ Others(i) /\ UNCHANGED items
            /\ job[i].state = "unused"
            /\ job'[i].state = "running" /\ job'[i].stage = "inventory"
            /\ gen'[i].status = "staging" /\ gen'[i].repo = w.repo /\ gen'[i].source = w.src
            /\ \A k \in Runs : ~(gen[k].repo = w.repo /\ Working(k))

Wrote(i) ==
    /\ Others(i) /\ Identity(i) /\ job'[i] = job[i] /\ gen'[i].status = gen[i].status
    /\ \/ /\ job[i].state = "running" /\ gen[i].status = "staging" /\ UNCHANGED items
          /\ \E s \in Starters : /\ StarterAt(s, "manifest") /\ starter[s].run = i /\ Steps(s)
                                 /\ gen'[i].content = ManifestRows(starter[s].src)
       \/ /\ gen[i].status \in {"staging", "failed", "cancelled"} /\ UNCHANGED items
          /\ \E s \in Starters : LET w == starter[s]
                                 IN  /\ StarterAt(s, "copy") /\ w.run = i /\ Steps(s)
                                     /\ gen'[i].content = ClonedRows(gen[i].content.facts,
                                                              gen[w.base].content.facts,
                                                              w.invalidated)
       \/ /\ job[i].state = "running" /\ job[i].stage # "inventory" /\ gen[i].status = "staging"
          /\ \E p \in items[i] : /\ gen'[i].content = ParsedRows(i, p)
                                 /\ items'[i] = items[i] \ {p}

Moved(i) ==
    /\ Others(i) /\ Identity(i) /\ UNCHANGED items /\ gen'[i].status = gen[i].status
    /\ Working(i) /\ job'[i].state \in ActiveStates
    /\ \/ gen'[i] = gen[i] /\ job'[i].stage = job[i].stage
       \/ /\ gen'[i] = gen[i] /\ job[i].stage = "inventory" /\ job'[i].stage = "parse"
          /\ \E s \in Starters : StarterAt(s, "checkpoint") /\ starter[s].run = i /\ Steps(s)
       \/ /\ gen'[i] = gen[i] /\ job[i].stage = "parse" /\ job'[i].stage = "link"
          /\ items[i] = {}
       \/ gen'[i] = gen[i] /\ job[i].stage = "link" /\ job'[i].stage = "derive"
       \/ /\ job[i].stage = "derive" /\ job'[i].stage = "synthesize"
          /\ gen'[i].content = DerivedRows(i)
       \/ gen'[i] = gen[i] /\ job[i].stage = "synthesize" /\ job'[i].stage = "validate"
       \/ gen'[i] = gen[i] /\ job[i].stage = "validate" /\ job'[i].stage = "publish"

Ended(i) ==
    /\ Others(i) /\ Identity(i) /\ UNCHANGED items /\ gen'[i].content = gen[i].content
    /\ Working(i)
    /\ job'[i].state \in {"completed", "cancelled", "deleted"} /\ job'[i].stage = "idle"
    /\ \/ gen[i].status = "staging" /\ gen'[i].status \in {"cancelled", "deleted"}
       \/ gen[i].status = "ready" /\ gen'[i].status = "ready"

Showed(i) ==
    LET r     == gen[i].repo
        prior == repo[r].ready
    IN  /\ UNCHANGED items
        /\ job[i].state = "running" /\ job[i].stage = "publish" /\ gen[i].status = "staging"
        /\ job'[i].state = "running" /\ job'[i].stage = "cleanup"
        /\ gen'[i].status = "ready" /\ gen'[i].content = gen[i].content /\ Identity(i)
        /\ \A k \in Runs \ {i} :
              /\ job'[k] = job[k] /\ Identity(k) /\ gen'[k].content = gen[k].content
              /\ gen'[k].status = IF k = prior THEN "superseded" ELSE gen[k].status
        /\ {k \in Runs : gen[k].repo = r /\ gen[k].status = "ready"} = {prior} \ {NoRun}
        /\ \A q \in Repos : repo'[q].ready = IF q = r THEN i ELSE repo[q].ready

Cleaned ==
    /\ UNCHANGED items /\ Pointers
    /\ \A k \in Runs :
          /\ SameJob(k) /\ Identity(k) /\ gen'[k].content = gen[k].content
          /\ \/ gen'[k].status = gen[k].status
             \/ /\ gen'[k].status = "deleted" /\ ~Working(k)
                /\ gen[k].status \in {"staging", "failed", "cancelled", "superseded"}

Effect ==
    \/ Quiet \/ Queued \/ Started \/ Cleaned
    \/ \E i \in Runs : Wrote(i) \/ Moved(i) \/ Ended(i) \/ Showed(i)

\* The active states are those of the store.
LEMMA WorkingIsActive == \A i \in Runs : Store!Active(i) <=> Working(i)
  BY DEF Store!Active, Store!ActiveStates, Working, ActiveStates

\* What the type invariant says of rows and of the commands' local state.
LEMMA Rowed ==
    ASSUME TypeOK
    PROVE  /\ job \in [Runs -> Store!JobRows] /\ gen \in [Runs -> Store!GenRows]
           /\ repo \in [Repos -> Store!RepoRows]
           /\ \A i \in Runs : job[i] \in Store!JobRows /\ gen[i] \in Store!GenRows
           /\ \A r \in Repos : repo[r] \in Store!RepoRows
           /\ items \in [Runs -> SUBSET Paths]
  BY DEF TypeOK, Store!TypeOK

\* One transaction of a start command.
LEMMA StarterEffect ==
    ASSUME Inv, NEW s \in Starters,
           \/ \E i \in Runs, r \in Repos, src \in Sources : Scan(s, i, r, src)
           \/ StarterWork(s) \/ StarterRefused(s)
    PROVE  Effect
  <1> DEFINE w == starter[s]
             i == starter[s].run
  <1>0. TypeOK /\ StartersSound
    BY DEF Inv
  <1>t. /\ job \in [Runs -> Store!JobRows] /\ gen \in [Runs -> Store!GenRows]
        /\ repo \in [Repos -> Store!RepoRows] /\ items \in [Runs -> SUBSET Paths]
        /\ \A k \in Runs : job[k] \in Store!JobRows /\ gen[k] \in Store!GenRows
        /\ \A r \in Repos : repo[r] \in Store!RepoRows
    BY <1>0, Rowed
  <1>w. ~StarterAt(s, "idle") => i \in Runs /\ w.repo \in Repos /\ w.src \in Sources
    BY <1>0 DEF StartersSound, StarterSound
  <1>q. UNCHANGED store /\ UNCHANGED items => Quiet
    BY DEF store, Quiet, SameRun, Pointers
  <1>g. \A pc \in StarterPcs : StarterGoes(s, pc) /\ w.pc # pc => Steps(s)
    BY <1>0 DEF TypeOK, StarterGoes, Steps
  <1>e. StarterEnds(s) /\ w.pc # "idle" => Steps(s)
    BY <1>0 DEF TypeOK, StarterEnds, IdleStarter, Steps
  <1>1. CASE \E k \in Runs, r \in Repos, src \in Sources : Scan(s, k, r, src)
    <2>1. PICK r \in Repos, src \in Sources :
                  Store!RegisterInventory(r, src, 0) /\ UNCHANGED items
      BY <1>1 DEF Scan
    <2>2. \A q \in Repos : repo'[q].ready = repo[q].ready
      BY <1>t, <2>1 DEF Store!RegisterInventory, Store!RepoRows
    <2>3. Quiet
      BY <2>1, <2>2 DEF Quiet, SameRun, Pointers, Store!RegisterInventory
    <2> QED
      BY <2>3 DEF Effect
  <1>2. CASE \/ CheckReady(s) \/ ComparePaths(s) \/ CheckClone(s) \/ StarterRefused(s)
             \/ \E unresolved \in BOOLEAN : PlanRefresh(s, unresolved)
    <2>1. UNCHANGED store /\ UNCHANGED items
      BY <1>2 DEF CheckReady, ComparePaths, CheckClone, StarterRefused, PlanRefresh
    <2> QED
      BY <1>q, <2>1 DEF Effect
  <1>3. CASE Start(s)
    <2>1. /\ StarterAt(s, "start") /\ i \in Runs /\ w.repo \in Repos /\ UNCHANGED items
          /\ Store!StartJob(i, w.repo, i, w.src, ConfigOf[w.src], Cardinality(Present(w.src)), 0)
          /\ Steps(s)
      BY <1>3, <1>w, <1>g DEF Start, StarterAt, StarterPcs
    <2>2. /\ job[i].state = "unused"
          /\ \A k \in Runs : ~(gen[k].repo = w.repo /\ Working(k))
          /\ UNCHANGED repo
      BY <2>1, WorkingIsActive DEF Store!StartJob, Store!NoActiveJob
    <2>3. /\ job'[i].state = "running" /\ job'[i].stage = "inventory"
          /\ gen'[i].status = "staging" /\ gen'[i].repo = w.repo /\ gen'[i].source = w.src
          /\ \A k \in Runs \ {i} : job'[k] = job[k] /\ gen'[k] = gen[k]
      BY <1>t, <2>1 DEF Store!StartJob
    <2>4. Started
      BY <2>1, <2>2, <2>3 DEF Started, Others, SameRun, Pointers
    <2> QED
      BY <2>4 DEF Effect
  <1>4. CASE PersistManifest(s)
    <2>1. /\ StarterAt(s, "manifest") /\ i \in Runs /\ UNCHANGED items
          /\ Store!StageRows(i, i, ManifestRows(w.src)) /\ Steps(s)
      BY <1>4, <1>w, <1>g DEF PersistManifest, StarterAt, StarterPcs
    <2>2. /\ job[i].state = "running" /\ gen[i].status = "staging" /\ UNCHANGED <<job, repo>>
          /\ gen' = [gen EXCEPT ![i].content = ManifestRows(w.src)]
      BY <2>1 DEF Store!StageRows, Store!LeaseHeld
    <2>3. /\ \A k \in Runs \ {i} : gen'[k] = gen[k]
          /\ gen'[i].content = ManifestRows(w.src)
          /\ Identity(i) /\ gen'[i].status = gen[i].status
      BY <1>t, <2>1, <2>2 DEF Store!GenRows, Identity
    <2>4. Wrote(i)
      BY <2>1, <2>2, <2>3 DEF Wrote, Others, SameRun, Pointers
    <2> QED
      BY <2>1, <2>4 DEF Effect
  <1>5. CASE Discard(s)
    <2>1. StarterAt(s, "discard") /\ i \in Runs /\ UNCHANGED items /\ Store!DiscardNoOp(i, i)
      BY <1>5, <1>w DEF Discard, StarterAt
    <2>2. /\ Working(i) /\ gen[i].status = "staging" /\ UNCHANGED repo
          /\ job' = [job EXCEPT ![i].state = "deleted", ![i].stage = "idle"]
          /\ gen' = [gen EXCEPT ![i].status = "deleted"]
      BY <2>1 DEF Store!DiscardNoOp, Store!LeaseHeld, Working, ActiveStates
    <2>3. /\ \A k \in Runs \ {i} : job'[k] = job[k] /\ gen'[k] = gen[k]
          /\ job'[i].state = "deleted" /\ job'[i].stage = "idle"
          /\ gen'[i].content = gen[i].content /\ gen'[i].status = "deleted" /\ Identity(i)
      BY <1>t, <2>1, <2>2 DEF Store!GenRows, Store!JobRows, Identity
    <2>4. Ended(i)
      BY <2>1, <2>2, <2>3 DEF Ended, Others, SameRun, Pointers
    <2> QED
      BY <2>1, <2>4 DEF Effect
  <1>6. CASE CloneFacts(s)
    <2> DEFINE c == ClonedRows(gen[i].content.facts, gen[w.base].content.facts, w.invalidated)
    <2>1. /\ StarterAt(s, "copy") /\ i \in Runs /\ UNCHANGED items /\ Store!CloneRows(i, c)
          /\ Steps(s)
      BY <1>6, <1>w, <1>g DEF CloneFacts, StarterAt, StarterPcs
    <2>2. /\ gen[i].status \in {"staging", "failed", "cancelled"} /\ UNCHANGED <<job, repo>>
          /\ gen' = [gen EXCEPT ![i].content = c]
      BY <2>1 DEF Store!CloneRows
    <2> HIDE DEF c
    <2>3. /\ \A k \in Runs \ {i} : gen'[k] = gen[k]
          /\ gen'[i].content = c
          /\ Identity(i) /\ gen'[i].status = gen[i].status
      BY <1>t, <2>1, <2>2 DEF Store!GenRows, Identity
    <2>4. Wrote(i)
      BY <2>1, <2>2, <2>3 DEF Wrote, Others, SameRun, Pointers, c
    <2> QED
      BY <2>1, <2>4 DEF Effect
  <1>7. CASE QueueWork(s)
    <2>1. /\ StarterAt(s, "queue") /\ i \in Runs /\ UNCHANGED store
          /\ gen[i].status = "staging" /\ job[i].state = "running"
          /\ items' = [items EXCEPT ![i] = w.invalidated] /\ Steps(s)
      BY <1>7, <1>w, <1>g
      DEF QueueWork, StarterAt, ActiveScope, StagingScope, Store!LeaseHeld, StarterPcs
    <2>2. items'[i] = w.invalidated /\ \A k \in Runs \ {i} : items'[k] = items[k]
      BY <1>t, <2>1
    <2>3. Queued
      BY <2>1, <2>2 DEF Queued, Others, SameRun, Pointers, store
    <2> QED
      BY <2>3 DEF Effect
  <1>8. CASE EnterParse(s)
    <2>1. /\ StarterAt(s, "checkpoint") /\ i \in Runs /\ UNCHANGED items
          /\ Store!FinishInventory(i, i, "parse", 0) /\ Steps(s)
      BY <1>8, <1>w, <1>e DEF EnterParse, StarterAt
    <2>2. /\ UNCHANGED <<gen, repo>> /\ job[i].state = "running" /\ job[i].stage = "inventory"
          /\ job'[i].state = "running" /\ job'[i].stage = "parse"
          /\ \A k \in Runs \ {i} : job'[k] = job[k]
      BY <1>t, <2>1 DEF Store!FinishInventory, Store!LeaseHeld, Store!JobRows
    <2>3. Moved(i)
      BY <2>1, <2>2 DEF Moved, Others, SameRun, Pointers, Identity, Working, ActiveStates
    <2> QED
      BY <2>1, <2>3 DEF Effect
  <1> QED
    BY <1>1, <1>2, <1>3, <1>4, <1>5, <1>6, <1>7, <1>8 DEF StarterWork

\* A generic change of a job between active states of the same stage.
LEMMA StateEffect ==
    ASSUME TypeOK, NEW i \in Runs, NEW to \in ActiveStates, UNCHANGED <<repo, gen, items>>, Working(i),
           NEW cancel,
           job' = [job EXCEPT ![i].state = to, ![i].cancel = cancel, ![i].updated = 0]
    PROVE  Moved(i)
  <1>t. job \in [Runs -> Store!JobRows] /\ job[i] \in Store!JobRows
    BY Rowed
  <1>1. /\ job'[i].state = to /\ job'[i].stage = job[i].stage
        /\ \A k \in Runs \ {i} : job'[k] = job[k]
    BY <1>t DEF Store!JobRows
  <1> QED
    BY <1>1 DEF Moved, Others, SameRun, Pointers, Identity

\* Acknowledging a cancellation ends the job and the generation with it.
LEMMA AcknowledgeEffect ==
    ASSUME TypeOK, NEW i \in Runs, NEW o \in Runs, UNCHANGED items,
           Store!AcknowledgeCancel(i, o, 0)
    PROVE  Ended(i)
  <1>t. /\ job \in [Runs -> Store!JobRows] /\ gen \in [Runs -> Store!GenRows]
        /\ job[i] \in Store!JobRows /\ gen[i] \in Store!GenRows
    BY Rowed
  <1>1. /\ Working(i) /\ UNCHANGED repo
        /\ job' = [job EXCEPT ![i].state = "cancelled", ![i].stage = "idle", ![i].updated = 0]
        /\ \/ gen[i].status = "staging" /\ gen' = [gen EXCEPT ![i].status = "cancelled"]
           \/ gen[i].status = "ready" /\ UNCHANGED gen
    BY DEF Store!AcknowledgeCancel, Store!CloseGeneration, Store!IsPublished, Working, ActiveStates
  <1>2. /\ job'[i].state = "cancelled" /\ job'[i].stage = "idle"
        /\ \A k \in Runs \ {i} : job'[k] = job[k]
    BY <1>t, <1>1 DEF Store!JobRows
  <1>3. /\ gen'[i].content = gen[i].content /\ Identity(i)
        /\ \/ gen[i].status = "staging" /\ gen'[i].status = "cancelled"
           \/ gen[i].status = "ready" /\ gen'[i].status = "ready"
        /\ \A k \in Runs \ {i} : gen'[k] = gen[k]
    BY <1>t, <1>1 DEF Store!GenRows, Identity
  <1> QED
    BY <1>1, <1>2, <1>3 DEF Ended, Others, SameRun, Pointers

\* A stage transaction replaces the rows and the checkpoint together.
LEMMA AdvanceEffect ==
    ASSUME TypeOK, NEW i \in Runs, NEW o \in Runs, NEW from, NEW to \in Store!Stages, NEW mark, NEW c,
           Store!AdvanceStage(i, o, from, to, mark, c, 0)
    PROVE  /\ Working(i) /\ job[i].stage = from /\ gen[i].status = "staging"
           /\ job'[i].state = "running" /\ job'[i].stage = to
           /\ gen'[i].content = c /\ Identity(i) /\ gen'[i].status = gen[i].status
           /\ c = gen[i].content => gen'[i] = gen[i]
           /\ \A k \in Runs \ {i} : job'[k] = job[k] /\ gen'[k] = gen[k]
           /\ Pointers
  <1>t. /\ job \in [Runs -> Store!JobRows] /\ gen \in [Runs -> Store!GenRows]
        /\ job[i] \in Store!JobRows /\ gen[i] \in Store!GenRows
    BY Rowed
  <1>1. /\ job[i].state = "running" /\ job[i].stage = from /\ gen[i].status = "staging"
        /\ job' = [job EXCEPT ![i].stage = to, ![i].ckpt = mark, ![i].updated = 0]
        /\ gen' = [gen EXCEPT ![i].content = c] /\ UNCHANGED repo
    BY DEF Store!AdvanceStage, Store!LeaseHeld
  <1>2. /\ job'[i].state = "running" /\ job'[i].stage = to
        /\ \A k \in Runs \ {i} : job'[k] = job[k]
    BY <1>t, <1>1 DEF Store!JobRows
  <1>3. /\ gen'[i].content = c /\ Identity(i) /\ gen'[i].status = gen[i].status
        /\ c = gen[i].content => gen'[i] = gen[i]
        /\ \A k \in Runs \ {i} : gen'[k] = gen[k]
    BY <1>t, <1>1 DEF Store!GenRows, Identity
  <1> QED
    BY <1>1, <1>2, <1>3 DEF Working, ActiveStates, Pointers

\* Publication swaps the ready generation.
LEMMA PublishEffect ==
    ASSUME Inv, NEW i \in Runs, UNCHANGED items, Store!PublishGeneration(i, i, 0)
    PROVE  Showed(i)
  <1> DEFINE r     == gen[i].repo
             prior == repo[r].ready
  <1>t. /\ job \in [Runs -> Store!JobRows] /\ gen \in [Runs -> Store!GenRows]
        /\ repo \in [Repos -> Store!RepoRows]
        /\ \A k \in Runs : job[k] \in Store!JobRows /\ gen[k] \in Store!GenRows
        /\ \A q \in Repos : repo[q] \in Store!RepoRows
    BY Rowed DEF Inv
  <1>1. /\ job[i].state = "running" /\ job[i].stage = "publish" /\ gen[i].status = "staging"
        /\ Store!ReadyRows(r) = {prior} \ {Store!NoRun}
        /\ job' = [job EXCEPT ![i].stage = "cleanup", ![i].updated = 0]
        /\ gen' = [k \in Runs |->
                      CASE k = i     -> [gen[k] EXCEPT !.status = "ready"]
                        [] k = prior -> [gen[k] EXCEPT !.status = "superseded"]
                        [] OTHER     -> gen[k]]
        /\ repo' = [repo EXCEPT ![r].ready = i, ![r].updated = 0]
    BY DEF Store!PublishGeneration, Store!LeaseHeld
  <1>2. {k \in Runs : gen[k].repo = r /\ gen[k].status = "ready"} = {prior} \ {NoRun}
    BY <1>1 DEF Store!ReadyRows, Store!NoRun, NoRun
  <1>j. /\ job'[i].state = "running" /\ job'[i].stage = "cleanup"
        /\ \A k \in Runs \ {i} : job'[k] = job[k]
    BY <1>t, <1>1 DEF Store!JobRows
  <1>3. \A k \in Runs : gen'[k] = CASE k = i     -> [gen[k] EXCEPT !.status = "ready"]
                                   [] k = prior -> [gen[k] EXCEPT !.status = "superseded"]
                                   [] OTHER     -> gen[k]
    BY <1>1
  <1>4. /\ gen'[i] = [gen[i] EXCEPT !.status = "ready"]
        /\ \A k \in Runs \ {i} : gen'[k] = IF k = prior THEN [gen[k] EXCEPT !.status = "superseded"]
                                           ELSE gen[k]
    <2> DEFINE x == prior
               ready(k) == [gen[k] EXCEPT !.status = "ready"]
               old(k)   == [gen[k] EXCEPT !.status = "superseded"]
    <2>1. \A k \in Runs : gen'[k] = CASE k = i -> ready(k) [] k = x -> old(k) [] OTHER -> gen[k]
      BY <1>3
    <2>2. i # x
      BY <1>1, <1>2, StoreAssumption DEF NoRun
    <2> HIDE DEF x, ready, old
    <2>3. gen'[i] = ready(i)
      BY <2>1, <2>2
    <2>4. \A k \in Runs \ {i} : gen'[k] = IF k = x THEN old(k) ELSE gen[k]
      BY <2>1
    <2> QED
      BY <2>3, <2>4 DEF x, ready, old
  <1>5. gen'[i].status = "ready" /\ gen'[i].content = gen[i].content /\ Identity(i)
    BY <1>t, <1>4 DEF Store!GenRows, Identity
  <1>6. ASSUME NEW k \in Runs \ {i}
        PROVE  /\ Identity(k) /\ gen'[k].content = gen[k].content
               /\ gen'[k].status = IF k = prior THEN "superseded" ELSE gen[k].status
    <2>1. gen'[k] = IF k = prior THEN [gen[k] EXCEPT !.status = "superseded"] ELSE gen[k]
      BY <1>4
    <2> QED
      BY <1>t, <2>1 DEF Store!GenRows, Identity
  <1>7. \A q \in Repos : repo'[q].ready = IF q = r THEN i ELSE repo[q].ready
    BY <1>t, <1>1 DEF Store!RepoRows
  <1> QED
    BY <1>1, <1>2, <1>j, <1>5, <1>6, <1>7 DEF Showed

\* One transaction of a continue command.
LEMMA DriverEffect ==
    ASSUME Inv, NEW d \in Drivers,
           \/ \E i \in Runs : BeginContinue(d, i)
           \/ DriverWork(d) \/ DriverRefused(d)
    PROVE  Effect
  <1> DEFINE i == driver[d].run
  <1>0. TypeOK /\ DriversSound
    BY DEF Inv
  <1>t. /\ job \in [Runs -> Store!JobRows] /\ gen \in [Runs -> Store!GenRows]
        /\ items \in [Runs -> SUBSET Paths]
        /\ \A k \in Runs : job[k] \in Store!JobRows /\ gen[k] \in Store!GenRows
    BY <1>0, Rowed
  <1>d. /\ driver[d].pc # "idle" => i \in Runs
        /\ driver[d].pc # "idle" /\ driver[d].state = "running" => job[i].stage # "inventory"
    BY <1>0 DEF DriversSound, DriverSound
  <1>q. UNCHANGED store /\ UNCHANGED items => Effect
    BY DEF store, Quiet, SameRun, Pointers, Effect
  <1>1. CASE \E k \in Runs : BeginContinue(d, k)
    <2>1. PICK k \in Runs : /\ Store!ResumeJob(k, k, 0) \/ UNCHANGED store
                            /\ UNCHANGED items
      BY <1>1 DEF BeginContinue
    <2>2. CASE Store!ResumeJob(k, k, 0)
      <3>1. /\ UNCHANGED <<repo, gen, items>> /\ Working(k) /\ "running" \in ActiveStates
            /\ job' = [job EXCEPT ![k].state = "running", ![k].cancel = FALSE, ![k].updated = 0]
        BY <2>1, <2>2 DEF Store!ResumeJob, Store!TransitionState, Working, ActiveStates
      <3>2. Moved(k)
        BY <1>0, <3>1, StateEffect
      <3> QED
        BY <3>2 DEF Effect
    <2> QED
      BY <1>q, <2>1, <2>2
  <1>2. CASE \/ Reload(d) \/ LoadBatch(d) \/ ParseItemFails(d) \/ PersistDependencies(d)
             \/ DriverRefused(d)
    BY <1>q, <1>2 DEF Reload, LoadBatch, ParseItemFails, PersistDependencies, DriverRefused
  <1>3. CASE AcknowledgeSeenCancel(d)
    <2>1. i \in Runs /\ UNCHANGED items /\ Store!AcknowledgeCancel(i, i, 0)
      BY <1>3, <1>d DEF AcknowledgeSeenCancel
    <2>2. Ended(i)
      BY <1>0, <2>1, AcknowledgeEffect
    <2> QED
      BY <2>1, <2>2 DEF Effect
  <1>4. CASE ParseItem(d)
    <2>1. PICK p \in items[i] : /\ Store!StageRows(i, i, ParsedRows(i, p))
                                /\ items' = [items EXCEPT ![i] = @ \ {p}]
      BY <1>4 DEF ParseItem
    <2>2. i \in Runs /\ job[i].stage # "inventory"
      BY <1>4, <1>d DEF ParseItem, DriverAt
    <2> DEFINE c == ParsedRows(i, p)
    <2>3. /\ job[i].state = "running" /\ gen[i].status = "staging" /\ UNCHANGED <<job, repo>>
          /\ gen' = [gen EXCEPT ![i].content = c]
      BY <2>1 DEF Store!StageRows, Store!LeaseHeld
    <2> HIDE DEF c
    <2>4. /\ \A k \in Runs \ {i} : gen'[k] = gen[k] /\ items'[k] = items[k]
          /\ gen'[i].content = c /\ items'[i] = items[i] \ {p}
          /\ Identity(i) /\ gen'[i].status = gen[i].status
      BY <1>t, <2>1, <2>2, <2>3 DEF Store!GenRows, Identity
    <2>5. Wrote(i)
      BY <2>1, <2>2, <2>3, <2>4 DEF Wrote, Others, SameRun, Pointers, c
    <2> QED
      BY <2>2, <2>5 DEF Effect
  <1>5. CASE FinishBatch(d)
    <2>1. /\ i \in Runs /\ UNCHANGED items
          /\ (items[i] = {} /\ Store!FinishParse(i, i, 0)) \/ UNCHANGED store
      BY <1>5, <1>d DEF FinishBatch, DriverAt
    <2>2. CASE items[i] = {} /\ Store!FinishParse(i, i, 0)
      <3>1. /\ UNCHANGED <<gen, repo>> /\ job[i].state = "running" /\ job[i].stage = "parse"
            /\ job'[i].state = "running" /\ job'[i].stage = "link"
            /\ \A k \in Runs \ {i} : job'[k] = job[k]
        BY <1>t, <2>1, <2>2 DEF Store!FinishParse, Store!LeaseHeld, Store!JobRows
      <3>2. Moved(i)
        BY <2>1, <2>2, <3>1 DEF Moved, Others, SameRun, Pointers, Identity, Working, ActiveStates
      <3> QED
        BY <2>1, <3>2 DEF Effect
    <2> QED
      BY <1>q, <2>1, <2>2
  <1>6. CASE Link(d) \/ Derive(d) \/ Finalize(d)
    <2>1. /\ i \in Runs /\ UNCHANGED items
          /\ \/ UNCHANGED store
             \/ Store!AdvanceStage(i, i, "link", "derive", "link", gen[i].content, 0)
             \/ Store!AdvanceStage(i, i, "derive", "synthesize", "derive", DerivedRows(i), 0)
             \/ Store!AdvanceStage(i, i, "synthesize", "validate", "catalog", gen[i].content, 0)
      BY <1>6, <1>d DEF Link, Derive, Finalize, DriverAt, AlreadyDone, Store!LinkGeneration,
         Store!DeriveTemplateCandidates, Store!FinalizeSynthesisCatalog
    <2>s. {"derive", "synthesize", "validate"} \subseteq Store!Stages
      BY DEF Store!Stages
    <2>2. CASE Store!AdvanceStage(i, i, "link", "derive", "link", gen[i].content, 0)
      <3>1. Moved(i)
        BY <1>0, <2>1, <2>2, <2>s, AdvanceEffect DEF Moved, Others, SameRun, ActiveStates
      <3> QED
        BY <2>1, <3>1 DEF Effect
    <2>3. CASE Store!AdvanceStage(i, i, "derive", "synthesize", "derive", DerivedRows(i), 0)
      <3>1. Moved(i)
        BY <1>0, <2>1, <2>3, <2>s, AdvanceEffect DEF Moved, Others, SameRun, ActiveStates
      <3> QED
        BY <2>1, <3>1 DEF Effect
    <2>4. CASE Store!AdvanceStage(i, i, "synthesize", "validate", "catalog", gen[i].content, 0)
      <3>1. Moved(i)
        BY <1>0, <2>1, <2>4, <2>s, AdvanceEffect DEF Moved, Others, SameRun, ActiveStates
      <3> QED
        BY <2>1, <3>1 DEF Effect
    <2> QED
      BY <1>q, <2>1, <2>2, <2>3, <2>4
  <1>7. CASE Validate(d)
    <2>1. i \in Runs /\ UNCHANGED items /\ Store!ValidateGenerationForPublication(i, i, 0)
      BY <1>7, <1>d DEF Validate, DriverAt
    <2>2. /\ UNCHANGED <<gen, repo>> /\ job[i].state = "running" /\ job[i].stage = "validate"
          /\ job'[i].state = "running" /\ job'[i].stage = "publish"
          /\ \A k \in Runs \ {i} : job'[k] = job[k]
      BY <1>t, <2>1
      DEF Store!ValidateGenerationForPublication, Store!LeaseHeld, Store!JobRows
    <2>3. Moved(i)
      BY <2>1, <2>2 DEF Moved, Others, SameRun, Pointers, Identity, Working, ActiveStates
    <2> QED
      BY <2>1, <2>3 DEF Effect
  <1>8. CASE Publish(d)
    <2>1. i \in Runs /\ UNCHANGED items /\ (Store!PublishGeneration(i, i, 0) \/ UNCHANGED store)
      BY <1>8, <1>d DEF Publish, DriverAt, AlreadyPublished
    <2>2. CASE Store!PublishGeneration(i, i, 0)
      BY <2>1, <2>2, PublishEffect DEF Effect
    <2> QED
      BY <1>q, <2>1, <2>2
  <1>9. CASE Complete(d)
    <2>1. i \in Runs /\ UNCHANGED items /\ Store!CompleteJob(i, i, 0)
      BY <1>9, <1>d DEF Complete, DriverAt
    <2>2. /\ UNCHANGED <<gen, repo>> /\ job[i].state = "running" /\ gen[i].status = "ready"
          /\ job'[i].state = "completed" /\ job'[i].stage = "idle"
          /\ \A k \in Runs \ {i} : job'[k] = job[k]
      BY <1>t, <2>1 DEF Store!CompleteJob, Store!LeaseHeld, Store!JobRows
    <2>3. Ended(i)
      BY <2>1, <2>2 DEF Ended, Others, SameRun, Pointers, Identity, Working, ActiveStates
    <2> QED
      BY <2>1, <2>3 DEF Effect
  <1> QED
    BY <1>1, <1>2, <1>3, <1>4, <1>5, <1>6, <1>7, <1>8, <1>9 DEF DriverWork

\* Every step has one of the effects.
LEMMA StepEffect == ASSUME Inv, Next PROVE Effect
  <1>0. TypeOK
    BY DEF Inv
  <1>t. /\ job \in [Runs -> Store!JobRows] /\ gen \in [Runs -> Store!GenRows]
        /\ \A k \in Runs : job[k] \in Store!JobRows /\ gen[k] \in Store!GenRows
    BY <1>0, Rowed
  <1>q. UNCHANGED store /\ UNCHANGED items => Effect
    BY DEF store, Quiet, SameRun, Pointers, Effect
  <1>1. ASSUME NEW c \in Cancellers, NEW i \in Runs, Cancel(c, i) PROVE Effect
    <2>1. /\ UNCHANGED <<repo, gen, items>> /\ Working(i) /\ "cancelling" \in ActiveStates
          /\ job' = [job EXCEPT ![i].state = "cancelling", ![i].cancel = TRUE, ![i].updated = 0]
      BY <1>1 DEF Cancel, Store!RequestCancel, Working, ActiveStates
    <2>2. Moved(i)
      BY <1>0, <2>1, StateEffect
    <2> QED
      BY <2>2 DEF Effect
  <1>2. ASSUME NEW c \in Cancellers, AcknowledgeOwnCancel(c) PROVE Effect
    <2> DEFINE i == canceller[c]
    <2>1. /\ i \in Runs /\ UNCHANGED items
          /\ Store!AcknowledgeCancel(i, i, 0) \/ UNCHANGED store
      BY <1>0, <1>2 DEF AcknowledgeOwnCancel, TypeOK
    <2>2. CASE Store!AcknowledgeCancel(i, i, 0)
      BY <1>0, <2>1, <2>2, AcknowledgeEffect DEF Effect
    <2> QED
      BY <1>q, <2>1, <2>2
  <1>3. ASSUME NEW i \in Runs, NEW retain \in 0..MaxCleanup, Cleanup(i, retain) PROVE Effect
    <2> DEFINE batch == Store!CleanupBatch(i, i, retain)
    <2>1. /\ gen' = [k \in Runs |-> IF k \in batch THEN [gen[k] EXCEPT !.status = "deleted"]
                                    ELSE gen[k]]
          /\ job' = [job EXCEPT ![i].updated = 0] /\ UNCHANGED <<repo, items>>
      BY <1>3 DEF Cleanup, Store!CleanupGenerations
    <2>2. \A k \in batch : /\ gen[k].status \in {"staging", "failed", "cancelled", "superseded"}
                           /\ ~Working(k)
      BY WorkingIsActive DEF Store!CleanupBatch, Store!CleanupCandidates, Store!Removable
    <2> HIDE DEF batch
    <2>3. ASSUME NEW k \in Runs
          PROVE  /\ SameJob(k) /\ Identity(k) /\ gen'[k].content = gen[k].content
                 /\ \/ gen'[k].status = gen[k].status
                    \/ gen'[k].status = "deleted" /\ k \in batch
      <3>1. SameJob(k)
        BY <1>t, <2>1 DEF SameJob, Store!JobRows
      <3>2. gen'[k] = IF k \in batch THEN [gen[k] EXCEPT !.status = "deleted"] ELSE gen[k]
        BY <2>1
      <3> QED
        BY <1>t, <3>1, <3>2 DEF Identity, Store!GenRows
    <2>4. Cleaned
      BY <2>1, <2>2, <2>3 DEF Cleaned, Pointers
    <2> QED
      BY <2>4 DEF Effect
  <1>4. ASSUME NEW i \in Runs, Pause(i) PROVE Effect
    <2>1. /\ UNCHANGED <<repo, gen, items>> /\ Working(i) /\ "paused" \in ActiveStates
          /\ job' = [job EXCEPT ![i].state = "paused", ![i].cancel = FALSE, ![i].updated = 0]
      BY <1>4 DEF Pause, Store!PauseJob, Store!TransitionState, Working, ActiveStates
    <2>2. Moved(i)
      BY <1>0, <2>1, StateEffect
    <2> QED
      BY <2>2 DEF Effect
  <1>5. CASE Interrupt
    BY <1>q, <1>5 DEF Interrupt
  <1> QED
    BY <1>1, <1>2, <1>3, <1>4, <1>5, StarterEffect, DriverEffect DEF Next

-----------------------------------------------------------------------------
(***************************************************************************)
(* Types.                                                                  *)
(***************************************************************************)

\* What the commands stage are rows.
LEMMA StagedRows ==
    /\ EmptyRows \in Rows
    /\ \A src \in Sources : ManifestRows(src) \in Rows
    /\ \A mine, old \in Facts, invalidated \in SUBSET Paths :
          ClonedRows(mine, old, invalidated) \in Rows
    /\ \A c \in Rows, src \in Sources, p \in Paths :
          [c EXCEPT !.facts[p] = Manifest[src][p]] \in Rows
    /\ \A c \in Rows : [c EXCEPT !.rules = c.facts] \in Rows
  <1>0. NoFacts \in Facts
    BY DEF NoFacts, Facts
  <1>1. EmptyRows \in Rows
    BY <1>0 DEF EmptyRows, Rows
  <1>2. ASSUME NEW src \in Sources PROVE ManifestRows(src) \in Rows
    <2>1. [p \in Paths |-> IF p \in Present(src) THEN "pending" ELSE "absent"] \in Facts
      BY DEF Facts
    <2> QED
      BY <1>0, <2>1 DEF ManifestRows, Rows
  <1>3. ASSUME NEW mine \in Facts, NEW old \in Facts, NEW invalidated \in SUBSET Paths
        PROVE  ClonedRows(mine, old, invalidated) \in Rows
    <2>1. [p \in Paths |-> IF p \in invalidated \/ "absent" \in {mine[p], old[p]}
                           THEN mine[p] ELSE old[p]] \in Facts
      BY DEF Facts
    <2> QED
      BY <1>0, <2>1 DEF ClonedRows, Rows
  <1>4. ASSUME NEW c \in Rows, NEW src \in Sources, NEW p \in Paths
        PROVE  [c EXCEPT !.facts[p] = Manifest[src][p]] \in Rows
    <2>1. Manifest[src][p] \in Versions \cup {"absent", "pending"}
      BY ManifestAssumption
    <2>2. c.facts \in Facts
      BY DEF Rows
    <2>3. [c.facts EXCEPT ![p] = Manifest[src][p]] \in Facts
      BY <2>1, <2>2 DEF Facts
    <2>4. [c EXCEPT !.facts[p] = Manifest[src][p]]
              = [facts |-> [c.facts EXCEPT ![p] = Manifest[src][p]], rules |-> c.rules]
      BY DEF Rows
    <2> QED
      BY <2>3, <2>4 DEF Rows
  <1>5. \A c \in Rows : [c EXCEPT !.rules = c.facts] \in Rows
    BY DEF Rows
  <1> QED
    BY <1>1, <1>2, <1>3, <1>4, <1>5

\* Column values, as Names in ArchaeologyJobs_proofs.
LEMMA Columns ==
    /\ \A s \in {"inventory", "parse", "link", "derive", "synthesize", "validate", "publish",
                 "cleanup", "idle"} : s \in Store!Stages \cup {"idle"}
    /\ \A s \in {"running", "paused", "cancelling", "completed", "failed", "cancelled", "unused",
                 "deleted"} : s \in Store!JobStates
    /\ \A s \in {"none", "plan", "link", "derive", "catalog", "receipt"} : s \in Store!CheckpointIds
    /\ \A s \in {"unused", "staging", "ready", "superseded", "failed", "cancelled", "deleted"} :
          s \in Store!GenerationStatuses
    /\ Cardinality(Paths) \in Nat
    /\ \A src \in Sources : Cardinality(Present(src)) \in 0..Cardinality(Paths)
    /\ NoRun \notin Runs
  <1>1. ASSUME NEW src \in Sources PROVE Cardinality(Present(src)) \in 0..Cardinality(Paths)
    <2>1. Present(src) \in SUBSET Paths
      BY DEF Present
    <2>2. IsFiniteSet(Present(src)) /\ Cardinality(Present(src)) <= Cardinality(Paths)
      BY <2>1, StoreAssumption, FS_Subset
    <2>3. Cardinality(Present(src)) \in Nat /\ Cardinality(Paths) \in Nat
      BY <2>2, StoreAssumption, FS_CardinalityType
    <2> QED
      BY <2>2, <2>3
  <1>2. Cardinality(Paths) \in Nat
    BY StoreAssumption, FS_CardinalityType
  <1>3. NoRun \notin Runs
    BY StoreAssumption DEF NoRun
  <1> QED
    BY <1>1, <1>2, <1>3
    DEF Store!Stages, Store!JobStates, Store!ActiveStates, Store!TerminalStates,
        Store!CheckpointIds, Store!GenerationStatuses

\* New columns of the right type make a row of the table.
LEMMA JobColumns ==
    ASSUME NEW j \in Store!JobRows
    PROVE  /\ \A s \in Store!JobStates, c \in BOOLEAN :
                 [j EXCEPT !.state = s, !.cancel = c, !.updated = 0] \in Store!JobRows
           /\ \A s \in Store!JobStates :
                 [j EXCEPT !.state = s, !.stage = "idle", !.updated = 0] \in Store!JobRows
           /\ [j EXCEPT !.state = "deleted", !.stage = "idle"] \in Store!JobRows
           /\ \A s \in Store!Stages, m \in Store!CheckpointIds :
                 [j EXCEPT !.stage = s, !.ckpt = m, !.updated = 0] \in Store!JobRows
           /\ \A s \in Store!Stages : [j EXCEPT !.stage = s, !.updated = 0] \in Store!JobRows
           /\ \A s \in Store!Stages, m \in Store!CheckpointIds, c \in Rows :
                 [j EXCEPT !.stage = s, !.ckpt = m, !.sealed = c, !.updated = 0] \in Store!JobRows
           /\ [j EXCEPT !.updated = 0] \in Store!JobRows
  BY Columns DEF Store!JobRows

\* The same for generations.
LEMMA GenColumns ==
    ASSUME NEW g \in Store!GenRows
    PROVE  /\ \A s \in Store!GenerationStatuses : [g EXCEPT !.status = s] \in Store!GenRows
           /\ \A c \in Rows : [g EXCEPT !.content = c] \in Store!GenRows
  BY DEF Store!GenRows

\* Rows of the right type in one place leave the store well typed.
LEMMA RowTyped ==
    ASSUME TypeOK, NEW i \in Runs, UNCHANGED repo,
           \/ UNCHANGED job
           \/ \E j \in Store!JobRows : job' = [job EXCEPT ![i] = j],
           \/ UNCHANGED gen
           \/ \E g \in Store!GenRows : gen' = [gen EXCEPT ![i] = g]
    PROVE  Store!TypeOK'
  <1>t. /\ job \in [Runs -> Store!JobRows] /\ gen \in [Runs -> Store!GenRows]
        /\ repo \in [Repos -> Store!RepoRows]
    BY Rowed
  <1>1. job' \in [Runs -> Store!JobRows]
    BY <1>t
  <1>2. gen' \in [Runs -> Store!GenRows]
    BY <1>t
  <1> QED
    BY <1>t, <1>1, <1>2 DEF Store!TypeOK

\* The store stays well typed under the transactions of start commands.
LEMMA StarterTypes ==
    ASSUME Inv, NEW s \in Starters,
           \/ \E i \in Runs, r \in Repos, src \in Sources : Scan(s, i, r, src)
           \/ StarterWork(s) \/ StarterRefused(s)
    PROVE  Store!TypeOK'
  <1> DEFINE w == starter[s]
             i == starter[s].run
  <1>0. TypeOK /\ StartersSound
    BY DEF Inv
  <1>t. /\ job \in [Runs -> Store!JobRows] /\ gen \in [Runs -> Store!GenRows]
        /\ repo \in [Repos -> Store!RepoRows]
        /\ \A k \in Runs : job[k] \in Store!JobRows /\ gen[k] \in Store!GenRows
        /\ \A r \in Repos : repo[r] \in Store!RepoRows
        /\ \A k \in Runs : gen[k].content \in Rows /\ gen[k].content.facts \in Facts
    BY <1>0, Rowed DEF Store!GenRows, Rows
  <1>w. ~StarterAt(s, "idle") =>
            /\ i \in Runs /\ w.repo \in Repos /\ w.src \in Sources
            /\ w.invalidated \in SUBSET Paths
            /\ w.base = NoRun \/ w.base \in Runs
            /\ StarterAt(s, "copy") => w.base # NoRun
    BY <1>0 DEF StartersSound, StarterSound, TypeOK, StarterAt
  <1>q. UNCHANGED store => Store!TypeOK'
    BY <1>0 DEF store, TypeOK, Store!TypeOK
  <1>1. CASE \E k \in Runs, r \in Repos, src \in Sources : Scan(s, k, r, src)
    <2>1. PICK r \in Repos, src \in Sources : Store!RegisterInventory(r, src, 0)
      BY <1>1 DEF Scan
    <2>2. [repo[r] EXCEPT !.registered = TRUE, !.source = src, !.updated = 0] \in Store!RepoRows
      BY <1>t DEF Store!RepoRows
    <2>3. repo' \in [Repos -> Store!RepoRows] /\ UNCHANGED <<gen, job>>
      BY <1>t, <2>1, <2>2 DEF Store!RegisterInventory
    <2> QED
      BY <1>t, <2>3 DEF Store!TypeOK
  <1>2. CASE \/ CheckReady(s) \/ ComparePaths(s) \/ CheckClone(s) \/ StarterRefused(s) \/ QueueWork(s)
             \/ \E unresolved \in BOOLEAN : PlanRefresh(s, unresolved)
    <2>1. UNCHANGED store
      BY <1>2 DEF CheckReady, ComparePaths, CheckClone, StarterRefused, PlanRefresh, QueueWork
    <2> QED
      BY <1>q, <2>1
  <1>3. CASE Start(s)
    <2> DEFINE total == Cardinality(Present(w.src))
               g == [status |-> "staging", repo |-> w.repo, source |-> w.src,
                     config |-> ConfigOf[w.src], content |-> EmptyRows, created |-> 0]
               j == [state |-> "running", stage |-> "inventory", owner |-> i, cancel |-> FALSE,
                     ckpt |-> "none", sealed |-> EmptyRows, completed |-> 0, total |-> total,
                     updated |-> 0]
    <2>1. /\ i \in Runs /\ w.repo \in Repos /\ w.src \in Sources
          /\ Store!StartJob(i, w.repo, i, w.src, ConfigOf[w.src], total, 0)
      BY <1>3, <1>w DEF Start, StarterAt
    <2>2. total \in 0..Cardinality(Paths) /\ Cardinality(Paths) \in Nat /\ ConfigOf[w.src] \in Configs
      BY <2>1, Columns, ManifestAssumption
    <2>3. UNCHANGED repo /\ job' = [job EXCEPT ![i] = j] /\ gen' = [gen EXCEPT ![i] = g]
      BY <2>1 DEF Store!StartJob
    <2>4. EmptyRows \in Rows
      BY StagedRows
    <2> HIDE DEF total
    <2>5. g \in Store!GenRows
      BY <2>1, <2>2, <2>4, Columns DEF Store!GenRows
    <2>6. total \in Store!NoTotal..Cardinality(Paths) /\ 0 \in 0..Cardinality(Paths)
      BY <2>2 DEF Store!NoTotal
    <2>7. j \in Store!JobRows
      BY <2>1, <2>4, <2>6, Columns DEF Store!JobRows
    <2> HIDE DEF j, g
    <2> QED
      BY <1>0, <2>1, <2>3, <2>5, <2>7, RowTyped
  <1>4. CASE PersistManifest(s)
    <2> DEFINE c == ManifestRows(w.src)
    <2>1. i \in Runs /\ w.src \in Sources /\ Store!StageRows(i, i, c)
      BY <1>4, <1>w DEF PersistManifest, StarterAt
    <2>2. c \in Rows
      BY <2>1, StagedRows
    <2> HIDE DEF c
    <2>3. gen' = [gen EXCEPT ![i] = [gen[i] EXCEPT !.content = c]] /\ UNCHANGED <<repo, job>>
      BY <1>t, <2>1 DEF Store!StageRows
    <2>4. [gen[i] EXCEPT !.content = c] \in Store!GenRows
      BY <1>t, <2>1, <2>2, GenColumns
    <2> QED
      BY <1>0, <2>1, <2>3, <2>4, RowTyped
  <1>5. CASE Discard(s)
    <2>1. i \in Runs /\ Store!DiscardNoOp(i, i)
      BY <1>5, <1>w DEF Discard, StarterAt
    <2>2. /\ UNCHANGED repo
          /\ job' = [job EXCEPT ![i] = [job[i] EXCEPT !.state = "deleted", !.stage = "idle"]]
          /\ gen' = [gen EXCEPT ![i] = [gen[i] EXCEPT !.status = "deleted"]]
      BY <1>t, <2>1 DEF Store!DiscardNoOp
    <2>3. /\ [job[i] EXCEPT !.state = "deleted", !.stage = "idle"] \in Store!JobRows
          /\ [gen[i] EXCEPT !.status = "deleted"] \in Store!GenRows
      BY <1>t, <2>1, JobColumns, GenColumns, Columns
    <2> QED
      BY <1>0, <2>1, <2>2, <2>3, RowTyped
  <1>6. CASE CloneFacts(s)
    <2> DEFINE c == ClonedRows(gen[i].content.facts, gen[w.base].content.facts, w.invalidated)
    <2>1. i \in Runs /\ w.invalidated \in SUBSET Paths /\ w.base \in Runs /\ Store!CloneRows(i, c)
      BY <1>6, <1>w DEF CloneFacts, StarterAt
    <2>2. c \in Rows
      BY <1>t, <2>1, StagedRows
    <2> HIDE DEF c
    <2>3. gen' = [gen EXCEPT ![i] = [gen[i] EXCEPT !.content = c]] /\ UNCHANGED <<repo, job>>
      BY <1>t, <2>1 DEF Store!CloneRows
    <2>4. [gen[i] EXCEPT !.content = c] \in Store!GenRows
      BY <1>t, <2>1, <2>2, GenColumns
    <2> QED
      BY <1>0, <2>1, <2>3, <2>4, RowTyped
  <1>7. CASE EnterParse(s)
    <2>1. i \in Runs /\ Store!FinishInventory(i, i, "parse", 0)
      BY <1>7, <1>w DEF EnterParse, StarterAt
    <2>2. /\ UNCHANGED <<gen, repo>>
          /\ job' = [job EXCEPT ![i] = [job[i] EXCEPT !.stage = "parse", !.ckpt = "plan",
                                                      !.updated = 0]]
      BY <1>t, <2>1 DEF Store!FinishInventory
    <2>3. "parse" \in Store!Stages /\ "plan" \in Store!CheckpointIds
      BY Columns DEF Store!Stages
    <2>4. [job[i] EXCEPT !.stage = "parse", !.ckpt = "plan", !.updated = 0] \in Store!JobRows
      BY <1>t, <2>1, <2>3, JobColumns
    <2> QED
      BY <1>0, <2>1, <2>2, <2>4, RowTyped
  <1> QED
    BY <1>1, <1>2, <1>3, <1>4, <1>5, <1>6, <1>7 DEF StarterWork

\* The same for a change of state and for the end of a run.
LEMMA StateTypes ==
    ASSUME TypeOK, NEW i \in Runs
    PROVE  /\ Store!PauseJob(i, i, 0) \/ Store!ResumeJob(i, i, 0) \/ Store!RequestCancel(i, i, 0)
                  => Store!TypeOK'
           /\ Store!AcknowledgeCancel(i, i, 0) => Store!TypeOK'
           /\ Store!CompleteJob(i, i, 0) => Store!TypeOK'
  <1>t. /\ job \in [Runs -> Store!JobRows] /\ gen \in [Runs -> Store!GenRows]
        /\ job[i] \in Store!JobRows /\ gen[i] \in Store!GenRows
    BY Rowed
  <1>1. ASSUME Store!PauseJob(i, i, 0) \/ Store!ResumeJob(i, i, 0) \/ Store!RequestCancel(i, i, 0)
        PROVE  Store!TypeOK'
    <2>1. /\ UNCHANGED <<repo, gen>>
          /\ \E s \in {"paused", "running", "cancelling"}, c \in BOOLEAN :
                job' = [job EXCEPT ![i].state = s, ![i].cancel = c, ![i].updated = 0]
      BY <1>1 DEF Store!PauseJob, Store!ResumeJob, Store!RequestCancel, Store!TransitionState
    <2>2. PICK s \in {"paused", "running", "cancelling"}, c \in BOOLEAN :
                  job' = [job EXCEPT ![i].state = s, ![i].cancel = c, ![i].updated = 0]
      BY <2>1
    <2>3. /\ s \in Store!JobStates
          /\ job' = [job EXCEPT ![i] = [job[i] EXCEPT !.state = s, !.cancel = c, !.updated = 0]]
      BY <1>t, <2>2, Columns
    <2>4. [job[i] EXCEPT !.state = s, !.cancel = c, !.updated = 0] \in Store!JobRows
      BY <1>t, <2>3, JobColumns
    <2> QED
      BY <2>1, <2>3, <2>4, RowTyped
  <1>2. ASSUME Store!AcknowledgeCancel(i, i, 0) \/ Store!CompleteJob(i, i, 0) PROVE Store!TypeOK'
    <2>1. /\ UNCHANGED repo
          /\ \/ UNCHANGED gen
             \/ gen' = [gen EXCEPT ![i] = [gen[i] EXCEPT !.status = "cancelled"]]
          /\ \E s \in {"cancelled", "completed"} :
                job' = [job EXCEPT ![i].state = s, ![i].stage = "idle", ![i].updated = 0]
      BY <1>t, <1>2 DEF Store!AcknowledgeCancel, Store!CompleteJob, Store!CloseGeneration
    <2>2. PICK s \in {"cancelled", "completed"} :
                  job' = [job EXCEPT ![i].state = s, ![i].stage = "idle", ![i].updated = 0]
      BY <2>1
    <2>3. /\ s \in Store!JobStates
          /\ job' = [job EXCEPT ![i] = [job[i] EXCEPT !.state = s, !.stage = "idle", !.updated = 0]]
      BY <1>t, <2>2, Columns
    <2>4. /\ [job[i] EXCEPT !.state = s, !.stage = "idle", !.updated = 0] \in Store!JobRows
          /\ [gen[i] EXCEPT !.status = "cancelled"] \in Store!GenRows
      BY <1>t, <2>3, JobColumns, GenColumns, Columns
    <2> QED
      BY <2>1, <2>3, <2>4, RowTyped
  <1> QED
    BY <1>1, <1>2

\* The same for a stage transaction.
LEMMA AdvanceTypes ==
    ASSUME TypeOK, NEW i \in Runs, NEW from, NEW to \in Store!Stages,
           NEW mark \in Store!CheckpointIds, NEW c \in Rows,
           Store!AdvanceStage(i, i, from, to, mark, c, 0)
    PROVE  Store!TypeOK'
  <1>t. /\ job \in [Runs -> Store!JobRows] /\ gen \in [Runs -> Store!GenRows]
        /\ job[i] \in Store!JobRows /\ gen[i] \in Store!GenRows
    BY Rowed
  <1>1. /\ UNCHANGED repo
        /\ gen' = [gen EXCEPT ![i] = [gen[i] EXCEPT !.content = c]]
        /\ job' = [job EXCEPT ![i] = [job[i] EXCEPT !.stage = to, !.ckpt = mark, !.updated = 0]]
    BY <1>t DEF Store!AdvanceStage
  <1>2. /\ [gen[i] EXCEPT !.content = c] \in Store!GenRows
        /\ [job[i] EXCEPT !.stage = to, !.ckpt = mark, !.updated = 0] \in Store!JobRows
    BY <1>t, JobColumns, GenColumns
  <1> QED
    BY <1>1, <1>2, RowTyped

\* The store stays well typed under the transactions of continue commands.
LEMMA DriverTypes ==
    ASSUME Inv, NEW d \in Drivers,
           \/ \E i \in Runs : BeginContinue(d, i)
           \/ DriverWork(d) \/ DriverRefused(d)
    PROVE  Store!TypeOK'
  <1> DEFINE i == driver[d].run
  <1>0. TypeOK /\ DriversSound
    BY DEF Inv
  <1>t. /\ job \in [Runs -> Store!JobRows] /\ gen \in [Runs -> Store!GenRows]
        /\ repo \in [Repos -> Store!RepoRows] /\ items \in [Runs -> SUBSET Paths]
        /\ \A k \in Runs : job[k] \in Store!JobRows /\ gen[k] \in Store!GenRows
        /\ \A r \in Repos : repo[r] \in Store!RepoRows
        /\ \A k \in Runs : gen[k].content \in Rows
    BY <1>0, Rowed DEF Store!GenRows
  <1>d. driver[d].pc # "idle" => i \in Runs
    BY <1>0 DEF DriversSound, DriverSound
  <1>q. UNCHANGED store => Store!TypeOK'
    BY <1>0 DEF store, TypeOK, Store!TypeOK
  <1>s. \A k \in Runs : gen[k].status = "staging" => gen[k].source \in Sources /\ gen[k].repo \in Repos
    BY DEF Inv, RunSound
  <1>1. CASE \/ \E k \in Runs : BeginContinue(d, k)
             \/ Reload(d) \/ LoadBatch(d) \/ ParseItemFails(d) \/ PersistDependencies(d)
             \/ DriverRefused(d)
             \/ AcknowledgeSeenCancel(d) \/ Complete(d)
    <2>1. \/ UNCHANGED store
          \/ \E k \in Runs : \/ Store!ResumeJob(k, k, 0)
                             \/ Store!AcknowledgeCancel(k, k, 0)
                             \/ Store!CompleteJob(k, k, 0)
      BY <1>1, <1>d DEF BeginContinue, Reload, LoadBatch, ParseItemFails, PersistDependencies,
         DriverRefused, AcknowledgeSeenCancel, Complete, DriverAt
    <2> QED
      BY <1>0, <1>q, <2>1, StateTypes
  <1>2. CASE ParseItem(d)
    <2>1. PICK p \in items[i] : i \in Runs /\ Store!StageRows(i, i, ParsedRows(i, p))
      BY <1>2, <1>d DEF ParseItem, DriverAt
    <2>2. gen[i].status = "staging" /\ p \in Paths
      BY <1>t, <2>1 DEF Store!StageRows
    <2>3. ParsedRows(i, p) \in Rows
      BY <1>s, <1>t, <2>1, <2>2, StagedRows DEF ParsedRows
    <2>4. /\ UNCHANGED <<repo, job>>
          /\ gen' = [gen EXCEPT ![i] = [gen[i] EXCEPT !.content = ParsedRows(i, p)]]
      BY <1>t, <2>1 DEF Store!StageRows
    <2>5. [gen[i] EXCEPT !.content = ParsedRows(i, p)] \in Store!GenRows
      BY <1>t, <2>1, <2>3, GenColumns
    <2> QED
      BY <1>0, <2>1, <2>4, <2>5, RowTyped
  <1>3. CASE FinishBatch(d)
    <2>1. i \in Runs /\ (Store!FinishParse(i, i, 0) \/ UNCHANGED store)
      BY <1>3, <1>d DEF FinishBatch, DriverAt
    <2>2. CASE Store!FinishParse(i, i, 0)
      <3>1. /\ UNCHANGED <<repo, gen>>
            /\ job' = [job EXCEPT ![i] = [job[i] EXCEPT !.stage = "link", !.updated = 0]]
        BY <1>t, <2>1, <2>2 DEF Store!FinishParse
      <3>2. [job[i] EXCEPT !.stage = "link", !.updated = 0] \in Store!JobRows
        BY <1>t, <2>1, JobColumns DEF Store!Stages
      <3> QED
        BY <1>0, <2>1, <3>1, <3>2, RowTyped
    <2> QED
      BY <1>q, <2>1, <2>2
  <1>4. CASE Link(d) \/ Derive(d) \/ Finalize(d)
    <2>1. /\ i \in Runs
          /\ \/ UNCHANGED store
             \/ Store!AdvanceStage(i, i, "link", "derive", "link", gen[i].content, 0)
             \/ Store!AdvanceStage(i, i, "derive", "synthesize", "derive", DerivedRows(i), 0)
             \/ Store!AdvanceStage(i, i, "synthesize", "validate", "catalog", gen[i].content, 0)
      BY <1>4, <1>d DEF Link, Derive, Finalize, DriverAt, AlreadyDone, Store!LinkGeneration,
         Store!DeriveTemplateCandidates, Store!FinalizeSynthesisCatalog
    <2>2. gen[i].content \in Rows /\ DerivedRows(i) \in Rows
      BY <1>t, <2>1, StagedRows DEF DerivedRows
    <2>3. /\ {"derive", "synthesize", "validate"} \subseteq Store!Stages
          /\ {"link", "derive", "catalog"} \subseteq Store!CheckpointIds
      BY DEF Store!Stages, Store!CheckpointIds
    <2>4. Store!AdvanceStage(i, i, "link", "derive", "link", gen[i].content, 0) => Store!TypeOK'
      BY <1>0, <2>1, <2>2, <2>3, AdvanceTypes
    <2>5. Store!AdvanceStage(i, i, "derive", "synthesize", "derive", DerivedRows(i), 0) => Store!TypeOK'
      BY <1>0, <2>1, <2>2, <2>3, AdvanceTypes
    <2>6. Store!AdvanceStage(i, i, "synthesize", "validate", "catalog", gen[i].content, 0)
              => Store!TypeOK'
      BY <1>0, <2>1, <2>2, <2>3, AdvanceTypes
    <2> QED
      BY <1>q, <2>1, <2>4, <2>5, <2>6
  <1>5. CASE Validate(d)
    <2>1. i \in Runs /\ Store!ValidateGenerationForPublication(i, i, 0)
      BY <1>5, <1>d DEF Validate, DriverAt
    <2>2. /\ UNCHANGED <<repo, gen>>
          /\ job' = [job EXCEPT ![i] = [job[i] EXCEPT !.stage = "publish", !.ckpt = "receipt",
                                                      !.sealed = gen[i].content, !.updated = 0]]
      BY <1>t, <2>1 DEF Store!ValidateGenerationForPublication
    <2>3. "publish" \in Store!Stages /\ "receipt" \in Store!CheckpointIds
      BY DEF Store!Stages, Store!CheckpointIds
    <2>4. [job[i] EXCEPT !.stage = "publish", !.ckpt = "receipt", !.sealed = gen[i].content,
                         !.updated = 0] \in Store!JobRows
      BY <1>t, <2>1, <2>3, JobColumns
    <2> QED
      BY <1>0, <2>1, <2>2, <2>4, RowTyped
  <1>6. CASE Publish(d)
    <2>1. i \in Runs /\ (Store!PublishGeneration(i, i, 0) \/ UNCHANGED store)
      BY <1>6, <1>d DEF Publish, DriverAt, AlreadyPublished
    <2>2. CASE Store!PublishGeneration(i, i, 0)
      <3> DEFINE r     == gen[i].repo
                 prior == repo[r].ready
      <3>1. /\ r \in Repos /\ "cleanup" \in Store!Stages
            /\ {"ready", "superseded"} \subseteq Store!GenerationStatuses
        BY <1>s, <2>1, <2>2 DEF Store!PublishGeneration, Store!Stages, Store!GenerationStatuses
      <3>2. /\ job' = [job EXCEPT ![i] = [job[i] EXCEPT !.stage = "cleanup", !.updated = 0]]
            /\ gen' = [k \in Runs |->
                          CASE k = i     -> [gen[k] EXCEPT !.status = "ready"]
                            [] k = prior -> [gen[k] EXCEPT !.status = "superseded"]
                            [] OTHER     -> gen[k]]
            /\ repo' = [repo EXCEPT ![r] = [repo[r] EXCEPT !.ready = i, !.updated = 0]]
        BY <1>t, <2>1, <2>2, <3>1 DEF Store!PublishGeneration
      <3>3. job' \in [Runs -> Store!JobRows]
        BY <1>t, <2>1, <3>1, <3>2, JobColumns
      <3>4. [repo[r] EXCEPT !.ready = i, !.updated = 0] \in Store!RepoRows
        BY <1>t, <2>1, <3>1 DEF Store!RepoRows
      <3>5. repo' \in [Repos -> Store!RepoRows]
        BY <1>t, <3>1, <3>2, <3>4
      <3>6. ASSUME NEW k \in Runs PROVE gen'[k] \in Store!GenRows
        <4> DEFINE new == [gen[k] EXCEPT !.status = "ready"]
                   old == [gen[k] EXCEPT !.status = "superseded"]
        <4>1. new \in Store!GenRows /\ old \in Store!GenRows
          BY <1>t, <3>1, GenColumns
        <4>2. gen'[k] = CASE k = i -> new [] k = prior -> old [] OTHER -> gen[k]
          BY <3>2
        <4> HIDE DEF new, old, prior
        <4>3. k # i /\ k # prior => gen'[k] = gen[k]
          BY <4>2
        <4>4. k = i \/ k = prior => gen'[k] = new \/ gen'[k] = old
          BY <4>2
        <4> QED
          BY <1>t, <4>1, <4>3, <4>4
      <3>7. gen' \in [Runs -> Store!GenRows]
        BY <3>2, <3>6
      <3> QED
        BY <3>3, <3>5, <3>7 DEF Store!TypeOK
    <2> QED
      BY <1>q, <2>1, <2>2
  <1> QED
    BY <1>1, <1>2, <1>3, <1>4, <1>5, <1>6 DEF DriverWork

\* The local states of the commands.
StarterRows ==
    [pc : StarterPcs, run : Runs \cup {NoRun}, repo : Repos \cup {Null}, src : Sources \cup {Null},
     changed : SUBSET Paths, base : Runs \cup {NoRun}, mode : {"none", "scoped", "global"},
     invalidated : SUBSET Paths]
DriverRows ==
    [pc : DriverPcs, run : Runs \cup {NoRun}, state : Store!JobStates \cup {"none"},
     stage : Store!Stages \cup {"idle"}, todo : SUBSET Paths]

\* What the commands write into their local state is well typed.
LEMMA Locals ==
    /\ IdleStarter \in StarterRows /\ IdleDriver \in DriverRows
    /\ \A w \in StarterRows, pc \in StarterPcs : [w EXCEPT !.pc = pc] \in StarterRows
    /\ \A w \in StarterRows, c \in SUBSET Paths :
          [w EXCEPT !.pc = "plan", !.changed = c] \in StarterRows
    /\ \A w \in StarterRows, b \in Runs \cup {NoRun}, pc \in {"discard", "clone"},
          m \in {"none", "scoped", "global"}, v \in SUBSET Paths :
          [w EXCEPT !.base = b, !.pc = pc, !.mode = m, !.invalidated = v] \in StarterRows
    /\ \A i \in Runs, r \in Repos, src \in Sources :
          [IdleStarter EXCEPT !.pc = "registered", !.run = i, !.repo = r, !.src = src] \in StarterRows
  <1>1. {"idle", "registered", "plan", "discard", "clone"} \subseteq StarterPcs /\ "idle" \in DriverPcs
    BY DEF StarterPcs, DriverPcs
  <1>2. IdleStarter \in StarterRows
    BY <1>1 DEF IdleStarter, StarterRows
  <1>3. IdleDriver \in DriverRows
    BY <1>1 DEF IdleDriver, DriverRows
  <1>4. \A w \in StarterRows, pc \in StarterPcs : [w EXCEPT !.pc = pc] \in StarterRows
    BY DEF StarterRows
  <1>5. \A w \in StarterRows, c \in SUBSET Paths :
           [w EXCEPT !.pc = "plan", !.changed = c] \in StarterRows
    BY <1>1 DEF StarterRows
  <1>6. \A w \in StarterRows, b \in Runs \cup {NoRun}, pc \in {"discard", "clone"},
           m \in {"none", "scoped", "global"}, v \in SUBSET Paths :
           [w EXCEPT !.base = b, !.pc = pc, !.mode = m, !.invalidated = v] \in StarterRows
    BY <1>1 DEF StarterRows
  <1>7. \A i \in Runs, r \in Repos, src \in Sources :
           [IdleStarter EXCEPT !.pc = "registered", !.run = i, !.repo = r, !.src = src] \in StarterRows
    BY <1>1, <1>2 DEF StarterRows
  <1> QED
    BY <1>2, <1>3, <1>4, <1>5, <1>6, <1>7

\* Only start commands write their own local state.
LEMMA StarterLocal ==
    ASSUME Inv, NEW s \in Starters,
           \/ \E i \in Runs, r \in Repos, src \in Sources : Scan(s, i, r, src)
           \/ StarterWork(s) \/ StarterRefused(s)
    PROVE  /\ \E w \in StarterRows : starter' = [starter EXCEPT ![s] = w]
           /\ items' \in [Runs -> SUBSET Paths] /\ deps' \in [Runs -> SUBSET DependsOn]
           /\ UNCHANGED <<driver, canceller, mishaps>>
  <1> DEFINE w == starter[s]
             Goal == /\ \E v \in StarterRows : starter' = [starter EXCEPT ![s] = v]
                     /\ items' \in [Runs -> SUBSET Paths] /\ deps' \in [Runs -> SUBSET DependsOn]
                     /\ UNCHANGED <<driver, canceller, mishaps>>
  <1> SUFFICES Goal
    OBVIOUS
  <1>0. TypeOK
    BY DEF Inv
  <1>t. /\ starter \in [Starters -> StarterRows] /\ w \in StarterRows
        /\ items \in [Runs -> SUBSET Paths] /\ deps \in [Runs -> SUBSET DependsOn]
        /\ repo \in [Repos -> Store!RepoRows]
        /\ w.run \in Runs \cup {NoRun} /\ w.invalidated \in SUBSET Paths
    BY <1>0 DEF TypeOK, Store!TypeOK, StarterRows
  <1>p. \A pc \in {"start", "manifest", "compare", "queue", "copy", "checkpoint"} : pc \in StarterPcs
    BY DEF StarterPcs
  <1>a. ASSUME NEW pc \in StarterPcs, StarterGoes(s, pc), UNCHANGED <<items, deps, driver, canceller, mishaps>>
        PROVE  Goal
    <2>1. starter' = [starter EXCEPT ![s] = [w EXCEPT !.pc = pc]]
      BY <1>t, <1>a DEF StarterGoes
    <2>2. [w EXCEPT !.pc = pc] \in StarterRows
      BY <1>t, Locals
    <2> QED
      BY <1>a, <1>t, <2>1, <2>2
  <1>b. ASSUME StarterEnds(s), UNCHANGED <<items, deps, driver, canceller, mishaps>> PROVE Goal
    BY <1>b, <1>t, Locals DEF StarterEnds
  <1>1. ASSUME NEW i \in Runs, NEW r \in Repos, NEW src \in Sources, Scan(s, i, r, src) PROVE Goal
    BY <1>1, <1>t, Locals DEF Scan
  <1> HIDE DEF Goal
  <1>2. CASE CheckReady(s) \/ Discard(s) \/ EnterParse(s) \/ StarterRefused(s)
    BY <1>2, <1>a, <1>b, <1>p DEF CheckReady, Discard, EnterParse, StarterRefused
  <1>3. CASE Start(s) \/ PersistManifest(s) \/ CheckClone(s) \/ CloneFacts(s)
    <2>1. \E pc \in {"manifest", "compare", "queue", "copy"} : StarterGoes(s, pc)
      BY <1>3 DEF Start, PersistManifest, CheckClone, CloneFacts
    <2>2. UNCHANGED <<items, deps, driver, canceller, mishaps>>
      BY <1>3 DEF Start, PersistManifest, CheckClone, CloneFacts
    <2> QED
      BY <1>a, <1>p, <2>1, <2>2
  <1>4. CASE ComparePaths(s)
    <2>1. /\ UNCHANGED <<items, driver, canceller, mishaps>>
          /\ deps' = [deps EXCEPT ![w.run] = {}]
          /\ starter' = [starter EXCEPT ![s] = [w EXCEPT !.pc = "plan",
                                                         !.changed = ChangedPaths(w.src, w.repo)]]
      BY <1>4, <1>t DEF ComparePaths
    <2>2. ChangedPaths(w.src, w.repo) \in SUBSET Paths
      BY DEF ChangedPaths, Present
    <2>3. [w EXCEPT !.pc = "plan", !.changed = ChangedPaths(w.src, w.repo)] \in StarterRows
      BY <1>t, <2>2, Locals
    <2>4. deps' \in [Runs -> SUBSET DependsOn]
      BY <1>t, <2>1
    <2> QED
      BY <1>t, <2>1, <2>3, <2>4 DEF Goal
  <1>5. ASSUME NEW unresolved \in BOOLEAN, PlanRefresh(s, unresolved) PROVE Goal
    <2> DEFINE base   == Ready(w.repo)
               global == base = NoRun \/ unresolved \/ gen[base].config # ConfigOf[w.src]
               noop   == ~global /\ w.changed = {}
               pc     == IF noop THEN "discard" ELSE "clone"
               mode   == CASE noop -> "none" [] global -> "global" [] OTHER -> "scoped"
               all    == Present(w.src) \cup (IF base = NoRun THEN {} ELSE Present(gen[base].source))
               scope  == ReverseClosure(w.changed, deps[base])
               inv    == CASE noop -> {} [] global -> all [] OTHER -> scope
    <2>1. /\ UNCHANGED <<items, deps, driver, canceller, mishaps>>
          /\ starter' = [starter EXCEPT ![s] = [w EXCEPT !.base = base, !.pc = pc, !.mode = mode,
                                                         !.invalidated = inv]]
      BY <1>5, <1>t DEF PlanRefresh
    <2>2. base \in Runs \cup {NoRun}
      <3>1. w.repo \in Repos
        BY <1>5 DEF Inv, StartersSound, StarterSound, PlanRefresh, StarterAt
      <3> QED
        BY <1>t, <3>1 DEF Ready, Store!RepoRows, Store!NoRun, NoRun
    <2>3. all \in SUBSET Paths /\ scope \in SUBSET Paths
      BY DEF Present, ReverseClosure
    <2>4. noop => ~global
      OBVIOUS
    <2> HIDE DEF base, all, scope, global, noop
    <2>5. inv \in SUBSET Paths /\ mode \in {"none", "scoped", "global"} /\ pc \in {"discard", "clone"}
      <3>1. CASE noop
        BY <2>3, <2>4, <3>1
      <3>2. CASE ~noop /\ global
        BY <2>3, <3>2
      <3>3. CASE ~noop /\ ~global
        BY <2>3, <3>3
      <3> QED
        BY <3>1, <3>2, <3>3
    <2> HIDE DEF inv, mode, pc
    <2>6. [w EXCEPT !.base = base, !.pc = pc, !.mode = mode, !.invalidated = inv] \in StarterRows
      BY <1>t, <2>2, <2>5, Locals
    <2> QED
      BY <1>t, <2>1, <2>6 DEF Goal
  <1>6. CASE QueueWork(s)
    <2>1. /\ UNCHANGED <<deps, driver, canceller, mishaps>>
          /\ items' = [items EXCEPT ![w.run] = w.invalidated]
          /\ starter' = [starter EXCEPT ![s] = [w EXCEPT !.pc = "checkpoint"]]
      BY <1>6, <1>t DEF QueueWork, StarterGoes
    <2>2. [w EXCEPT !.pc = "checkpoint"] \in StarterRows
      BY <1>p, <1>t, Locals
    <2>3. items' \in [Runs -> SUBSET Paths]
      BY <1>t, <2>1
    <2> QED
      BY <1>t, <2>1, <2>2, <2>3 DEF Goal
  <1> QED
    BY <1>1, <1>2, <1>3, <1>4, <1>5, <1>6 DEF StarterWork

\* Only continue commands write theirs.
LEMMA DriverLocal ==
    ASSUME Inv, NEW d \in Drivers,
           \/ \E i \in Runs : BeginContinue(d, i)
           \/ DriverWork(d) \/ DriverRefused(d)
    PROVE  /\ \E v \in DriverRows : driver' = [driver EXCEPT ![d] = v]
           /\ items' \in [Runs -> SUBSET Paths] /\ deps' \in [Runs -> SUBSET DependsOn]
           /\ UNCHANGED <<starter, canceller, mishaps>>
  <1> DEFINE v == driver[d]
             i == driver[d].run
             Goal == /\ \E u \in DriverRows : driver' = [driver EXCEPT ![d] = u]
                     /\ items' \in [Runs -> SUBSET Paths] /\ deps' \in [Runs -> SUBSET DependsOn]
                     /\ UNCHANGED <<starter, canceller, mishaps>>
  <1> SUFFICES Goal
    OBVIOUS
  <1>0. TypeOK
    BY DEF Inv
  <1>t. /\ driver \in [Drivers -> DriverRows] /\ v \in DriverRows
        /\ items \in [Runs -> SUBSET Paths] /\ deps \in [Runs -> SUBSET DependsOn]
        /\ \A k \in Runs : job[k].state \in Store!JobStates /\ job[k].stage \in Store!Stages \cup {"idle"}
        /\ v.todo \in SUBSET Paths
        /\ IdleDriver \in DriverRows
    BY <1>0, Locals DEF TypeOK, Store!TypeOK, DriverRows, Store!JobRows
  <1>d. v.pc # "idle" => i \in Runs
    BY DEF Inv, DriversSound, DriverSound
  <1>a. ASSUME NEW u \in DriverRows, driver' = [driver EXCEPT ![d] = u],
               UNCHANGED <<items, deps, starter, canceller, mishaps>>
        PROVE  Goal
    BY <1>a, <1>t
  <1> HIDE DEF Goal
  <1>b. ASSUME DriverEnds(d), UNCHANGED <<items, deps, starter, canceller, mishaps>> PROVE Goal
    BY <1>a, <1>b, <1>t DEF DriverEnds
  <1>c. ASSUME NEW k \in Runs, NEW state \in Store!JobStates, Follow(d, k, state),
               UNCHANGED <<items, deps, starter, canceller, mishaps>>
        PROVE  Goal
    <2> DEFINE u == [IdleDriver EXCEPT !.pc = "step", !.run = k, !.state = state, !.stage = job[k].stage]
    <2>1. u \in DriverRows
      BY <1>t DEF IdleDriver, DriverRows, DriverPcs
    <2>2. driver' = [driver EXCEPT ![d] = u] \/ driver' = [driver EXCEPT ![d] = IdleDriver]
      BY <1>c DEF Follow
    <2> HIDE DEF u
    <2> QED
      BY <1>a, <1>c, <1>t, <2>1, <2>2
  <1>e. ASSUME NEW pc \in {"reload", "metadata", "parse"}, NEW b \in SUBSET Paths,
               driver' = [driver EXCEPT ![d].pc = pc, ![d].todo = b]
        PROVE  \E u \in DriverRows : driver' = [driver EXCEPT ![d] = u]
    <2>1. [v EXCEPT !.pc = pc, !.todo = b] \in DriverRows
      BY <1>t DEF DriverRows, DriverPcs
    <2> QED
      BY <1>e, <1>t, <2>1
  <1>f. ASSUME NEW pc \in {"reload", "metadata"}, DriverGoes(d, pc)
        PROVE  \E u \in DriverRows : driver' = [driver EXCEPT ![d] = u]
    <2> DEFINE none == {}
    <2>1. none \in SUBSET Paths /\ pc \in {"reload", "metadata", "parse"}
      OBVIOUS
    <2>2. driver' = [driver EXCEPT ![d].pc = pc, ![d].todo = none]
      BY <1>f DEF DriverGoes
    <2> HIDE DEF none
    <2> QED
      BY <1>e, <2>1, <2>2
  <1>1. ASSUME NEW k \in Runs, BeginContinue(d, k) PROVE Goal
    <2>1. "running" \in Store!JobStates
      BY Columns
    <2> QED
      BY <1>1, <1>c, <1>t, <2>1 DEF BeginContinue
  <1>2. CASE Reload(d)
    BY <1>2, <1>b, <1>c, <1>d, <1>t DEF Reload
  <1>3. CASE AcknowledgeSeenCancel(d) \/ ParseItemFails(d) \/ DriverRefused(d)
    BY <1>3, <1>b DEF AcknowledgeSeenCancel, ParseItemFails, DriverRefused
  <1>4. CASE LoadBatch(d)
    <2>1. PICK b \in SUBSET items[i] : driver' = [driver EXCEPT ![d].pc = "parse", ![d].todo = b]
      BY <1>4 DEF LoadBatch
    <2>2. b \in SUBSET Paths /\ UNCHANGED <<items, deps, starter, canceller, mishaps>>
      BY <1>4, <1>d, <1>t DEF LoadBatch, DriverAt
    <2> QED
      BY <1>a, <1>e, <2>1, <2>2
  <1>5. CASE ParseItem(d)
    <2>1. PICK p \in v.todo : /\ items' = [items EXCEPT ![i] = @ \ {p}]
                              /\ driver' = [driver EXCEPT ![d] = [v EXCEPT !.todo = v.todo \ {p}]]
      BY <1>5, <1>t DEF ParseItem
    <2>2. i \in Runs /\ UNCHANGED <<deps, starter, canceller, mishaps>>
      BY <1>5, <1>d DEF ParseItem, DriverAt
    <2>3. [v EXCEPT !.todo = v.todo \ {p}] \in DriverRows
      BY <1>t DEF DriverRows
    <2>4. items' \in [Runs -> SUBSET Paths]
      BY <1>t, <2>1, <2>2
    <2> QED
      BY <1>t, <2>1, <2>2, <2>3, <2>4 DEF Goal
  <1>6. CASE FinishBatch(d) \/ Link(d) \/ Finalize(d) \/ Validate(d) \/ Publish(d) \/ Complete(d)
             \/ Derive(d)
    <2>1. \E pc \in {"reload", "metadata"} : DriverGoes(d, pc)
      BY <1>6 DEF FinishBatch, Link, Finalize, Validate, Publish, Complete, Derive
    <2>2. UNCHANGED <<items, deps, starter, canceller, mishaps>>
      BY <1>6 DEF FinishBatch, Link, Finalize, Validate, Publish, Complete, Derive
    <2>3. PICK pc \in {"reload", "metadata"} : DriverGoes(d, pc)
      BY <2>1
    <2>4. PICK u \in DriverRows : driver' = [driver EXCEPT ![d] = u]
      BY <1>f, <2>3
    <2> QED
      BY <1>a, <2>2, <2>4
  <1>7. CASE PersistDependencies(d)
    <2>1. /\ deps' = [deps EXCEPT ![i] = ProvableDependencies(gen[i].source)]
          /\ DriverGoes(d, "reload") /\ UNCHANGED <<items, starter, canceller, mishaps>>
      BY <1>7 DEF PersistDependencies
    <2>2. ProvableDependencies(gen[i].source) \in SUBSET DependsOn
      BY DEF ProvableDependencies
    <2>3. deps' \in [Runs -> SUBSET DependsOn]
      BY <1>t, <2>1, <2>2
    <2>4. \E u \in DriverRows : driver' = [driver EXCEPT ![d] = u]
      BY <1>f, <2>1
    <2> QED
      BY <1>t, <2>1, <2>3, <2>4 DEF Goal
  <1> QED
    BY <1>1, <1>2, <1>3, <1>4, <1>5, <1>6, <1>7 DEF DriverWork

\* Every variable keeps its type.
LEMMA TypeStep == ASSUME Inv, Next PROVE TypeOK'
  <1>0. TypeOK
    BY DEF Inv
  <1>t. /\ starter \in [Starters -> StarterRows] /\ driver \in [Drivers -> DriverRows]
        /\ items \in [Runs -> SUBSET Paths] /\ deps \in [Runs -> SUBSET DependsOn]
        /\ canceller \in [Cancellers -> Runs \cup {NoRun}] /\ mishaps \in 0..MaxMishaps
        /\ job \in [Runs -> Store!JobRows] /\ gen \in [Runs -> Store!GenRows]
    BY <1>0 DEF TypeOK, Store!TypeOK, StarterRows, DriverRows
  <1>g. ASSUME /\ Store!TypeOK'
               /\ starter' \in [Starters -> StarterRows] /\ driver' \in [Drivers -> DriverRows]
               /\ items' \in [Runs -> SUBSET Paths] /\ deps' \in [Runs -> SUBSET DependsOn]
               /\ canceller' \in [Cancellers -> Runs \cup {NoRun}] /\ mishaps' \in 0..MaxMishaps
        PROVE  TypeOK'
    BY <1>g DEF TypeOK, StarterRows, DriverRows
  <1>s. UNCHANGED store => Store!TypeOK'
    BY <1>0 DEF store, TypeOK, Store!TypeOK
  <1>1. ASSUME NEW s \in Starters,
               \/ \E i \in Runs, r \in Repos, src \in Sources : Scan(s, i, r, src)
               \/ StarterWork(s) \/ StarterRefused(s)
        PROVE  TypeOK'
    <2>1. Store!TypeOK'
      BY <1>1, StarterTypes
    <2>2. /\ \E w \in StarterRows : starter' = [starter EXCEPT ![s] = w]
          /\ items' \in [Runs -> SUBSET Paths] /\ deps' \in [Runs -> SUBSET DependsOn]
          /\ UNCHANGED <<driver, canceller, mishaps>>
      BY <1>1, StarterLocal
    <2> QED
      BY <1>g, <1>t, <2>1, <2>2
  <1>2. ASSUME NEW d \in Drivers,
               \/ \E i \in Runs : BeginContinue(d, i)
               \/ DriverWork(d) \/ DriverRefused(d)
        PROVE  TypeOK'
    <2>1. Store!TypeOK'
      BY <1>2, DriverTypes
    <2>2. /\ \E v \in DriverRows : driver' = [driver EXCEPT ![d] = v]
          /\ items' \in [Runs -> SUBSET Paths] /\ deps' \in [Runs -> SUBSET DependsOn]
          /\ UNCHANGED <<starter, canceller, mishaps>>
      BY <1>2, DriverLocal
    <2> QED
      BY <1>g, <1>t, <2>1, <2>2
  <1>3. ASSUME NEW c \in Cancellers, NEW i \in Runs, Cancel(c, i) PROVE TypeOK'
    <2>1. Store!TypeOK'
      BY <1>0, <1>3, StateTypes DEF Cancel
    <2>2. canceller' = [canceller EXCEPT ![c] = i] /\ UNCHANGED <<items, deps, starter, driver, mishaps>>
      BY <1>3 DEF Cancel
    <2> QED
      BY <1>g, <1>t, <2>1, <2>2
  <1>4. ASSUME NEW c \in Cancellers, AcknowledgeOwnCancel(c) PROVE TypeOK'
    <2>1. canceller[c] \in Runs
      BY <1>4, <1>t DEF AcknowledgeOwnCancel
    <2>2. Store!TypeOK'
      BY <1>0, <1>4, <1>s, <2>1, StateTypes DEF AcknowledgeOwnCancel
    <2>3. /\ canceller' = [canceller EXCEPT ![c] = NoRun]
          /\ UNCHANGED <<items, deps, starter, driver, mishaps>>
      BY <1>4 DEF AcknowledgeOwnCancel
    <2> QED
      BY <1>g, <1>t, <2>2, <2>3
  <1>5. ASSUME NEW i \in Runs, NEW retain \in 0..MaxCleanup, Cleanup(i, retain) PROVE TypeOK'
    <2> DEFINE batch == Store!CleanupBatch(i, i, retain)
    <2>1. /\ gen' = [k \in Runs |-> IF k \in batch THEN [gen[k] EXCEPT !.status = "deleted"]
                                    ELSE gen[k]]
          /\ job' = [job EXCEPT ![i] = [job[i] EXCEPT !.updated = 0]]
          /\ UNCHANGED <<repo, items, deps, starter, driver, canceller, mishaps>>
      BY <1>5, <1>t DEF Cleanup, Store!CleanupGenerations, workers
    <2> HIDE DEF batch
    <2>2. [job[i] EXCEPT !.updated = 0] \in Store!JobRows
      BY <1>t, JobColumns
    <2>3. \A k \in Runs : gen[k] \in Store!GenRows /\ [gen[k] EXCEPT !.status = "deleted"] \in Store!GenRows
      BY <1>t, GenColumns, Columns
    <2>4. job' \in [Runs -> Store!JobRows] /\ gen' \in [Runs -> Store!GenRows]
      BY <1>t, <2>1, <2>2, <2>3
    <2>5. Store!TypeOK'
      BY <1>0, <2>1, <2>4 DEF TypeOK, Store!TypeOK
    <2> QED
      BY <1>g, <1>t, <2>1, <2>5
  <1>6. ASSUME NEW i \in Runs, Pause(i) PROVE TypeOK'
    <2>1. Store!TypeOK'
      BY <1>0, <1>6, StateTypes DEF Pause
    <2>2. mishaps' = mishaps + 1 /\ mishaps < MaxMishaps /\ UNCHANGED <<items, deps, starter, driver, canceller>>
      BY <1>6 DEF Pause, workers
    <2>3. mishaps' \in 0..MaxMishaps
      BY <1>t, <2>2, BatchAssumption
    <2> QED
      BY <1>g, <1>t, <2>1, <2>2, <2>3
  <1>7. CASE Interrupt
    <2>1. mishaps' \in 0..MaxMishaps
      BY <1>7, <1>t, BatchAssumption DEF Interrupt
    <2>2. Store!TypeOK' /\ UNCHANGED <<items, deps>>
      BY <1>7, <1>s DEF Interrupt
    <2>3. starter' \in [Starters -> StarterRows]
      BY <1>7, <1>t, Locals DEF Interrupt, StarterEnds
    <2>4. driver' \in [Drivers -> DriverRows]
      BY <1>7, <1>t, Locals DEF Interrupt, DriverEnds
    <2>5. canceller' \in [Cancellers -> Runs \cup {NoRun}]
      BY <1>7, <1>t DEF Interrupt
    <2> QED
      BY <1>g, <1>t, <2>1, <2>2, <2>3, <2>4, <2>5
  <1> QED
    BY <1>1, <1>2, <1>3, <1>4, <1>5, <1>6, <1>7 DEF Next

-----------------------------------------------------------------------------
(***************************************************************************)
(* The store keeps its part of the invariant.                              *)
(***************************************************************************)

\* What the type invariant says of the rows of one run.
LEMMA RunTyped ==
    ASSUME TypeOK, NEW i \in Runs
    PROVE  /\ gen[i].content \in Rows /\ gen[i].content.facts \in Facts
           /\ gen[i].content.rules \in Facts
           /\ items[i] \in SUBSET Paths
           /\ job[i].state \in Store!JobStates /\ job[i].stage \in Store!Stages \cup {"idle"}
           /\ gen[i].status \in Store!GenerationStatuses
  BY Rowed DEF Store!GenRows, Store!JobRows, Rows

\* A manifest gives every path a version or none, and never the mark of a path
\* that waits to be parsed.
LEMMA ManifestFacts ==
    \A src \in Sources :
        /\ Manifest[src] \in [Paths -> Versions \cup {"absent"}]
        /\ Manifest[src] \in Facts
        /\ \A p \in Paths : Manifest[src][p] # "pending"
  BY ManifestAssumption, MarkersAssumption DEF Facts

\* A run that a step does not touch stays sound.
LEMMA SameSound ==
    ASSUME NEW k \in Runs, RunSound(k), SameRun(k)
    PROVE  RunSound(k)'
  BY DEF RunSound, SameRun, Working, Parseable, Missing, Now

\* A start command whose job is still active finds it in the inventory stage,
\* and its generation staged.
LEMMA StartersRun ==
    ASSUME Inv, NEW s \in Starters,
           starter[s].pc \notin {"idle", "registered", "start"}
    PROVE  LET i == starter[s].run
           IN  /\ i \in Runs /\ job[i].stage \in {"inventory", "idle"}
               /\ gen[i].status # "unused" /\ gen[i].source = starter[s].src
               /\ gen[i].repo = starter[s].repo
               /\ Working(i) => job[i].stage = "inventory" /\ gen[i].status = "staging"
               /\ gen[i].status = "staging" => StagedSound(starter[s])
               /\ starter[s].src \in Sources /\ starter[s].repo \in Repos
  <1> DEFINE i == starter[s].run
  <1>1. StarterSound(starter[s]) /\ i \in Runs
    BY DEF Inv, StartersSound, StarterAt, StarterSound
  <1>2. RunSound(i)
    BY <1>1 DEF Inv
  <1> QED
    BY <1>1, <1>2 DEF StarterSound, RunSound

\* A row in the parse stage that gets the parser's output for a path with a
\* work item stays parseable, and the item is all it loses.
LEMMA ParsedSound ==
    ASSUME Inv, NEW i \in Runs, NEW p \in items[i], Parseable(i), Missing(i) \subseteq items[i],
           gen[i].source \in Sources, Identity(i),
           gen'[i].content = ParsedRows(i, p), items'[i] = items[i] \ {p}
    PROVE  Parseable(i)' /\ Missing(i)' \subseteq items'[i]
  <1>t. gen[i].content \in Rows /\ gen[i].content.facts \in Facts /\ p \in Paths
    BY RunTyped DEF Inv
  <1>1. /\ gen'[i].content.facts = [gen[i].content.facts EXCEPT ![p] = Now(i)[p]]
        /\ gen'[i].source = gen[i].source
    BY <1>t DEF ParsedRows, Rows, Now, Identity
  <1>2. \A q \in Paths : gen'[i].content.facts[q]
                             = IF q = p THEN Now(i)[p] ELSE gen[i].content.facts[q]
    BY <1>t, <1>1 DEF Facts
  <1>3. Now(i)[p] # "pending"
    BY <1>t, ManifestFacts DEF Now
  <1>4. \A q \in Paths : gen'[i].content.facts[q] \in {"pending", Now(i)[q]}
    BY <1>2 DEF Parseable
  <1>5. Parseable(i)'
    BY <1>1, <1>4 DEF Parseable, Now
  <1>6. \A q \in Paths : gen'[i].content.facts[q] = "pending" => q \in items[i] \ {p}
    BY <1>2, <1>3 DEF Missing
  <1> QED
    BY <1>5, <1>6 DEF Missing

\* A generation whose facts are all there has those of its source.
LEMMA NothingMissing ==
    ASSUME Inv, NEW i \in Runs, Parseable(i), Missing(i) = {}, gen[i].source \in Sources
    PROVE  gen[i].content.facts = Now(i)
  <1>t. gen[i].content.facts \in Facts /\ Now(i) \in Facts
    BY RunTyped, ManifestFacts DEF Inv, Now
  <1>1. \A p \in Paths : gen[i].content.facts[p] = Now(i)[p]
    BY DEF Parseable, Missing
  <1> QED
    BY <1>t, <1>1 DEF Facts

\* An active job that moves stays sound when its rows are those of its stage.
LEMMA MovedSound ==
    ASSUME NEW i \in Runs, RunSound(i), Working(i), job'[i].state \in ActiveStates,
           Identity(i), gen'[i].status = gen[i].status, job'[i].stage # "idle",
           job'[i].stage = "cleanup" <=> job[i].stage = "cleanup",
           job'[i].stage = "parse" => Parseable(i)' /\ Missing(i)' \subseteq items'[i],
           job'[i].stage \notin {"idle", "inventory", "parse"} =>
               gen'[i].content.facts = Now(i) /\ items'[i] = {},
           job'[i].stage \notin {"idle", "inventory", "parse", "link", "derive"} =>
               gen'[i].content.rules = Now(i)
    PROVE  RunSound(i)'
  <1>1. /\ job'[i].state # "unused" /\ gen'[i].status \in {"staging", "ready"}
        /\ gen'[i].repo \in Repos /\ gen'[i].source \in Sources
        /\ gen'[i].status = "staging" <=> job'[i].stage # "cleanup"
        /\ job'[i].stage = "cleanup" => gen'[i].status = "ready"
    BY DEF RunSound, Working, ActiveStates, Identity
  <1>2. Working(i)' /\ Now(i)' = Now(i)
    BY DEF Working, Now, Identity
  <1>3. gen'[i].status # "staging" => job'[i].stage = "cleanup"
    BY <1>1
  <1>4. gen'[i].status \in {"ready", "superseded"} =>
            gen'[i].content.facts = Now(i)' /\ gen'[i].content.rules = Now(i)'
    BY <1>1, <1>2, <1>3
  <1> QED
    BY <1>1, <1>2, <1>4 DEF RunSound

\* Every transaction leaves the rows of every run sound.
LEMMA RunsStep ==
    ASSUME Inv, Effect
    PROVE  \A i \in Runs : RunSound(i)'
  <1>0. TypeOK /\ \A k \in Runs : RunSound(k)
    BY DEF Inv
  <1>o. ASSUME NEW i \in Runs, Others(i), RunSound(i)' PROVE \A k \in Runs : RunSound(k)'
    <2>1. \A k \in Runs \ {i} : SameRun(k)
      BY <1>o DEF Others
    <2> QED
      BY <1>0, <1>o, <2>1, SameSound
  <1>1. CASE Quiet
    BY <1>0, <1>1, SameSound DEF Quiet
  <1>2. CASE Queued
    <2>1. PICK s \in Starters :
              LET i == starter[s].run
              IN  /\ StarterAt(s, "queue") /\ Others(i)
                  /\ gen[i].status = "staging" /\ job[i].state = "running"
                  /\ job'[i] = job[i] /\ gen'[i] = gen[i]
      BY <1>2 DEF Queued
    <2>2. PICK i \in Runs : i = starter[s].run /\ job[i].stage = "inventory"
      <3>1. starter[s].run \in Runs /\ job[starter[s].run].stage = "inventory"
        BY <2>1, StartersRun DEF StarterAt, Working, ActiveStates
      <3> QED
        BY <3>1
    <2>3. RunSound(i)'
      BY <1>0, <2>1, <2>2 DEF RunSound, Working, Now
    <2> QED
      BY <1>o, <2>1, <2>2, <2>3
  <1>3. CASE Started
    <2>1. PICK s \in Starters :
              LET w == starter[s]
                  i == w.run
              IN  /\ StarterAt(s, "start") /\ Others(i)
                  /\ job'[i].state = "running" /\ job'[i].stage = "inventory"
                  /\ gen'[i].status = "staging" /\ gen'[i].repo = w.repo /\ gen'[i].source = w.src
      BY <1>3 DEF Started
    <2>2. StarterSound(starter[s])
      BY <2>1 DEF Inv, StartersSound, StarterAt
    <2>3. PICK i \in Runs : /\ i = starter[s].run
                            /\ starter[s].repo \in Repos /\ starter[s].src \in Sources
      BY <2>2 DEF StarterSound
    <2>4. RunSound(i)'
      BY <2>1, <2>3 DEF RunSound, Working, ActiveStates, Now
    <2> QED
      BY <1>o, <2>1, <2>3, <2>4
  <1>4. CASE Cleaned
    <2> SUFFICES ASSUME NEW k \in Runs PROVE RunSound(k)'
      OBVIOUS
    <2>1. /\ SameJob(k) /\ Identity(k) /\ gen'[k].content = gen[k].content /\ items'[k] = items[k]
          /\ \/ gen'[k].status = gen[k].status
             \/ /\ gen'[k].status = "deleted" /\ ~Working(k)
                /\ gen[k].status \in {"staging", "failed", "cancelled", "superseded"}
      BY <1>4 DEF Cleaned
    <2>2. RunSound(k)
      BY <1>0
    <2>3. /\ Parseable(k)' <=> Parseable(k)
          /\ Missing(k)' = Missing(k) /\ Now(k)' = Now(k) /\ Working(k)' <=> Working(k)
      BY <2>1 DEF Parseable, Missing, Now, Identity, SameJob, Working
    <2>4. CASE gen'[k].status = gen[k].status
      BY <2>1, <2>2, <2>3, <2>4 DEF RunSound, Identity, SameJob, Working, Now
    <2>5. CASE /\ gen'[k].status = "deleted" /\ ~Working(k)
               /\ gen[k].status \in {"staging", "failed", "cancelled", "superseded"}
      BY <2>1, <2>2, <2>3, <2>5 DEF RunSound, Identity, SameJob, Working, Now
    <2> QED
      BY <2>1, <2>4, <2>5
  <1>5. ASSUME NEW i \in Runs, Wrote(i) PROVE \A k \in Runs : RunSound(k)'
    <2>0. /\ Others(i) /\ Identity(i) /\ job'[i] = job[i] /\ gen'[i].status = gen[i].status
          /\ RunSound(i)
      BY <1>0, <1>5 DEF Wrote
    <2>1. ASSUME job[i].stage \in {"inventory", "idle"}, gen[i].status \notin {"ready", "superseded"}
          PROVE  RunSound(i)'
      BY <2>0, <2>1 DEF RunSound, Identity, Working
    <2>2. CASE \E s \in Starters : /\ starter[s].pc \in {"manifest", "copy"} /\ starter[s].run = i
                                   /\ gen[i].status \in {"staging", "failed", "cancelled"}
      <3>1. job[i].stage \in {"inventory", "idle"}
        BY <2>2, StartersRun
      <3> QED
        BY <1>o, <2>0, <2>1, <2>2, <3>1
    <2>3. CASE /\ job[i].state = "running" /\ job[i].stage # "inventory" /\ gen[i].status = "staging"
               /\ \E p \in items[i] : /\ gen'[i].content = ParsedRows(i, p)
                                      /\ items'[i] = items[i] \ {p}
      <3>1. PICK p \in items[i] : gen'[i].content = ParsedRows(i, p) /\ items'[i] = items[i] \ {p}
        BY <2>3
      <3>2. job[i].stage = "parse" /\ gen[i].source \in Sources
        BY <2>0, <2>3, <3>1 DEF RunSound, Working, ActiveStates, Now
      <3>3. Parseable(i) /\ Missing(i) \subseteq items[i]
        BY <2>0, <3>2 DEF RunSound
      <3>4. Parseable(i)' /\ Missing(i)' \subseteq items'[i]
        BY <2>0, <3>1, <3>2, <3>3, ParsedSound
      <3>5. RunSound(i)'
        BY <2>0, <2>3, <3>2, <3>4 DEF RunSound, Identity, Working
      <3> QED
        BY <1>o, <2>0, <3>5
    <2> QED
      BY <1>5, <2>2, <2>3 DEF Wrote, StarterAt
  <1>6. ASSUME NEW i \in Runs, Moved(i) PROVE \A k \in Runs : RunSound(k)'
    <2> DEFINE Rest == {"idle", "inventory", "parse"}
               Late == {"idle", "inventory", "parse", "link", "derive"}
    <2>0. /\ Others(i) /\ Identity(i) /\ items'[i] = items[i] /\ gen'[i].status = gen[i].status
          /\ Working(i) /\ job'[i].state \in ActiveStates /\ RunSound(i)
      BY <1>0, <1>6 DEF Moved
    <2> SUFFICES RunSound(i)'
      BY <1>o, <2>0
    <2>1. /\ job[i].stage = "parse" => Parseable(i) /\ Missing(i) \subseteq items[i]
          /\ job[i].stage \notin Rest => gen[i].content.facts = Now(i) /\ items[i] = {}
          /\ job[i].stage \notin Late => gen[i].content.rules = Now(i)
          /\ job[i].stage # "idle" /\ gen[i].source \in Sources
      BY <2>0 DEF RunSound, Working, ActiveStates
    <2>2. CASE gen'[i] = gen[i] /\ job'[i].stage = job[i].stage
      <3>1. /\ job'[i].stage = "parse" => Parseable(i)' /\ Missing(i)' \subseteq items'[i]
            /\ job'[i].stage \notin Rest => gen'[i].content.facts = Now(i) /\ items'[i] = {}
            /\ job'[i].stage \notin Late => gen'[i].content.rules = Now(i)
            /\ job'[i].stage # "idle"
        BY <2>0, <2>1, <2>2 DEF Parseable, Missing, Now
      <3> QED
        BY <2>0, <2>2, <3>1, MovedSound
    <2>3. CASE /\ gen'[i] = gen[i] /\ job[i].stage = "inventory" /\ job'[i].stage = "parse"
               /\ \E s \in Starters : StarterAt(s, "checkpoint") /\ starter[s].run = i
      <3>1. PICK s \in Starters : StarterAt(s, "checkpoint") /\ starter[s].run = i
        BY <2>3
      <3>2. StagedSound(starter[s])
        BY <2>0, <3>1, StartersRun DEF StarterAt
      <3>3. Parseable(i) /\ Missing(i) \subseteq items[i]
        BY <3>1, <3>2 DEF StagedSound, StarterAt
      <3>4. Parseable(i)' /\ Missing(i)' \subseteq items'[i]
        BY <2>0, <2>3, <3>3 DEF Parseable, Missing, Now
      <3> QED
        BY <2>0, <2>3, <3>4, MovedSound
    <2>4. CASE /\ gen'[i] = gen[i] /\ job[i].stage = "parse" /\ job'[i].stage = "link"
               /\ items[i] = {}
      <3>1. gen[i].content.facts = Now(i)
        BY <2>1, <2>4, NothingMissing
      <3>2. gen'[i].content.facts = Now(i) /\ items'[i] = {}
        BY <2>0, <2>4, <3>1
      <3> QED
        BY <2>0, <2>4, <3>2, MovedSound
    <2>5. CASE gen'[i] = gen[i] /\ job[i].stage = "link" /\ job'[i].stage = "derive"
      <3>1. gen'[i].content.facts = Now(i) /\ items'[i] = {}
        BY <2>0, <2>1, <2>5
      <3> QED
        BY <2>0, <2>5, <3>1, MovedSound
    <2>6. CASE /\ job[i].stage = "derive" /\ job'[i].stage = "synthesize"
               /\ gen'[i].content = DerivedRows(i)
      <3>1. gen[i].content \in Rows /\ gen[i].content.facts = Now(i) /\ items[i] = {}
        BY <1>0, <2>1, <2>6, RunTyped
      <3>2. gen'[i].content.facts = Now(i) /\ gen'[i].content.rules = Now(i) /\ items'[i] = {}
        BY <2>0, <2>6, <3>1 DEF DerivedRows, Rows
      <3> QED
        BY <2>0, <2>6, <3>2, MovedSound
    <2>7. CASE \/ gen'[i] = gen[i] /\ job[i].stage = "synthesize" /\ job'[i].stage = "validate"
               \/ gen'[i] = gen[i] /\ job[i].stage = "validate" /\ job'[i].stage = "publish"
      <3>1. gen'[i].content.facts = Now(i) /\ gen'[i].content.rules = Now(i) /\ items'[i] = {}
        BY <2>0, <2>1, <2>7
      <3> QED
        BY <2>0, <2>7, <3>1, MovedSound
    <2> QED
      BY <1>6, <2>2, <2>3, <2>4, <2>5, <2>6, <2>7 DEF Moved
  <1>7. ASSUME NEW i \in Runs, Ended(i) PROVE \A k \in Runs : RunSound(k)'
    <2>0. /\ Others(i) /\ Identity(i) /\ items'[i] = items[i] /\ gen'[i].content = gen[i].content
          /\ Working(i) /\ RunSound(i)
          /\ job'[i].state \in {"completed", "cancelled", "deleted"} /\ job'[i].stage = "idle"
          /\ \/ gen[i].status = "staging" /\ gen'[i].status \in {"cancelled", "deleted"}
             \/ gen[i].status = "ready" /\ gen'[i].status = "ready"
      BY <1>0, <1>7 DEF Ended
    <2>1. ~Working(i)' /\ Now(i)' = Now(i)
      BY <2>0 DEF Working, ActiveStates, Now, Identity
    <2>2. RunSound(i)'
      BY <2>0, <2>1 DEF RunSound, Identity, Working, Now
    <2> QED
      BY <1>o, <2>0, <2>2
  <1>8. ASSUME NEW i \in Runs, Showed(i) PROVE \A k \in Runs : RunSound(k)'
    <2> DEFINE r     == gen[i].repo
               prior == repo[r].ready
    <2>0. /\ UNCHANGED items
          /\ job[i].state = "running" /\ job[i].stage = "publish" /\ gen[i].status = "staging"
          /\ job'[i].state = "running" /\ job'[i].stage = "cleanup"
          /\ gen'[i].status = "ready" /\ gen'[i].content = gen[i].content /\ Identity(i)
          /\ RunSound(i) /\ Working(i)
      BY <1>0, <1>8 DEF Showed, Working, ActiveStates
    <2>1. RunSound(i)'
      BY <2>0 DEF RunSound, Working, ActiveStates, Identity, Now
    <2>2. ASSUME NEW k \in Runs \ {i} PROVE RunSound(k)'
      <3>1. /\ job'[k] = job[k] /\ Identity(k) /\ gen'[k].content = gen[k].content
            /\ items'[k] = items[k] /\ RunSound(k)
            /\ gen'[k].status = IF k = prior THEN "superseded" ELSE gen[k].status
        BY <1>0, <1>8, <2>2 DEF Showed
      <3>2. /\ Parseable(k)' <=> Parseable(k)
            /\ Missing(k)' = Missing(k) /\ Now(k)' = Now(k) /\ Working(k)' <=> Working(k)
        BY <3>1 DEF Parseable, Missing, Now, Identity, Working
      <3>3. CASE k = prior
        <4>1. gen[k].repo = r /\ gen[k].status = "ready"
          <5>1. k \in {prior} \ {NoRun}
            BY <2>2, <3>3, Columns
          <5> QED
            BY <1>8, <5>1 DEF Showed
        <4>2. ~Working(k)
          BY <2>0, <2>2, <4>1 DEF Inv, OneJob
        <4> QED
          BY <3>1, <3>2, <3>3, <4>1, <4>2 DEF RunSound, Identity, Working, Now
      <3>4. CASE k # prior
        BY <3>1, <3>2, <3>4 DEF RunSound, Identity, Working, Now
      <3> QED
        BY <3>3, <3>4
    <2> QED
      BY <2>1, <2>2
  <1> QED
    BY <1>1, <1>2, <1>3, <1>4, <1>5, <1>6, <1>7, <1>8 DEF Effect

\* What no transaction changes: the identity of a generation, and the rows of
\* one that was published.
LEMMA Frame ==
    ASSUME Inv, Effect, NEW k \in Runs
    PROVE  /\ gen[k].status # "unused" => Identity(k) /\ gen'[k].status # "unused"
           /\ Published(k) => Published(k)' /\ gen'[k].content = gen[k].content
           /\ job[k].state # "unused" =>
                 /\ job'[k].state # "unused"
                 /\ job'[k].stage = "inventory" => job[k].stage = "inventory"
  <1>0. RunSound(k)
    BY DEF Inv
  <1>s. ASSUME SameRun(k)
        PROVE  /\ gen[k].status # "unused" => Identity(k) /\ gen'[k].status # "unused"
               /\ Published(k) => Published(k)' /\ gen'[k].content = gen[k].content
               /\ job[k].state # "unused" =>
                     /\ job'[k].state # "unused"
                     /\ job'[k].stage = "inventory" => job[k].stage = "inventory"
    BY <1>s DEF SameRun, Identity, Published
  <1>1. CASE Quiet
    BY <1>1, <1>s DEF Quiet
  <1>2. CASE Queued
    <2>1. PICK s \in Starters : LET i == starter[s].run
                                IN  Others(i) /\ job'[i] = job[i] /\ gen'[i] = gen[i]
      BY <1>2 DEF Queued
    <2> QED
      BY <1>s, <2>1 DEF Others, Identity, Published
  <1>3. CASE Started
    <2>1. PICK s \in Starters : LET i == starter[s].run
                                IN  Others(i) /\ job[i].state = "unused"
      BY <1>3 DEF Started
    <2>2. CASE k = starter[s].run
      <3>1. gen[k].status = "unused" /\ job[k].state = "unused"
        BY <1>0, <2>1, <2>2 DEF RunSound
      <3> QED
        BY <3>1 DEF Published
    <2> QED
      BY <1>s, <2>1, <2>2 DEF Others
  <1>4. CASE Cleaned
    <2>1. /\ SameJob(k) /\ Identity(k) /\ gen'[k].content = gen[k].content
          /\ \/ gen'[k].status = gen[k].status
             \/ gen'[k].status = "deleted"
      BY <1>4 DEF Cleaned
    <2> QED
      BY <2>1 DEF SameJob, Published
  <1>5. ASSUME NEW i \in Runs, Wrote(i) \/ Moved(i) \/ Ended(i), k # i
        PROVE  SameRun(k)
    BY <1>5 DEF Wrote, Moved, Ended, Others
  <1>6. CASE Wrote(k)
    <2>1. /\ Identity(k) /\ job'[k] = job[k] /\ gen'[k].status = gen[k].status
          /\ gen[k].status \in {"staging", "failed", "cancelled"}
      BY <1>6 DEF Wrote
    <2> QED
      BY <2>1 DEF Published
  <1>7. CASE Moved(k)
    <2>1. /\ Identity(k) /\ gen'[k].status = gen[k].status /\ job'[k].state \in ActiveStates
          /\ gen'[k] = gen[k] \/ (job[k].stage = "derive" /\ job'[k].stage = "synthesize")
          /\ job'[k].stage = "inventory" => job[k].stage = "inventory"
          /\ Working(k)
      BY <1>7 DEF Moved
    <2>2. job[k].stage = "derive" => gen[k].status = "staging"
      BY <1>0, <2>1 DEF RunSound
    <2> QED
      BY <2>1, <2>2 DEF Published, ActiveStates
  <1>8. CASE Ended(k)
    <2>1. /\ Identity(k) /\ gen'[k].content = gen[k].content
          /\ job'[k].state # "unused" /\ job'[k].stage = "idle"
          /\ gen'[k].status \in {"cancelled", "deleted", "ready"}
          /\ \/ gen[k].status = "staging"
             \/ gen[k].status = "ready" /\ gen'[k].status = "ready"
      BY <1>8 DEF Ended
    <2> QED
      BY <2>1 DEF Published
  <1>9. ASSUME NEW i \in Runs, Showed(i)
        PROVE  /\ gen[k].status # "unused" => Identity(k) /\ gen'[k].status # "unused"
               /\ Published(k) => Published(k)' /\ gen'[k].content = gen[k].content
               /\ job[k].state # "unused" =>
                     /\ job'[k].state # "unused"
                     /\ job'[k].stage = "inventory" => job[k].stage = "inventory"
    <2>1. CASE k = i
      BY <1>9, <2>1 DEF Showed, Published
    <2>2. CASE k # i
      <3>1. /\ job'[k] = job[k] /\ Identity(k) /\ gen'[k].content = gen[k].content
            /\ gen'[k].status = "superseded" \/ gen'[k].status = gen[k].status
        BY <1>9, <2>2 DEF Showed
      <3> QED
        BY <3>1 DEF Published
    <2> QED
      BY <2>1, <2>2
  <1> QED
    BY <1>1, <1>2, <1>3, <1>4, <1>s, <1>5, <1>6, <1>7, <1>8, <1>9 DEF Effect

\* A job that is active after a step was, or was started by the step.
LEMMA WorkingStep ==
    ASSUME Inv, Effect, NEW k \in Runs, Working(k)'
    PROVE  \/ Working(k) /\ gen'[k].repo = gen[k].repo
           \/ Started /\ job[k].state = "unused"
  <1>0. RunSound(k)
    BY DEF Inv
  <1>1. Working(k) => gen'[k].repo = gen[k].repo
    BY <1>0, Frame DEF RunSound, Identity, Working, ActiveStates
  <1>2. ASSUME ~Started PROVE Working(k)
    <2>1. SameRun(k) => Working(k)
      BY DEF SameRun, Working
    <2>2. ASSUME NEW i \in Runs, Wrote(i) \/ Moved(i) \/ Ended(i) \/ Showed(i) PROVE Working(k)
      <3>1. CASE k = i
        BY <2>2, <3>1 DEF Wrote, Moved, Ended, Showed, Working, ActiveStates
      <3>2. CASE k # i
        BY <2>2, <3>2 DEF Wrote, Moved, Ended, Others, SameRun, Showed, Working
      <3> QED
        BY <3>1, <3>2
    <2>3. CASE Queued
      BY <2>3 DEF Queued, Others, SameRun, Working
    <2>4. CASE Cleaned
      BY <2>4 DEF Cleaned, SameJob, Working
    <2> QED
      BY <1>2, <2>1, <2>2, <2>3, <2>4 DEF Effect, Quiet
  <1>3. ASSUME Started, ~Working(k) PROVE job[k].state = "unused"
    <2>1. PICK s \in Starters : Others(starter[s].run) /\ job[starter[s].run].state = "unused"
      BY <1>3 DEF Started
    <2>2. k # starter[s].run => SameRun(k)
      BY <2>1 DEF Others
    <2> QED
      BY <1>3, <2>1, <2>2 DEF SameRun, Working
  <1> QED
    BY <1>1, <1>2, <1>3

\* No step starts a second job for a repository.
LEMMA OneJobStep == ASSUME Inv, Effect PROVE OneJob'
  <1> SUFFICES ASSUME NEW i \in Runs, NEW k \in Runs, Working(i)', Working(k)',
                      gen'[i].repo = gen'[k].repo
               PROVE  i = k
    BY DEF OneJob
  <1>1. /\ (Working(i) /\ gen'[i].repo = gen[i].repo) \/ (Started /\ job[i].state = "unused")
        /\ (Working(k) /\ gen'[k].repo = gen[k].repo) \/ (Started /\ job[k].state = "unused")
    BY WorkingStep
  <1>2. CASE ~Started
    BY <1>1, <1>2 DEF Inv, OneJob
  <1>3. CASE Started
    <2>1. PICK s \in Starters :
              LET w == starter[s]
              IN  /\ Others(w.run) /\ gen'[w.run].repo = w.repo
                  /\ \A j \in Runs : ~(gen[j].repo = w.repo /\ Working(j))
      BY <1>3 DEF Started
    <2>2. \A j \in Runs : job[j].state = "unused" /\ Working(j)' => j = starter[s].run
      <3>1. \A j \in Runs : j # starter[s].run => SameRun(j)
        BY <2>1 DEF Others
      <3> QED
        BY <3>1 DEF SameRun, Working, ActiveStates
    <2>3. \A j \in Runs : job[j].state = "unused" => ~Working(j)
      BY DEF Working, ActiveStates
    <2> QED
      BY <1>1, <2>1, <2>2, <2>3 DEF Inv, OneJob
  <1> QED
    BY <1>2, <1>3

\* What a repository shows stays a ready generation of its own.
LEMMA PointerStep == ASSUME Inv, Effect PROVE PointerSound'
  <1>t. \A r \in Repos : repo[r].ready \in Runs \cup {NoRun}
    BY Rowed DEF Inv, Store!RepoRows, Store!NoRun, NoRun
  <1> SUFFICES ASSUME NEW r \in Repos, repo'[r].ready # NoRun
               PROVE  gen'[repo'[r].ready].status = "ready" /\ gen'[repo'[r].ready].repo = r
    BY DEF PointerSound
  <1> DEFINE j == repo[r].ready
  <1>j. j # NoRun => j \in Runs /\ gen[j].status = "ready" /\ gen[j].repo = r /\ RunSound(j)
    BY <1>t DEF Inv, PointerSound
  <1>f. j # NoRun => gen'[j].repo = r
    BY <1>j, Frame DEF Identity
  <1>p. ASSUME Pointers, j # NoRun => gen'[j].status = "ready"
        PROVE  gen'[repo'[r].ready].status = "ready" /\ gen'[repo'[r].ready].repo = r
    BY <1>p, <1>f DEF Pointers
  <1>1. ASSUME ~\E i \in Runs : Showed(i)
        PROVE  Pointers /\ (j # NoRun => gen'[j].status = "ready")
    <2>1. CASE Quiet
      BY <2>1, <1>j DEF Quiet, SameRun
    <2>2. CASE Queued
      BY <2>2, <1>j DEF Queued, Others, SameRun
    <2>3. CASE Started
      <3>1. PICK s \in Starters : Others(starter[s].run) /\ job[starter[s].run].state = "unused"
        BY <2>3 DEF Started
      <3>2. j # NoRun => j # starter[s].run
        BY <1>j, <3>1 DEF RunSound
      <3> QED
        BY <1>j, <3>1, <3>2 DEF Others, SameRun
    <2>4. CASE Cleaned
      BY <2>4, <1>j DEF Cleaned
    <2>5. ASSUME NEW i \in Runs, Wrote(i) \/ Moved(i) \/ Ended(i)
          PROVE  Pointers /\ (j # NoRun => gen'[j].status = "ready")
      BY <2>5, <1>j DEF Wrote, Moved, Ended, Others, SameRun
    <2> QED
      BY <1>1, <2>1, <2>2, <2>3, <2>4, <2>5 DEF Effect
  <1>2. ASSUME NEW i \in Runs, Showed(i)
        PROVE  gen'[repo'[r].ready].status = "ready" /\ gen'[repo'[r].ready].repo = r
    <2> DEFINE prior == repo[gen[i].repo].ready
    <2>1. /\ gen'[i].status = "ready" /\ Identity(i) /\ gen[i].status = "staging"
          /\ repo'[r].ready = IF r = gen[i].repo THEN i ELSE j
      BY <1>2 DEF Showed
    <2>2. CASE r = gen[i].repo
      BY <2>1, <2>2 DEF Identity
    <2>3. CASE r # gen[i].repo
      <3>1. j # NoRun /\ repo'[r].ready = j /\ j # i
        BY <1>j, <2>1, <2>3
      <3>2. j # prior
        <4>1. SUFFICES ASSUME j = prior PROVE FALSE
          OBVIOUS
        <4>2. j \in {prior} \ {NoRun}
          BY <3>1, <4>1
        <4>3. gen[j].repo = gen[i].repo
          BY <1>2, <4>2 DEF Showed
        <4> QED
          BY <1>j, <2>3, <3>1, <4>3
      <3>3. gen'[j].status = gen[j].status
        BY <1>2, <1>j, <3>1, <3>2 DEF Showed
      <3> QED
        BY <1>f, <1>j, <3>1, <3>3
    <2> QED
      BY <2>2, <2>3
  <1> QED
    BY <1>1, <1>2, <1>p

-----------------------------------------------------------------------------
(***************************************************************************)
(* The start commands: what one of them knows stays true while others act, *)
(* and is true of what it does itself.                                     *)
(***************************************************************************)

\* Only the start command itself touches its run while it is in the inventory
\* stage; anybody may end it.
LEMMA OwnRun ==
    ASSUME Inv, Effect, NEW t \in Starters, ~StarterAt(t, "idle"), ~Steps(t),
           NEW k \in Runs, k = starter[t].run,
           job[k].state = "unused" \/ job[k].stage \in {"inventory", "idle"}
    PROVE  /\ job[k].state = "unused" => job'[k].state = "unused"
           /\ job[k].state # "unused" => job'[k].stage \in {"inventory", "idle"}
           /\ job[k].state # "unused" /\ gen'[k].status = "staging" =>
                 /\ gen[k].status = "staging" /\ gen'[k].content = gen[k].content
                 /\ items'[k] = items[k]
  <1> DEFINE Goal ==
          /\ job[k].state = "unused" => job'[k].state = "unused"
          /\ job[k].state # "unused" => job'[k].stage \in {"inventory", "idle"}
          /\ job[k].state # "unused" /\ gen'[k].status = "staging" =>
                /\ gen[k].status = "staging" /\ gen'[k].content = gen[k].content
                /\ items'[k] = items[k]
  <1> SUFFICES Goal
    OBVIOUS
  <1>0. RunSound(k)
    BY DEF Inv
  <1>1. \A s \in Starters : starter[s].run = k /\ ~StarterAt(s, "idle") => ~Steps(s)
    BY DEF Inv, StartersSound
  <1>2. SameRun(k) => Goal
    BY DEF SameRun
  <1>3. CASE Quiet
    BY <1>2, <1>3 DEF Quiet
  <1>4. CASE Queued
    <2>1. PICK s \in Starters : Others(starter[s].run) /\ Steps(s) /\ StarterAt(s, "queue")
      BY <1>4 DEF Queued
    <2>2. k # starter[s].run
      BY <1>1, <2>1 DEF StarterAt
    <2> QED
      BY <1>2, <2>1, <2>2 DEF Others
  <1>5. CASE Started
    <2>1. PICK s \in Starters : Others(starter[s].run) /\ Steps(s) /\ StarterAt(s, "start")
      BY <1>5 DEF Started
    <2>2. k # starter[s].run
      BY <1>1, <2>1 DEF StarterAt
    <2> QED
      BY <1>2, <2>1, <2>2 DEF Others
  <1>6. CASE Cleaned
    <2>1. /\ SameJob(k) /\ gen'[k].content = gen[k].content /\ items'[k] = items[k]
          /\ gen'[k].status = gen[k].status \/ gen'[k].status = "deleted"
      BY <1>6 DEF Cleaned
    <2> QED
      BY <2>1 DEF SameJob
  <1>7. ASSUME NEW i \in Runs, Wrote(i) \/ Moved(i) \/ Ended(i), k # i PROVE Goal
    <2>1. SameRun(k)
      BY <1>7 DEF Wrote, Moved, Ended, Others
    <2> QED
      BY <1>2, <2>1
  <1>8. CASE Wrote(k)
    <2>1. /\ job[k].state = "running" /\ job[k].stage # "inventory"
          /\ gen[k].status = "staging"
      BY <1>1, <1>8 DEF Wrote, StarterAt
    <2>2. job[k].stage # "idle"
      BY <1>0, <2>1 DEF RunSound, Working, ActiveStates
    <2> QED
      BY <2>1, <2>2
  <1>9. CASE Moved(k)
    <2>1. Working(k) /\ job'[k].state # "unused"
      BY <1>9 DEF Moved, ActiveStates
    <2>2. job[k].stage = "inventory" /\ job[k].state # "unused"
      BY <1>0, <2>1 DEF RunSound, Working, ActiveStates
    <2>3. gen'[k] = gen[k] /\ items'[k] = items[k] /\ job'[k].stage = job[k].stage
      BY <1>1, <1>9, <2>2 DEF Moved, StarterAt
    <2> QED
      BY <2>2, <2>3
  <1>10. CASE Ended(k)
    <2>1. /\ Working(k) /\ job'[k].stage = "idle"
          /\ gen'[k].status \in {"cancelled", "deleted", "ready"}
      BY <1>10 DEF Ended
    <2> QED
      BY <2>1 DEF Working, ActiveStates
  <1>11. ASSUME NEW i \in Runs, Showed(i) PROVE Goal
    <2>1. k # i
      BY <1>11 DEF Showed
    <2>2. /\ job'[k] = job[k] /\ gen'[k].content = gen[k].content /\ items'[k] = items[k]
          /\ gen'[k].status = "superseded" \/ gen'[k].status = gen[k].status
      BY <1>11, <2>1 DEF Showed
    <2> QED
      BY <2>2
  <1> HIDE DEF Goal
  <1> QED
    BY <1>3, <1>4, <1>5, <1>6, <1>7, <1>8, <1>9, <1>10, <1>11 DEF Effect

\* A repository with a staged generation in the inventory stage goes on
\* showing what it shows.
LEMMA PointerKept ==
    ASSUME Inv, Effect, NEW k \in Runs, gen[k].status = "staging", job[k].stage = "inventory",
           NEW r \in Repos, gen[k].repo = r
    PROVE  /\ repo'[r].ready = repo[r].ready
           /\ \A src \in Sources : ChangedPaths(src, r)' = ChangedPaths(src, r)
  <1>0. RunSound(k) /\ TypeOK
    BY DEF Inv
  <1>1. ASSUME NEW i \in Runs, Showed(i) PROVE repo'[r].ready = repo[r].ready
    <2>1. /\ job[i].state = "running" /\ job[i].stage = "publish"
          /\ repo'[r].ready = IF r = gen[i].repo THEN i ELSE repo[r].ready
      BY <1>1 DEF Showed
    <2>2. Working(i) /\ Working(k)
      BY <1>0, <2>1 DEF RunSound, Working, ActiveStates
    <2>3. i # k
      BY <2>1
    <2>4. gen[i].repo # r
      BY <2>2, <2>3 DEF Inv, OneJob
    <2> QED
      BY <2>1, <2>4
  <1>2. ASSUME ~\E i \in Runs : Showed(i) PROVE Pointers
    BY <1>2 DEF Effect, Quiet, Queued, Started, Cleaned, Wrote, Moved, Ended, Others
  <1>3. repo'[r].ready = repo[r].ready
    BY <1>1, <1>2 DEF Pointers
  <1> DEFINE j == repo[r].ready
  <1>4. j # NoRun => gen'[j].source = gen[j].source
    <2>1. j # NoRun => j \in Runs /\ gen[j].status = "ready"
      BY <1>0, Rowed DEF Inv, PointerSound, Store!RepoRows, Store!NoRun, NoRun
    <2> QED
      BY <2>1, Frame DEF Identity
  <1>5. ASSUME NEW src \in Sources PROVE ChangedPaths(src, r)' = ChangedPaths(src, r)
    BY <1>3, <1>4 DEF ChangedPaths, Ready
  <1> QED
    BY <1>3, <1>5

\* The generation a plan clones from keeps its facts.
LEMMA BaseKept ==
    ASSUME Inv, Effect, NEW b \in Runs, Published(b), gen[b].content.facts = Now(b)
    PROVE  Published(b)' /\ gen'[b].content.facts = Now(b)' /\ Now(b)' = Now(b)
  <1>1. gen[b].status # "unused"
    BY DEF Published
  <1> QED
    BY <1>1, Frame DEF Identity, Now

\* What a start command knows survives the steps of everybody else.
LEMMA StarterFrame ==
    ASSUME Inv, Effect, NEW t \in Starters, ~StarterAt(t, "idle"), ~Steps(t),
           NEW w, w = starter[t]
    PROVE  StarterSound(w)'
  <1>0. StarterSound(w)
    BY DEF Inv, StartersSound
  <1>k. PICK k \in Runs : k = w.run
    BY <1>0 DEF StarterSound
  <1>r. RunSound(k)
    BY DEF Inv
  <1>u. /\ w.pc \in {"registered", "start"} => job[k].state = "unused"
        /\ w.pc \notin {"registered", "start"} =>
              /\ job[k].state # "unused" /\ job[k].stage \in {"inventory", "idle"}
              /\ gen[k].status # "unused"
    BY <1>0, <1>k, <1>r DEF StarterSound, RunSound
  <1>1. /\ job[k].state = "unused" => job'[k].state = "unused"
        /\ job[k].state # "unused" => job'[k].stage \in {"inventory", "idle"}
        /\ job[k].state # "unused" /\ gen'[k].status = "staging" =>
                 /\ gen[k].status = "staging" /\ gen'[k].content = gen[k].content
                 /\ items'[k] = items[k]
    BY <1>k, <1>u, OwnRun
  <1>2. gen[k].status # "unused" => Identity(k) /\ gen'[k].status # "unused"
    BY Frame
  <1>b. ASSUME w.base # NoRun
        PROVE  /\ Published(w.base)' /\ gen'[w.base].content.facts = Now(w.base)'
               /\ Now(w.base)' = Now(w.base)
    <2>1. w.base \in Runs
      BY <1>b DEF Inv, TypeOK
    <2> QED
      BY <1>0, <1>b, <2>1, BaseKept DEF StarterSound
  <1>3. ASSUME w.pc \notin {"registered", "start"}, gen'[k].status = "staging"
        PROVE  StagedSound(w)'
    <2>1. /\ gen[k].status = "staging" /\ gen'[k].content = gen[k].content
          /\ items'[k] = items[k] /\ gen'[k].source = gen[k].source
          /\ job[k].stage = "inventory" /\ gen[k].repo = w.repo /\ StagedSound(w)
      BY <1>0, <1>k, <1>1, <1>2, <1>3, <1>u, <1>r DEF StarterSound, Identity, RunSound
    <2>2. w.pc = "plan" => w.changed = ChangedPaths(w.src, w.repo)'
      <3>1. w.src \in Sources /\ w.repo \in Repos
        BY <1>0 DEF StarterSound
      <3> QED
        BY <2>1, <3>1, PointerKept DEF StagedSound
    <2>3. PlanSound(w) => PlanSound(w)'
      BY <1>b DEF PlanSound
    <2>4. (Parseable(k) => Parseable(k)') /\ Missing(k)' = Missing(k)
      BY <2>1 DEF Parseable, Missing, Now
    <2> QED
      BY <1>k, <2>1, <2>2, <2>3, <2>4 DEF StagedSound, ManifestRows, Present
  <1> QED
    BY <1>0, <1>k, <1>1, <1>2, <1>3, <1>b, <1>u DEF StarterSound, Identity

\* A plan leaves out only paths that are the same in the generation it clones
\* from: whole manifests are invalidated, or what the comparison found and all
\* that depends on it.
LEMMA PlanCovers ==
    ASSUME Inv, NEW src \in Sources, NEW r \in Repos, NEW inv \in SUBSET Paths,
           LET base == Ready(r)
           IN  \/ inv = Present(src) \cup (IF base = NoRun THEN {} ELSE Present(gen[base].source))
               \/ base # NoRun /\ inv = ReverseClosure(ChangedPaths(src, r), deps[base]),
           NEW p \in Paths \ inv
    PROVE  Manifest[src][p] = IF Ready(r) = NoRun THEN "absent" ELSE Now(Ready(r))[p]
  <1> DEFINE base == Ready(r)
  <1>1. CASE inv = Present(src) \cup (IF base = NoRun THEN {} ELSE Present(gen[base].source))
    BY <1>1 DEF Present, Now
  <1>2. CASE base # NoRun /\ inv = ReverseClosure(ChangedPaths(src, r), deps[base])
    <2>1. p \notin ChangedPaths(src, r)
      BY <1>2 DEF ReverseClosure
    <2> QED
      BY <1>2, <2>1 DEF ChangedPaths, Now
  <1> QED
    BY <1>1, <1>2

\* The rows of an inventory wait for every path to be parsed.
LEMMA FreshRows ==
    ASSUME NEW i \in Runs, gen[i].content = ManifestRows(gen[i].source)
    PROVE  Parseable(i) /\ Missing(i) \subseteq Present(gen[i].source)
  BY DEF ManifestRows, Parseable, Missing, Now, Present

\* What is cloned is what a parser would find, and what is invalidated waits.
LEMMA ClonedSound ==
    ASSUME NEW src \in Sources, NEW old \in Sources, NEW inv \in SUBSET Paths, NEW p \in Paths,
           p \notin inv => Manifest[src][p] = Manifest[old][p]
    PROVE  LET v == ClonedRows(ManifestRows(src).facts, Manifest[old], inv).facts[p]
           IN  /\ v \in {"pending", Manifest[src][p]}
               /\ v = "pending" => p \in inv
  <1> DEFINE mine == ManifestRows(src).facts
             v    == ClonedRows(mine, Manifest[old], inv).facts[p]
  <1>1. mine[p] = IF Manifest[src][p] # "absent" THEN "pending" ELSE "absent"
    BY DEF ManifestRows, Present
  <1>2. Manifest[old][p] # "pending"
    BY ManifestFacts
  <1> HIDE DEF mine
  <1>3. v = IF p \in inv \/ "absent" \in {mine[p], Manifest[old][p]}
            THEN mine[p] ELSE Manifest[old][p]
    BY DEF ClonedRows
  <1> HIDE DEF v
  <1>4. v \in {"pending", Manifest[src][p]}
    BY <1>1, <1>3
  <1>5. v = "pending" => p \in inv
    BY <1>1, <1>2, <1>3
  <1> QED
    BY <1>4, <1>5 DEF v, mine

\* What a start command knows after a transaction of its own is true.
LEMMA StarterActs ==
    ASSUME Inv, Effect, NEW s \in Starters, StarterWork(s) \/ StarterRefused(s),
           NEW w, w = starter[s],
           NEW u \in StarterRows, starter' = [starter EXCEPT ![s] = u]
    PROVE  /\ w.pc # "idle"
           /\ u = IdleStarter \/ (u.pc # "idle" /\ u.run = w.run /\ StarterSound(u)')
  <1> DEFINE Goal == u = IdleStarter \/ (u.pc # "idle" /\ u.run = w.run /\ StarterSound(u)')
  <1>t. TypeOK /\ starter \in [Starters -> StarterRows] /\ w \in StarterRows
    BY DEF Inv, TypeOK, StarterRows
  <1>n. w.pc # "idle"
    BY DEF StarterWork, StarterRefused, CheckReady, Start, PersistManifest, ComparePaths,
       PlanRefresh, Discard, CheckClone, CloneFacts, QueueWork, EnterParse, StarterAt
  <1>w. StarterSound(w)
    BY <1>n DEF Inv, StartersSound, StarterAt
  <1>k. PICK k \in Runs : k = w.run
    BY <1>w DEF StarterSound
  <1>r. RunSound(k) /\ w.repo \in Repos /\ w.src \in Sources
    BY <1>w DEF Inv, StarterSound
  <1>u. u = starter'[s]
    BY <1>t
  <1>p. ASSUME NEW pc \in StarterPcs, StarterGoes(s, pc)
        PROVE  /\ u.pc = pc /\ u.run = k /\ u.repo = w.repo /\ u.src = w.src
               /\ u.changed = w.changed /\ u.base = w.base /\ u.invalidated = w.invalidated
    BY <1>k, <1>p, <1>t, <1>u DEF StarterGoes, StarterRows
  <1>e. StarterEnds(s) => Goal
    BY <1>t, <1>u DEF StarterEnds
  <1>b. ASSUME w.base # NoRun
        PROVE  /\ Published(w.base)' /\ gen'[w.base].content.facts = Now(w.base)'
               /\ Now(w.base)' = Now(w.base)
    <2>1. w.base \in Runs
      BY <1>b, <1>t DEF StarterRows
    <2> QED
      BY <1>b, <1>w, <2>1, BaseKept DEF StarterSound
  <1>q. ASSUME UNCHANGED <<store, items>>
        PROVE  /\ gen' = gen /\ job' = job /\ repo' = repo /\ items' = items
               /\ Parseable(k)' <=> Parseable(k)
               /\ Missing(k)' = Missing(k)
    BY <1>q DEF store, Parseable, Missing, Now
  <1> SUFFICES Goal
    BY <1>n
  <1>1. CASE CheckReady(s)
    <2>1. StarterEnds(s) \/ (StarterGoes(s, "start") /\ "start" \in StarterPcs)
      BY <1>1 DEF CheckReady, StarterPcs
    <2>2. CASE StarterGoes(s, "start") /\ "start" \in StarterPcs
      <3>1. StarterSound(u)'
        BY <1>1, <1>b, <1>k, <1>p, <1>q, <1>r, <1>w, <2>2 DEF CheckReady, StarterSound, StarterAt
      <3> QED
        BY <1>k, <1>p, <2>2, <3>1
    <2> QED
      BY <1>e, <2>1, <2>2
  <1>2. CASE Start(s)
    <2>1. /\ StarterGoes(s, "manifest") /\ "manifest" \in StarterPcs /\ w.pc = "start"
          /\ Store!StartJob(k, w.repo, k, w.src, ConfigOf[w.src], Cardinality(Present(w.src)), 0)
      BY <1>2, <1>k DEF Start, StarterAt, StarterPcs
    <2>2. /\ job'[k].stage = "inventory" /\ gen'[k].status = "staging"
          /\ gen'[k].source = w.src /\ gen'[k].repo = w.repo
      BY <1>t, <2>1, Rowed DEF Store!StartJob
    <2>3. StarterSound(u)'
      BY <1>b, <1>p, <1>r, <2>1, <2>2 DEF StarterSound, StagedSound
    <2> QED
      BY <1>k, <1>p, <2>1, <2>3
  <1>3. CASE PersistManifest(s)
    <2>1. /\ StarterGoes(s, "compare") /\ "compare" \in StarterPcs /\ w.pc = "manifest"
          /\ Store!StageRows(k, k, ManifestRows(w.src))
      BY <1>3, <1>k DEF PersistManifest, StarterAt, StarterPcs
    <2>2. /\ job' = job /\ gen' = [gen EXCEPT ![k].content = ManifestRows(w.src)]
      BY <2>1 DEF Store!StageRows
    <2>3. /\ gen'[k].content = ManifestRows(w.src) /\ gen'[k].status = gen[k].status /\ Identity(k)
      BY <1>t, <2>2, Rowed DEF Store!GenRows, Identity
    <2>4. StarterSound(u)'
      BY <1>b, <1>k, <1>p, <1>r, <1>w, <2>1, <2>2, <2>3
      DEF StarterSound, StagedSound, ManifestRows, Present, Identity
    <2> QED
      BY <1>k, <1>p, <2>1, <2>4
  <1>4. CASE ComparePaths(s)
    <2>1. /\ UNCHANGED <<store, items>> /\ w.pc = "compare"
          /\ starter' = [starter EXCEPT ![s].pc = "plan", ![s].changed = ChangedPaths(w.src, w.repo)]
      BY <1>4 DEF ComparePaths, StarterAt
    <2>2. /\ u.pc = "plan" /\ u.run = k /\ u.repo = w.repo /\ u.src = w.src
          /\ u.changed = ChangedPaths(w.src, w.repo) /\ u.base = w.base
      BY <1>k, <1>t, <1>u, <2>1 DEF StarterRows
    <2>3. ChangedPaths(w.src, w.repo)' = ChangedPaths(w.src, w.repo)
      BY <1>k, <1>u, <2>1 DEF ChangedPaths, Ready, store, Present
    <2>4. StarterSound(u)'
      BY <1>b, <1>k, <1>q, <1>r, <1>w, <2>1, <2>2, <2>3
      DEF StarterSound, StagedSound, ManifestRows, Present
    <2> QED
      BY <1>k, <2>2, <2>4
  <1>5. ASSUME NEW unresolved \in BOOLEAN, PlanRefresh(s, unresolved) PROVE Goal
    <2> DEFINE base   == Ready(w.repo)
               global == base = NoRun \/ unresolved \/ gen[base].config # ConfigOf[w.src]
               noop   == ~global /\ w.changed = {}
               all    == Present(w.src) \cup (IF base = NoRun THEN {} ELSE Present(gen[base].source))
               scope  == ReverseClosure(w.changed, deps[base])
               inv    == CASE noop -> {} [] global -> all [] OTHER -> scope
    <2>1. /\ UNCHANGED <<store, items>> /\ w.pc = "plan"
          /\ starter' = [starter EXCEPT ![s].base = base,
                                       ![s].pc = IF noop THEN "discard" ELSE "clone",
                                       ![s].mode = CASE noop -> "none" [] global -> "global"
                                                     [] OTHER -> "scoped",
                                       ![s].invalidated = inv]
      BY <1>5 DEF PlanRefresh, StarterAt
    <2>2. /\ u.pc = (IF noop THEN "discard" ELSE "clone")
          /\ u.run = k /\ u.repo = w.repo /\ u.src = w.src
          /\ u.changed = w.changed /\ u.base = base /\ u.invalidated = inv
      <3> DEFINE pc   == IF noop THEN "discard" ELSE "clone"
                 mode == CASE noop -> "none" [] global -> "global" [] OTHER -> "scoped"
      <3>1. starter' = [starter EXCEPT ![s].base = base, ![s].pc = pc, ![s].mode = mode,
                                       ![s].invalidated = inv]
        BY <2>1
      <3> HIDE DEF pc, mode, base, inv
      <3>2. /\ u.pc = pc /\ u.run = k /\ u.repo = w.repo /\ u.src = w.src
            /\ u.changed = w.changed /\ u.base = base /\ u.invalidated = inv
        BY <1>k, <1>t, <1>u, <3>1 DEF StarterRows
      <3> QED
        BY <3>2 DEF pc
    <2>3. base # NoRun => base \in Runs /\ gen[base].status = "ready" /\ RunSound(base)
      BY <1>r, <1>t, Rowed DEF Ready, Inv, PointerSound, Store!RepoRows, Store!NoRun, NoRun
    <2>4. base # NoRun => Published(base) /\ gen[base].content.facts = Now(base)
      BY <2>3 DEF RunSound, Published
    <2>5. ~noop => inv = all \/ (base # NoRun /\ inv = scope)
      <3>1. noop => ~global
        OBVIOUS
      <3>2. ~global => base # NoRun
        OBVIOUS
      <3> HIDE DEF noop, global, all, scope, base
      <3> QED
        BY <3>1, <3>2
    <2>6. ASSUME gen[k].status = "staging" PROVE StagedSound(u)
      <3>1. /\ StagedSound(w) /\ gen[k].content = ManifestRows(w.src)
            /\ w.changed = ChangedPaths(w.src, w.repo)
        BY <1>k, <1>w, <2>1, <2>6 DEF StarterSound, StagedSound
      <3>2. u.invalidated \in SUBSET Paths
        BY DEF StarterRows
      <3>3. ASSUME u.pc = "clone" PROVE PlanSound(u)
        <4>1. inv = all \/ (base # NoRun /\ inv = ReverseClosure(ChangedPaths(w.src, w.repo), deps[base]))
          BY <2>2, <2>5, <3>1, <3>3
        <4> HIDE DEF noop, inv
        <4>2. \A p \in Paths \ inv :
                  Manifest[w.src][p] = IF base = NoRun THEN "absent" ELSE Now(base)[p]
          BY <1>r, <2>2, <3>2, <4>1, PlanCovers
        <4> HIDE DEF base
        <4> QED
          BY <2>2, <4>2 DEF PlanSound
      <3> QED
        BY <2>2, <3>1, <3>3 DEF StagedSound
    <2> HIDE DEF base, noop, inv
    <2>7. StarterSound(u)
      BY <1>k, <1>r, <1>w, <2>1, <2>2, <2>4, <2>6 DEF StarterSound
    <2>8. StarterSound(u)'
      BY <2>1, <2>7
      DEF store, StarterSound, StagedSound, PlanSound, Parseable, Missing, Now, Published,
          ChangedPaths, Ready
    <2> QED
      BY <1>k, <2>2, <2>8
  <1>6. CASE Discard(s) \/ EnterParse(s) \/ StarterRefused(s)
    BY <1>6, <1>e DEF Discard, EnterParse, StarterRefused
  <1>7. CASE CheckClone(s)
    <2>1. /\ UNCHANGED <<store, items>> /\ w.pc = "clone" /\ gen[k].status = "staging"
          /\ StarterGoes(s, IF w.base = NoRun THEN "queue" ELSE "copy")
      BY <1>7, <1>k DEF CheckClone, StarterAt, StagingScope
    <2>2. /\ u.pc = (IF w.base = NoRun THEN "queue" ELSE "copy") /\ u.run = k /\ u.repo = w.repo
          /\ u.src = w.src /\ u.changed = w.changed /\ u.base = w.base
          /\ u.invalidated = w.invalidated
      BY <1>p, <2>1 DEF StarterPcs
    <2>3. gen[k].content = ManifestRows(w.src) /\ PlanSound(w) /\ gen[k].source = w.src
      BY <1>k, <1>w, <2>1 DEF StarterSound, StagedSound
    <2>4. Parseable(k) /\ Missing(k) \subseteq Present(w.src)
      BY <2>3, FreshRows
    <2>5. w.base = NoRun => Present(w.src) \subseteq w.invalidated
      BY <2>3 DEF PlanSound, Present
    <2>6. PlanSound(u)
      BY <2>2, <2>3 DEF PlanSound
    <2>7. StagedSound(u)
      BY <2>2, <2>3, <2>4, <2>5, <2>6 DEF StagedSound
    <2>8. StarterSound(u)
      BY <1>k, <1>r, <1>w, <2>1, <2>2, <2>7 DEF StarterSound
    <2>9. StarterSound(u)'
      BY <2>1, <2>8
      DEF store, StarterSound, StagedSound, PlanSound, Parseable, Missing, Now, Published,
          ChangedPaths, Ready
    <2> QED
      BY <1>k, <2>2, <2>9
  <1>8. CASE CloneFacts(s)
    <2> DEFINE c == ClonedRows(gen[k].content.facts, gen[w.base].content.facts, w.invalidated)
    <2>1. /\ StarterGoes(s, "queue") /\ "queue" \in StarterPcs /\ w.pc = "copy"
          /\ UNCHANGED items /\ Store!CloneRows(k, c)
      BY <1>8, <1>k DEF CloneFacts, StarterAt, StarterPcs
    <2>2. job' = job /\ gen' = [gen EXCEPT ![k].content = c]
      BY <2>1 DEF Store!CloneRows
    <2> HIDE DEF c
    <2>3. /\ gen'[k].content = c /\ gen'[k].status = gen[k].status /\ Identity(k)
      BY <1>t, <2>2, Rowed DEF Store!GenRows, Identity
    <2>4. /\ w.base # NoRun /\ w.base \in Runs /\ gen[w.base].content.facts = Now(w.base)
          /\ gen[w.base].source \in Sources /\ w.invalidated \in SUBSET Paths
      <3>1. /\ w.base # NoRun /\ w.base \in Runs /\ gen[w.base].content.facts = Now(w.base)
            /\ Published(w.base) /\ w.invalidated \in SUBSET Paths
        BY <1>t, <1>w, <2>1 DEF StarterSound, StarterRows
      <3> QED
        BY <3>1 DEF Inv, RunSound, Published
    <2>5. ASSUME gen'[k].status = "staging" PROVE StagedSound(u)'
      <3>1. StagedSound(w) /\ gen[k].content = ManifestRows(w.src) /\ gen[k].source = w.src
        BY <1>k, <1>w, <2>1, <2>3, <2>5 DEF StarterSound, StagedSound
      <3>2. PlanSound(w)
        BY <2>1, <3>1 DEF StagedSound
      <3>3. \A p \in Paths \ w.invalidated : Manifest[w.src][p] = Manifest[gen[w.base].source][p]
        BY <2>4, <3>2 DEF PlanSound, Now
      <3>4. c = ClonedRows(ManifestRows(w.src).facts, Manifest[gen[w.base].source], w.invalidated)
        BY <2>4, <3>1 DEF c, Now
      <3>5. \A p \in Paths : /\ c.facts[p] \in {"pending", Manifest[w.src][p]}
                             /\ c.facts[p] = "pending" => p \in w.invalidated
        <4>1. PICK old \in Sources : old = gen[w.base].source
          BY <2>4
        <4>2. PICK inv \in SUBSET Paths : inv = w.invalidated
          BY <2>4
        <4>s. PICK src \in Sources : src = w.src
          BY <1>r
        <4>3. \A q \in Paths \ inv : Manifest[src][q] = Manifest[old][q]
          BY <3>3, <4>1, <4>2, <4>s
        <4>4. c = ClonedRows(ManifestRows(src).facts, Manifest[old], inv)
          BY <3>4, <4>1, <4>2, <4>s
        <4>5. SUFFICES ASSUME NEW p \in Paths
                       PROVE  /\ c.facts[p] \in {"pending", Manifest[src][p]}
                              /\ c.facts[p] = "pending" => p \in inv
          BY <4>2, <4>s
        <4>6. p \notin inv => Manifest[src][p] = Manifest[old][p]
          BY <4>3
        <4> QED
          BY <4>4, <4>6, ClonedSound
      <3>6. \A p \in Paths : /\ gen'[k].content.facts[p] \in {"pending", Manifest[gen'[k].source][p]}
                             /\ gen'[k].content.facts[p] = "pending" => p \in w.invalidated
        BY <2>3, <3>1, <3>5 DEF Identity
      <3>8. Parseable(k)'
        BY <3>6 DEF Parseable, Now
      <3>9. Missing(k)' \subseteq w.invalidated
        BY <3>6 DEF Missing
      <3>7. PlanSound(u)'
        BY <1>b, <1>p, <2>1, <2>4, <3>2 DEF PlanSound
      <3> QED
        BY <1>p, <2>1, <3>7, <3>8, <3>9 DEF StagedSound
    <2>6. StarterSound(u)'
      BY <1>b, <1>k, <1>p, <1>r, <1>w, <2>1, <2>2, <2>3, <2>5 DEF StarterSound, Identity
    <2> QED
      BY <1>k, <1>p, <2>1, <2>6
  <1>9. CASE QueueWork(s)
    <2>1. /\ StarterGoes(s, "checkpoint") /\ "checkpoint" \in StarterPcs /\ w.pc = "queue"
          /\ UNCHANGED store /\ items' = [items EXCEPT ![k] = w.invalidated]
          /\ gen[k].status = "staging"
      BY <1>9, <1>k DEF QueueWork, StarterAt, ActiveScope, StagingScope, StarterPcs
    <2>2. gen' = gen /\ job' = job /\ repo' = repo /\ items'[k] = w.invalidated
      BY <1>t, <2>1, Rowed DEF store
    <2>3. PlanSound(w) /\ Parseable(k) /\ Missing(k) \subseteq w.invalidated
      BY <1>k, <1>w, <2>1 DEF StarterSound, StagedSound
    <2>4. Parseable(k)' /\ Missing(k)' \subseteq w.invalidated
      BY <2>2, <2>3 DEF Parseable, Missing, Now
    <2>5. PlanSound(u)'
      BY <1>b, <1>p, <2>1, <2>3 DEF PlanSound
    <2>6. StagedSound(u)'
      BY <1>p, <2>1, <2>2, <2>4, <2>5 DEF StagedSound
    <2>7. StarterSound(u)'
      BY <1>b, <1>k, <1>p, <1>r, <1>w, <2>1, <2>2, <2>6 DEF StarterSound
    <2> QED
      BY <1>k, <1>p, <2>1, <2>7
  <1> QED
    BY <1>1, <1>2, <1>3, <1>4, <1>5, <1>6, <1>7, <1>8, <1>9 DEF StarterWork

\* One start command steps and the others do not: all of them stay sound when
\* the one that steps does.
LEMMA OneStarterSteps ==
    ASSUME Inv, Effect, NEW s \in Starters, NEW u \in StarterRows,
           starter' = [starter EXCEPT ![s] = u],
           u = IdleStarter \/ (u.pc # "idle" /\ StarterSound(u)'),
           \/ u = IdleStarter
           \/ u.run = starter[s].run /\ ~StarterAt(s, "idle")
           \/ u.run \in Runs /\ \A t \in Starters : starter[t].run # u.run
    PROVE  StartersSound'
  <1>t. /\ starter \in [Starters -> StarterRows]
        /\ IdleStarter.pc = "idle" /\ IdleStarter.run = NoRun
    BY DEF Inv, TypeOK, StarterRows, IdleStarter
  <1>i. StartersSound
    BY DEF Inv
  <1>1. starter'[s] = u /\ \A t \in Starters \ {s} : starter'[t] = starter[t]
    BY <1>t
  <1>2. ASSUME NEW t \in Starters, starter'[t].pc # "idle" PROVE StarterSound(starter[t])'
    <2>1. PICK w \in StarterRows : w = starter'[t]
      BY <1>1, <1>t
    <2>2. CASE t = s
      <3>1. StarterSound(u)' /\ w = u
        BY <1>1, <1>2, <1>t, <2>1, <2>2
      <3>2. StarterSound(w)'
        BY <3>1
      <3> QED
        BY <2>1, <3>2 DEF StarterSound, StagedSound, PlanSound
    <2>3. CASE t # s
      <3>1. w = starter[t] /\ ~Steps(t) /\ ~StarterAt(t, "idle")
        BY <1>1, <1>2, <2>1, <2>3 DEF Steps, StarterAt
      <3>2. StarterSound(w)'
        BY <3>1, StarterFrame
      <3> QED
        BY <2>1, <3>2 DEF StarterSound, StagedSound, PlanSound
    <2> QED
      BY <2>2, <2>3
  <1>3. ASSUME NEW t \in Starters, starter'[t].pc = "idle" PROVE starter'[t].run = NoRun
    BY <1>1, <1>3, <1>i, <1>t DEF StartersSound, StarterAt
  <1>4. ASSUME NEW a \in Starters, NEW b \in Starters, starter'[a].run = starter'[b].run
        PROVE  a = b \/ starter'[a].pc = "idle"
    <2>1. \A t \in Starters : starter[t].pc # "idle" => starter[t].run \in Runs
      BY <1>i DEF StartersSound, StarterAt, StarterSound
    <2>2. NoRun \notin Runs
      BY Columns
    <2>3. CASE a # s /\ b # s
      BY <1>1, <1>4, <1>i, <2>3 DEF StartersSound, StarterAt
    <2>4. CASE a = s /\ b # s
      BY <1>1, <1>4, <1>i, <1>t, <2>1, <2>2, <2>4 DEF StartersSound, StarterAt
    <2>5. CASE a # s /\ b = s
      BY <1>1, <1>4, <1>i, <1>t, <2>1, <2>2, <2>5 DEF StartersSound, StarterAt
    <2> QED
      BY <2>3, <2>4, <2>5
  <1> QED
    BY <1>2, <1>3, <1>4 DEF StartersSound, StarterAt

\* While no start command steps, all of them stay sound.
LEMMA StartersWait == ASSUME Inv, Effect, UNCHANGED starter PROVE StartersSound'
  <1>t. starter \in [Starters -> StarterRows] /\ StartersSound
    BY DEF Inv, TypeOK, StarterRows
  <1>1. ASSUME NEW t \in Starters, starter'[t].pc # "idle" PROVE StarterSound(starter[t])'
    <2>1. PICK w \in StarterRows : w = starter[t]
      BY <1>t
    <2>2. ~Steps(t) /\ ~StarterAt(t, "idle")
      BY <1>1 DEF Steps, StarterAt
    <2>3. StarterSound(w)'
      BY <2>1, <2>2, StarterFrame
    <2> QED
      BY <2>1, <2>3 DEF StarterSound, StagedSound, PlanSound
  <1> QED
    BY <1>t, <1>1 DEF StartersSound, StarterAt

\* No step takes a start command by surprise.
LEMMA StartersStep == ASSUME Inv, Effect, Next PROVE StartersSound'
  <1>t. starter \in [Starters -> StarterRows] /\ IdleStarter \in StarterRows
    BY Locals DEF Inv, TypeOK, StarterRows
  <1>q. UNCHANGED starter => StartersSound'
    BY StartersWait
  <1>1. ASSUME NEW s \in Starters, NEW i \in Runs, NEW r \in Repos, NEW src \in Sources,
               Scan(s, i, r, src)
        PROVE  StartersSound'
    <2> DEFINE u == [IdleStarter EXCEPT !.pc = "registered", !.run = i, !.repo = r, !.src = src]
    <2>1. /\ starter' = [starter EXCEPT ![s] = u] /\ u \in StarterRows
          /\ \A t \in Starters : starter[t].run # i
          /\ job[i].state = "unused" /\ job' = job
      BY <1>1, Locals DEF Scan, Store!RegisterInventory
    <2>2. u.pc = "registered" /\ u.run = i /\ u.repo = r /\ u.src = src /\ u.base = NoRun
      BY DEF IdleStarter
    <2> HIDE DEF u
    <2>3. StarterSound(u)'
      BY <2>1, <2>2 DEF StarterSound
    <2> QED
      BY <2>1, <2>2, <2>3, OneStarterSteps
  <1>2. ASSUME NEW s \in Starters, StarterWork(s) \/ StarterRefused(s) PROVE StartersSound'
    <2>1. PICK u \in StarterRows : starter' = [starter EXCEPT ![s] = u]
      BY <1>2, StarterLocal
    <2>2. PICK w \in StarterRows : w = starter[s]
      BY <1>t
    <2>3. w.pc # "idle" /\ (u = IdleStarter \/ (u.pc # "idle" /\ u.run = w.run /\ StarterSound(u)'))
      BY <1>2, <2>1, <2>2, StarterActs
    <2> QED
      BY <2>1, <2>2, <2>3, OneStarterSteps DEF StarterAt
  <1>3. ASSUME NEW d \in Drivers,
               \/ \E i \in Runs : BeginContinue(d, i)
               \/ DriverWork(d) \/ DriverRefused(d)
        PROVE  StartersSound'
    BY <1>3, <1>q, DriverLocal
  <1>4. CASE \/ \E c \in Cancellers, i \in Runs : Cancel(c, i)
             \/ \E c \in Cancellers : AcknowledgeOwnCancel(c)
             \/ \E i \in Runs, retain \in 0..MaxCleanup : Cleanup(i, retain)
             \/ \E i \in Runs : Pause(i)
    BY <1>4, <1>q DEF Cancel, AcknowledgeOwnCancel, Cleanup, Pause, workers
  <1>5. CASE Interrupt
    <2>1. CASE \E s \in Starters : StarterEnds(s)
      BY <1>t, <2>1, OneStarterSteps DEF StarterEnds
    <2>2. CASE starter' = [s \in Starters |-> IdleStarter]
      <3>1. \A s \in Starters : starter'[s].pc = "idle" /\ starter'[s].run = NoRun
        BY <2>2 DEF IdleStarter
      <3> QED
        BY <3>1 DEF StartersSound, StarterAt
    <2> QED
      BY <1>5, <1>q, <2>1, <2>2 DEF Interrupt
  <1> QED
    BY <1>1, <1>2, <1>3, <1>4, <1>5 DEF Next

-----------------------------------------------------------------------------
(***************************************************************************)
(* The continue commands.                                                  *)
(***************************************************************************)

\* A run whose plan is stored never goes back to the inventory.
LEMMA PlannedStays ==
    ASSUME Inv, Effect, NEW v, DriverSound(v)
    PROVE  DriverSound(v)'
  <1> QED
    BY Frame DEF DriverSound

\* A continue command steps only a run whose plan is stored.
LEMMA DriversStep == ASSUME Inv, Effect, Next PROVE DriversSound'
  <1>t. driver \in [Drivers -> DriverRows] /\ IdleDriver.pc = "idle"
    BY DEF Inv, TypeOK, DriverRows, IdleDriver
  <1>f. ASSUME NEW v \in DriverRows, DriverSound(v) PROVE DriverSound(v)'
    BY <1>f, PlannedStays
  <1>i. DriversSound
    BY DEF Inv
  <1>q. ASSUME UNCHANGED driver PROVE DriversSound'
    <2>1. ASSUME NEW d \in Drivers, driver'[d].pc # "idle" PROVE DriverSound(driver[d])'
      <3>1. PICK v \in DriverRows : v = driver[d]
        BY <1>t
      <3>2. DriverSound(v)'
        BY <1>f, <1>i, <1>q, <2>1, <3>1 DEF DriversSound
      <3> QED
        BY <1>q, <3>1, <3>2 DEF DriverSound
    <2> QED
      BY <2>1 DEF DriversSound
  <1>o. ASSUME NEW d \in Drivers, NEW u \in DriverRows, driver' = [driver EXCEPT ![d] = u],
               u.pc = "idle" \/ DriverSound(u)'
        PROVE  DriversSound'
    <2>1. driver'[d] = u /\ \A e \in Drivers \ {d} : driver'[e] = driver[e]
      BY <1>o, <1>t
    <2>2. ASSUME NEW e \in Drivers, driver'[e].pc # "idle" PROVE DriverSound(driver[e])'
      <3>1. PICK v \in DriverRows : v = driver'[e]
        BY <1>o, <1>t, <2>1
      <3>2. DriverSound(v)'
        BY <1>f, <1>i, <1>o, <2>1, <2>2, <3>1 DEF DriversSound
      <3> QED
        BY <3>1, <3>2 DEF DriverSound
    <2> QED
      BY <2>2 DEF DriversSound
  <1>1. ASSUME NEW d \in Drivers,
               \/ \E i \in Runs : BeginContinue(d, i)
               \/ DriverWork(d) \/ DriverRefused(d)
        PROVE  DriversSound'
    <2>1. PICK u \in DriverRows : driver' = [driver EXCEPT ![d] = u]
      BY <1>1, DriverLocal
    <2>2. u = driver'[d]
      BY <1>t, <2>1
    <2>g. ASSUME NEW i \in Runs, NEW state, Follow(d, i, state),
                 state = "running" => job[i].state # "unused"
          PROVE  u.pc = "idle" \/ DriverSound(u)
      <3>1. CASE u = IdleDriver
        BY <1>t, <3>1
      <3>2. CASE u # IdleDriver
        <4>1. /\ u.run = i /\ u.state = state
              /\ state = "cancelling" \/ job[i].stage # "inventory"
          BY <1>t, <2>2, <2>g, <3>2 DEF Follow, IdleDriver
        <4> QED
          BY <2>g, <4>1 DEF DriverSound
      <3> QED
        BY <3>1, <3>2
    <2>3. u.pc = "idle" \/ DriverSound(u)
      <3>1. ASSUME NEW i \in Runs, BeginContinue(d, i) PROVE u.pc = "idle" \/ DriverSound(u)
        <4>1. job[i].state # "unused"
          BY <3>1 DEF BeginContinue, Store!Active, Store!ActiveStates
        <4> QED
          BY <2>g, <3>1, <4>1 DEF BeginContinue
      <3>2. CASE DriverRefused(d)
        BY <1>t, <2>2, <3>2 DEF DriverRefused, DriverEnds
      <3>3. ASSUME DriverWork(d) PROVE driver[d].pc # "idle"
        BY <3>3 DEF DriverWork, Reload, AcknowledgeSeenCancel, LoadBatch, ParseItem, ParseItemFails,
           FinishBatch, Link, Derive, PersistDependencies, Finalize, Validate, Publish, Complete,
           DriverAt
      <3>4. CASE Reload(d)
        <4>1. driver[d].run \in Runs
          BY <1>i, <3>4 DEF DriversSound, DriverSound, Reload
        <4>2. CASE DriverEnds(d)
          BY <1>t, <2>2, <4>2 DEF DriverEnds
        <4> QED
          BY <2>g, <3>4, <4>1, <4>2 DEF Reload
      <3>5. CASE AcknowledgeSeenCancel(d) \/ ParseItemFails(d)
        BY <1>t, <2>2, <3>5 DEF AcknowledgeSeenCancel, ParseItemFails, DriverEnds
      <3>6. CASE DriverWork(d) /\ ~Reload(d) /\ ~AcknowledgeSeenCancel(d) /\ ~ParseItemFails(d)
        <4>1. u.run = driver[d].run /\ u.state = driver[d].state
          BY <1>t, <2>2, <3>6
          DEF DriverWork, LoadBatch, ParseItem, FinishBatch, Link, Derive, PersistDependencies,
              Finalize, Validate, Publish, Complete, DriverGoes, DriverRows
        <4> QED
          BY <1>i, <3>3, <3>6, <4>1 DEF DriversSound, DriverSound
      <3> QED
        BY <1>1, <3>1, <3>2, <3>4, <3>5, <3>6
    <2>4. u.pc = "idle" \/ DriverSound(u)'
      BY <1>f, <2>3
    <2> QED
      BY <1>o, <2>1, <2>4
  <1>2. ASSUME NEW s \in Starters,
               \/ \E i \in Runs, r \in Repos, src \in Sources : Scan(s, i, r, src)
               \/ StarterWork(s) \/ StarterRefused(s)
        PROVE  DriversSound'
    BY <1>2, <1>q, StarterLocal
  <1>3. CASE \/ \E c \in Cancellers, i \in Runs : Cancel(c, i)
             \/ \E c \in Cancellers : AcknowledgeOwnCancel(c)
             \/ \E i \in Runs, retain \in 0..MaxCleanup : Cleanup(i, retain)
             \/ \E i \in Runs : Pause(i)
    BY <1>3, <1>q DEF Cancel, AcknowledgeOwnCancel, Cleanup, Pause, workers
  <1>4. CASE Interrupt
    <2>1. CASE \E d \in Drivers : DriverEnds(d)
      BY <1>o, <1>t, <2>1, Locals DEF DriverEnds
    <2>2. CASE driver' = [d \in Drivers |-> IdleDriver]
      BY <1>t, <2>2 DEF DriversSound
    <2> QED
      BY <1>4, <1>q, <2>1, <2>2 DEF Interrupt
  <1> QED
    BY <1>1, <1>2, <1>3, <1>4 DEF Next

-----------------------------------------------------------------------------
(***************************************************************************)
(* The theorems.                                                           *)
(***************************************************************************)

\* The invariant holds of an empty store.
LEMMA InitInv == Init => Inv
  <1> SUFFICES ASSUME Init PROVE Inv
    OBVIOUS
  <1> DEFINE R == [registered |-> FALSE, source |-> Null, ready |-> Store!NoRun, updated |-> 0]
             G == [status |-> "unused", repo |-> Null, source |-> Null, config |-> Null,
                   content |-> EmptyRows, created |-> 0]
             J == [state |-> "unused", stage |-> "idle", owner |-> Null, cancel |-> FALSE,
                   ckpt |-> "none", sealed |-> EmptyRows, completed |-> 0,
                   total |-> Store!NoTotal, updated |-> 0]
  <1>0. /\ repo = [r \in Repos |-> R] /\ gen = [i \in Runs |-> G] /\ job = [i \in Runs |-> J]
        /\ items = [i \in Runs |-> {}] /\ deps = [i \in Runs |-> {}]
        /\ starter = [s \in Starters |-> IdleStarter] /\ driver = [d \in Drivers |-> IdleDriver]
        /\ canceller = [c \in Cancellers |-> NoRun] /\ mishaps = 0
    BY DEF Init, Store!Init
  <1>1. EmptyRows \in Rows /\ Cardinality(Paths) \in Nat
    BY StagedRows, Columns
  <1>2. 0 \in 0..Cardinality(Paths) /\ Store!NoTotal \in Store!NoTotal..Cardinality(Paths)
    BY <1>1 DEF Store!NoTotal
  <1>3. R \in Store!RepoRows
    BY DEF Store!RepoRows
  <1>4. G \in Store!GenRows
    BY <1>1, Columns DEF Store!GenRows
  <1>5. J \in Store!JobRows
    BY <1>1, <1>2, Columns DEF Store!JobRows
  <1>6. Store!TypeOK
    BY <1>0, <1>3, <1>4, <1>5 DEF Store!TypeOK
  <1>7. TypeOK
    <2>1. starter \in [Starters -> StarterRows] /\ driver \in [Drivers -> DriverRows]
      BY <1>0, Locals
    <2>2. /\ items \in [Runs -> SUBSET Paths] /\ deps \in [Runs -> SUBSET DependsOn]
          /\ canceller \in [Cancellers -> Runs \cup {NoRun}] /\ mishaps \in 0..MaxMishaps
      BY <1>0, BatchAssumption
    <2> QED
      BY <1>6, <2>1, <2>2 DEF TypeOK, StarterRows, DriverRows
  <1>8. \A i \in Runs : job[i].state = "unused" /\ job[i].stage = "idle" /\ gen[i].status = "unused"
    BY <1>0
  <1>9. \A i \in Runs : ~Working(i) /\ RunSound(i)
    BY <1>8 DEF RunSound, Working, ActiveStates
  <1>10. OneJob
    BY <1>9 DEF OneJob
  <1>11. PointerSound
    BY <1>0 DEF PointerSound, Store!NoRun, NoRun
  <1>12. StartersSound /\ DriversSound
    BY <1>0 DEF StartersSound, StarterAt, DriversSound, IdleStarter, IdleDriver
  <1> QED
    BY <1>7, <1>9, <1>10, <1>11, <1>12 DEF Inv

\* Every step preserves it.
LEMMA StepInv == Inv /\ [Next]_vars => Inv'
  <1>1. ASSUME Inv, Next PROVE Inv'
    <2>1. Effect
      BY <1>1, StepEffect
    <2> QED
      BY <1>1, <2>1, TypeStep, RunsStep, OneJobStep, PointerStep, StartersStep, DriversStep DEF Inv
  <1>2. ASSUME Inv, UNCHANGED vars PROVE Inv'
    <2>1. /\ repo' = repo /\ gen' = gen /\ job' = job /\ items' = items /\ deps' = deps
          /\ starter' = starter /\ driver' = driver /\ canceller' = canceller /\ mishaps' = mishaps
      BY <1>2 DEF vars
    <2>2. Quiet /\ Effect
      BY <2>1 DEF Quiet, SameRun, Pointers, Effect
    <2>3. TypeOK'
      BY <1>2, <2>1 DEF Inv, TypeOK, Store!TypeOK
    <2>4. StartersSound'
      BY <1>2, <2>1, <2>2, StartersWait
    <2>5. DriversSound'
      BY <1>2, <2>1 DEF Inv, DriversSound, DriverSound
    <2> QED
      BY <1>2, <2>2, <2>3, <2>4, <2>5, RunsStep, OneJobStep, PointerStep DEF Inv
  <1> QED
    BY <1>1, <1>2

\* The invariant always holds.
LEMMA AlwaysInv == Spec => []Inv
  BY InitInv, StepInv, PTL DEF Spec

\* The type invariant, for the store and for the commands over it: the runs a
\* command is about, the batches it has read and the items it stores.
THEOREM TypeCorrect == Spec => []TypeOK
  <1>1. Inv => TypeOK
    BY DEF Inv
  <1> QED
    BY <1>1, AlwaysInv, PTL

\* What a repository shows is what a rebuild from scratch would show.  Cloning
\* is checked in one transaction of clone_unaffected_ready_facts and done in
\* another, and the plan is older still: any number of commands act in between.
THEOREM ReadyIsCurrent == Spec => []ReadyFactsCurrent
  <1>1. Inv => ReadyFactsCurrent
    BY DEF Inv, RunSound, Now, ReadyFactsCurrent
  <1> QED
    BY <1>1, AlwaysInv, PTL

\* A path whose facts are missing has a work item while its job parses, and
\* when persist_refresh_work_plan's items are gone nothing is missing: plan,
\* clone, queue and parse are transactions of their own, of commands that can
\* be cut off between any two.
THEOREM NoPathIsForgotten == Spec => []MissingFactsHaveWork
  <1>1. ASSUME Inv, NEW i \in Runs, Working(i)
        PROVE  /\ job[i].stage = "parse" => Missing(i) \subseteq items[i]
               /\ job[i].stage \notin {"inventory", "parse"} => Missing(i) = {} /\ items[i] = {}
    <2>1. RunSound(i) /\ job[i].stage # "idle" /\ gen[i].source \in Sources
      BY <1>1 DEF Inv, RunSound, Working, ActiveStates
    <2>2. job[i].stage \notin {"inventory", "parse"} => gen[i].content.facts = Now(i) /\ items[i] = {}
      BY <2>1 DEF RunSound
    <2>3. \A p \in Paths : Now(i)[p] # "pending"
      BY <2>1, ManifestFacts DEF Now
    <2> QED
      BY <2>1, <2>2, <2>3 DEF RunSound, Missing
  <1>2. Inv => MissingFactsHaveWork
    BY <1>1, WorkingIsActive DEF MissingFactsHaveWork, Missing
  <1> QED
    BY <1>2, AlwaysInv, PTL

-----------------------------------------------------------------------------
(***************************************************************************)
(* The commands use the store as its clients may.                          *)
(***************************************************************************)

\* The store is instantiated as ArchaeologyJobs assumes.
LEMMA StoreIsWellConfigured ==
    /\ Store!RunsAssumption /\ Store!NullAssumption /\ Store!ContentsAssumption
    /\ Store!TimesAssumption /\ Store!BoundsAssumption
  <1>1. Store!RunsAssumption /\ Store!NullAssumption
    BY StoreAssumption DEF Store!RunsAssumption, Store!NullAssumption
  <1>2. Store!ContentsAssumption
    BY StagedRows DEF Store!ContentsAssumption, ValidRows
  <1>3. Store!TimesAssumption
    BY DEF Store!TimesAssumption
  <1>4. Store!BoundsAssumption
    BY StoreAssumption, Columns DEF Store!BoundsAssumption
  <1> QED
    BY <1>1, <1>2, <1>3, <1>4

\* A transaction of a command, under the identity of its own run and with a
\* clock that stands still, is one the store allows.
LEMMA Transactions ==
    ASSUME NEW i \in Runs
    PROVE  /\ \A r \in Repos, src \in Sources : Store!RegisterInventory(r, src, 0) => Store!Next
           /\ \A r \in Repos, src \in Sources, cfg \in Configs, total \in 0..Cardinality(Paths) :
                 Store!StartJob(i, r, i, src, cfg, total, 0) => Store!Next
           /\ \A c \in Rows : Store!StageRows(i, i, c) \/ Store!CloneRows(i, c) => Store!Next
           /\ Store!DiscardNoOp(i, i) => Store!Next
           /\ Store!FinishInventory(i, i, "parse", 0) \/ Store!FinishParse(i, i, 0) => Store!Next
           /\ \A c \in Rows : \/ Store!LinkGeneration(i, i, c, 0)
                              \/ Store!DeriveTemplateCandidates(i, i, c, 0)
                              \/ Store!FinalizeSynthesisCatalog(i, i, c, 0)
                              => Store!Next
           /\ \/ Store!ValidateGenerationForPublication(i, i, 0)
              \/ Store!PublishGeneration(i, i, 0)
              => Store!Next
           /\ \/ Store!PauseJob(i, i, 0)
              \/ Store!ResumeJob(i, i, 0)
              \/ Store!RequestCancel(i, i, 0)
              => Store!Next
           /\ Store!AcknowledgeCancel(i, i, 0) \/ Store!CompleteJob(i, i, 0) => Store!Next
           /\ \A retain \in 0..MaxCleanup : Store!CleanupGenerations(i, i, retain, 0) => Store!Next
  <1>0. 0 \in {0}
    OBVIOUS
  <1>1. Store!Starting(0) => Store!Next
    BY <1>0 DEF Store!Next
  <1>2. Store!Staging(i, i) => Store!Next
    BY <1>0 DEF Store!Next
  <1>3. Store!Working(i, i, 0) => Store!Next
    BY <1>0 DEF Store!Next
  <1>4. Store!Managing(i, i, 0) => Store!Next
    BY <1>0 DEF Store!Next
  <1>5. Store!Ending(i, i, 0) => Store!Next
    BY <1>0 DEF Store!Next
  <1>6. ASSUME NEW r \in Repos, NEW src \in Sources
        PROVE  /\ Store!RegisterInventory(r, src, 0) => Store!Starting(0)
               /\ \A cfg \in Configs, total \in 0..Cardinality(Paths) :
                     Store!StartJob(i, r, i, src, cfg, total, 0) => Store!Starting(0)
    BY DEF Store!Starting
  <1>7. \A c \in Rows : Store!StageRows(i, i, c) \/ Store!CloneRows(i, c) => Store!Staging(i, i)
    BY DEF Store!Staging
  <1>8. Store!DiscardNoOp(i, i) => Store!Staging(i, i)
    BY DEF Store!Staging
  <1>9. Store!FinishInventory(i, i, "parse", 0) \/ Store!FinishParse(i, i, 0)
            => Store!Working(i, i, 0)
    BY DEF Store!Working
  <1>10. \A c \in Rows : \/ Store!LinkGeneration(i, i, c, 0)
                         \/ Store!DeriveTemplateCandidates(i, i, c, 0)
                         \/ Store!FinalizeSynthesisCatalog(i, i, c, 0)
                         => Store!Working(i, i, 0)
    BY DEF Store!Working
  <1>11. \/ Store!ValidateGenerationForPublication(i, i, 0)
         \/ Store!PublishGeneration(i, i, 0)
         => Store!Working(i, i, 0)
    BY DEF Store!Working
  <1>12. \/ Store!PauseJob(i, i, 0) \/ Store!ResumeJob(i, i, 0) \/ Store!RequestCancel(i, i, 0)
         => Store!Managing(i, i, 0)
    BY DEF Store!Managing
  <1>13. Store!AcknowledgeCancel(i, i, 0) \/ Store!CompleteJob(i, i, 0) => Store!Ending(i, i, 0)
    BY DEF Store!Ending
  <1>14. \A retain \in 0..MaxCleanup :
            Store!CleanupGenerations(i, i, retain, 0) => Store!Ending(i, i, 0)
    BY DEF Store!Ending
  <1>a. \A r \in Repos, src \in Sources : Store!RegisterInventory(r, src, 0) => Store!Next
    BY <1>1, <1>6
  <1>b. \A r \in Repos, src \in Sources, cfg \in Configs, total \in 0..Cardinality(Paths) :
           Store!StartJob(i, r, i, src, cfg, total, 0) => Store!Next
    BY <1>1, <1>6
  <1>c. \A c \in Rows : Store!StageRows(i, i, c) \/ Store!CloneRows(i, c) => Store!Next
    BY <1>2, <1>7
  <1>d. \A c \in Rows : \/ Store!LinkGeneration(i, i, c, 0)
                        \/ Store!DeriveTemplateCandidates(i, i, c, 0)
                        \/ Store!FinalizeSynthesisCatalog(i, i, c, 0)
                        => Store!Next
    BY <1>3, <1>10
  <1>e. \A retain \in 0..MaxCleanup : Store!CleanupGenerations(i, i, retain, 0) => Store!Next
    BY <1>5, <1>14
  <1> QED
    BY <1>a, <1>b, <1>c, <1>d, <1>e, <1>2, <1>3, <1>4, <1>5, <1>8, <1>9, <1>11, <1>12, <1>13

\* A step of a start command is one transaction of the store, or none.
LEMMA StarterTransacts ==
    ASSUME Inv, NEW s \in Starters,
           \/ \E i \in Runs, r \in Repos, src \in Sources : Scan(s, i, r, src)
           \/ StarterWork(s) \/ StarterRefused(s)
    PROVE  Store!Next \/ UNCHANGED store
  <1> DEFINE w == starter[s]
             i == starter[s].run
  <1>0. TypeOK /\ StartersSound
    BY DEF Inv
  <1>t. \A k \in Runs : gen[k].content \in Rows /\ gen[k].content.facts \in Facts
    BY <1>0, Rowed DEF Store!GenRows, Rows
  <1>w. ~StarterAt(s, "idle") =>
            /\ i \in Runs /\ w.repo \in Repos /\ w.src \in Sources
            /\ w.invalidated \in SUBSET Paths
            /\ w.base = NoRun \/ w.base \in Runs
            /\ StarterAt(s, "copy") => w.base # NoRun
    BY <1>0 DEF StartersSound, StarterSound, TypeOK, StarterAt
  <1>1. CASE \E k \in Runs, r \in Repos, src \in Sources : Scan(s, k, r, src)
    <2>1. PICK k \in Runs : \E r \in Repos, src \in Sources : Scan(s, k, r, src)
      BY <1>1
    <2>2. PICK r \in Repos, src \in Sources : Scan(s, k, r, src)
      BY <2>1
    <2>3. Store!RegisterInventory(r, src, 0)
      BY <2>2 DEF Scan
    <2> QED
      BY <2>3, Transactions
  <1>2. CASE \/ CheckReady(s) \/ ComparePaths(s) \/ CheckClone(s) \/ StarterRefused(s) \/ QueueWork(s)
             \/ \E unresolved \in BOOLEAN : PlanRefresh(s, unresolved)
    <2>1. UNCHANGED store
      BY <1>2 DEF CheckReady, ComparePaths, CheckClone, StarterRefused, PlanRefresh, QueueWork
    <2> QED
      BY <2>1
  <1>3. CASE Start(s)
    <2> DEFINE total == Cardinality(Present(w.src))
    <2>1. /\ i \in Runs /\ w.repo \in Repos /\ w.src \in Sources
          /\ Store!StartJob(i, w.repo, i, w.src, ConfigOf[w.src], total, 0)
      BY <1>3, <1>w DEF Start, StarterAt
    <2>2. total \in 0..Cardinality(Paths) /\ ConfigOf[w.src] \in Configs
      BY <2>1, Columns, ManifestAssumption
    <2> QED
      BY <2>1, <2>2, Transactions
  <1>4. CASE PersistManifest(s)
    <2>1. i \in Runs /\ w.src \in Sources /\ Store!StageRows(i, i, ManifestRows(w.src))
      BY <1>4, <1>w DEF PersistManifest, StarterAt
    <2>2. ManifestRows(w.src) \in Rows
      BY <2>1, StagedRows
    <2> QED
      BY <2>1, <2>2, Transactions
  <1>5. CASE Discard(s) \/ EnterParse(s)
    <2>1. i \in Runs /\ (Store!DiscardNoOp(i, i) \/ Store!FinishInventory(i, i, "parse", 0))
      BY <1>5, <1>w DEF Discard, EnterParse, StarterAt
    <2> QED
      BY <2>1, Transactions
  <1>6. CASE CloneFacts(s)
    <2> DEFINE c == ClonedRows(gen[i].content.facts, gen[w.base].content.facts, w.invalidated)
    <2>1. i \in Runs /\ w.invalidated \in SUBSET Paths /\ w.base \in Runs /\ Store!CloneRows(i, c)
      BY <1>6, <1>w DEF CloneFacts, StarterAt
    <2>2. c \in Rows
      BY <1>t, <2>1, StagedRows
    <2> QED
      BY <2>1, <2>2, Transactions
  <1> QED
    BY <1>1, <1>2, <1>3, <1>4, <1>5, <1>6 DEF StarterWork

\* The same for continue commands.
LEMMA DriverTransacts ==
    ASSUME Inv, NEW d \in Drivers,
           \/ \E i \in Runs : BeginContinue(d, i)
           \/ DriverWork(d) \/ DriverRefused(d)
    PROVE  Store!Next \/ UNCHANGED store
  <1> DEFINE i == driver[d].run
  <1>0. TypeOK /\ DriversSound
    BY DEF Inv
  <1>t. items \in [Runs -> SUBSET Paths] /\ \A k \in Runs : gen[k].content \in Rows
    BY <1>0, Rowed DEF Store!GenRows
  <1>d. driver[d].pc # "idle" => i \in Runs
    BY <1>0 DEF DriversSound, DriverSound
  <1>s. \A k \in Runs : gen[k].status = "staging" => gen[k].source \in Sources
    BY DEF Inv, RunSound
  <1>1. CASE \/ \E k \in Runs : BeginContinue(d, k)
             \/ Reload(d) \/ LoadBatch(d) \/ ParseItemFails(d) \/ PersistDependencies(d)
             \/ DriverRefused(d)
             \/ AcknowledgeSeenCancel(d) \/ Complete(d)
    <2>1. \/ UNCHANGED store
          \/ \E k \in Runs : \/ Store!ResumeJob(k, k, 0)
                             \/ Store!AcknowledgeCancel(k, k, 0)
                             \/ Store!CompleteJob(k, k, 0)
      BY <1>1, <1>d DEF BeginContinue, Reload, LoadBatch, ParseItemFails, PersistDependencies,
         DriverRefused, AcknowledgeSeenCancel, Complete, DriverAt
    <2> QED
      BY <2>1, Transactions
  <1>2. CASE ParseItem(d)
    <2>1. PICK p \in items[i] : i \in Runs /\ Store!StageRows(i, i, ParsedRows(i, p))
      BY <1>2, <1>d DEF ParseItem, DriverAt
    <2>2. gen[i].status = "staging" /\ p \in Paths
      BY <1>t, <2>1 DEF Store!StageRows
    <2>3. ParsedRows(i, p) \in Rows
      BY <1>s, <1>t, <2>1, <2>2, StagedRows DEF ParsedRows
    <2> QED
      BY <2>1, <2>3, Transactions
  <1>3. CASE FinishBatch(d) \/ Validate(d) \/ Publish(d)
    <2>1. /\ i \in Runs
          /\ \/ UNCHANGED store
             \/ Store!FinishParse(i, i, 0)
             \/ Store!ValidateGenerationForPublication(i, i, 0)
             \/ Store!PublishGeneration(i, i, 0)
      BY <1>3, <1>d DEF FinishBatch, Validate, Publish, AlreadyPublished, DriverAt
    <2> QED
      BY <2>1, Transactions
  <1>4. CASE Link(d) \/ Derive(d) \/ Finalize(d)
    <2>1. /\ i \in Runs
          /\ \/ UNCHANGED store
             \/ Store!LinkGeneration(i, i, gen[i].content, 0)
             \/ Store!DeriveTemplateCandidates(i, i, DerivedRows(i), 0)
             \/ Store!FinalizeSynthesisCatalog(i, i, gen[i].content, 0)
      BY <1>4, <1>d DEF Link, Derive, Finalize, DriverAt, AlreadyDone
    <2>2. gen[i].content \in Rows /\ DerivedRows(i) \in Rows
      BY <1>t, <2>1, StagedRows DEF DerivedRows
    <2> QED
      BY <2>1, <2>2, Transactions
  <1> QED
    BY <1>1, <1>2, <1>3, <1>4 DEF DriverWork

\* Every step of the commands is a step of the store or leaves it alone.
LEMMA StepTransacts == Inv /\ [Next]_vars => [Store!Next]_(Store!vars)
  <1> SUFFICES ASSUME Inv, [Next]_vars PROVE Store!Next \/ UNCHANGED store
    BY DEF Store!vars, store
  <1>0. TypeOK
    BY DEF Inv
  <1>1. CASE \E s \in Starters :
                \/ \E i \in Runs, r \in Repos, src \in Sources : Scan(s, i, r, src)
                \/ StarterWork(s)
                \/ StarterRefused(s)
    BY <1>1, StarterTransacts
  <1>2. CASE \E d \in Drivers :
                \/ \E i \in Runs : BeginContinue(d, i)
                \/ DriverWork(d)
                \/ DriverRefused(d)
    BY <1>2, DriverTransacts
  <1>3. CASE \E c \in Cancellers : \/ \E i \in Runs : Cancel(c, i)
                                   \/ AcknowledgeOwnCancel(c)
    <2>1. PICK c \in Cancellers : (\E i \in Runs : Cancel(c, i)) \/ AcknowledgeOwnCancel(c)
      BY <1>3
    <2>2. canceller[c] \in Runs \cup {NoRun}
      BY <1>0 DEF TypeOK
    <2>3. \/ UNCHANGED store
          \/ \E k \in Runs : Store!RequestCancel(k, k, 0) \/ Store!AcknowledgeCancel(k, k, 0)
      BY <2>1, <2>2 DEF Cancel, AcknowledgeOwnCancel
    <2> QED
      BY <2>3, Transactions
  <1>4. CASE \/ \E i \in Runs, retain \in 0..MaxCleanup : Cleanup(i, retain)
             \/ \E i \in Runs : Pause(i)
    BY <1>4, Transactions DEF Cleanup, Pause
  <1>5. CASE Interrupt \/ UNCHANGED vars
    BY <1>5 DEF Interrupt, vars, store
  <1> QED
    BY <1>1, <1>2, <1>3, <1>4, <1>5 DEF Next

\* The commands implement the store: whatever they do, together and cut off
\* anywhere, is what clients of the store may do, so the theorems of
\* ArchaeologyJobs_proofs hold of them.
THEOREM CommandsUseTheStore == Spec => Store!Spec
  <1>1. Init => Store!Init
    BY DEF Init
  <1> QED
    BY <1>1, StepTransacts, AlwaysInv, PTL DEF Spec, Store!Spec
=============================================================================
