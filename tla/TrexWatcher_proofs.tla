------------------------- MODULE TrexWatcher_proofs -------------------------
(***************************************************************************)
(* Theorems about TrexWatcher, for any number of pull requests, commits,   *)
(* in-flight sets, runs, pushes and mishaps.                               *)
(***************************************************************************)
EXTENDS TrexWatcher, FiniteSetTheorems, SequenceTheorems, TLAPS

Tasks == [set : Sets \cup {0}, todo : Seq(PRs \X Heads), busy : BOOLEAN]
Runs  == [pc : {"none", "pending", "execute", "post", "record", "release", "hung"},
          pr : PRs \cup {Null}, head : Heads \cup {Null},
          set : Sets \cup {0}, state : Statuses \cup {Null}]
Rows  == [head : Heads \cup {Null}, state : Statuses \cup {Null}]

(* A tick under way has a set and a list; one that is not has no list; and  *)
(* without an entry in the map there is no task.                           *)
TasksSound ==
    /\ task \in Tasks /\ forced \in Tasks
    /\ task.busy => task.set # 0
    /\ forced.busy => forced.set # 0
    /\ ~task.busy => task.todo = <<>>
    /\ ~forced.busy => forced.todo = <<>>
    /\ ~slot => task = NoTask

(* A run with a set is in it from its start to its release, alone for its   *)
(* pull request.                                                           *)
RunSound(r) ==
    /\ r.pc = "none" => r = NoRun
    /\ r.pc # "none" => r.pr \in PRs /\ r.head \in Heads
    /\ r.pc = "release" => r.set # 0
RunsSound ==
    /\ \A w \in Workers : RunSound(run[w])
    /\ \A w \in Workers : run[w].set # 0 => run[w].pr \in inFlight[run[w].set]
    /\ \A w, v \in Workers :
          run[w].set # 0 /\ run[w].set = run[v].set /\ run[w].pr = run[v].pr => w = v

Open(w) == run[w].pc \notin {"none", "release"}      \* no receipt yet

(* As long as the watcher is left to itself there is one set in use, and a  *)
(* run is about a head without a receipt.                                  *)
Alone ==
    /\ forced = NoTask
    /\ used # 0 /\ task.set \in {0, used}
    /\ \A w \in Workers : run[w].pc # "none" => run[w].set = used
    /\ ~slot => \A w \in Workers : run[w].pc = "none"
    /\ \A w \in Workers : Open(w) => run[w].head # latest[run[w].pr].head

(* The entries of a tick's list and the heads of runs have been heads. *)
Listing ==
    /\ \A p \in PRs : arrived[p][head[p]] # 0
    /\ \A i \in DOMAIN task.todo : arrived[task.todo[i][1]][task.todo[i][2]] # 0
    /\ \A i \in DOMAIN forced.todo : arrived[forced.todo[i][1]][forced.todo[i][2]] # 0
    /\ \A w \in Workers : run[w].pc # "none" => arrived[run[w].pr][run[w].head] # 0
    /\ \A i, j \in DOMAIN task.todo :
          task.todo[i][1] = task.todo[j][1] => task.todo[i][2] = task.todo[j][2]

(* The status of a run that is about to be recorded is the one shown, and  *)
(* so is that of the newest receipt.                                       *)
Posted ==
    \A w \in Workers :
        run[w].pc = "record" /\ run[w].state # Null /\ Sole(run[w].pr, run[w].head)
            => shown[run[w].head] = run[w].state

Shown ==
    \A p \in PRs :
        latest[p].state # Null =>
            /\ latest[p].head \in Heads
            /\ Sole(p, latest[p].head) => shown[latest[p].head] = latest[p].state

(* The way from the newest receipt of a pull request to its head: the run   *)
(* under way (x), the entry of the tick's list (y).  Each change of head on *)
(* this way that ends in h is one more receipt for h to come, at most.     *)
RunHead(p, x) ==
    \/ \E w \in Running(p) : x = run[w].head
    \/ Running(p) = {} /\ x = latest[p].head
TodoHead(p, x, y) ==
    \/ \E i \in DOMAIN task.todo : task.todo[i][1] = p /\ task.todo[i][2] = y
    \/ (\A i \in DOMAIN task.todo : task.todo[i][1] # p) /\ y = x
Turn(a, b, h) == IF b = h /\ a # h THEN 1 ELSE 0
Due(p, h, x, y) ==
    receipts[p][h] + Turn(latest[p].head, x, h) + Turn(x, y, h) + Turn(y, head[p], h)
Once ==
    \A p \in PRs, h \in Heads, x, y \in Heads \cup {Null} :
        RunHead(p, x) /\ TodoHead(p, x, y) => Due(p, h, x, y) <= arrived[p][h]

Inv ==
    /\ TypeOK /\ TasksSound /\ RunsSound /\ Listing
    /\ ~byHand => Alone /\ Posted /\ Shown /\ Once

-----------------------------------------------------------------------------
(***************************************************************************)
(* The lists of a tick, and the runs it detaches.                          *)
(***************************************************************************)

\* A tick's list pairs pull requests with their heads, MAX_PRS_PER_TICK of
\* them at most.
LEMMA ListedSound ==
    ASSUME head \in [PRs -> Heads]
    PROVE  /\ Listed \in Seq(PRs \X Heads) /\ Len(Listed) <= MaxPerTick
           /\ \A i \in DOMAIN Listed : Listed[i][1] \in PRs /\ Listed[i][2] = head[Listed[i][1]]
<1> DEFINE n == IF Len(Order) < MaxPerTick THEN Len(Order) ELSE MaxPerTick
<1>1. Order \in Seq(PRs) /\ Len(Order) \in Nat /\ MaxPerTick \in Nat
  BY WatcherAssumption
<1>2. n \in Nat /\ n <= Len(Order) /\ n <= MaxPerTick
  BY <1>1
<1>3. Listed = [i \in 1..n |-> <<Order[i], head[Order[i]]>>]
  BY DEF Listed
<1> HIDE DEF n
<1>4. \A i \in 1..n : Order[i] \in PRs
  BY <1>1, <1>2
<1>5. Listed \in [1..n -> PRs \X Heads]
  BY <1>3, <1>4
<1>6. Listed \in Seq(PRs \X Heads) /\ Len(Listed) = n
  BY <1>2, <1>5
<1> QED
  BY <1>2, <1>3, <1>4, <1>6

\* What the first entry of a list is, and what is left of it.
LEMMA TodoParts ==
    ASSUME NEW s \in Seq(PRs \X Heads), s # <<>>
    PROVE  /\ Head(s) \in PRs \X Heads /\ Head(s) = s[1] /\ 1 \in DOMAIN s
           /\ Head(s)[1] \in PRs /\ Head(s)[2] \in Heads
           /\ Tail(s) \in Seq(PRs \X Heads) /\ Len(Tail(s)) = Len(s) - 1
           /\ \A i \in DOMAIN Tail(s) : i + 1 \in DOMAIN s /\ Tail(s)[i] = s[i + 1]
<1>1. /\ Head(s) = s[1] /\ Tail(s) \in Seq(PRs \X Heads) /\ Len(Tail(s)) = Len(s) - 1
      /\ \A i \in 1..Len(Tail(s)) : Tail(s)[i] = s[i + 1]
  BY HeadTailProperties
<1>2. Len(s) \in Nat \ {0} /\ DOMAIN s = 1..Len(s) /\ DOMAIN Tail(s) = 1..Len(Tail(s))
  BY <1>1
<1>3. s[1] \in PRs \X Heads
  BY <1>2
<1> QED
  BY <1>1, <1>2, <1>3

(* A run begins with the worker w. *)
Detached(w, p, h, s) ==
    /\ w \in Workers /\ run[w].pc = "none"
    /\ run' = [run EXCEPT ![w] = [pc |-> "pending", pr |-> p, head |-> h, set |-> s,
                                  state |-> Null]]

\* A detached run starts with an idle worker.
LEMMA DetachEffect ==
    ASSUME NEW p, NEW h, NEW s, Detach(p, h, s)
    PROVE  \E w \in Workers : Detached(w, p, h, s)
<1> DEFINE idle == {w \in Workers : run[w].pc = "none"}
           w == CHOOSE v \in idle : TRUE
<1>1. /\ idle # {}
      /\ run' = [run EXCEPT ![w] = [pc |-> "pending", pr |-> p, head |-> h, set |-> s,
                                    state |-> Null]]
  BY DEF Detach
<1>2. w \in idle
  BY <1>1
<1> HIDE DEF w
<1> QED
  BY <1>1, <1>2 DEF Detached

(* Considering a pull request: it is left alone, or a run begins. *)
Left(s, p, h) == UNCHANGED <<inFlight, run>> /\ (p \in inFlight[s] \/ latest[p].head = h)
Taken(s, p, h) ==
    /\ p \notin inFlight[s] /\ latest[p].head # h
    /\ inFlight' = [inFlight EXCEPT ![s] = @ \cup {p}]
    /\ \E w \in Workers : Detached(w, p, h, s)

\* A pull request in flight, or with a receipt for this head, is left alone.
LEMMA ConsiderEffect ==
    ASSUME NEW s, NEW p, NEW h, ConsiderOutcome(s, p, h)
    PROVE  Left(s, p, h) \/ Taken(s, p, h)
BY DetachEffect DEF ConsiderOutcome, Busy, RequiresRun, Left, Taken

-----------------------------------------------------------------------------
(***************************************************************************)
(* Types.                                                                  *)
(***************************************************************************)

\* The task, the forced poll and their lists.
LEMMA TasksStep ==
    ASSUME TypeOK, TasksSound, Next
    PROVE  /\ TasksSound'
           /\ Len(task'.todo) <= MaxPerTick /\ Len(forced'.todo) <= MaxPerTick
           /\ enabled' \in BOOLEAN /\ slot' \in BOOLEAN /\ up' \in BOOLEAN
           /\ used' \in Sets \cup {0}
<1> DEFINE TaskOK  == /\ task' \in Tasks /\ Len(task'.todo) <= MaxPerTick
                      /\ task'.busy => task'.set # 0
                      /\ ~task'.busy => task'.todo = <<>>
           ForcedOK == /\ forced' \in Tasks /\ Len(forced'.todo) <= MaxPerTick
                       /\ forced'.busy => forced'.set # 0
                       /\ ~forced'.busy => forced'.todo = <<>>
           FlagsOK == /\ enabled' \in BOOLEAN /\ slot' \in BOOLEAN /\ up' \in BOOLEAN
                      /\ used' \in Sets \cup {0}
           Goal == TaskOK /\ ForcedOK /\ FlagsOK /\ (~slot' => task' = NoTask)
<1> SUFFICES Goal
  BY DEF TasksSound
<1>0. /\ enabled \in BOOLEAN /\ slot \in BOOLEAN /\ up \in BOOLEAN /\ used \in Sets \cup {0}
      /\ task \in Tasks /\ forced \in Tasks /\ head \in [PRs -> Heads]
      /\ Len(task.todo) <= MaxPerTick /\ Len(forced.todo) <= MaxPerTick
      /\ task.set \in Sets \cup {0} /\ task.todo \in Seq(PRs \X Heads) /\ task.busy \in BOOLEAN
      /\ forced.set \in Sets \cup {0} /\ forced.todo \in Seq(PRs \X Heads)
      /\ forced.busy \in BOOLEAN
  BY DEF TypeOK, TasksSound, Tasks
<1>a. UNCHANGED task => TaskOK
  BY <1>0 DEF TasksSound
<1>b. UNCHANGED forced => ForcedOK
  BY <1>0 DEF TasksSound
<1>c. UNCHANGED <<enabled, slot, up, used>> => FlagsOK
  BY <1>0
<1>d. UNCHANGED <<slot, task>> => (~slot' => task' = NoTask)
  BY DEF TasksSound
<1>e. ASSUME NEW s \in Sets \cup {0}, task' = [NoTask EXCEPT !.set = s] PROVE TaskOK
  <2>1. task' = [set |-> s, todo |-> <<>>, busy |-> FALSE]
    BY <1>e DEF NoTask
  <2> QED
    BY <2>1, WatcherAssumption DEF Tasks
<1>f. task' = NoTask => TaskOK
  BY WatcherAssumption DEF Tasks, NoTask
<1>g. forced' = NoTask => ForcedOK
  BY WatcherAssumption DEF Tasks, NoTask
<1>h. ASSUME slot => task # NoTask \/ task = NoTask, UNCHANGED slot, task.busy \/ task.set # 0,
             NEW t, task' = t
      PROVE  ~slot' => task' = NoTask
  BY <1>h, <1>0 DEF TasksSound, NoTask
<1>1. CASE BeginTick
  <2>1. CASE enabled
    <3>1. task' = [task EXCEPT !.busy = TRUE, !.todo = Listed] /\ task.set # 0 /\ UNCHANGED slot
      BY <1>1, <2>1 DEF BeginTick
    <3>2. Listed \in Seq(PRs \X Heads) /\ Len(Listed) <= MaxPerTick
      BY <1>0, ListedSound
    <3>3. task'.busy = TRUE /\ task'.todo = Listed /\ task'.set = task.set /\ task' \in Tasks
      BY <1>0, <3>1, <3>2 DEF Tasks
    <3>4. TaskOK
      BY <3>1, <3>2, <3>3
    <3> HIDE DEF TaskOK, ForcedOK, FlagsOK
    <3> QED
      BY <1>1, <1>b, <1>c, <1>h, <3>1, <3>4 DEF BeginTick, world
  <2>2. CASE ~enabled
    <3> HIDE DEF TaskOK, ForcedOK, FlagsOK
    <3> QED
      BY <1>1, <2>2, <1>f, <1>b, <1>c DEF BeginTick, world
  <2> QED
    BY <2>1, <2>2
<1>2. CASE TickConsiders
  <2>1. task' = [task EXCEPT !.todo = Tail(@)] /\ task.busy /\ task.todo # <<>> /\ UNCHANGED slot
    BY <1>2 DEF TickConsiders
  <2>2. Tail(task.todo) \in Seq(PRs \X Heads) /\ Len(Tail(task.todo)) = Len(task.todo) - 1
    BY <1>0, <2>1, TodoParts
  <2>3. task'.busy = task.busy /\ task'.todo = Tail(task.todo) /\ task'.set = task.set /\ task' \in Tasks
    BY <1>0, <2>1, <2>2 DEF Tasks
  <2>4. Len(Tail(task.todo)) <= MaxPerTick
    BY <1>0, <2>2, WatcherAssumption
  <2>5. TaskOK
    BY <2>1, <2>3, <2>4 DEF TasksSound
  <2> HIDE DEF TaskOK, ForcedOK, FlagsOK
  <2> QED
    BY <1>2, <1>b, <1>c, <1>h, <2>1, <2>5 DEF TickConsiders, world
<1>3. CASE EndTick
  <2>1. task' = [task EXCEPT !.busy = FALSE] /\ task.busy /\ task.todo = <<>> /\ UNCHANGED slot
    BY <1>3 DEF EndTick
  <2>2. task'.busy = FALSE /\ task'.todo = <<>> /\ task' \in Tasks
    BY <1>0, <2>1 DEF Tasks
  <2>3. TaskOK
    BY <1>0, <2>1, <2>2
  <2> HIDE DEF TaskOK, ForcedOK, FlagsOK
  <2> QED
    BY <1>3, <1>b, <1>c, <1>h, <2>1, <2>3 DEF EndTick, world
<1>4. CASE DbErrorInTick \/ ListError
  <2>1. task' = [task EXCEPT !.busy = FALSE, !.todo = <<>>] /\ task.busy /\ UNCHANGED slot
    BY <1>4 DEF DbErrorInTick, ListError
  <2>2. task'.busy = FALSE /\ task'.todo = <<>> /\ task' \in Tasks
    <3>1. <<>> \in Seq(PRs \X Heads)
      OBVIOUS
    <3> QED
      BY <1>0, <2>1, <3>1, Zenon DEF Tasks
  <2>3. TaskOK
    BY <1>0, <2>1, <2>2, WatcherAssumption
  <2> HIDE DEF TaskOK, ForcedOK, FlagsOK
  <2> QED
    BY <1>4, <1>b, <1>c, <1>h, <2>1, <2>3 DEF DbErrorInTick, ListError
<1>5. CASE ForcedConsiders
  <2>1. /\ forced' = [forced EXCEPT !.todo = Tail(@), !.busy = Len(forced.todo) > 1]
        /\ forced.busy /\ forced.todo # <<>>
    BY <1>5 DEF ForcedConsiders
  <2>2. Tail(forced.todo) \in Seq(PRs \X Heads) /\ Len(Tail(forced.todo)) = Len(forced.todo) - 1
    BY <1>0, <2>1, TodoParts
  <2>3. forced'.busy = (Len(forced.todo) > 1) /\ forced'.todo = Tail(forced.todo)
        /\ forced'.set = forced.set /\ forced' \in Tasks
    <3> DEFINE b == Len(forced.todo) > 1
    <3>1. b \in BOOLEAN
      OBVIOUS
    <3>2. forced' = [forced EXCEPT !.todo = Tail(@), !.busy = b]
      BY <2>1
    <3> HIDE DEF b
    <3>3. forced'.busy = b /\ forced'.todo = Tail(forced.todo) /\ forced'.set = forced.set
      BY <1>0, <3>2 DEF Tasks
    <3>4. forced' \in Tasks
      BY <1>0, <2>2, <3>1, <3>2, Zenon DEF Tasks
    <3> QED
      BY <3>3, <3>4 DEF b
  <2>4. Len(Tail(forced.todo)) <= MaxPerTick
    BY <1>0, <2>2, WatcherAssumption
  <2>5. ~(Len(forced.todo) > 1) => Tail(forced.todo) = <<>>
    <3>1. Len(forced.todo) \in Nat \ {0}
      BY <1>0, <2>1
    <3> QED
      BY <2>2, <3>1
  <2>6. ForcedOK
    BY <2>1, <2>3, <2>4, <2>5 DEF TasksSound
  <2> HIDE DEF TaskOK, ForcedOK, FlagsOK
  <2> QED
    BY <1>5, <1>a, <1>c, <1>d, <2>6 DEF ForcedConsiders, world
<1>6. CASE BeginForcedPoll
  <2>1. /\ forced' = [set |-> FreshSet, todo |-> Listed, busy |-> Listed # <<>>]
        /\ FreshSet \in Sets /\ used' = FreshSet
        /\ UNCHANGED <<enabled, slot, task, up>>
    BY <1>6 DEF BeginForcedPoll
  <2>2. Listed \in Seq(PRs \X Heads) /\ Len(Listed) <= MaxPerTick
    BY <1>0, ListedSound
  <2> HIDE DEF FreshSet
  <2>3. FreshSet # 0
    BY <2>1, WatcherAssumption
  <2>4. forced'.busy = (Listed # <<>>) /\ forced'.todo = Listed /\ forced'.set = FreshSet
        /\ forced' \in Tasks
    BY <2>1, <2>2 DEF Tasks
  <2>5. ForcedOK
    BY <2>2, <2>3, <2>4
  <2>6. FlagsOK
    BY <1>0, <2>1
  <2> HIDE DEF TaskOK, ForcedOK, FlagsOK
  <2> QED
    BY <1>a, <1>d, <2>1, <2>5, <2>6
\* A start finds a slot taken, or takes it for a new task.
<1>i. ASSUME Spawn
      PROVE  /\ TaskOK /\ slot' \in BOOLEAN /\ used' \in Sets \cup {0}
             /\ ~slot' => task' = NoTask
  <2>1. CASE slot
    BY <1>0, <1>a, <1>i, <2>1 DEF Spawn, TasksSound
  <2>2. CASE ~slot
    <3>1. FreshSet \in Sets /\ slot' = TRUE /\ used' = FreshSet /\ task' = [NoTask EXCEPT !.set = FreshSet]
      BY <1>i, <2>2 DEF Spawn
    <3> HIDE DEF TaskOK
    <3> QED
      BY <1>e, <3>1
  <2> QED
    BY <2>1, <2>2
<1>7. CASE Start
  <2>1. enabled' = TRUE /\ Spawn /\ UNCHANGED <<forced, up>>
    BY <1>7 DEF Start, world
  <2> HIDE DEF TaskOK, ForcedOK
  <2> QED
    BY <1>0, <1>b, <1>i, <2>1
<1>8. CASE Restart
  <2>1. up' = TRUE /\ (Spawn \/ UNCHANGED <<slot, task, used>>) /\ UNCHANGED <<enabled, forced>>
    BY <1>8 DEF Restart
  <2> HIDE DEF TaskOK, ForcedOK
  <2> QED
    BY <1>0, <1>a, <1>b, <1>d, <1>i, <2>1
<1>9. CASE Stop \/ HangListing \/ Crash
  <2>1. /\ task' = NoTask /\ (forced' = NoTask \/ UNCHANGED forced) /\ UNCHANGED used
        /\ enabled' \in BOOLEAN /\ slot' \in BOOLEAN /\ up' \in BOOLEAN
    BY <1>0, <1>9 DEF Stop, HangListing, Crash
  <2> HIDE DEF TaskOK, ForcedOK
  <2> QED
    BY <1>0, <1>b, <1>f, <1>g, <2>1
<1>10. CASE DisableHeadless \/ EnableHeadless
  <2>1. enabled' \in BOOLEAN /\ UNCHANGED <<slot, task, forced, used, up>>
    BY <1>10 DEF DisableHeadless, EnableHeadless, world
  <2> HIDE DEF TaskOK, ForcedOK
  <2> QED
    BY <1>0, <1>a, <1>b, <1>d, <2>1
<1>11. ASSUME \/ \E w \in Workers : Work(w) \/ RecordError(w) \/ Hang(w)
              \/ \E p \in PRs : HeadlessRun(p) \/ \E h \in Heads : Push(p, h)
       PROVE  Goal
  <2>1. UNCHANGED <<enabled, slot, task, forced, used, up>>
    BY <1>11 DEF Work, PostPending, Execute, PostVerdict, Record, Release, RecordError, Hang,
       HeadlessRun, Push, watcher, world
  <2> HIDE DEF TaskOK, ForcedOK, FlagsOK
  <2> QED
    BY <1>a, <1>b, <1>c, <1>d, <2>1
<1> HIDE DEF Goal
<1> QED
  BY <1>1, <1>2, <1>3, <1>4, <1>5, <1>6, <1>7, <1>8, <1>9, <1>10, <1>11 DEF Next, Tick

\* A worker that does nothing.
LEMMA NoRunSound == NoRun \in Runs /\ RunSound(NoRun) /\ NoRun.set = 0 /\ NoRun.pc = "none"
BY DEF NoRun, Runs, RunSound

\* The runs and the in-flight sets: a run takes its place in the set that had
\* none for its pull request, and gives it back when it is gone.
LEMMA RunsStep ==
    ASSUME TypeOK, TasksSound, RunsSound, Next
    PROVE  run' \in [Workers -> Runs] /\ inFlight' \in [Sets -> SUBSET PRs] /\ RunsSound'
<1> DEFINE Goal == run' \in [Workers -> Runs] /\ inFlight' \in [Sets -> SUBSET PRs] /\ RunsSound'
<1> SUFFICES Goal
  OBVIOUS
<1>0. /\ run \in [Workers -> Runs] /\ inFlight \in [Sets -> SUBSET PRs] /\ head \in [PRs -> Heads]
      /\ \A w \in Workers : RunSound(run[w])
      /\ \A w \in Workers : run[w].set # 0 => run[w].pr \in inFlight[run[w].set]
      /\ \A w, v \in Workers :
            run[w].set # 0 /\ run[w].set = run[v].set /\ run[w].pr = run[v].pr => w = v
  BY DEF TypeOK, RunsSound, Runs
<1>1. \A w \in Workers : run[w].set \in Sets \cup {0}
  BY <1>0 DEF Runs
<1>a. UNCHANGED <<run, inFlight>> => Goal
  BY <1>0 DEF RunsSound
<1>b. ASSUME NEW w \in Workers, NEW r \in Runs, RunSound(r),
             r.pr = run[w].pr, r.set = run[w].set,
             run' = [run EXCEPT ![w] = r], UNCHANGED inFlight
      PROVE  Goal
  <2>1. run' \in [Workers -> Runs] /\ \A v \in Workers : RunSound(run'[v])
    BY <1>0, <1>b
  <2>2. \A v \in Workers : run'[v].set = run[v].set /\ run'[v].pr = run[v].pr
    BY <1>0, <1>b
  <2>3. \A v \in Workers : run'[v].set # 0 => run'[v].pr \in inFlight'[run'[v].set]
    BY <1>0, <1>b, <2>2
  <2>4. \A v, u \in Workers :
            run'[v].set # 0 /\ run'[v].set = run'[u].set /\ run'[v].pr = run'[u].pr => v = u
    BY <1>0, <2>2
  <2> QED
    BY <1>0, <1>b, <2>1, <2>3, <2>4 DEF RunsSound
<1>c. ASSUME NEW w \in Workers, run' = [run EXCEPT ![w] = NoRun],
             \/ run[w].set = 0 /\ UNCHANGED inFlight
             \/ run[w].set # 0 /\ inFlight' = [inFlight EXCEPT ![run[w].set] = @ \ {run[w].pr}]
      PROVE  Goal
  <2>1. run' \in [Workers -> Runs] /\ \A v \in Workers : RunSound(run'[v])
    BY <1>0, <1>c, NoRunSound
  <2>2. inFlight' \in [Sets -> SUBSET PRs]
    BY <1>0, <1>c
  <2>3. ASSUME NEW v \in Workers, run'[v].set # 0
        PROVE  v # w /\ run'[v] = run[v] /\ run[v].pr \in inFlight'[run[v].set]
    <3>1. v # w /\ run'[v] = run[v]
      BY <1>0, <1>c, <2>3, NoRunSound
    <3>2. run[v].pr \in inFlight[run[v].set] /\ run[v].set \in Sets
      BY <1>0, <1>1, <2>3, <3>1
    <3>3. ~(run[v].set = run[w].set /\ run[v].pr = run[w].pr)
      BY <1>0, <2>3, <3>1
    <3> QED
      BY <1>0, <1>c, <3>1, <3>2, <3>3
  <2>4. ASSUME NEW v \in Workers, NEW u \in Workers, run'[v].set # 0,
               run'[v].set = run'[u].set, run'[v].pr = run'[u].pr
        PROVE  v = u
    BY <1>0, <2>3, <2>4
  <2> QED
    BY <2>1, <2>2, <2>3, <2>4 DEF RunsSound
<1>d. ASSUME NEW w \in Workers, NEW p \in PRs, NEW h \in Heads, NEW s \in Sets \cup {0},
             Detached(w, p, h, s),
             \/ s = 0 /\ UNCHANGED inFlight
             \/ s # 0 /\ p \notin inFlight[s] /\ inFlight' = [inFlight EXCEPT ![s] = @ \cup {p}]
      PROVE  Goal
  <2> DEFINE r == [pc |-> "pending", pr |-> p, head |-> h, set |-> s, state |-> Null]
  <2>1. r \in Runs /\ RunSound(r) /\ r.set = s /\ r.pr = p
    BY DEF Runs, RunSound
  <2>2. run' = [run EXCEPT ![w] = r] /\ run[w].pc = "none"
    BY <1>d DEF Detached
  <2>0. run'[w] = r /\ \A v \in Workers : v # w => run'[v] = run[v]
    BY <1>0, <2>2
  <2> HIDE DEF r
  <2>3. run' \in [Workers -> Runs] /\ \A v \in Workers : RunSound(run'[v])
    BY <1>0, <2>0, <2>1, <2>2
  <2>4. inFlight' \in [Sets -> SUBSET PRs] /\ \A t \in Sets : inFlight[t] \subseteq inFlight'[t]
    BY <1>0, <1>d
  <2>5. s # 0 => p \in inFlight'[s]
    BY <1>0, <1>d
  <2>6. ASSUME NEW v \in Workers, run'[v].set # 0 PROVE run'[v].pr \in inFlight'[run'[v].set]
    <3>1. CASE v = w
      BY <2>0, <2>1, <2>5, <2>6, <3>1
    <3>2. CASE v # w
      BY <1>0, <1>1, <2>0, <2>4, <2>6, <3>2
    <3> QED
      BY <3>1, <3>2
  <2>7. ASSUME NEW v \in Workers, v # w, run[v].set = s, s # 0 PROVE run[v].pr # p
    BY <1>0, <1>d, <2>7
  <2>8. ASSUME NEW v \in Workers, NEW u \in Workers, run'[v].set # 0,
               run'[v].set = run'[u].set, run'[v].pr = run'[u].pr
        PROVE  v = u
    <3>1. CASE v = w
      BY <2>0, <2>1, <2>7, <2>8, <3>1
    <3>2. CASE u = w
      BY <2>0, <2>1, <2>7, <2>8, <3>2
    <3>3. CASE v # w /\ u # w
      BY <1>0, <2>0, <2>8, <3>3
    <3> QED
      BY <3>1, <3>2, <3>3
  <2> QED
    BY <2>3, <2>4, <2>6, <2>8 DEF RunsSound
<1>2. ASSUME NEW s \in Sets, NEW p \in PRs, NEW h \in Heads, ConsiderOutcome(s, p, h)
      PROVE  Goal
  <2>1. Left(s, p, h) \/ Taken(s, p, h)
    BY <1>2, ConsiderEffect
  <2>2. s # 0
    BY WatcherAssumption
  <2> HIDE DEF Goal
  <2> QED
    BY <1>a, <1>d, <2>1, <2>2 DEF Left, Taken
<1>3. CASE TickConsiders
  <2>1. task.busy /\ task.todo # <<>> /\ task.todo \in Seq(PRs \X Heads) /\ task.set \in Sets
    BY <1>3 DEF TickConsiders, TasksSound, Tasks
  <2>2. Head(task.todo)[1] \in PRs /\ Head(task.todo)[2] \in Heads
    BY <2>1, TodoParts
  <2> QED
    BY <1>2, <1>3, <2>1, <2>2 DEF TickConsiders
<1>4. CASE ForcedConsiders
  <2>1. forced.busy /\ forced.todo # <<>> /\ forced.todo \in Seq(PRs \X Heads) /\ forced.set \in Sets
    BY <1>4 DEF ForcedConsiders, TasksSound, Tasks
  <2>2. Head(forced.todo)[1] \in PRs /\ Head(forced.todo)[2] \in Heads
    BY <2>1, TodoParts
  <2> QED
    BY <1>2, <1>4, <2>1, <2>2 DEF ForcedConsiders
<1>5. ASSUME NEW p \in PRs, HeadlessRun(p) PROVE Goal
  <2>1. Detach(p, head[p], 0) /\ UNCHANGED inFlight /\ head[p] \in Heads
    BY <1>0, <1>5 DEF HeadlessRun, watcher
  <2> QED
    BY <1>d, <2>1, DetachEffect
<1>6. ASSUME NEW w \in Workers,
             PostPending(w) \/ Execute(w) \/ PostVerdict(w) \/ RecordError(w) \/ Hang(w)
      PROVE  Goal
  <2>1. UNCHANGED inFlight
    BY <1>6 DEF PostPending, Execute, PostVerdict, RecordError, Hang, watcher
  <2>2. /\ run[w].pc # "none" /\ run[w] \in Runs /\ run[w].pr \in PRs /\ run[w].head \in Heads
    BY <1>0, <1>6 DEF PostPending, Execute, PostVerdict, RecordError, Hang, RunSound
  <2>3. ASSUME NEW pc \in {"execute", "post", "record", "release", "hung"}, NEW s \in Statuses \cup {Null},
               pc = "release" => run[w].set # 0,
               run' = [run EXCEPT ![w] = [run[w] EXCEPT !.pc = pc, !.state = s]]
        PROVE  Goal
    <3> DEFINE r == [run[w] EXCEPT !.pc = pc, !.state = s]
    <3>1. r \in Runs
      BY <2>2 DEF Runs
    <3>2. r.pr = run[w].pr /\ r.set = run[w].set /\ r.pc = pc /\ r.head = run[w].head
      BY <2>2 DEF Runs
    <3> HIDE DEF r
    <3>3. RunSound(r)
      BY <2>2, <2>3, <3>2 DEF RunSound
    <3> QED
      BY <1>b, <2>1, <2>3, <3>1, <3>2, <3>3 DEF r
  <2>4. ASSUME NEW pc, run' = [run EXCEPT ![w] = [run[w] EXCEPT !.pc = pc]]
        PROVE  run' = [run EXCEPT ![w] = [run[w] EXCEPT !.pc = pc, !.state = run[w].state]]
    BY <2>2, <2>4 DEF Runs
  <2>5. run[w].state \in Statuses \cup {Null} /\ Outcomes \subseteq Statuses
    BY <2>2, WatcherAssumption DEF Runs, Statuses
  <2>6. CASE PostPending(w)
    BY <2>3, <2>4, <2>5, <2>6 DEF PostPending, SetRun
  <2>7. CASE Execute(w)
    BY <2>3, <2>5, <2>7 DEF Execute, SetRun
  <2>8. CASE PostVerdict(w)
    BY <2>3, <2>4, <2>5, <2>8 DEF PostVerdict, SetRun
  <2>9. CASE RecordError(w)
    BY <2>3, <2>4, <2>5, <2>9 DEF RecordError, SetRun
  <2>10. CASE Hang(w)
    BY <2>3, <2>4, <2>5, <2>10 DEF Hang, SetRun
  <2> QED
    BY <1>6, <2>6, <2>7, <2>8, <2>9, <2>10
<1>7. ASSUME NEW w \in Workers, Record(w) PROVE Goal
  <2>1. UNCHANGED inFlight /\ run[w].pc = "record" /\ run[w] \in Runs
    BY <1>0, <1>7 DEF Record, watcher
  <2>2. CASE run[w].set = 0
    BY <1>7, <1>c, <2>1, <2>2 DEF Record, SetRun
  <2>3. CASE run[w].set # 0
    <3> DEFINE r == [run[w] EXCEPT !.pc = "release"]
    <3>1. r \in Runs
      BY <2>1 DEF Runs
    <3>2. r.pr = run[w].pr /\ r.set = run[w].set /\ r.pc = "release" /\ r.head = run[w].head
      BY <2>1 DEF Runs
    <3>3. run' = [run EXCEPT ![w] = r]
      BY <1>7, <2>3 DEF Record, SetRun
    <3> HIDE DEF r
    <3>4. RunSound(r)
      BY <1>0, <2>1, <2>3, <3>2 DEF RunSound
    <3> QED
      BY <1>b, <2>1, <3>1, <3>2, <3>3, <3>4
  <2> QED
    BY <2>2, <2>3
<1>8. ASSUME NEW w \in Workers, Release(w) PROVE Goal
  BY <1>0, <1>8, <1>c DEF Release, SetRun, RunSound
<1>9. CASE DbErrorInTick
  <2>1. task.busy /\ task.todo # <<>> /\ task.todo \in Seq(PRs \X Heads) /\ task.set \in Sets
    BY <1>9 DEF DbErrorInTick, TasksSound, Tasks
  <2>2. Head(task.todo)[1] \in PRs
    BY <2>1, TodoParts
  <2>3. inFlight' = [inFlight EXCEPT ![task.set] = @ \cup {Head(task.todo)[1]}] /\ UNCHANGED run
    BY <1>9 DEF DbErrorInTick
  <2>4. inFlight' \in [Sets -> SUBSET PRs] /\ \A t \in Sets : inFlight[t] \subseteq inFlight'[t]
    BY <1>0, <2>1, <2>2, <2>3
  <2> QED
    BY <1>0, <1>1, <2>3, <2>4 DEF RunsSound
<1>10. CASE Crash
  <2>1. /\ run' = [w \in Workers |-> IF run[w].set = 0 THEN run[w] ELSE NoRun]
        /\ inFlight' = [s \in Sets |-> {}]
    BY <1>10 DEF Crash
  <2>2. \A w \in Workers : run'[w].set = 0 /\ run'[w] \in Runs /\ RunSound(run'[w])
    BY <1>0, <2>1, NoRunSound
  <2>3. run' \in [Workers -> Runs] /\ inFlight' \in [Sets -> SUBSET PRs]
    BY <2>1, <2>2
  <2> QED
    BY <2>2, <2>3 DEF RunsSound
<1>11. ASSUME \/ BeginTick \/ EndTick \/ Start \/ Stop \/ DisableHeadless \/ EnableHeadless
              \/ BeginForcedPoll \/ ListError \/ HangListing \/ Restart
              \/ \E p \in PRs, h \in Heads : Push(p, h)
       PROVE  UNCHANGED <<run, inFlight>>
  BY <1>11 DEF BeginTick, EndTick, Start, Stop, DisableHeadless, EnableHeadless, BeginForcedPoll,
     ListError, HangListing, Restart, Push, watcher
<1> HIDE DEF Goal
<1> QED
  BY <1>a, <1>3, <1>4, <1>5, <1>6, <1>7, <1>8, <1>9, <1>10, <1>11 DEF Next, Tick, Work

\* The receipts, the statuses, the heads and the counters.
LEMMA RecordsStep ==
    ASSUME TypeOK, RunsSound, Next
    PROVE  /\ latest' \in [PRs -> Rows] /\ shown' \in [Heads -> Statuses \cup {Null}]
           /\ receipts' \in [PRs -> [Heads -> Nat]] /\ arrived' \in [PRs -> [Heads -> Nat]]
           /\ head' \in [PRs -> Heads] /\ byHand' \in BOOLEAN
           /\ pushes' \in 0..MaxPushes /\ mishaps' \in 0..MaxMishaps
<1> DEFINE World == /\ head' \in [PRs -> Heads] /\ byHand' \in BOOLEAN
                    /\ pushes' \in 0..MaxPushes /\ mishaps' \in 0..MaxMishaps
                    /\ arrived' \in [PRs -> [Heads -> Nat]]
           Told  == /\ latest' \in [PRs -> Rows] /\ shown' \in [Heads -> Statuses \cup {Null}]
                    /\ receipts' \in [PRs -> [Heads -> Nat]]
<1> SUFFICES World /\ Told
  OBVIOUS
<1>0. /\ run \in [Workers -> Runs] /\ head \in [PRs -> Heads] /\ byHand \in BOOLEAN
      /\ pushes \in 0..MaxPushes /\ mishaps \in 0..MaxMishaps
      /\ arrived \in [PRs -> [Heads -> Nat]] /\ receipts \in [PRs -> [Heads -> Nat]]
      /\ latest \in [PRs -> Rows] /\ shown \in [Heads -> Statuses \cup {Null}]
      /\ MaxPushes \in Nat /\ MaxMishaps \in Nat
  BY WatcherAssumption DEF TypeOK, Rows, Runs
<1>1. \A w \in Workers : RunSound(run[w])
  BY DEF RunsSound
<1>a. UNCHANGED world \/ UNCHANGED <<head, pushes, mishaps, byHand, arrived>> => World
  BY <1>0 DEF world
<1>b. UNCHANGED <<latest, shown, receipts>> => Told
  BY <1>0
<1>c. ASSUME NEW kind, Mishap(kind) PROVE World
  BY <1>0, <1>c DEF Mishap
<1>2. ASSUME NEW w \in Workers, PostPending(w) \/ PostVerdict(w) PROVE World /\ Told
  <2>1. UNCHANGED world /\ UNCHANGED <<latest, receipts>>
    BY <1>2 DEF PostPending, PostVerdict
  <2>2. run[w].head \in Heads /\ run[w].state \in Statuses \cup {Null}
    BY <1>0, <1>1, <1>2 DEF PostPending, PostVerdict, RunSound, Runs
  <2>3. \/ UNCHANGED shown
        \/ \E s \in Statuses \cup {Null} : shown' = [shown EXCEPT ![run[w].head] = s]
    BY <1>2, <2>2 DEF PostPending, PostVerdict, Statuses
  <2>4. Told
    BY <1>0, <2>1, <2>2, <2>3
  <2> QED
    BY <1>a, <2>1, <2>4
<1>3. ASSUME NEW w \in Workers, Record(w) PROVE World /\ Told
  <2>1. /\ UNCHANGED world /\ UNCHANGED shown
        /\ latest' = [latest EXCEPT ![run[w].pr] = [head |-> run[w].head, state |-> run[w].state]]
        /\ receipts' = [receipts EXCEPT ![run[w].pr][run[w].head] = @ + 1]
        /\ run[w].pc = "record"
    BY <1>3 DEF Record
  <2>2. /\ run[w].pr \in PRs /\ run[w].head \in Heads
        /\ [head |-> run[w].head, state |-> run[w].state] \in Rows
    BY <1>0, <1>1, <2>1 DEF RunSound, Runs, Rows
  <2>3. latest' \in [PRs -> Rows]
    BY <1>0, <2>1, <2>2
  <2>4. receipts' \in [PRs -> [Heads -> Nat]]
    BY <1>0, <2>1, <2>2
  <2> QED
    BY <1>0, <1>a, <2>1, <2>3, <2>4
<1>4. ASSUME NEW p \in PRs, NEW h \in Heads, Push(p, h) PROVE World /\ Told
  <2>1. UNCHANGED records /\ UNCHANGED <<mishaps, byHand>>
    BY <1>4 DEF Push
  <2>2. pushes' = pushes + 1 /\ pushes < MaxPushes
    BY <1>4 DEF Push
  <2>3. head' = [head EXCEPT ![p] = h] /\ arrived' = [arrived EXCEPT ![p][h] = @ + 1]
    BY <1>4 DEF Push
  <2>4. pushes' \in 0..MaxPushes
    BY <1>0, <2>2
  <2>5. head' \in [PRs -> Heads]
    BY <1>0, <2>3
  <2>6. arrived' \in [PRs -> [Heads -> Nat]]
    BY <1>0, <2>3
  <2> QED
    BY <1>0, <1>b, <2>1, <2>4, <2>5, <2>6 DEF records
<1>5. ASSUME \/ Tick \/ ForcedConsiders \/ Start \/ EnableHeadless \/ Restart
             \/ \E w \in Workers : Execute(w) \/ Release(w)
      PROVE  World /\ Told
  <2>1. UNCHANGED records /\ (UNCHANGED world \/ UNCHANGED <<head, pushes, mishaps, byHand, arrived>>)
    BY <1>5 DEF Tick, BeginTick, TickConsiders, EndTick, ForcedConsiders, Start, EnableHeadless,
       Restart, Execute, Release
  <2> QED
    BY <1>a, <1>b, <2>1 DEF records
<1>6. ASSUME \/ Stop \/ DisableHeadless \/ BeginForcedPoll \/ DbErrorInTick \/ ListError
             \/ HangListing \/ Crash
             \/ \E w \in Workers : RecordError(w) \/ Hang(w)
             \/ \E p \in PRs : HeadlessRun(p)
      PROVE  World /\ Told
  <2>1. UNCHANGED records /\ \E kind : Mishap(kind)
    BY <1>6 DEF Stop, DisableHeadless, BeginForcedPoll, DbErrorInTick, ListError, HangListing,
       Crash, RecordError, Hang, HeadlessRun
  <2> QED
    BY <1>b, <1>c, <2>1 DEF records
<1> HIDE DEF World, Told
<1> QED
  BY <1>2, <1>3, <1>4, <1>5, <1>6 DEF Next, Work

\* Every step keeps every column to its values.
LEMMA TypeStep ==
    ASSUME TypeOK, TasksSound, RunsSound, Next
    PROVE  TypeOK' /\ TasksSound' /\ RunsSound'
<1>1. /\ TasksSound'
      /\ Len(task'.todo) <= MaxPerTick /\ Len(forced'.todo) <= MaxPerTick
      /\ enabled' \in BOOLEAN /\ slot' \in BOOLEAN /\ up' \in BOOLEAN
      /\ used' \in Sets \cup {0}
  BY TasksStep
<1>2. run' \in [Workers -> Runs] /\ inFlight' \in [Sets -> SUBSET PRs] /\ RunsSound'
  BY RunsStep
<1>3. /\ latest' \in [PRs -> Rows] /\ shown' \in [Heads -> Statuses \cup {Null}]
      /\ receipts' \in [PRs -> [Heads -> Nat]] /\ arrived' \in [PRs -> [Heads -> Nat]]
      /\ head' \in [PRs -> Heads] /\ byHand' \in BOOLEAN
      /\ pushes' \in 0..MaxPushes /\ mishaps' \in 0..MaxMishaps
  BY RecordsStep
<1>4. \A t \in {task', forced'} :
          /\ t.set \in Sets \cup {0} /\ t.busy \in BOOLEAN
          /\ t.todo \in Seq(PRs \X Heads) /\ Len(t.todo) <= MaxPerTick
  <2>1. task' \in Tasks /\ forced' \in Tasks
    BY <1>1 DEF TasksSound
  <2> QED
    BY <1>1, <2>1 DEF Tasks
<1>5. TypeOK'
  BY <1>1, <1>2, <1>3, <1>4, Zenon DEF TypeOK, Runs, Rows
<1> QED
  BY <1>1, <1>2, <1>5

-----------------------------------------------------------------------------
(***************************************************************************)
(* What a step does to the runs, the lists and the receipts.               *)
(***************************************************************************)
Typed == TypeOK /\ TasksSound /\ RunsSound

\* The parts that the following proofs use.
LEMMA TypedParts ==
    ASSUME Typed
    PROVE  /\ run \in [Workers -> Runs] /\ \A w \in Workers : RunSound(run[w])
           /\ task \in Tasks /\ forced \in Tasks
           /\ task.todo \in Seq(PRs \X Heads) /\ forced.todo \in Seq(PRs \X Heads)
           /\ head \in [PRs -> Heads] /\ latest \in [PRs -> Rows]
           /\ arrived \in [PRs -> [Heads -> Nat]] /\ receipts \in [PRs -> [Heads -> Nat]]
           /\ shown \in [Heads -> Statuses \cup {Null}]
BY DEF Typed, TypeOK, TasksSound, RunsSound, Tasks, Runs, Rows

(* The run of w goes on, or ends. *)
GoesOn(w) ==
    /\ run[w].pc # "none"
    /\ run'[w].pr = run[w].pr /\ run'[w].head = run[w].head /\ run'[w].set = run[w].set
    /\ run'[w].pc \notin {"none", "release"} => Open(w)

\* Where a run comes from.
LEMMA RunOrigin ==
    ASSUME Typed, Next, NEW w \in Workers, run'[w].pc # "none"
    PROVE  \/ GoesOn(w)
           \/ /\ TickConsiders
              /\ Taken(task.set, Head(task.todo)[1], Head(task.todo)[2])
              /\ run'[w] = [pc |-> "pending", pr |-> Head(task.todo)[1],
                            head |-> Head(task.todo)[2], set |-> task.set, state |-> Null]
           \/ /\ ForcedConsiders
              /\ run'[w].pr = Head(forced.todo)[1] /\ run'[w].head = Head(forced.todo)[2]
           \/ \E p \in PRs : HeadlessRun(p) /\ run'[w].pr = p /\ run'[w].head = head[p]
<1> DEFINE Goal ==
           \/ GoesOn(w)
           \/ /\ TickConsiders
              /\ Taken(task.set, Head(task.todo)[1], Head(task.todo)[2])
              /\ run'[w] = [pc |-> "pending", pr |-> Head(task.todo)[1],
                            head |-> Head(task.todo)[2], set |-> task.set, state |-> Null]
           \/ /\ ForcedConsiders
              /\ run'[w].pr = Head(forced.todo)[1] /\ run'[w].head = Head(forced.todo)[2]
           \/ \E p \in PRs : HeadlessRun(p) /\ run'[w].pr = p /\ run'[w].head = head[p]
<1> SUFFICES Goal
  OBVIOUS
<1>0. run \in [Workers -> Runs] /\ RunSound(run[w])
  BY TypedParts
<1>a. run'[w] = run[w] => GoesOn(w)
  BY DEF GoesOn, Open
<1>b. ASSUME NEW p, NEW h, NEW s, NEW v \in Workers, Detached(v, p, h, s), ~GoesOn(w)
      PROVE  run'[w] = [pc |-> "pending", pr |-> p, head |-> h, set |-> s, state |-> Null]
  <2>1. v = w
    BY <1>0, <1>a, <1>b DEF Detached
  <2> QED
    BY <1>0, <1>b, <2>1 DEF Detached
<1>1. CASE TickConsiders
  <2> DEFINE p == Head(task.todo)[1]
             h == Head(task.todo)[2]
  <2>1. Left(task.set, p, h) \/ Taken(task.set, p, h)
    BY <1>1, ConsiderEffect DEF TickConsiders
  <2>2. CASE Left(task.set, p, h)
    BY <1>a, <2>2 DEF Left
  <2>3. CASE Taken(task.set, p, h)
    BY <1>1, <1>b, <2>3 DEF Taken
  <2> QED
    BY <2>1, <2>2, <2>3
<1>2. CASE ForcedConsiders
  <2> DEFINE p == Head(forced.todo)[1]
             h == Head(forced.todo)[2]
  <2>1. Left(forced.set, p, h) \/ Taken(forced.set, p, h)
    BY <1>2, ConsiderEffect DEF ForcedConsiders
  <2>2. CASE Left(forced.set, p, h)
    BY <1>a, <2>2 DEF Left
  <2>3. CASE Taken(forced.set, p, h)
    <3>1. GoesOn(w) \/ run'[w] = [pc |-> "pending", pr |-> p, head |-> h, set |-> forced.set,
                                  state |-> Null]
      BY <1>b, <2>3 DEF Taken
    <3>2. GoesOn(w) \/ (run'[w].pr = p /\ run'[w].head = h)
      BY <3>1
    <3> QED
      BY <1>2, <3>2
  <2> QED
    BY <2>1, <2>2, <2>3
<1>3. ASSUME NEW p \in PRs, HeadlessRun(p) PROVE Goal
  <2>1. PICK v \in Workers : Detached(v, p, head[p], 0)
    BY <1>3, DetachEffect DEF HeadlessRun
  <2>2. ~GoesOn(w) => run'[w].pr = p /\ run'[w].head = head[p]
    <3>1. ~GoesOn(w) => run'[w] = [pc |-> "pending", pr |-> p, head |-> head[p], set |-> 0,
                                   state |-> Null]
      BY <1>b, <2>1
    <3> QED
      BY <3>1
  <2> QED
    BY <1>3, <2>2
<1>4. ASSUME NEW v \in Workers, Work(v) \/ RecordError(v) \/ Hang(v) PROVE GoesOn(w)
  <2>1. CASE v # w
    <3>1. run'[w] = run[w]
      BY <1>0, <1>4, <2>1 DEF Work, PostPending, Execute, PostVerdict, Record, Release, RecordError,
         Hang, SetRun
    <3> QED
      BY <1>a, <3>1
  <2>2. CASE v = w
    <3>1. CASE Release(w)
      <4>1. run'[w] = NoRun
        BY <1>0, <3>1 DEF Release, SetRun
      <4> QED
        BY <4>1 DEF NoRun
    <3>2. CASE PostPending(w) \/ Execute(w) \/ PostVerdict(w) \/ Hang(w)
      <4>1. Open(w)
        BY <3>2 DEF PostPending, Execute, PostVerdict, Hang, Open
      <4>2. /\ run'[w].pr = run[w].pr /\ run'[w].head = run[w].head /\ run'[w].set = run[w].set
        <5>1. \/ \E pc : run' = [run EXCEPT ![w] = [run[w] EXCEPT !.pc = pc]]
              \/ \E pc, s : run' = [run EXCEPT ![w] = [run[w] EXCEPT !.pc = pc, !.state = s]]
          BY <3>2 DEF PostPending, Execute, PostVerdict, Hang, SetRun
        <5>2. \/ \E pc : run'[w] = [run[w] EXCEPT !.pc = pc]
              \/ \E pc, s : run'[w] = [run[w] EXCEPT !.pc = pc, !.state = s]
          BY <1>0, <5>1
        <5> QED
          BY <1>0, <5>2 DEF Runs
      <4> QED
        BY <4>1, <4>2 DEF GoesOn, Open
    <3>3. CASE RecordError(w)
      <4>1. run'[w] = [run[w] EXCEPT !.pc = "release"] /\ run[w].pc = "record"
        BY <1>0, <3>3 DEF RecordError, SetRun
      <4> QED
        BY <1>0, <4>1 DEF GoesOn, Open, Runs
    <3>4. CASE Record(w)
      <4>1. /\ run'[w] = NoRun \/ run'[w] = [run[w] EXCEPT !.pc = "release"]
            /\ run[w].pc = "record"
        BY <1>0, <3>4 DEF Record, SetRun
      <4>2. run'[w] # NoRun
        BY DEF NoRun
      <4> QED
        BY <1>0, <4>1, <4>2 DEF GoesOn, Open, Runs
    <3> QED
      BY <1>4, <2>2, <3>1, <3>2, <3>3, <3>4 DEF Work
  <2> QED
    BY <2>1, <2>2
<1>5. CASE Crash
  <2>1. run'[w] = run[w] \/ run'[w] = NoRun
    BY <1>5 DEF Crash
  <2> QED
    BY <1>a, <2>1 DEF NoRun
<1>6. ASSUME \/ BeginTick \/ EndTick \/ Start \/ Stop \/ DisableHeadless \/ EnableHeadless
             \/ BeginForcedPoll \/ ListError \/ HangListing \/ DbErrorInTick \/ Restart
             \/ \E p \in PRs, h \in Heads : Push(p, h)
      PROVE  UNCHANGED run
  BY <1>6 DEF BeginTick, EndTick, Start, Stop, DisableHeadless, EnableHeadless, BeginForcedPoll,
     ListError, HangListing, DbErrorInTick, Restart, Push
<1>7. UNCHANGED run => GoesOn(w)
  BY <1>a
<1> HIDE DEF Goal
<1>8. GoesOn(w) => Goal
  BY DEF Goal
<1> QED
  BY <1>1, <1>2, <1>3, <1>4, <1>5, <1>6, <1>7, <1>8 DEF Next, Tick

\* A list stays, loses its first entry, is dropped, or is what gh lists.
LEMMA TodoEffect ==
    ASSUME Typed, Next
    PROVE  /\ \/ task'.todo \in {task.todo, <<>>}
              \/ task.todo # <<>> /\ task'.todo = Tail(task.todo)
              \/ task'.todo = Listed /\ BeginTick
           /\ \/ forced'.todo \in {forced.todo, <<>>}
              \/ forced.todo # <<>> /\ forced'.todo = Tail(forced.todo)
              \/ forced'.todo = Listed /\ UNCHANGED <<head, arrived>>
<1> DEFINE T == \/ task'.todo \in {task.todo, <<>>}
                \/ task.todo # <<>> /\ task'.todo = Tail(task.todo)
                \/ task'.todo = Listed /\ BeginTick
           F == \/ forced'.todo \in {forced.todo, <<>>}
                \/ forced.todo # <<>> /\ forced'.todo = Tail(forced.todo)
                \/ forced'.todo = Listed /\ UNCHANGED <<head, arrived>>
<1> SUFFICES T /\ F
  OBVIOUS
<1>0. task \in Tasks /\ forced \in Tasks
  BY TypedParts
<1>a. UNCHANGED task => T
  OBVIOUS
<1>b. UNCHANGED forced => F
  OBVIOUS
<1>c. task' = NoTask => T
  BY DEF NoTask
<1>d. forced' = NoTask => F
  BY DEF NoTask
<1>1. CASE BeginTick
  <2>1. UNCHANGED forced
    BY <1>1 DEF BeginTick
  <2>2. task' = [task EXCEPT !.busy = TRUE, !.todo = Listed] => task'.todo = Listed
    BY <1>0 DEF Tasks
  <2>3. task' = [task EXCEPT !.busy = TRUE, !.todo = Listed] \/ task' = NoTask
    BY <1>1 DEF BeginTick
  <2> QED
    BY <1>1, <1>b, <1>c, <2>1, <2>2, <2>3
<1>2. CASE TickConsiders
  BY <1>0, <1>2 DEF TickConsiders, Tasks
<1>3. CASE EndTick
  BY <1>0, <1>3 DEF EndTick, Tasks
<1>4. CASE DbErrorInTick \/ ListError
  BY <1>0, <1>4 DEF DbErrorInTick, ListError, Tasks
<1>5. CASE ForcedConsiders
  BY <1>0, <1>5 DEF ForcedConsiders, Tasks
<1>6. CASE BeginForcedPoll
  BY <1>6 DEF BeginForcedPoll, Mishap
<1>e. Spawn => UNCHANGED task \/ \E s : task' = [NoTask EXCEPT !.set = s]
  BY DEF Spawn
<1>f. ASSUME NEW s, task' = [NoTask EXCEPT !.set = s] PROVE T
  BY <1>f DEF NoTask
<1>7. CASE Start \/ Restart
  <2>1. UNCHANGED forced /\ (UNCHANGED task \/ Spawn)
    BY <1>7 DEF Start, Restart
  <2> HIDE DEF T, F
  <2> QED
    BY <1>a, <1>b, <1>e, <1>f, <2>1
<1>8. CASE Stop \/ HangListing \/ Crash
  <2>1. task' = NoTask /\ (forced' = NoTask \/ UNCHANGED forced)
    BY <1>8 DEF Stop, HangListing, Crash
  <2> HIDE DEF T, F
  <2> QED
    BY <1>b, <1>c, <1>d, <2>1
<1>9. ASSUME \/ DisableHeadless \/ EnableHeadless
             \/ \E w \in Workers : Work(w) \/ RecordError(w) \/ Hang(w)
             \/ \E p \in PRs : HeadlessRun(p) \/ \E h \in Heads : Push(p, h)
      PROVE  UNCHANGED <<task, forced>>
  BY <1>9 DEF DisableHeadless, EnableHeadless, Work, PostPending, Execute, PostVerdict, Record,
     Release, RecordError, Hang, HeadlessRun, Push, watcher
<1> HIDE DEF T, F
<1> QED
  BY <1>a, <1>b, <1>1, <1>2, <1>3, <1>4, <1>5, <1>6, <1>7, <1>8, <1>9 DEF Next, Tick

\* Heads arrive with pushes and with nothing else.
LEMMA HeadEffect ==
    ASSUME Next
    PROVE  \/ UNCHANGED <<head, arrived>>
           \/ \E p \in PRs, h \in Heads : Push(p, h)
<1> DEFINE Goal == UNCHANGED <<head, arrived>> \/ \E p \in PRs, h \in Heads : Push(p, h)
<1>1. ASSUME \/ Tick \/ ForcedConsiders \/ Start \/ EnableHeadless \/ Restart
             \/ \E w \in Workers : Work(w)
      PROVE  UNCHANGED <<head, arrived>>
  BY <1>1 DEF Tick, BeginTick, TickConsiders, EndTick, ForcedConsiders, Start, EnableHeadless,
     Restart, Work, PostPending, Execute, PostVerdict, Record, Release, world
<1>2. ASSUME \/ Stop \/ DisableHeadless \/ BeginForcedPoll \/ DbErrorInTick \/ ListError
             \/ HangListing \/ Crash
             \/ \E w \in Workers : RecordError(w) \/ Hang(w)
             \/ \E p \in PRs : HeadlessRun(p)
      PROVE  UNCHANGED <<head, arrived>>
  BY <1>2 DEF Stop, DisableHeadless, BeginForcedPoll, DbErrorInTick, ListError, HangListing, Crash,
     RecordError, Hang, HeadlessRun, Mishap
<1> QED
  BY <1>1, <1>2 DEF Next

\* A receipt is written by a run that records it.
LEMMA ReceiptEffect ==
    ASSUME Next
    PROVE  \/ UNCHANGED <<latest, receipts>>
           \/ \E w \in Workers : Record(w)
<1>1. ASSUME \/ Tick \/ ForcedConsiders \/ Start \/ EnableHeadless \/ Restart
             \/ \E w \in Workers : PostPending(w) \/ Execute(w) \/ PostVerdict(w) \/ Release(w)
             \/ \E p \in PRs, h \in Heads : Push(p, h)
      PROVE  UNCHANGED <<latest, receipts>>
  BY <1>1 DEF Tick, BeginTick, TickConsiders, EndTick, ForcedConsiders, Start, EnableHeadless,
     Restart, PostPending, Execute, PostVerdict, Release, Push, records
<1>2. ASSUME \/ Stop \/ DisableHeadless \/ BeginForcedPoll \/ DbErrorInTick \/ ListError
             \/ HangListing \/ Crash
             \/ \E w \in Workers : RecordError(w) \/ Hang(w)
             \/ \E p \in PRs : HeadlessRun(p)
      PROVE  UNCHANGED <<latest, receipts>>
  BY <1>2 DEF Stop, DisableHeadless, BeginForcedPoll, DbErrorInTick, ListError, HangListing, Crash,
     RecordError, Hang, HeadlessRun, records
<1> QED
  BY <1>1, <1>2 DEF Next, Work

\* GitHub shows what runs post.
LEMMA ShownEffect ==
    ASSUME Next
    PROVE  \/ UNCHANGED shown
           \/ \E w \in Workers : PostPending(w) \/ PostVerdict(w)
<1>1. ASSUME \/ Tick \/ ForcedConsiders \/ Start \/ EnableHeadless \/ Restart
             \/ \E w \in Workers : Execute(w) \/ Record(w) \/ Release(w)
             \/ \E p \in PRs, h \in Heads : Push(p, h)
      PROVE  UNCHANGED shown
  BY <1>1 DEF Tick, BeginTick, TickConsiders, EndTick, ForcedConsiders, Start, EnableHeadless,
     Restart, Execute, Record, Release, Push, records
<1>2. ASSUME \/ Stop \/ DisableHeadless \/ BeginForcedPoll \/ DbErrorInTick \/ ListError
             \/ HangListing \/ Crash
             \/ \E w \in Workers : RecordError(w) \/ Hang(w)
             \/ \E p \in PRs : HeadlessRun(p)
      PROVE  UNCHANGED shown
  BY <1>2 DEF Stop, DisableHeadless, BeginForcedPoll, DbErrorInTick, ListError, HangListing, Crash,
     RecordError, Hang, HeadlessRun, records
<1> QED
  BY <1>1, <1>2 DEF Next, Work

-----------------------------------------------------------------------------
\* Lists and runs name heads that have been heads.
LEMMA ListingStep ==
    ASSUME Typed, Listing, Next
    PROVE  Listing'
<1>0. /\ task.todo \in Seq(PRs \X Heads) /\ forced.todo \in Seq(PRs \X Heads)
      /\ head \in [PRs -> Heads] /\ arrived \in [PRs -> [Heads -> Nat]]
      /\ \A w \in Workers : RunSound(run[w])
  BY TypedParts
<1>1. /\ \A p \in PRs, h \in Heads : arrived[p][h] # 0 => arrived'[p][h] # 0
      /\ \A p \in PRs : arrived'[p][head'[p]] # 0
  <2>1. CASE UNCHANGED <<head, arrived>>
    BY <2>1 DEF Listing
  <2>2. ASSUME NEW p \in PRs, NEW h \in Heads, Push(p, h)
        PROVE  /\ \A q \in PRs, g \in Heads : arrived[q][g] # 0 => arrived'[q][g] # 0
               /\ \A q \in PRs : arrived'[q][head'[q]] # 0
    <3>1. head' = [head EXCEPT ![p] = h] /\ arrived' = [arrived EXCEPT ![p][h] = @ + 1]
      BY <2>2 DEF Push
    <3>2. \A q \in PRs, g \in Heads :
              arrived'[q][g] = IF q = p /\ g = h THEN arrived[q][g] + 1 ELSE arrived[q][g]
      BY <1>0, <3>1
    <3>3. \A q \in PRs, g \in Heads : arrived[q][g] \in Nat
      BY <1>0
    <3>4. \A q \in PRs, g \in Heads : arrived[q][g] # 0 => arrived'[q][g] # 0
      BY <3>2, <3>3
    <3>5. arrived'[p][h] # 0
      BY <3>2, <3>3
    <3>6. \A q \in PRs : head'[q] = IF q = p THEN h ELSE head[q]
      BY <1>0, <3>1
    <3>7. \A q \in PRs : arrived[q][head[q]] # 0 /\ head[q] \in Heads
      BY <1>0 DEF Listing
    <3> QED
      BY <3>4, <3>5, <3>6, <3>7
  <2> QED
    BY <2>1, <2>2, HeadEffect
<1>2. ASSUME NEW s \in Seq(PRs \X Heads), NEW i \in DOMAIN s
      PROVE  s[i] \in PRs \X Heads /\ s[i][1] \in PRs /\ s[i][2] \in Heads
  <2>1. s[i] \in PRs \X Heads
    BY <1>2
  <2> QED
    BY <2>1
<1>3. /\ \A i \in DOMAIN Listed : Listed[i][1] \in PRs /\ Listed[i][2] = head[Listed[i][1]]
      /\ Listed \in Seq(PRs \X Heads)
  BY <1>0, ListedSound
<1>4. \A i \in DOMAIN task'.todo : arrived'[task'.todo[i][1]][task'.todo[i][2]] # 0
  <2>1. \A i \in DOMAIN task.todo : arrived'[task.todo[i][1]][task.todo[i][2]] # 0
    BY <1>0, <1>1, <1>2 DEF Listing
  <2>2. CASE task'.todo \in {task.todo, <<>>}
    BY <2>1, <2>2
  <2>3. CASE task.todo # <<>> /\ task'.todo = Tail(task.todo)
    <3>1. \A i \in DOMAIN Tail(task.todo) : i + 1 \in DOMAIN task.todo /\ Tail(task.todo)[i] = task.todo[i + 1]
      BY <1>0, <2>3, TodoParts
    <3> QED
      BY <2>1, <2>3, <3>1
  <2>4. CASE task'.todo = Listed /\ BeginTick
    <3>1. \A p \in PRs : arrived'[p][head[p]] # 0
      BY <1>0, <1>1 DEF Listing
    <3> QED
      BY <1>3, <2>4, <3>1
  <2> QED
    BY <2>2, <2>3, <2>4, TodoEffect
<1>5. \A i \in DOMAIN forced'.todo : arrived'[forced'.todo[i][1]][forced'.todo[i][2]] # 0
  <2>1. \A i \in DOMAIN forced.todo : arrived'[forced.todo[i][1]][forced.todo[i][2]] # 0
    BY <1>0, <1>1, <1>2 DEF Listing
  <2>2. CASE forced'.todo \in {forced.todo, <<>>}
    BY <2>1, <2>2
  <2>3. CASE forced.todo # <<>> /\ forced'.todo = Tail(forced.todo)
    <3>1. \A i \in DOMAIN Tail(forced.todo) : i + 1 \in DOMAIN forced.todo /\ Tail(forced.todo)[i] = forced.todo[i + 1]
      BY <1>0, <2>3, TodoParts
    <3> QED
      BY <2>1, <2>3, <3>1
  <2>4. CASE forced'.todo = Listed
    <3>1. \A p \in PRs : arrived'[p][head[p]] # 0
      BY <1>0, <1>1 DEF Listing
    <3> QED
      BY <1>3, <2>4, <3>1
  <2> QED
    BY <2>2, <2>3, <2>4, TodoEffect
<1>6. ASSUME NEW w \in Workers, run'[w].pc # "none"
      PROVE  arrived'[run'[w].pr][run'[w].head] # 0
  <2>1. CASE GoesOn(w)
    BY <1>0, <1>1, <2>1 DEF GoesOn, Listing, RunSound
  <2>2. ASSUME NEW s \in Seq(PRs \X Heads), s # <<>>,
               \A i \in DOMAIN s : arrived[s[i][1]][s[i][2]] # 0
        PROVE  arrived'[Head(s)[1]][Head(s)[2]] # 0
    BY <1>1, <2>2, TodoParts
  <2>3. CASE TickConsiders /\ run'[w] = [pc |-> "pending", pr |-> Head(task.todo)[1],
                            head |-> Head(task.todo)[2], set |-> task.set, state |-> Null]
    <3>1. run'[w].pr = Head(task.todo)[1] /\ run'[w].head = Head(task.todo)[2]
      BY <2>3
    <3> QED
      BY <1>0, <2>2, <2>3, <3>1 DEF TickConsiders, Listing
  <2>4. CASE ForcedConsiders /\ run'[w].pr = Head(forced.todo)[1] /\ run'[w].head = Head(forced.todo)[2]
    BY <1>0, <2>2, <2>4 DEF ForcedConsiders, Listing
  <2>5. ASSUME NEW p \in PRs, run'[w].pr = p, run'[w].head = head[p]
        PROVE  arrived'[run'[w].pr][run'[w].head] # 0
    BY <1>0, <1>1, <2>5 DEF Listing
  <2> QED
    BY <1>6, <2>1, <2>3, <2>4, <2>5, RunOrigin
<1>7. \A i, j \in DOMAIN task'.todo :
          task'.todo[i][1] = task'.todo[j][1] => task'.todo[i][2] = task'.todo[j][2]
  <2>1. \A i, j \in DOMAIN task.todo :
          task.todo[i][1] = task.todo[j][1] => task.todo[i][2] = task.todo[j][2]
    BY DEF Listing
  <2>2. CASE task'.todo \in {task.todo, <<>>}
    BY <2>1, <2>2
  <2>3. CASE task.todo # <<>> /\ task'.todo = Tail(task.todo)
    <3>1. \A i \in DOMAIN Tail(task.todo) : i + 1 \in DOMAIN task.todo /\ Tail(task.todo)[i] = task.todo[i + 1]
      BY <1>0, <2>3, TodoParts
    <3> QED
      BY <2>1, <2>3, <3>1
  <2>4. CASE task'.todo = Listed
    BY <1>3, <2>4
  <2> QED
    BY <2>2, <2>3, <2>4, TodoEffect
<1> QED
  BY <1>1, <1>4, <1>5, <1>6, <1>7 DEF Listing

-----------------------------------------------------------------------------
(***************************************************************************)
(* The watcher left to itself.                                             *)
(***************************************************************************)

\* Once a hand has been in it, it has been.
LEMMA LeftAlone ==
    ASSUME Typed, Next, ~byHand'
    PROVE  /\ ~byHand /\ ~Stop /\ ~BeginForcedPoll /\ \A p \in PRs : ~HeadlessRun(p)
<1>0. byHand \in BOOLEAN
  BY DEF Typed, TypeOK
<1>a. ASSUME NEW kind, Mishap(kind) PROVE ~byHand /\ kind \notin {"force", "headless", "stop"}
  BY <1>0, <1>a DEF Mishap
<1>1. ~Stop /\ ~BeginForcedPoll /\ \A p \in PRs : ~HeadlessRun(p)
  BY <1>a DEF Stop, BeginForcedPoll, HeadlessRun
<1>2. ASSUME \/ Tick \/ ForcedConsiders \/ Start \/ EnableHeadless \/ Restart
             \/ \E w \in Workers : Work(w)
             \/ \E p \in PRs, h \in Heads : Push(p, h)
      PROVE  UNCHANGED byHand
  BY <1>2 DEF Tick, BeginTick, TickConsiders, EndTick, ForcedConsiders, Start, EnableHeadless,
     Restart, Work, PostPending, Execute, PostVerdict, Record, Release, Push, world
<1>3. ASSUME \/ DisableHeadless \/ DbErrorInTick \/ ListError
             \/ HangListing \/ Crash
             \/ \E w \in Workers : RecordError(w) \/ Hang(w)
      PROVE  ~byHand
  <2>1. \E kind : Mishap(kind)
    BY <1>3 DEF DisableHeadless, DbErrorInTick, ListError, HangListing, Crash, RecordError, Hang
  <2> QED
    BY <1>a, <2>1
<1> QED
  BY <1>1, <1>2, <1>3 DEF Next

\* A new set is handed out only when no task and no run is left of the old one.
LEMMA SlotEffect ==
    ASSUME Typed, Alone, Next, ~byHand'
    PROVE  /\ forced' = NoTask
           /\ \/ UNCHANGED <<slot, used>> /\ task'.set \in {0, task.set}
              \/ ~slot /\ slot' /\ task'.set = used' /\ used' # 0 /\ UNCHANGED run
              \/ Crash
<1> DEFINE Goal == /\ forced' = NoTask
                   /\ \/ UNCHANGED <<slot, used>> /\ task'.set \in {0, task.set}
                      \/ ~slot /\ slot' /\ task'.set = used' /\ used' # 0 /\ UNCHANGED run
                      \/ Crash
<1>0. /\ task \in Tasks /\ forced = NoTask /\ ~forced.busy
      /\ ~Stop /\ ~BeginForcedPoll /\ \A p \in PRs : ~HeadlessRun(p)
  <2>1. ~NoTask.busy
    BY DEF NoTask
  <2> QED
    BY <2>1, TypedParts, LeftAlone DEF Alone
<1>1. CASE Tick
  <2>1. /\ UNCHANGED <<slot, used, forced>>
        /\ \/ task' = NoTask
           \/ task' = [task EXCEPT !.busy = TRUE, !.todo = Listed]
           \/ task' = [task EXCEPT !.todo = Tail(@)]
           \/ task' = [task EXCEPT !.busy = FALSE]
    BY <1>1 DEF Tick, BeginTick, TickConsiders, EndTick
  <2>2. NoTask.set = 0
    BY DEF NoTask
  <2> QED
    BY <1>0, <2>1, <2>2 DEF Tasks
<1>2. CASE DbErrorInTick \/ ListError \/ HangListing
  <2>1. /\ UNCHANGED <<slot, used, forced>>
        /\ task' = NoTask \/ task' = [task EXCEPT !.busy = FALSE, !.todo = <<>>]
    BY <1>2 DEF DbErrorInTick, ListError, HangListing
  <2>2. NoTask.set = 0
    BY DEF NoTask
  <2> QED
    BY <1>0, <2>1, <2>2 DEF Tasks
<1>3. CASE Start \/ Restart
  <2>1. UNCHANGED <<forced, run>> /\ (UNCHANGED <<slot, task, used>> \/ Spawn)
    BY <1>3 DEF Start, Restart
  <2>2. ASSUME Spawn, ~slot PROVE slot' /\ task'.set = used' /\ used' # 0
    <3>1. FreshSet \in Sets /\ slot' = TRUE /\ used' = FreshSet /\ task' = [NoTask EXCEPT !.set = FreshSet]
      BY <2>2 DEF Spawn
    <3> HIDE DEF FreshSet
    <3>2. task'.set = FreshSet
      BY <3>1 DEF NoTask
    <3> QED
      BY <3>1, <3>2, WatcherAssumption
  <2>3. Spawn /\ slot => UNCHANGED <<slot, task, used>>
    BY DEF Spawn
  <2> QED
    BY <1>0, <2>1, <2>2, <2>3
<1>4. CASE Crash
  BY <1>4 DEF Crash
<1>5. ASSUME \/ DisableHeadless \/ EnableHeadless
             \/ \E w \in Workers : Work(w) \/ RecordError(w) \/ Hang(w)
             \/ \E p \in PRs, h \in Heads : Push(p, h)
      PROVE  UNCHANGED <<slot, used, task, forced>>
  BY <1>5 DEF DisableHeadless, EnableHeadless, Work, PostPending, Execute, PostVerdict, Record,
     Release, RecordError, Hang, Push, watcher
<1>6. ~ForcedConsiders
  BY <1>0 DEF ForcedConsiders
<1>7. UNCHANGED <<slot, used, task, forced>> => Goal
  BY <1>0
<1> HIDE DEF Goal
<1>8. Goal
  <2>1. CASE Crash
    BY <1>4, <2>1 DEF Goal
  <2> QED
    BY <1>0, <1>1, <1>2, <1>3, <1>5, <1>6, <1>7, <2>1 DEF Next, Goal
<1> QED
  BY <1>8 DEF Goal

\* Where a run of the watcher left to itself comes from.
LEMMA OwnRunOrigin ==
    ASSUME Typed, Alone, Next, ~byHand', NEW w \in Workers, run'[w].pc # "none"
    PROVE  \/ GoesOn(w)
           \/ /\ TickConsiders
              /\ Taken(task.set, Head(task.todo)[1], Head(task.todo)[2])
              /\ run'[w].pr = Head(task.todo)[1] /\ run'[w].head = Head(task.todo)[2]
              /\ run'[w].pc = "pending" /\ run'[w].set = task.set
<1>1. ~NoTask.busy
  BY DEF NoTask
<1>2. ~ForcedConsiders
  BY <1>1 DEF ForcedConsiders, Alone
<1>3. run'[w] = [pc |-> "pending", pr |-> Head(task.todo)[1],
                 head |-> Head(task.todo)[2], set |-> task.set, state |-> Null]
        => /\ run'[w].pr = Head(task.todo)[1] /\ run'[w].head = Head(task.todo)[2]
           /\ run'[w].pc = "pending" /\ run'[w].set = task.set
  OBVIOUS
<1> QED
  BY <1>2, <1>3, RunOrigin, LeftAlone

\* A recorded run has no receipt to come; the others are not disturbed.
LEMMA RecordedRun ==
    ASSUME Typed, NEW v \in Workers, Record(v)
    PROVE  /\ Open(v) /\ ~Open(v)' /\ run[v].pr \in PRs /\ run[v].head \in Heads
           /\ latest' = [latest EXCEPT ![run[v].pr] = [head |-> run[v].head, state |-> run[v].state]]
           /\ receipts' = [receipts EXCEPT ![run[v].pr][run[v].head] = @ + 1]
           /\ \A w \in Workers \ {v} : run'[w] = run[w]
           /\ UNCHANGED <<watcher, shown, world>>
<1>1. run \in [Workers -> Runs] /\ RunSound(run[v])
  BY TypedParts
<1>2. run'[v] = NoRun \/ run'[v] = [run[v] EXCEPT !.pc = "release"]
  BY <1>1 DEF Record, SetRun
<1>3. run'[v].pc \in {"none", "release"}
  BY <1>1, <1>2 DEF NoRun, Runs
<1> QED
  BY <1>1, <1>3 DEF Record, RunSound, Open, SetRun

\* With a new set comes a new start, and with a crash nothing is left: one set
\* is in use, and its runs are about heads without a receipt.
LEMMA AloneStep ==
    ASSUME Typed, Alone, Next, ~byHand'
    PROVE  Alone'
<1>0. /\ run \in [Workers -> Runs] /\ \A w \in Workers : RunSound(run[w])
      /\ latest \in [PRs -> Rows] /\ task \in Tasks
      /\ task.todo \in Seq(PRs \X Heads)
  BY TypedParts
<1>1. /\ forced' = NoTask
      /\ \/ UNCHANGED <<slot, used>> /\ task'.set \in {0, task.set}
         \/ ~slot /\ slot' /\ task'.set = used' /\ used' # 0 /\ UNCHANGED run
         \/ Crash
  BY SlotEffect
\* A crash takes everything.
<1>2. CASE Crash
  <2>1. \A w \in Workers : run'[w] = NoRun
    <3>1. \A w \in Workers : run[w].set = 0 => run[w] = NoRun
      BY <1>0 DEF Alone, RunSound
    <3> QED
      BY <1>2, <3>1 DEF Crash
  <2>2. task'.set = 0 /\ UNCHANGED used
    BY <1>2 DEF Crash, NoTask
  <2>3. \A w \in Workers : run'[w].pc = "none" /\ ~Open(w)'
    BY <2>1 DEF NoRun, Open
  <2> QED
    BY <1>1, <2>2, <2>3 DEF Alone
<1>3. CASE ~slot /\ slot' /\ task'.set = used' /\ used' # 0 /\ UNCHANGED run
  <2>1. \A w \in Workers : run'[w].pc = "none" /\ ~Open(w)'
    BY <1>3 DEF Alone, Open
  <2> QED
    BY <1>1, <1>3, <2>1 DEF Alone
<1>4. CASE UNCHANGED <<slot, used>> /\ task'.set \in {0, task.set}
  <2>1. used' # 0 /\ task'.set \in {0, used'}
    BY <1>4 DEF Alone
  <2>2. ASSUME TickConsiders PROVE slot /\ task.set = used
    BY <2>2 DEF TickConsiders, Typed, TasksSound, Alone, NoTask
  <2>3. ASSUME NEW w \in Workers, run'[w].pc # "none" PROVE run'[w].set = used' /\ slot'
    <3>1. CASE GoesOn(w)
      BY <1>4, <3>1 DEF GoesOn, Alone
    <3> QED
      BY <1>4, <2>2, <2>3, <3>1, OwnRunOrigin
  <2>4. ASSUME NEW w \in Workers, Open(w)' PROVE run'[w].head # latest'[run'[w].pr].head
    <3>0. run'[w].pc # "none"
      BY <2>4 DEF Open
    <3>1. CASE GoesOn(w)
      <4>1. Open(w) /\ run'[w].pr = run[w].pr /\ run'[w].head = run[w].head /\ run[w].pr \in PRs
        BY <1>0, <2>4, <3>1 DEF GoesOn, Open, RunSound
      <4>2. run[w].head # latest[run[w].pr].head
        BY <4>1 DEF Alone
      <4>3. ASSUME NEW v \in Workers, Record(v) PROVE latest'[run[w].pr] = latest[run[w].pr]
        <5>1. v # w
          BY <2>4, <4>3, RecordedRun
        <5>2. run[v].set = used /\ run[w].set = used /\ used # 0
          BY <4>1, <4>3, RecordedRun DEF Alone, Open
        <5>3. run[v].pr # run[w].pr
          BY <5>1, <5>2 DEF Typed, RunsSound
        <5> QED
          BY <1>0, <4>1, <4>3, <5>3, RecordedRun
      <4> QED
        BY <4>1, <4>2, <4>3, ReceiptEffect
    <3>2. CASE /\ TickConsiders
               /\ Taken(task.set, Head(task.todo)[1], Head(task.todo)[2])
               /\ run'[w].pr = Head(task.todo)[1] /\ run'[w].head = Head(task.todo)[2]
      BY <3>2 DEF Taken, TickConsiders, records
    <3> QED
      BY <3>0, <3>1, <3>2, OwnRunOrigin
  <2> QED
    BY <1>1, <2>1, <2>3, <2>4 DEF Alone
<1> QED
  BY <1>1, <1>2, <1>3, <1>4

\* The runs of a pull request without a receipt: one at most.
LEMMA OneOpenRun ==
    ASSUME Typed, Alone, NEW v \in Workers, NEW w \in Workers,
           Open(v), Open(w), run[v].pr = run[w].pr
    PROVE  v = w
BY DEF Alone, Open, Typed, RunsSound

-----------------------------------------------------------------------------
\* A commit that heads one pull request is posted about by one run, and not
\* again once there is a receipt.
LEMMA PostedStep ==
    ASSUME Typed, Listing, Alone, Posted, Shown, Next, ~byHand'
    PROVE  Posted' /\ Shown'
<1>0. /\ run \in [Workers -> Runs] /\ \A w \in Workers : RunSound(run[w])
      /\ latest \in [PRs -> Rows] /\ shown \in [Heads -> Statuses \cup {Null}]
      /\ arrived \in [PRs -> [Heads -> Nat]]
  BY TypedParts
<1>1. ASSUME NEW p \in PRs, NEW h \in Heads, \A q \in PRs \ {p} : arrived'[q][h] = 0
      PROVE  Sole(p, h)
  <2>1. \A q \in PRs : arrived[q][h] # 0 => arrived'[q][h] # 0
    <3>1. ASSUME NEW q \in PRs, NEW g \in Heads, Push(q, g), NEW r \in PRs, arrived[r][h] # 0
          PROVE  arrived'[r][h] # 0
      <4>1. arrived' = [arrived EXCEPT ![q][g] = @ + 1]
        BY <3>1 DEF Push
      <4>2. arrived'[r][h] = IF q = r /\ g = h THEN arrived[r][h] + 1 ELSE arrived[r][h]
        BY <1>0, <4>1
      <4>3. arrived[r][h] \in Nat
        BY <1>0
      <4> QED
        BY <3>1, <4>2, <4>3
    <3> QED
      BY <3>1, HeadEffect
  <2> QED
    BY <1>1, <2>1 DEF Sole
\* Whoever posts for a commit of p alone is the run of p.
<1>2. ASSUME NEW p \in PRs, NEW h \in Heads, Sole(p, h),
             NEW w \in Workers, PostPending(w) \/ PostVerdict(w), run[w].head = h
      PROVE  run[w].pr = p /\ Open(w) /\ run[w].set # 0 /\ h # latest[p].head
  <2>1. Open(w) /\ run[w].pc # "none"
    BY <1>2 DEF PostPending, PostVerdict, Open
  <2>2. run[w].pr \in PRs /\ arrived[run[w].pr][h] # 0
    BY <1>0, <1>2, <2>1 DEF RunSound, Listing
  <2> QED
    BY <1>2, <2>1, <2>2 DEF Sole, Alone
<1>3. ASSUME NEW p \in PRs, NEW h \in Heads, Sole(p, h),
             \A w \in Workers : run[w].head = h => ~PostPending(w) /\ ~PostVerdict(w)
      PROVE  shown'[h] = shown[h]
  <2>1. ASSUME NEW w \in Workers, PostPending(w) \/ PostVerdict(w) PROVE shown'[h] = shown[h]
    <3>1. run[w].head # h
      BY <1>3, <2>1
    <3> QED
      BY <1>0, <2>1, <3>1 DEF PostPending, PostVerdict
  <2> QED
    BY <2>1, ShownEffect
<1>4. ASSUME NEW p \in PRs, latest'[p].state # Null
      PROVE  /\ latest'[p].head \in Heads
             /\ (\A q \in PRs \ {p} : arrived'[q][latest'[p].head] = 0)
                    => shown'[latest'[p].head] = latest'[p].state
  <2>1. CASE latest'[p] = latest[p]
    <3>1. latest[p].head \in Heads
      BY <1>4, <2>1 DEF Shown
    <3>2. ASSUME \A q \in PRs \ {p} : arrived'[q][latest[p].head] = 0
          PROVE  shown'[latest[p].head] = latest[p].state
      <4> DEFINE h == latest[p].head
      <4>1. Sole(p, h)
        BY <1>1, <3>1, <3>2
      <4>2. shown[h] = latest[p].state
        BY <1>4, <2>1, <4>1 DEF Shown
      <4>3. shown'[h] = shown[h]
        BY <1>2, <1>3, <3>1, <4>1
      <4> QED
        BY <4>2, <4>3
    <3> QED
      BY <2>1, <3>1, <3>2
  <2>2. ASSUME NEW v \in Workers, Record(v), run[v].pr = p
        PROVE  /\ latest'[p].head \in Heads
               /\ (\A q \in PRs \ {p} : arrived'[q][latest'[p].head] = 0)
                      => shown'[latest'[p].head] = latest'[p].state
    <3>0. /\ latest' = [latest EXCEPT ![p] = [head |-> run[v].head, state |-> run[v].state]]
          /\ UNCHANGED shown /\ run[v].head \in Heads /\ run[v].pc = "record"
      BY <2>2, RecordedRun DEF Record
    <3>1. latest'[p] = [head |-> run[v].head, state |-> run[v].state]
      BY <1>0, <3>0
    <3>2. latest'[p].head = run[v].head /\ latest'[p].state = run[v].state
      BY <3>1
    <3>3. (\A q \in PRs \ {p} : arrived'[q][run[v].head] = 0) => Sole(p, run[v].head)
      BY <1>1, <3>0
    <3> QED
      BY <1>4, <2>2, <3>0, <3>2, <3>3 DEF Posted
  <2>3. ASSUME NEW v \in Workers, Record(v), run[v].pr # p PROVE latest'[p] = latest[p]
    <3>1. latest' = [latest EXCEPT ![run[v].pr] = [head |-> run[v].head, state |-> run[v].state]]
      BY <2>3, RecordedRun
    <3> QED
      BY <1>0, <2>3, <3>1
  <2> QED
    BY <2>1, <2>2, <2>3, ReceiptEffect
<1>5. Shown'
  BY <1>4 DEF Shown, Sole
<1>6. ASSUME NEW w \in Workers, run'[w].pc = "record", run'[w].state # Null,
             \A q \in PRs \ {run'[w].pr} : arrived'[q][run'[w].head] = 0
      PROVE  shown'[run'[w].head] = run'[w].state
  <2>0. GoesOn(w)
    BY <1>6, OwnRunOrigin
  <2>1. /\ Open(w) /\ run'[w].pr = run[w].pr /\ run'[w].head = run[w].head
        /\ run[w].pr \in PRs /\ run[w].head \in Heads
    BY <1>0, <1>6, <2>0 DEF GoesOn, Open, RunSound
  <2>2. Sole(run[w].pr, run[w].head)
    BY <1>1, <1>6, <2>1
  \* The post that brought the run here, or no post for this commit at all.
  <2>3. CASE PostVerdict(w)
    <3>1. \/ /\ shown' = [shown EXCEPT ![run[w].head] = run[w].state]
             /\ run' = [run EXCEPT ![w] = [run[w] EXCEPT !.pc = "record"]]
          \/ run' = [run EXCEPT ![w] = [run[w] EXCEPT !.pc = "record", !.state = Null]]
      BY <2>3 DEF PostVerdict, SetRun
    <3>2. \/ run'[w] = [run[w] EXCEPT !.pc = "record"]
          \/ run'[w] = [run[w] EXCEPT !.pc = "record", !.state = Null]
      BY <1>0, <3>1
    <3>3. CASE run' = [run EXCEPT ![w] = [run[w] EXCEPT !.pc = "record", !.state = Null]]
      <4>1. run'[w] = [run[w] EXCEPT !.pc = "record", !.state = Null]
        BY <1>0, <3>3
      <4> QED
        BY <1>0, <1>6, <4>1 DEF Runs
    <3>4. CASE /\ shown' = [shown EXCEPT ![run[w].head] = run[w].state]
               /\ run' = [run EXCEPT ![w] = [run[w] EXCEPT !.pc = "record"]]
      <4>1. run'[w] = [run[w] EXCEPT !.pc = "record"]
        BY <1>0, <3>4
      <4>2. run'[w].state = run[w].state
        BY <1>0, <4>1 DEF Runs
      <4> QED
        BY <1>0, <2>1, <3>4, <4>2
    <3> QED
      BY <3>1, <3>3, <3>4
  <2>4. CASE ~PostVerdict(w)
    <3>1. run'[w] = run[w]
      <4>1. ASSUME NEW v \in Workers, Work(v) \/ RecordError(v) \/ Hang(v), v # w
            PROVE  run'[w] = run[w]
        BY <1>0, <4>1 DEF Work, PostPending, Execute, PostVerdict, Record, Release, RecordError,
           Hang, SetRun
      <4>2. ASSUME \/ PostPending(w) \/ Execute(w) \/ Record(w) \/ Release(w) \/ RecordError(w)
                   \/ Hang(w)
            PROVE  FALSE
        <5>1. \E pc \in {"execute", "post", "release", "hung", "none"} : run'[w].pc = pc
          <6>1. \/ run'[w] = NoRun \/ \E pc \in {"execute", "post", "release", "hung"} :
                   \/ run'[w] = [run[w] EXCEPT !.pc = pc]
                   \/ \E s : run'[w] = [run[w] EXCEPT !.pc = pc, !.state = s]
            BY <1>0, <4>2 DEF PostPending, Execute, Record, Release, RecordError, Hang, SetRun
          <6>2. NoRun.pc = "none"
            BY DEF NoRun
          <6> QED
            BY <1>0, <6>1, <6>2 DEF Runs
        <5> QED
          BY <1>6, <5>1
      <4>3. ASSUME ConsiderOutcome(task.set, Head(task.todo)[1], Head(task.todo)[2])
            PROVE  run'[w] = run[w]
        <5>1. \/ UNCHANGED run
              \/ \E v \in Workers : Detached(v, Head(task.todo)[1], Head(task.todo)[2], task.set)
          BY <4>3, ConsiderEffect DEF Left, Taken
        <5>2. ASSUME NEW v \in Workers, Detached(v, Head(task.todo)[1], Head(task.todo)[2], task.set)
              PROVE  run'[w] = run[w]
          <6>1. v # w
            BY <2>1, <5>2 DEF Detached, Open
          <6> QED
            BY <1>0, <5>2, <6>1 DEF Detached
        <5> QED
          BY <5>1, <5>2
      <4>4. Crash => run'[w] = run[w]
        <5>1. run'[w] # NoRun
          BY <1>6 DEF NoRun
        <5> QED
          BY <5>1 DEF Crash
      <4>5. ASSUME \/ BeginTick \/ EndTick \/ Start \/ DisableHeadless \/ EnableHeadless
                   \/ ListError \/ HangListing \/ DbErrorInTick \/ Restart
                   \/ \E p \in PRs, h \in Heads : Push(p, h)
            PROVE  run'[w] = run[w]
        BY <4>5 DEF BeginTick, EndTick, Start, DisableHeadless, EnableHeadless, ListError,
           HangListing, DbErrorInTick, Restart, Push
      <4>6. ~ForcedConsiders
        BY DEF ForcedConsiders, Alone, NoTask
      <4>7. TickConsiders => run'[w] = run[w]
        BY <4>3 DEF TickConsiders
      <4> QED
        BY <2>4, <4>1, <4>2, <4>4, <4>5, <4>6, <4>7, LeftAlone DEF Next, Tick, Work
    <3>2. shown[run[w].head] = run[w].state
      BY <1>6, <2>2, <3>1 DEF Posted
    <3>3. ASSUME NEW v \in Workers, run[v].head = run[w].head, PostPending(v) \/ PostVerdict(v)
          PROVE  FALSE
      <4>1. run[v].pr = run[w].pr /\ Open(v)
        BY <1>2, <2>1, <2>2, <3>3
      <4>2. v = w
        BY <2>1, <4>1, OneOpenRun
      <4> QED
        BY <1>6, <3>1, <3>3, <4>2 DEF PostPending, PostVerdict
    <3>4. shown'[run[w].head] = shown[run[w].head]
      BY <1>3, <2>1, <2>2, <3>3
    <3> QED
      BY <3>1, <3>2, <3>4
  <2> QED
    BY <2>3, <2>4
<1>7. Posted'
  BY <1>6 DEF Posted, Sole
<1> QED
  BY <1>5, <1>7

-----------------------------------------------------------------------------
(***************************************************************************)
(* Receipts and heads.                                                     *)
(***************************************************************************)

\* A turn to h is worth one, and a way is not shorter than its shortcut.
LEMMA Turns ==
    ASSUME NEW h
    PROVE  /\ \A a, b : Turn(a, b, h) \in {0, 1}
           /\ \A a : Turn(a, a, h) = 0
           /\ \A a, b, c : Turn(a, c, h) <= Turn(a, b, h) + Turn(b, c, h)
BY DEF Turn

(* The runs of p without a receipt are the same afterwards. *)
SameRuns(p) ==
    /\ Running(p)' = Running(p)
    /\ \A w \in Running(p) : run'[w].head = run[w].head

\* Then they are on the way to the same head.
LEMMA SameRunHead ==
    ASSUME NEW p \in PRs, SameRuns(p), latest'[p].head = latest[p].head, NEW x, RunHead(p, x)'
    PROVE  RunHead(p, x)
BY DEF SameRuns, RunHead

\* What Running means.
LEMMA RunningIsOpen ==
    ASSUME NEW p \in PRs
    PROVE  /\ Running(p) = {w \in Workers : Open(w) /\ run[w].pr = p}
           /\ Running(p)' = {w \in Workers : Open(w)' /\ run'[w].pr = p}
BY DEF Running, Open

\* Runs that keep their place keep Running as it is.
LEMMA SameRunning ==
    ASSUME NEW p \in PRs,
           \A w \in Workers : Open(w)' /\ run'[w].pr = p <=> Open(w) /\ run[w].pr = p,
           \A w \in Workers : Open(w) /\ run[w].pr = p => run'[w].head = run[w].head
    PROVE  SameRuns(p)
<1>1. Running(p)' = Running(p)
  <2>1. \A w : w \in Running(p)' <=> w \in Running(p)
    BY RunningIsOpen
  <2> QED
    BY <2>1
<1>2. \A w \in Running(p) : run'[w].head = run[w].head
  BY RunningIsOpen
<1> QED
  BY <1>1, <1>2 DEF SameRuns

\* The steps of a run before its receipt, and after it, are no news.
LEMMA QuietRun ==
    ASSUME Typed, NEW p \in PRs, NEW v \in Workers,
           PostPending(v) \/ Execute(v) \/ PostVerdict(v) \/ Release(v) \/ Hang(v)
    PROVE  SameRuns(p)
<1>0. run \in [Workers -> Runs] /\ \A w \in Workers : RunSound(run[w])
  BY TypedParts
<1>1. \A w \in Workers \ {v} : run'[w] = run[w]
  BY <1>0 DEF PostPending, Execute, PostVerdict, Release, Hang, SetRun
<1>2. CASE Release(v)
  <2>1. run'[v] = NoRun /\ run[v].pc = "release"
    BY <1>0, <1>2 DEF Release, SetRun
  <2>2. ~Open(v) /\ ~Open(v)'
    BY <2>1 DEF Open, NoRun
  <2>3. \A w \in Workers : Open(w)' /\ run'[w].pr = p <=> Open(w) /\ run[w].pr = p
    BY <1>1, <2>2 DEF Open
  <2>4. \A w \in Workers : Open(w) /\ run[w].pr = p => run'[w].head = run[w].head
    BY <1>1, <2>2
  <2> QED
    BY <2>3, <2>4, SameRunning
<1>3. CASE PostPending(v) \/ Execute(v) \/ PostVerdict(v) \/ Hang(v)
  <2>1. \E pc \in {"execute", "post", "record", "hung"} :
           \/ run' = [run EXCEPT ![v] = [run[v] EXCEPT !.pc = pc]]
           \/ \E s : run' = [run EXCEPT ![v] = [run[v] EXCEPT !.pc = pc, !.state = s]]
    BY <1>3 DEF PostPending, Execute, PostVerdict, Hang, SetRun
  <2>2. \E pc \in {"execute", "post", "record", "hung"} :
           \/ run'[v] = [run[v] EXCEPT !.pc = pc]
           \/ \E s : run'[v] = [run[v] EXCEPT !.pc = pc, !.state = s]
    BY <1>0, <2>1
  <2>3. /\ run'[v].pr = run[v].pr /\ run'[v].head = run[v].head
        /\ run'[v].pc \in {"execute", "post", "record", "hung"}
    BY <1>0, <2>2 DEF Runs
  <2>4. Open(v) /\ Open(v)'
    BY <1>3, <2>3 DEF PostPending, Execute, PostVerdict, Hang, Open
  <2>5. \A w \in Workers : Open(w)' /\ run'[w].pr = p <=> Open(w) /\ run[w].pr = p
    BY <1>1, <2>3, <2>4 DEF Open
  <2>6. \A w \in Workers : Open(w) /\ run[w].pr = p => run'[w].head = run[w].head
    BY <1>1, <2>3
  <2> QED
    BY <2>5, <2>6, SameRunning
<1> QED
  BY <1>2, <1>3

\* A receipt for h is written when a run, begun on a head other than the newest
\* receipt's, ends; so the way from that receipt to the head never grows but
\* by a push.
LEMMA OnceStep ==
    ASSUME Typed, Listing, Alone, Once, Next, ~byHand'
    PROVE  Once'
<1>0. /\ run \in [Workers -> Runs] /\ \A w \in Workers : RunSound(run[w])
      /\ latest \in [PRs -> Rows] /\ head \in [PRs -> Heads]
      /\ arrived \in [PRs -> [Heads -> Nat]] /\ receipts \in [PRs -> [Heads -> Nat]]
      /\ task \in Tasks /\ task.todo \in Seq(PRs \X Heads)
  BY TypedParts
<1> SUFFICES ASSUME NEW p \in PRs, NEW h \in Heads,
                    NEW u \in Heads \cup {Null}, NEW v \in Heads \cup {Null},
                    RunHead(p, u)', TodoHead(p, u, v)'
             PROVE  receipts'[p][h] + Turn(latest'[p].head, u, h) + Turn(u, v, h)
                       + Turn(v, head'[p], h) <= arrived'[p][h]
  BY DEF Once, Due, Turn
<1> DEFINE l == latest[p].head
           g == head[p]
           Goal == receipts'[p][h] + Turn(latest'[p].head, u, h) + Turn(u, v, h)
                       + Turn(v, head'[p], h) <= arrived'[p][h]
           Listed1(y) == \E i \in DOMAIN task.todo : task.todo[i][1] = p /\ task.todo[i][2] = y
<1> SUFFICES Goal
  OBVIOUS
<1>1. /\ receipts[p][h] \in Nat /\ arrived[p][h] \in Nat /\ l \in Heads \cup {Null} /\ g \in Heads
  BY <1>0 DEF Rows
<1>2. ASSUME NEW x \in Heads \cup {Null}, NEW y \in Heads \cup {Null},
             RunHead(p, x), TodoHead(p, x, y)
      PROVE  receipts[p][h] + Turn(l, x, h) + Turn(x, y, h) + Turn(y, g, h) <= arrived[p][h]
  BY <1>2 DEF Once, Due
<1>3. \E x \in Heads \cup {Null} : RunHead(p, x)
  <2>1. CASE Running(p) = {}
    BY <1>1, <2>1 DEF RunHead
  <2>2. ASSUME NEW w \in Running(p) PROVE run[w].head \in Heads
    <3>1. w \in Workers /\ Open(w)
      BY RunningIsOpen
    <3>2. RunSound(run[w]) /\ run[w].pc # "none"
      BY <1>0, <3>1 DEF Open
    <3> QED
      BY <3>2 DEF RunSound
  <2> QED
    BY <2>1, <2>2 DEF RunHead
<1>4. ASSUME NEW x \in Heads \cup {Null}
      PROVE  \E y \in Heads \cup {Null} : TodoHead(p, x, y)
  <2>1. ASSUME NEW i \in DOMAIN task.todo PROVE task.todo[i][2] \in Heads
    <3>1. task.todo[i] \in PRs \X Heads
      BY <1>0
    <3> QED
      BY <3>1
  <2> QED
    BY <2>1 DEF TodoHead
\* The list is the same.
<1>5. ASSUME task'.todo = task.todo PROVE TodoHead(p, u, v)
  BY <1>5 DEF TodoHead
\* The list is gone.
<1>6. ASSUME task'.todo = <<>> PROVE v = u
  BY <1>6 DEF TodoHead
\* No news of p but in the list: the whole way without the list is shorter.
<1>7. ASSUME receipts'[p][h] = receipts[p][h], latest'[p].head = l, head'[p] = g,
             arrived'[p][h] = arrived[p][h], RunHead(p, u), v = u
      PROVE  Goal
  <2>1. PICK y \in Heads \cup {Null} : TodoHead(p, u, y)
    BY <1>4
  <2>2. receipts[p][h] + Turn(l, u, h) + Turn(u, y, h) + Turn(y, g, h) <= arrived[p][h]
    BY <1>2, <1>7, <2>1
  <2>3. Turn(u, g, h) <= Turn(u, y, h) + Turn(y, g, h) /\ Turn(u, u, h) = 0
    BY Turns
  <2>4. /\ Turn(l, u, h) \in {0, 1} /\ Turn(u, y, h) \in {0, 1} /\ Turn(y, g, h) \in {0, 1}
        /\ Turn(u, g, h) \in {0, 1}
    BY Turns
  <2>5. receipts[p][h] + Turn(l, u, h) + Turn(u, u, h) + Turn(u, g, h) <= arrived[p][h]
    BY <1>1, <2>2, <2>3, <2>4
  <2> QED
    BY <1>7, <2>5
<1>8. ASSUME receipts'[p][h] = receipts[p][h], latest'[p].head = l, head'[p] = g,
             arrived'[p][h] = arrived[p][h], RunHead(p, u), TodoHead(p, u, v)
      PROVE  Goal
  BY <1>2, <1>8
\* The run of p is given up: the way without it is shorter.
<1>9. ASSUME receipts'[p][h] = receipts[p][h], latest'[p].head = l, head'[p] = g,
             arrived'[p][h] = arrived[p][h], u = l, Listed1(v) \/ v = l
      PROVE  Goal
  <2>1. PICK x \in Heads \cup {Null} : RunHead(p, x)
    BY <1>3
  <2>2. PICK y \in Heads \cup {Null} : TodoHead(p, x, y) /\ (Listed1(v) => y = v)
    <3>1. CASE Listed1(v)
      BY <3>1 DEF TodoHead
    <3>2. CASE ~Listed1(v)
      BY <1>4, <3>2
    <3> QED
      BY <3>1, <3>2
  <2>3. receipts[p][h] + Turn(l, x, h) + Turn(x, y, h) + Turn(y, g, h) <= arrived[p][h]
    BY <1>2, <2>1, <2>2
  <2>4. /\ Turn(l, x, h) \in {0, 1} /\ Turn(x, y, h) \in {0, 1} /\ Turn(y, g, h) \in {0, 1}
        /\ Turn(l, y, h) \in {0, 1} /\ Turn(l, g, h) \in {0, 1} /\ Turn(l, l, h) = 0
        /\ Turn(l, y, h) <= Turn(l, x, h) + Turn(x, y, h)
        /\ Turn(l, g, h) <= Turn(l, y, h) + Turn(y, g, h)
    BY Turns
  <2>5. /\ receipts[p][h] + Turn(l, l, h) + Turn(l, y, h) + Turn(y, g, h) <= arrived[p][h]
        /\ receipts[p][h] + Turn(l, l, h) + Turn(l, l, h) + Turn(l, g, h) <= arrived[p][h]
    BY <1>1, <2>3, <2>4
  <2>6. CASE Listed1(v)
    BY <1>9, <2>2, <2>5, <2>6
  <2>7. CASE v = l
    BY <1>9, <2>5, <2>7
  <2> QED
    BY <1>9, <2>6, <2>7
<1> HIDE DEF Goal
\* The parts of p that only pushes and receipts change.
<1>a. ASSUME UNCHANGED <<latest, receipts, head, arrived>>
      PROVE  /\ receipts'[p][h] = receipts[p][h] /\ latest'[p].head = l /\ head'[p] = g
             /\ arrived'[p][h] = arrived[p][h]
  BY <1>a
<1>b. ASSUME UNCHANGED run PROVE SameRuns(p)
  BY <1>b DEF SameRuns, Running
<1>d. ASSUME UNCHANGED <<latest, receipts, head, arrived>>, SameRuns(p) PROVE RunHead(p, u)
  BY <1>a, <1>d, SameRunHead
<1>c. ASSUME UNCHANGED <<latest, receipts, head, arrived>>, SameRuns(p),
             task'.todo = task.todo \/ task'.todo = <<>>
      PROVE  Goal
  <2>1. RunHead(p, u)
    BY <1>c, <1>d
  <2> QED
    BY <1>5, <1>6, <1>7, <1>8, <1>a, <1>c, <2>1
<1>e. ASSUME UNCHANGED <<latest, receipts, head, arrived, run>>,
             task'.todo = task.todo \/ task'.todo = <<>>
      PROVE  Goal
  <2>1. SameRuns(p) /\ UNCHANGED <<latest, receipts, head, arrived>>
    BY <1>b, <1>e
  <2> QED
    BY <1>c, <1>e, <2>1
<1>11. CASE BeginTick
  <2>1. UNCHANGED <<latest, receipts, head, arrived, run>> /\ ~task.busy
    BY <1>11 DEF BeginTick, records, world
  <2>2. task.todo = <<>>
    BY <2>1 DEF Typed, TasksSound
  <2>3. CASE task' = NoTask
    <3>1. task'.todo = <<>>
      BY <2>3 DEF NoTask
    <3> QED
      BY <1>e, <2>1, <3>1
  <2>4. CASE task' = [task EXCEPT !.busy = TRUE, !.todo = Listed]
    <3>1. task'.todo = Listed
      BY <1>0, <2>4 DEF Tasks
    <3>2. RunHead(p, u) /\ TodoHead(p, u, u)
      BY <1>a, <1>b, <2>1, <2>2, SameRunHead DEF TodoHead
    <3>3. v = u \/ v = g
      BY <1>0, <3>1, ListedSound DEF TodoHead
    <3>4. receipts[p][h] + Turn(l, u, h) + Turn(u, u, h) + Turn(u, g, h) <= arrived[p][h]
      BY <1>2, <3>2
    <3>5. /\ Turn(l, u, h) \in {0, 1} /\ Turn(u, u, h) = 0 /\ Turn(u, g, h) \in {0, 1}
          /\ Turn(g, g, h) = 0
      BY Turns
    <3>6. receipts[p][h] + Turn(l, u, h) + Turn(u, v, h) + Turn(v, g, h) <= arrived[p][h]
      <4>1. CASE v = u
        BY <3>4, <4>1
      <4>2. CASE v = g
        <5>1. receipts[p][h] + Turn(l, u, h) + Turn(u, g, h) + Turn(g, g, h) <= arrived[p][h]
          BY <1>1, <3>4, <3>5
        <5> QED
          BY <4>2, <5>1
      <4> QED
        BY <3>3, <4>1, <4>2
    <3> QED
      BY <1>a, <2>1, <3>6 DEF Goal
  <2> QED
    BY <1>11, <2>3, <2>4 DEF BeginTick
<1>12. CASE TickConsiders
  <2> DEFINE q == Head(task.todo)[1]
             k == Head(task.todo)[2]
  <2>1. /\ UNCHANGED <<latest, receipts, head, arrived>> /\ task.busy /\ task.todo # <<>>
        /\ task' = [task EXCEPT !.todo = Tail(@)]
        /\ ConsiderOutcome(task.set, q, k)
    BY <1>12 DEF TickConsiders, records, world
  <2>2. task'.todo = Tail(task.todo)
    BY <1>0, <2>1 DEF Tasks
  <2>3. /\ Head(task.todo) = task.todo[1] /\ 1 \in DOMAIN task.todo
        /\ q \in PRs /\ k \in Heads
        /\ \A i \in DOMAIN Tail(task.todo) :
              i + 1 \in DOMAIN task.todo /\ Tail(task.todo)[i] = task.todo[i + 1]
        /\ \A i \in DOMAIN task.todo :
              i = 1 \/ \E j \in DOMAIN Tail(task.todo) : Tail(task.todo)[j] = task.todo[i]
    <3>1. /\ Head(task.todo) = task.todo[1] /\ 1 \in DOMAIN task.todo
          /\ q \in PRs /\ k \in Heads
          /\ \A i \in DOMAIN Tail(task.todo) :
              i + 1 \in DOMAIN task.todo /\ Tail(task.todo)[i] = task.todo[i + 1]
          /\ Tail(task.todo) \in Seq(PRs \X Heads) /\ Len(Tail(task.todo)) = Len(task.todo) - 1
      BY <1>0, <2>1, TodoParts
    <3>2. /\ DOMAIN task.todo = 1..Len(task.todo) /\ Len(task.todo) \in Nat
          /\ DOMAIN Tail(task.todo) = 1..Len(Tail(task.todo))
      <4>1. \A t \in Seq(PRs \X Heads) : DOMAIN t = 1..Len(t) /\ Len(t) \in Nat
        BY LenProperties
      <4> QED
        BY <1>0, <3>1, <4>1
    <3>3. ASSUME NEW i \in DOMAIN task.todo, i # 1
          PROVE  \E j \in DOMAIN Tail(task.todo) : Tail(task.todo)[j] = task.todo[i]
      <4>1. i - 1 \in DOMAIN Tail(task.todo) /\ (i - 1) + 1 = i
        BY <3>1, <3>2, <3>3
      <4> QED
        BY <3>1, <4>1
    <3> QED
      BY <3>1, <3>3
  <2>4. task.set # 0 /\ task.set = used
    BY <2>1 DEF Typed, TasksSound, Alone
  <2>5. CASE q # p
    <3>1. TodoHead(p, u, v)
      BY <2>2, <2>3, <2>5 DEF TodoHead
    <3>2. SameRuns(p)
      <4>1. CASE UNCHANGED run
        BY <1>b, <4>1
      <4>2. ASSUME NEW w \in Workers, Detached(w, q, k, task.set) PROVE SameRuns(p)
        <5>1. run' = [run EXCEPT ![w] = [pc |-> "pending", pr |-> q, head |-> k,
                                         set |-> task.set, state |-> Null]] /\ run[w].pc = "none"
          BY <4>2 DEF Detached
        <5>2. run'[w].pr = q /\ ~Open(w) /\ \A z \in Workers \ {w} : run'[z] = run[z]
          BY <1>0, <5>1 DEF Open
        <5>3. \A z \in Workers : Open(z)' /\ run'[z].pr = p <=> Open(z) /\ run[z].pr = p
          BY <2>5, <5>2 DEF Open
        <5>4. \A z \in Workers : Open(z) /\ run[z].pr = p => run'[z].head = run[z].head
          BY <5>2
        <5> QED
          BY <5>3, <5>4, SameRunning
      <4> QED
        BY <2>1, <4>1, <4>2, ConsiderEffect DEF Left, Taken
    <3> QED
      BY <1>8, <1>a, <2>1, <3>1, <3>2, SameRunHead
  <2>6. CASE q = p
    <3>0. \A i \in DOMAIN task.todo : task.todo[i][1] = p => task.todo[i][2] = k
      BY <2>3, <2>6 DEF Listing
    <3>1. \A x : TodoHead(p, x, k)
      BY <2>3, <2>6 DEF TodoHead
    <3>2. v = u \/ v = k
      BY <2>2, <2>3, <3>0 DEF TodoHead
    \* Left to the run in flight, or because there is a receipt.
    <3>3. CASE Left(task.set, q, k)
      <4>1. RunHead(p, u)
        BY <1>a, <1>b, <2>1, <3>3, SameRunHead DEF Left
      <4>2. CASE v = u
        BY <1>7, <1>a, <2>1, <4>1, <4>2
      <4>3. CASE v = k
        BY <1>8, <1>a, <2>1, <3>1, <4>1, <4>3
      <4> QED
        BY <3>2, <4>2, <4>3
    <3>4. CASE Taken(task.set, q, k)
      <4>1. PICK w \in Workers : Detached(w, p, k, task.set)
        BY <2>6, <3>4 DEF Taken
      <4>2. Running(p) = {}
        <5>1. ASSUME NEW z \in Running(p) PROVE FALSE
          <6>1. z \in Workers /\ Open(z) /\ run[z].pr = p
            BY <5>1, RunningIsOpen
          <6>3. run[z].set = task.set /\ run[z].set # 0
            BY <2>4, <6>1 DEF Open, Alone
          <6>2. p \in inFlight[task.set]
            BY <6>1, <6>3 DEF Typed, RunsSound
          <6> QED
            BY <2>6, <3>4, <6>2 DEF Taken
        <5> QED
          BY <5>1
      <4>3. Running(p)' = {w} /\ run'[w].head = k
        <5>1. run' = [run EXCEPT ![w] = [pc |-> "pending", pr |-> p, head |-> k,
                                         set |-> task.set, state |-> Null]]
          BY <4>1 DEF Detached
        <5>2. run'[w] = [pc |-> "pending", pr |-> p, head |-> k, set |-> task.set, state |-> Null]
          BY <1>0, <5>1
        <5>3. Open(w)' /\ run'[w].pr = p /\ run'[w].head = k
          BY <5>2 DEF Open
        <5>4. \A z \in Workers \ {w} : run'[z] = run[z]
          BY <1>0, <5>1
        <5> QED
          BY <4>2, <5>3, <5>4, RunningIsOpen DEF Open
      <4>4. u = k /\ v = k
        BY <3>2, <4>3 DEF RunHead
      <4>5. receipts[p][h] + Turn(l, l, h) + Turn(l, k, h) + Turn(k, g, h) <= arrived[p][h]
        BY <1>1, <1>2, <2>3, <3>1, <4>2 DEF RunHead
      <4>6. Turn(l, l, h) = 0 /\ Turn(k, k, h) = 0 /\ Turn(l, k, h) \in {0, 1} /\ Turn(k, g, h) \in {0, 1}
        BY Turns
      <4>7. receipts[p][h] + Turn(l, k, h) + Turn(k, k, h) + Turn(k, g, h) <= arrived[p][h]
        BY <1>1, <4>5, <4>6
      <4> QED
        BY <1>a, <2>1, <4>4, <4>7 DEF Goal
    <3> QED
      BY <2>1, <3>3, <3>4, ConsiderEffect
  <2> QED
    BY <2>5, <2>6
<1>13. CASE EndTick
  <2>1. UNCHANGED <<latest, receipts, head, arrived, run>>
        /\ task' = [task EXCEPT !.busy = FALSE]
    BY <1>13 DEF EndTick, records, world
  <2>2. task'.todo = task.todo
    BY <1>0, <2>1 DEF Tasks
  <2> QED
    BY <1>e, <2>1, <2>2
<1>14. CASE DbErrorInTick \/ ListError \/ HangListing
  <2>1. /\ UNCHANGED <<latest, receipts, head, arrived, run>>
        /\ task' = NoTask \/ task' = [task EXCEPT !.busy = FALSE, !.todo = <<>>]
    BY <1>14 DEF DbErrorInTick, ListError, HangListing, records, Mishap
  <2>2. task'.todo = <<>>
    <3>1. task' = NoTask => task'.todo = <<>>
      BY DEF NoTask
    <3>2. task' = [task EXCEPT !.busy = FALSE, !.todo = <<>>] => task'.todo = <<>>
      BY <1>0 DEF Tasks
    <3> QED
      BY <2>1, <3>1, <3>2
  <2> QED
    BY <1>e, <2>1, <2>2
<1>15. CASE Start \/ Restart
  <2>1. UNCHANGED <<latest, receipts, head, arrived, run>> /\ (UNCHANGED task \/ Spawn)
    BY <1>15 DEF Start, Restart, records, world
  <2>2. ASSUME Spawn PROVE task'.todo = task.todo \/ task'.todo = <<>>
    <3>1. UNCHANGED task \/ task' = [NoTask EXCEPT !.set = FreshSet]
      BY <2>2 DEF Spawn
    <3>2. task' = [NoTask EXCEPT !.set = FreshSet] => task'.todo = <<>>
      BY DEF NoTask
    <3> QED
      BY <3>1, <3>2
  <2> QED
    BY <1>e, <2>1, <2>2
<1>16. CASE DisableHeadless \/ EnableHeadless
  <2>1. UNCHANGED <<latest, receipts, head, arrived, run, task>>
    BY <1>16 DEF DisableHeadless, EnableHeadless, records, world, Mishap
  <2> QED
    BY <1>e, <2>1
<1>17. ASSUME NEW w \in Workers,
              PostPending(w) \/ Execute(w) \/ PostVerdict(w) \/ Release(w) \/ Hang(w)
       PROVE  Goal
  <2>1. UNCHANGED <<latest, receipts, head, arrived, task>>
    BY <1>17 DEF PostPending, Execute, PostVerdict, Release, Hang, records, world, watcher, Mishap
  <2> QED
    BY <1>17, <1>c, <2>1, QuietRun
\* A receipt: one turn less to come, one receipt more.
<1>18. ASSUME NEW w \in Workers, Record(w) PROVE Goal
  <2>1. /\ Open(w) /\ ~Open(w)' /\ run[w].pr \in PRs /\ run[w].head \in Heads
        /\ latest' = [latest EXCEPT ![run[w].pr] = [head |-> run[w].head, state |-> run[w].state]]
        /\ receipts' = [receipts EXCEPT ![run[w].pr][run[w].head] = @ + 1]
        /\ \A z \in Workers \ {w} : run'[z] = run[z]
        /\ UNCHANGED <<head, arrived, task>>
    BY <1>18, RecordedRun DEF watcher, world
  <2>2. CASE run[w].pr # p
    <3>1. latest'[p] = latest[p] /\ receipts'[p] = receipts[p]
      BY <1>0, <2>1, <2>2
    <3>2. SameRuns(p)
      <4>1. \A z \in Workers : Open(z)' /\ run'[z].pr = p <=> Open(z) /\ run[z].pr = p
        BY <2>1, <2>2 DEF Open
      <4>2. \A z \in Workers : Open(z) /\ run[z].pr = p => run'[z].head = run[z].head
        BY <2>1, <2>2
      <4> QED
        BY <4>1, <4>2, SameRunning
    <3>3. RunHead(p, u)
      BY <3>1, <3>2, SameRunHead
    <3> QED
      BY <1>5, <1>8, <2>1, <3>1, <3>3
  <2>3. CASE run[w].pr = p
    <3> DEFINE x == run[w].head
    <3>1. Running(p) = {w} /\ Running(p)' = {}
      <4>1. \A z \in Workers : Open(z) /\ run[z].pr = p => z = w
        BY <2>1, <2>3, OneOpenRun
      <4> QED
        BY <2>1, <2>3, <4>1, RunningIsOpen DEF Open
    <3>2. latest'[p].head = x
      <4>1. latest'[p] = [head |-> x, state |-> run[w].state]
        BY <1>0, <2>1, <2>3
      <4> QED
        BY <4>1
    <3>3. u = x
      BY <3>1, <3>2 DEF RunHead
    <3>4. RunHead(p, x) /\ TodoHead(p, x, v)
      BY <1>5, <2>1, <3>1, <3>3 DEF RunHead
    <3>5. receipts[p][h] + Turn(l, x, h) + Turn(x, v, h) + Turn(v, g, h) <= arrived[p][h]
      BY <1>2, <2>1, <3>4
    <3>6. receipts'[p][h] = IF h = x THEN receipts[p][h] + 1 ELSE receipts[p][h]
      BY <1>0, <2>1, <2>3
    <3>7. Turn(l, x, h) = IF h = x THEN 1 ELSE 0
      <4>1. x # l
        BY <2>1, <2>3 DEF Alone
      <4> QED
        BY <4>1 DEF Turn
    <3>8. /\ Turn(x, x, h) = 0 /\ Turn(x, v, h) \in {0, 1} /\ Turn(v, g, h) \in {0, 1}
      BY Turns
    <3>9. receipts'[p][h] + Turn(x, x, h) + Turn(x, v, h) + Turn(v, g, h) <= arrived[p][h]
      BY <1>1, <3>5, <3>6, <3>7, <3>8
    <3> QED
      BY <2>1, <3>2, <3>3, <3>9 DEF Goal
  <2> QED
    BY <2>2, <2>3
<1>19. ASSUME NEW w \in Workers, RecordError(w) PROVE Goal
  <2>1. /\ UNCHANGED <<latest, receipts, head, arrived, task>>
        /\ run' = [run EXCEPT ![w] = [run[w] EXCEPT !.pc = "release"]] /\ run[w].pc = "record"
    BY <1>19 DEF RecordError, records, watcher, Mishap, SetRun
  <2>2. run'[w] = [run[w] EXCEPT !.pc = "release"] /\ \A z \in Workers \ {w} : run'[z] = run[z]
    BY <1>0, <2>1
  <2>3. Open(w) /\ ~Open(w)'
    BY <1>0, <2>1, <2>2 DEF Open, Runs
  <2>4. CASE run[w].pr # p
    <3>1. SameRuns(p)
      <4>1. \A z \in Workers : Open(z)' /\ run'[z].pr = p <=> Open(z) /\ run[z].pr = p
        <5>1. run'[w].pr = run[w].pr
          BY <1>0, <2>2 DEF Runs
        <5> QED
          BY <2>2, <2>3, <2>4, <5>1 DEF Open
      <4>2. \A z \in Workers : Open(z) /\ run[z].pr = p => run'[z].head = run[z].head
        BY <2>2, <2>4
      <4> QED
        BY <4>1, <4>2, SameRunning
    <3> QED
      BY <1>c, <2>1, <3>1
  <2>5. CASE run[w].pr = p
    <3>1. Running(p)' = {}
      <4>1. \A z \in Workers : Open(z) /\ run[z].pr = p => z = w
        BY <2>3, <2>5, OneOpenRun
      <4>2. \A z \in Workers : ~(Open(z)' /\ run'[z].pr = p)
        BY <2>2, <2>3, <4>1 DEF Open
      <4> QED
        BY <4>2, RunningIsOpen
    <3>2. u = l
      BY <1>a, <2>1, <3>1 DEF RunHead
    <3>3. Listed1(v) \/ v = l
      BY <2>1, <3>2 DEF TodoHead
    <3> QED
      BY <1>9, <1>a, <2>1, <3>2, <3>3
  <2> QED
    BY <2>4, <2>5
<1>20. CASE Crash
  <2>1. UNCHANGED <<latest, receipts, head, arrived>> /\ task' = NoTask
    BY <1>20 DEF Crash, records, Mishap
  <2>2. \A w \in Workers : run'[w] = NoRun
    <3>1. \A w \in Workers : run[w].set = 0 => run[w] = NoRun
      BY <1>0 DEF Alone, RunSound
    <3> QED
      BY <1>20, <3>1 DEF Crash
  <2>3. Running(p)' = {}
    BY <2>2 DEF Running, NoRun
  <2>4. u = l /\ v = u
    <3>1. task'.todo = <<>>
      BY <2>1 DEF NoTask
    <3> QED
      BY <1>6, <1>a, <2>1, <2>3, <3>1 DEF RunHead
  <2> QED
    BY <1>9, <1>a, <2>1, <2>4
\* A push: one turn more to come at most, and it is to the head that arrives.
<1>21. ASSUME NEW q \in PRs, NEW k \in Heads, Push(q, k) PROVE Goal
  <2>1. /\ UNCHANGED <<latest, receipts, run, task>>
        /\ head' = [head EXCEPT ![q] = k] /\ arrived' = [arrived EXCEPT ![q][k] = @ + 1]
    BY <1>21 DEF Push, records, watcher
  <2>2. RunHead(p, u) /\ TodoHead(p, u, v)
    BY <1>5, <1>b, <2>1, SameRunHead
  <2>3. receipts[p][h] + Turn(l, u, h) + Turn(u, v, h) + Turn(v, g, h) <= arrived[p][h]
    BY <1>2, <2>2
  <2>4. CASE q # p
    <3>1. head'[p] = g /\ arrived'[p] = arrived[p]
      BY <1>0, <2>1, <2>4
    <3> QED
      BY <2>1, <2>3, <3>1 DEF Goal
  <2>5. CASE q = p
    <3>1. head'[p] = k /\ arrived'[p][h] = IF h = k THEN arrived[p][h] + 1 ELSE arrived[p][h]
      BY <1>0, <2>1, <2>5
    <3>2. Turn(v, k, h) = 0 \/ (h = k /\ Turn(v, k, h) = 1)
      BY DEF Turn
    <3>3. /\ Turn(l, u, h) \in {0, 1} /\ Turn(u, v, h) \in {0, 1} /\ Turn(v, g, h) \in {0, 1}
      BY Turns
    <3>4. receipts[p][h] + Turn(l, u, h) + Turn(u, v, h) + Turn(v, k, h) <= arrived'[p][h]
      BY <1>1, <2>3, <3>1, <3>2, <3>3
    <3> QED
      BY <2>1, <3>1, <3>4 DEF Goal
  <2> QED
    BY <2>4, <2>5
<1>22. ~ForcedConsiders
  BY DEF ForcedConsiders, Alone, NoTask
<1> QED
  BY <1>11, <1>12, <1>13, <1>14, <1>15, <1>16, <1>17, <1>18, <1>19, <1>20, <1>21, <1>22, LeftAlone
     DEF Next, Tick, Work

-----------------------------------------------------------------------------
(***************************************************************************)
(* The theorems.                                                           *)
(***************************************************************************)

\* The watcher starts with one set, no run and no receipt.
LEMMA InitInv == Init => Inv
<1> SUFFICES ASSUME Init PROVE Inv
  OBVIOUS
<1>1. /\ task = [set |-> 1, todo |-> <<>>, busy |-> FALSE]
      /\ forced = [set |-> 0, todo |-> <<>>, busy |-> FALSE]
  BY DEF Init, NoTask
<1>2. task \in Tasks /\ forced \in Tasks /\ Len(task.todo) = 0 /\ Len(forced.todo) = 0
  <2>1. <<>> \in Seq(PRs \X Heads)
    OBVIOUS
  <2> QED
    BY <1>1, <2>1, WatcherAssumption DEF Tasks
<1>3. \A w \in Workers : run[w] = NoRun
  BY DEF Init
<1>4. /\ run \in [Workers -> Runs] /\ latest \in [PRs -> Rows]
      /\ arrived \in [PRs -> [Heads -> Nat]] /\ receipts \in [PRs -> [Heads -> Nat]]
      /\ head \in [PRs -> Heads]
  <2>1. NoReceipt \in Rows
    BY DEF NoReceipt, Rows
  <2> QED
    BY <2>1, NoRunSound DEF Init
<1>5. TypeOK
  <2>1. \A t \in {task, forced} :
          /\ t.set \in Sets \cup {0} /\ t.busy \in BOOLEAN
          /\ t.todo \in Seq(PRs \X Heads) /\ Len(t.todo) <= MaxPerTick
    BY <1>2, WatcherAssumption DEF Tasks
  <2>2. /\ enabled \in BOOLEAN /\ slot \in BOOLEAN /\ up \in BOOLEAN /\ byHand \in BOOLEAN
    BY DEF Init
  <2>4. /\ used \in Sets \cup {0}
        /\ pushes \in 0..MaxPushes /\ mishaps \in 0..MaxMishaps
    BY WatcherAssumption DEF Init
  <2>3. inFlight \in [Sets -> SUBSET PRs] /\ shown \in [Heads -> Statuses \cup {Null}]
    BY DEF Init
  <2> QED
    BY <1>4, <2>1, <2>2, <2>3, <2>4, Zenon DEF TypeOK, Runs, Rows
<1>6. TasksSound
  BY <1>1, <1>2 DEF TasksSound, Init
<1>7. \A w \in Workers : run[w].pc = "none" /\ run[w].set = 0 /\ RunSound(run[w]) /\ ~Open(w)
  BY <1>3, NoRunSound DEF Open
<1>8. RunsSound
  BY <1>7 DEF RunsSound
<1>9. DOMAIN task.todo = {} /\ DOMAIN forced.todo = {}
  BY <1>1
<1>10. \A p \in PRs, h \in Heads : arrived[p][h] = IF head[p] = h THEN 1 ELSE 0
  BY DEF Init
<1>11. Listing
  BY <1>4, <1>7, <1>9, <1>10 DEF Listing
<1>12. Alone
  BY <1>1, <1>7 DEF Alone, Init
<1>13. \A p \in PRs : latest[p] = NoReceipt /\ NoReceipt.state = Null /\ NoReceipt.head = Null
  BY DEF Init, NoReceipt
<1>14. Posted /\ Shown
  BY <1>7, <1>13 DEF Posted, Shown
<1>15. Once
  <2> SUFFICES ASSUME NEW p \in PRs, NEW h \in Heads, NEW x \in Heads \cup {Null},
                      NEW y \in Heads \cup {Null}, RunHead(p, x), TodoHead(p, x, y)
               PROVE  Due(p, h, x, y) <= arrived[p][h]
    BY DEF Once
  <2>1. x = Null /\ y = Null
    BY <1>7, <1>9, <1>13 DEF RunHead, TodoHead, Running, Open
  <2>2. receipts[p][h] = 0 /\ arrived[p][h] = IF head[p] = h THEN 1 ELSE 0
    BY <1>10 DEF Init
  <2> QED
    BY <1>13, <2>1, <2>2, WatcherAssumption DEF Due, Turn
<1> QED
  BY <1>5, <1>6, <1>8, <1>11, <1>12, <1>14, <1>15 DEF Inv

\* Every step preserves the invariant.
LEMMA StepInv == Inv /\ [Next]_vars => Inv'
<1>1. ASSUME Inv, Next PROVE Inv'
  <2>1. Typed
    BY <1>1 DEF Inv, Typed
  <2>2. TypeOK' /\ TasksSound' /\ RunsSound' /\ Listing'
    BY <1>1, <2>1, TypeStep, ListingStep DEF Inv, Typed
  <2>3. ASSUME ~byHand' PROVE Alone' /\ Posted' /\ Shown' /\ Once'
    <3>1. ~byHand
      BY <1>1, <2>1, <2>3, LeftAlone
    <3> QED
      BY <1>1, <2>1, <2>3, <3>1, AloneStep, PostedStep, OnceStep DEF Inv
  <2> QED
    BY <2>2, <2>3 DEF Inv
<1>2. ASSUME Inv, UNCHANGED vars PROVE Inv'
  <2>0. UNCHANGED <<enabled, slot, task, forced, inFlight, used, run, latest, shown, receipts,
                    head, up, pushes, mishaps, byHand, arrived>>
    BY <1>2 DEF vars, watcher, records, world
  <2>1. TypeOK' /\ TasksSound' /\ RunsSound' /\ Listing'
    <3>1. TypeOK /\ TasksSound /\ RunsSound /\ Listing
      BY <1>2 DEF Inv
    <3>2. TypeOK'
      BY <2>0, <3>1 DEF TypeOK
    <3>3. TasksSound' /\ RunsSound'
      BY <2>0, <3>1 DEF TasksSound, RunsSound
    <3>4. Listing'
      BY <2>0, <3>1 DEF Listing
    <3> QED
      BY <3>2, <3>3, <3>4
  <2>2. Alone => Alone'
    BY <2>0 DEF Alone, Open
  <2>3. Posted /\ Shown => Posted' /\ Shown'
    BY <2>0 DEF Posted, Shown, Sole
  <2>4. Once => Once'
    BY <2>0 DEF Once, Due, RunHead, TodoHead, Running
  <2> QED
    BY <1>2, <2>0, <2>1, <2>2, <2>3, <2>4 DEF Inv
<1> QED
  BY <1>1, <1>2

\* The invariant holds of every behaviour.
LEMMA AlwaysInv == Spec => []Inv
BY InitInv, StepInv, PTL DEF Spec

\* Tasks, lists, sets, runs and receipts keep to their types.
THEOREM TypeCorrect == Spec => []TypeOK
<1>1. Inv => TypeOK
  BY DEF Inv
<1> QED
  BY <1>1, AlwaysInv, PTL

\* The in-flight set of a task keeps its runs apart, however many sets a
\* repository has by now; a watcher left to itself has one run for a pull
\* request (consider_pr and the release at the end of a run).
THEOREM RunsAreApart == Spec => []OneRunPerSet
<1>1. Inv => OneRunPerSet
  <2> SUFFICES ASSUME Inv, NEW p \in PRs
               PROVE  /\ \A w, v \in Running(p) :
                            run[w].set = run[v].set /\ run[w].set # 0 => w = v
                      /\ \A w \in Running(p) : run[w].set # 0 => p \in inFlight[run[w].set]
                      /\ ~byHand => Cardinality(Running(p)) <= 1
    BY DEF OneRunPerSet
  <2>1. \A w \in Running(p) : w \in Workers /\ run[w].pr = p /\ Open(w)
    BY RunningIsOpen
  <2>2. /\ \A w, v \in Running(p) : run[w].set = run[v].set /\ run[w].set # 0 => w = v
        /\ \A w \in Running(p) : run[w].set # 0 => p \in inFlight[run[w].set]
    BY <2>1 DEF Inv, RunsSound
  <2>3. ASSUME ~byHand PROVE Cardinality(Running(p)) <= 1
    <3>1. \A w, v \in Running(p) : w = v
      BY <2>1, <2>3, OneOpenRun DEF Inv, Typed
    <3>2. CASE Running(p) = {}
      BY <3>2, FS_EmptySet
    <3>3. ASSUME NEW w \in Running(p) PROVE Cardinality(Running(p)) <= 1
      <4>1. Running(p) = {w}
        BY <3>1, <3>3
      <4>2. Cardinality({w}) = 1
        BY FS_Singleton
      <4> QED
        BY <4>1, <4>2
    <3> QED
      BY <3>2, <3>3
  <2> QED
    BY <2>2, <2>3
<1> QED
  BY <1>1, AlwaysInv, PTL

\* A watcher left to itself leaves no more receipts for a head than it had
\* arrivals, with any number of pushes, crashes and failures.
THEOREM ReceiptsAreEarned == Spec => []HeadsRunOnce
<1>1. Inv => HeadsRunOnce
  <2> SUFFICES ASSUME Inv, ~byHand, NEW p \in PRs, NEW h \in Heads
               PROVE  receipts[p][h] <= arrived[p][h]
    BY DEF HeadsRunOnce
  <2>0. /\ Once /\ Typed /\ receipts[p][h] \in Nat /\ arrived[p][h] \in Nat
        /\ latest[p].head \in Heads \cup {Null}
    BY TypedParts DEF Inv, Typed, Rows
  <2>1. PICK x \in Heads \cup {Null} : RunHead(p, x)
    <3>1. CASE Running(p) = {}
      BY <2>0, <3>1 DEF RunHead
    <3>2. ASSUME NEW w \in Running(p) PROVE run[w].head \in Heads
      BY <2>0, <3>2, RunningIsOpen, TypedParts DEF Open, RunSound
    <3> QED
      BY <3>1, <3>2 DEF RunHead
  <2>2. PICK y \in Heads \cup {Null} : TodoHead(p, x, y)
    <3>1. ASSUME NEW i \in DOMAIN task.todo PROVE task.todo[i][2] \in Heads
      <4>1. task.todo[i] \in PRs \X Heads
        BY <2>0, TypedParts
      <4> QED
        BY <4>1
    <3> QED
      BY <3>1 DEF TodoHead
  <2>3. Due(p, h, x, y) <= arrived[p][h]
    BY <2>0, <2>1, <2>2 DEF Once
  <2>4. /\ Turn(latest[p].head, x, h) \in {0, 1} /\ Turn(x, y, h) \in {0, 1}
        /\ Turn(y, head[p], h) \in {0, 1}
    BY Turns
  <2> QED
    BY <2>0, <2>3, <2>4 DEF Due
<1> QED
  BY <1>1, AlwaysInv, PTL

\* The receipt of a watcher left to itself does not claim a status that GitHub
\* does not show, unless two pull requests share the commit.
THEOREM ReceiptsAreTrue == Spec => []ReceiptMatchesStatus
<1>1. Inv => ReceiptMatchesStatus
  BY DEF Inv, Shown, ReceiptMatchesStatus
<1> QED
  BY <1>1, AlwaysInv, PTL
=============================================================================
