----------------------- MODULE SynthesisCache_proofs -----------------------
(***************************************************************************)
(* Theorems about SynthesisCache, for any number of commands, keys, rules, *)
(* owners and attempts.                                                    *)
(***************************************************************************)
EXTENDS SynthesisCache, FiniteSetTheorems, TLAPS

(* The places of a command that holds a reservation, or thinks it does. *)
AtWork == {"build", "begin", "call", "sleep", "outcome", "settle", "publish", "fail"}
Places == {"idle", "exclude", "reserve", "cached"} \cup AtWork

JobRows ==
    [state : {"running", "paused", "cancelling", "cancelled", "completed"},
     stage : {"synthesize", "validate", "cleanup", "idle"},
     owner : Owners, cancel : BOOLEAN]
CacheRows ==
    [status : Settled \cup {"absent", "pending"}, owner : Owners \cup {Null},
     answer : Answers \cup {Null}, stale : BOOLEAN]
AttemptRows ==
    [status : AttemptStatuses \cup {"none", "pending"}, by : Commands \cup {Null}]
CommandRecords ==
    [pc : Places, key : Keys \cup {Null}, owner : Owners \cup {Null},
     next : 0..MaxAttempts, log : Seq(AttemptStatuses),
     told : {"no", "cancelled", "lost"}, answer : Answers \cup {Null}]

(* The ordinal of the last entry of a command's local list. *)
Last(w) == IF w.pc \in {"begin", "call"} THEN w.next - 1 ELSE w.next

(* What a command's local state says at each place: in particular the list  *)
(* reaches back to ordinals that exist, and an answer is its last entry.    *)
SoundCommand(w) ==
    /\ w.pc = "idle" => w = Idle
    /\ w.pc # "idle" => w.key \in Keys /\ w.owner \in Owners
    /\ w.pc = "exclude" => w.key \in Protected
    /\ w.pc \in AtWork \cup {"reserve", "cached"} => w.key \notin Protected
    /\ w.pc \in {"idle", "exclude", "reserve", "cached", "build"} => w.log = <<>>
    /\ w.pc \in {"build", "begin", "call", "sleep"} => w.next >= 1
    /\ w.pc = "sleep" => w.next < MaxAttempts
    /\ Len(w.log) <= Last(w)
    /\ w.answer # Null => /\ w.pc \in {"outcome", "settle", "publish"}
                          /\ w.log # <<>>
                          /\ w.log[Len(w.log)] = "success"
    /\ w.pc = "publish" => w.answer # Null

CommandsSound == \A c \in Commands : SoundCommand(cmd[c])

(* As long as the job synthesizes, what a command has in its list, or is    *)
(* calling the provider for, is in the ledger under its own name.          *)
OwnEntries ==
    job.stage = "synthesize" =>
        \A c \in Commands : cmd[c].pc \in AtWork =>
            /\ \A n \in 1..MaxAttempts :
                  Last(cmd[c]) - Len(cmd[c].log) < n /\ n <= Last(cmd[c])
                      => attempts[cmd[c].key][n].by = c
            /\ cmd[c].pc = "call" => attempts[cmd[c].key][cmd[c].next].by = c

Used(k) == {n \in 1..MaxAttempts : attempts[k][n] # NoAttempt}

(* CallsAccounted, also for rows that are not there yet. *)
Accounts ==
    \A k \in Keys :
        /\ calls[k] <= MaxAttempts
        /\ cache[k].status # "absent" \/ job.stage = "synthesize"
               => calls[k] = Cardinality(Used(k))

ReadyHasSuccess ==
    \A k \in Keys :
        cache[k].status = "ready" =>
            \E n \in 1..MaxAttempts : attempts[k][n].status = "success"

RulesEndSynthesis == \A r \in Rules : rule[r].key # Null => job.stage # "synthesize"

ProtectedRows == \A k \in Protected : cache[k] \in {NoRow, Row("excluded", Null, Null)}

(* SingleFlight, with the reason: the reservation of a command at work is   *)
(* pending and fresh, and only such a row keeps others away.               *)
Flight ==
    ~jumped =>
        /\ \A k \in Keys : \A c, d \in Working(k) : c = d
        /\ job.stage = "synthesize" =>
              \A k \in Keys : Working(k) # {} => cache[k].status = "pending" /\ ~cache[k].stale

Sound == TypeOK /\ CommandsSound

-----------------------------------------------------------------------------
\* TypeOK, with the sets above.
LEMMA Types ==
    TypeOK <=> /\ job \in JobRows
               /\ cache \in [Keys -> CacheRows]
               /\ attempts \in [Keys -> [1..MaxAttempts -> AttemptRows]]
               /\ rule \in [Rules -> [key : Keys \cup {Null}, answer : Answers \cup {Null}]]
               /\ cmd \in [Commands -> CommandRecords]
               /\ calls \in [Keys -> Nat] /\ jumped \in BOOLEAN
<1>1. Places = {"idle", "exclude", "reserve", "cached", "build", "begin", "call", "sleep",
                "outcome", "settle", "publish", "fail"}
  BY DEF Places, AtWork
<1> QED
  BY <1>1, Zenon DEF TypeOK, JobRows, CacheRows, AttemptRows, CommandRecords

\* A command that does nothing is in order.
LEMMA IdleIsSound == Idle \in CommandRecords /\ SoundCommand(Idle)
BY SynthesisAssumption DEF Idle, CommandRecords, Places, SoundCommand, Last, AtWork

\* The parts of a command's local state.
LEMMA CommandParts ==
    ASSUME Sound, NEW c \in Commands
    PROVE  /\ cmd[c] \in CommandRecords /\ SoundCommand(cmd[c])
           /\ cmd[c].next \in 0..MaxAttempts
           /\ cmd[c].log \in Seq(AttemptStatuses)
           /\ cmd[c].pc # "idle" => cmd[c].key \in Keys /\ cmd[c].owner \in Owners
BY Types DEF Sound, CommandsSound, CommandRecords, SoundCommand

-----------------------------------------------------------------------------
\* A step of a command leads from one sound place to another.
LEMMA CommandStep ==
    ASSUME Sound, Next
    PROVE  cmd' \in [Commands -> CommandRecords] /\ CommandsSound'
<1> DEFINE Goal == cmd' \in [Commands -> CommandRecords] /\ CommandsSound'
<1>0. cmd \in [Commands -> CommandRecords] /\ \A d \in Commands : SoundCommand(cmd[d])
  BY Types DEF Sound, CommandsSound
<1>a. ASSUME NEW c \in Commands, NEW w \in CommandRecords, SoundCommand(w),
             cmd' = [cmd EXCEPT ![c] = w]
      PROVE  Goal
  BY <1>0, <1>a DEF CommandsSound
<1>b. ASSUME UNCHANGED cmd PROVE Goal
  BY <1>0, <1>b DEF CommandsSound
<1>c. ASSUME NEW c \in Commands, Leave(c) PROVE Goal
  BY <1>a, <1>c, IdleIsSound DEF Leave
<1>1. ASSUME NEW c \in Commands, NEW k \in Keys, NEW o \in Owners, Start(c, k, o)
      PROVE  Goal
  <2> DEFINE w(pc) == [Idle EXCEPT !.pc = pc, !.key = k, !.owner = o]
  <2>1. w("exclude") \in CommandRecords /\ w("reserve") \in CommandRecords
    BY IdleIsSound DEF CommandRecords, Places
  <2>2. /\ k \in Protected => SoundCommand(w("exclude"))
        /\ k \notin Protected => SoundCommand(w("reserve"))
    BY SynthesisAssumption DEF SoundCommand, Idle, AtWork, Last
  <2>3. \/ UNCHANGED cmd
        \/ k \in Protected /\ cmd' = [cmd EXCEPT ![c] = w("exclude")]
        \/ k \notin Protected /\ cmd' = [cmd EXCEPT ![c] = w("reserve")]
    BY <1>1 DEF Start
  <2> HIDE DEF w, Goal
  <2> QED
    BY <1>a, <1>b, <2>1, <2>2, <2>3
<1>2. ASSUME NEW c \in Commands, PersistExclusion(c) PROVE Goal
  BY <1>c, <1>2 DEF PersistExclusion
<1>3. ASSUME NEW c \in Commands, Reserve(c) PROVE Goal
  <2> DEFINE n == IF cache[cmd[c].key].status = "absent" THEN 1 ELSE NextOrdinal(cmd[c].key)
             w == [cmd[c] EXCEPT !.pc = "build", !.next = n]
  <2>1. cmd[c].pc = "reserve" /\ n <= MaxAttempts /\ cmd' = [cmd EXCEPT ![c] = w]
    BY <1>0, <1>3 DEF Reserve
  <2>2. n \in 1..MaxAttempts
    <3>1. ASSUME NEW k PROVE NextOrdinal(k) \in Nat \ {0}
      <4> DEFINE S == {m \in 1..MaxAttempts : \E j \in m..MaxAttempts : attempts[k][j] # NoAttempt}
      <4>1. IsFiniteSet(1..MaxAttempts)
        BY SynthesisAssumption, FS_Interval
      <4>2. Cardinality(S) \in Nat
        BY <4>1, FS_Subset, FS_CardinalityType
      <4> QED
        BY <4>2 DEF NextOrdinal
    <3> QED
      BY <2>1, <3>1, SynthesisAssumption
  <2> HIDE DEF n
  <2>3. w \in CommandRecords
    <3>1. n \in 0..MaxAttempts
      BY <2>2, SynthesisAssumption
    <3> QED
      BY <1>0, <3>1 DEF CommandRecords, Places, AtWork
  <2>4. SoundCommand(w)
    BY <1>0, <2>1, <2>2 DEF SoundCommand, Last, AtWork, CommandRecords
  <2> QED
    BY <1>a, <2>1, <2>3, <2>4
<1>4. ASSUME NEW c \in Commands, ReserveExhausted(c) PROVE Goal
  BY <1>c, <1>4 DEF ReserveExhausted
\* A command that only changes its place.
<1>d. ASSUME NEW c \in Commands, NEW pc \in Places, Go(c, pc),
             SoundCommand([cmd[c] EXCEPT !.pc = pc])
      PROVE  Goal
  <2> DEFINE w == [cmd[c] EXCEPT !.pc = pc]
  <2>1. w \in CommandRecords
    BY <1>0 DEF CommandRecords
  <2>2. cmd' = [cmd EXCEPT ![c] = w]
    BY <1>0, <1>d DEF Go
  <2> QED
    BY <1>a, <1>d, <2>1, <2>2
<1>5. ASSUME NEW c \in Commands, ReserveRefused(c) PROVE Goal
  <2>1. CASE Leave(c)
    BY <1>c, <2>1
  <2>2. CASE Go(c, "cached")
    <3>1. SoundCommand([cmd[c] EXCEPT !.pc = "cached"])
      BY <1>0, <1>5 DEF ReserveRefused, SoundCommand, Last, AtWork, CommandRecords
    <3> QED
      BY <1>d, <2>2, <3>1 DEF Places
  <2> QED
    BY <1>5, <2>1, <2>2 DEF ReserveRefused
<1>6. ASSUME NEW c \in Commands, MaterializeCached(c) PROVE Goal
  BY <1>c, <1>6 DEF MaterializeCached
<1>7. ASSUME NEW c \in Commands, BuildProvider(c) PROVE Goal
  <2>1. CASE Go(c, "begin")
    <3>1. SoundCommand([cmd[c] EXCEPT !.pc = "begin"])
      BY <1>0, <1>7 DEF BuildProvider, SoundCommand, Last, AtWork, CommandRecords
    <3> QED
      BY <1>d, <2>1, <3>1 DEF Places, AtWork
  <2> QED
    BY <1>7, <1>c, <2>1 DEF BuildProvider
<1>8. ASSUME NEW c \in Commands, BeginAttempt(c) PROVE Goal
  <2>1. SoundCommand([cmd[c] EXCEPT !.pc = "call"]) /\ Go(c, "call")
    BY <1>0, <1>8 DEF BeginAttempt, SoundCommand, Last, AtWork, CommandRecords
  <2> QED
    BY <1>d, <2>1 DEF Places, AtWork
<1>9. ASSUME NEW c \in Commands, BeginRefused(c) PROVE Goal
  <2> DEFINE w == [cmd[c] EXCEPT !.pc = "outcome", !.next = @ - 1]
  <2>1. cmd[c].pc = "begin" /\ cmd' = [cmd EXCEPT ![c] = w]
    BY <1>0, <1>9 DEF BeginRefused, CommandRecords
  <2>2. w \in CommandRecords
    <3> DEFINE m == cmd[c].next - 1
    <3>1. m \in 0..MaxAttempts
      BY <1>0, <2>1, SynthesisAssumption DEF CommandRecords, SoundCommand
    <3> HIDE DEF m
    <3>2. [cmd[c] EXCEPT !.pc = "outcome", !.next = m] \in CommandRecords
      BY <1>0, <3>1 DEF CommandRecords, Places, AtWork
    <3> QED
      BY <3>2 DEF m
  <2>3. SoundCommand(w)
    BY <1>0, <2>1, SynthesisAssumption DEF SoundCommand, Last, AtWork, CommandRecords
  <2> QED
    BY <1>a, <2>1, <2>2, <2>3
<1>10. ASSUME NEW c \in Commands, NEW s \in AttemptStatuses, NEW a \in Answers,
              FinishAttempt(c, s, a)
       PROVE  Goal
  <2> DEFINE recorded == AccountingActor(cmd[c].owner) /\ Accepts(cmd[c].key, cmd[c].next, s, c)
             b == IF recorded /\ s = "success" THEN a ELSE Null
  <2>1. /\ cmd[c].pc = "call"
        /\ s = "transient" => cmd[c].next < MaxAttempts
        /\ \E to \in IF recorded THEN After(s, cmd[c].next) ELSE {"outcome"} :
              cmd' = [cmd EXCEPT ![c].pc = to, ![c].log = Append(@, s), ![c].answer = b]
    BY <1>10 DEF FinishAttempt
  <2>2. PICK to \in IF recorded THEN After(s, cmd[c].next) ELSE {"outcome"} :
              cmd' = [cmd EXCEPT ![c].pc = to, ![c].log = Append(@, s), ![c].answer = b]
    BY <2>1
  <2>3. /\ to \in {"sleep", "outcome"}
        /\ to = "sleep" => cmd[c].next < MaxAttempts /\ s # "success"
    <3>1. cmd[c].next <= MaxAttempts /\ cmd[c].next \in Nat
      BY <1>0, SynthesisAssumption DEF CommandRecords
    <3> QED
      BY <2>1, <2>2, <3>1, SynthesisAssumption DEF After
  <2>4. b \in Answers \cup {Null} /\ (b # Null => s = "success")
    OBVIOUS
  <2> HIDE DEF b, recorded
  <2> DEFINE w == [cmd[c] EXCEPT !.pc = to, !.log = Append(@, s), !.answer = b]
  <2>5. cmd' = [cmd EXCEPT ![c] = w]
    BY <1>0, <2>2 DEF CommandRecords
  <2>6. cmd[c].log \in Seq(AttemptStatuses) /\ Len(cmd[c].log) \in Nat
    BY <1>0 DEF CommandRecords
  <2>7. /\ Append(cmd[c].log, s) \in Seq(AttemptStatuses)
        /\ Len(Append(cmd[c].log, s)) = Len(cmd[c].log) + 1
        /\ Append(cmd[c].log, s)[Len(cmd[c].log) + 1] = s
    BY <2>6
  <2>8. w \in CommandRecords
    BY <1>0, <2>3, <2>4, <2>7 DEF CommandRecords, Places, AtWork
  <2>9. SoundCommand(w)
    <3>1. /\ w.pc = to /\ w.log = Append(cmd[c].log, s) /\ w.answer = b
          /\ w.next = cmd[c].next /\ w.key = cmd[c].key /\ w.owner = cmd[c].owner
      BY <1>0 DEF CommandRecords
    <3>2. /\ cmd[c].key \in Keys /\ cmd[c].owner \in Owners /\ cmd[c].key \notin Protected
          /\ cmd[c].next >= 1 /\ Len(cmd[c].log) <= cmd[c].next - 1
          /\ cmd[c].next \in Nat
      BY <1>0, <2>1, SynthesisAssumption DEF SoundCommand, Last, AtWork, CommandRecords
    <3>3. Len(w.log) <= w.next /\ w.log # <<>> /\ w.log[Len(w.log)] = s
      BY <2>6, <2>7, <3>1, <3>2
    <3> HIDE DEF w
    <3> QED
      BY <2>3, <2>4, <3>1, <3>2, <3>3 DEF SoundCommand, Last, AtWork
  <2> QED
    BY <1>a, <2>5, <2>8, <2>9
<1>11. ASSUME NEW c \in Commands, Wake(c) PROVE Goal
  <2>1. CASE Go(c, "outcome")
    <3>1. SoundCommand([cmd[c] EXCEPT !.pc = "outcome"])
      BY <1>0, <1>11 DEF Wake, SoundCommand, Last, AtWork, CommandRecords
    <3> QED
      BY <1>d, <2>1, <3>1 DEF Places, AtWork
  <2>2. CASE cmd' = [cmd EXCEPT ![c].pc = "begin", ![c].next = @ + 1]
    <3> DEFINE w == [cmd[c] EXCEPT !.pc = "begin", !.next = @ + 1]
    <3>1. cmd[c].pc = "sleep" /\ cmd' = [cmd EXCEPT ![c] = w]
      BY <1>0, <1>11, <2>2 DEF Wake, CommandRecords
    <3>2. w \in CommandRecords
      <4> DEFINE m == cmd[c].next + 1
      <4>1. m \in 0..MaxAttempts
        BY <1>0, <3>1, SynthesisAssumption DEF CommandRecords, SoundCommand
      <4> HIDE DEF m
      <4>2. [cmd[c] EXCEPT !.pc = "begin", !.next = m] \in CommandRecords
        BY <1>0, <4>1 DEF CommandRecords, Places, AtWork
      <4> QED
        BY <4>2 DEF m
    <3>3. SoundCommand(w)
      BY <1>0, <3>1, SynthesisAssumption DEF SoundCommand, Last, AtWork, CommandRecords
    <3> QED
      BY <1>a, <3>1, <3>2, <3>3
  <2> QED
    BY <1>11, <2>1, <2>2 DEF Wake
<1>12. ASSUME NEW c \in Commands, CheckOutcome(c) PROVE Goal
  <2>1. cmd[c].pc = "outcome"
    BY <1>12 DEF CheckOutcome
  <2>2. ASSUME NEW pc \in {"settle", "publish", "fail"}, Go(c, pc),
               pc = "publish" => cmd[c].answer # Null,
               pc = "fail" => cmd[c].answer = Null
        PROVE  Goal
    <3>1. SoundCommand([cmd[c] EXCEPT !.pc = pc])
      BY <1>0, <2>1, <2>2 DEF SoundCommand, Last, AtWork, CommandRecords
    <3> QED
      BY <1>d, <2>2, <3>1 DEF Places, AtWork
  <2>3. \/ Leave(c) \/ Go(c, "settle")
        \/ Go(c, IF cmd[c].answer # Null THEN "publish" ELSE "fail")
    BY <1>12 DEF CheckOutcome
  <2> QED
    BY <1>c, <2>2, <2>3
<1>13. ASSUME NEW c \in Commands,
              SettleCancelled(c) \/ PublishAnswer(c) \/ PublishFailure(c) \/ Crash(c)
       PROVE  Goal
  BY <1>c, <1>13 DEF SettleCancelled, PublishAnswer, PublishFailure, Crash
<1>14. ASSUME NEW c \in Commands, Watch(c) PROVE Goal
  <2> DEFINE w == [cmd[c] EXCEPT !.told = JobOutcome(cmd[c].owner)]
  <2>1. /\ cmd[c].pc \in {"begin", "call", "sleep", "outcome"}
        /\ JobOutcome(cmd[c].owner) \in {"cancelled", "lost"}
        /\ cmd' = [cmd EXCEPT ![c] = w]
    BY <1>0, <1>14 DEF Watch, JobOutcome, CommandRecords
  <2>2. w \in CommandRecords
    BY <1>0, <2>1 DEF CommandRecords
  <2>3. SoundCommand(w)
    BY <1>0, <2>1 DEF SoundCommand, Last, AtWork, CommandRecords
  <2> QED
    BY <1>a, <2>1, <2>2, <2>3
<1>15. ASSUME \/ \E k \in Keys : GrowStale(k)
              \/ RequestCancel \/ AcknowledgeCancel \/ PauseJob \/ ResumeJob
              \/ \E o \in Owners : RecoverStaleJob(o)
              \/ ContinueWithoutModel \/ PublishGeneration \/ CompleteJob
              \/ \E ks \in SUBSET Keys : CleanupCache(ks)
       PROVE  Goal
  BY <1>b, <1>15 DEF GrowStale, RequestCancel, AcknowledgeCancel, PauseJob, ResumeJob,
     RecoverStaleJob, ContinueWithoutModel, PublishGeneration, CompleteJob, CleanupCache, JobStep
<1> HIDE DEF Goal
<1> QED
  BY <1>1, <1>2, <1>3, <1>4, <1>5, <1>6, <1>7, <1>8, <1>9, <1>10, <1>11, <1>12, <1>13, <1>14,
     <1>15 DEF Next, Advance, Disturb, Goal

-----------------------------------------------------------------------------
(***************************************************************************)
(* What a step may do to each table.                                       *)
(***************************************************************************)

\* The job's row stays a row, and never returns to the synthesis.
LEMMA JobEffect ==
    ASSUME Sound, Next
    PROVE  job' \in JobRows /\ (job'.stage = "synthesize" => job.stage = "synthesize")
<1>0. job \in JobRows
  BY Types DEF Sound
<1>a. ASSUME NEW stage \in {"validate", "cleanup"}, job' = [job EXCEPT !.stage = stage]
      PROVE  job' \in JobRows /\ job'.stage # "synthesize"
  BY <1>0, <1>a DEF JobRows
<1>b. ASSUME NEW state \in {"cancelled", "completed"},
             job' = [job EXCEPT !.state = state, !.stage = "idle"]
      PROVE  job' \in JobRows /\ job'.stage # "synthesize"
  BY <1>0, <1>b DEF JobRows
<1>1. ASSUME NEW c \in Commands, NEW k \in Keys, NEW o \in Owners, Start(c, k, o)
      PROVE  UNCHANGED job \/ job' = [job EXCEPT !.stage = "validate"]
  BY <1>1 DEF Start, Materialize
<1>2. ASSUME NEW c \in Commands, Advance(c) \/ Watch(c) \/ Crash(c)
      PROVE  \/ UNCHANGED job
             \/ job' = [job EXCEPT !.stage = "validate"]
             \/ job' = [job EXCEPT !.state = "cancelled", !.stage = "idle"]
  BY <1>2 DEF Advance, Watch, Crash, PersistExclusion, Reserve, ReserveExhausted, ReserveRefused,
     MaterializeCached, Materialize, BuildProvider, BeginAttempt, BeginRefused, FinishAttempt,
     Wake, CheckOutcome, SettleCancelled, PublishAnswer, PublishFailure
<1>3. ASSUME \/ \E k \in Keys : GrowStale(k)
             \/ \E ks \in SUBSET Keys : CleanupCache(ks)
      PROVE  UNCHANGED job
  BY <1>3 DEF GrowStale, CleanupCache
<1>4. ASSUME \/ RequestCancel \/ PauseJob \/ ResumeJob
             \/ \E o \in Owners : RecoverStaleJob(o)
      PROVE  job' \in JobRows /\ job'.stage = job.stage
  <2>1. ASSUME NEW state \in {"cancelling", "paused", "running"}, NEW b \in BOOLEAN,
               job' = [job EXCEPT !.state = state, !.cancel = b]
        PROVE  job' \in JobRows /\ job'.stage = job.stage
    BY <1>0, <2>1, Zenon DEF JobRows
  <2>2. ASSUME NEW o \in Owners, RecoverStaleJob(o)
        PROVE  job' \in JobRows /\ job'.stage = job.stage
    BY <1>0, <2>2 DEF RecoverStaleJob, JobStep, JobRows
  <2>3. RequestCancel => job' = [job EXCEPT !.state = "cancelling", !.cancel = TRUE]
    BY DEF RequestCancel, JobStep
  <2>4. PauseJob => job' = [job EXCEPT !.state = "paused", !.cancel = FALSE]
    BY DEF PauseJob, JobStep
  <2>5. ResumeJob => job' = [job EXCEPT !.state = "running", !.cancel = FALSE]
    BY DEF ResumeJob, JobStep
  <2> QED
    BY <1>4, <2>1, <2>2, <2>3, <2>4, <2>5
<1>5. AcknowledgeCancel => job' = [job EXCEPT !.state = "cancelled", !.stage = "idle"]
  BY DEF AcknowledgeCancel, JobStep
<1>6. ContinueWithoutModel => job' = [job EXCEPT !.stage = "validate"]
  BY DEF ContinueWithoutModel, JobStep
<1>7. PublishGeneration => job' = [job EXCEPT !.stage = "cleanup"]
  BY DEF PublishGeneration, JobStep
<1>8. CompleteJob => job' = [job EXCEPT !.state = "completed", !.stage = "idle"]
  BY DEF CompleteJob, JobStep
<1>9. UNCHANGED job => job' \in JobRows /\ (job'.stage = "synthesize" => job.stage = "synthesize")
  BY <1>0
<1> QED
  BY <1>a, <1>b, <1>1, <1>2, <1>3, <1>4, <1>5, <1>6, <1>7, <1>8, <1>9 DEF Next, Disturb

(* A command rewrites ledger rows that are its own and not final. *)
Rewrites(c) ==
    /\ job.stage = "synthesize"
    /\ attempts' \in [Keys -> [1..MaxAttempts -> AttemptRows]]
    /\ \A k \in Keys, n \in 1..MaxAttempts :
          \/ attempts'[k][n] = attempts[k][n]
          \/ /\ attempts[k][n].by = c /\ attempts'[k][n].by = c
             /\ attempts[k][n].status \in {"none", "pending"}

\* The position in a list of len entries, the last of them at ordinal last, of
\* the entry at ordinal n.
LEMMA Position ==
    ASSUME NEW last \in Nat, NEW len \in Nat, NEW n \in Nat, last - len < n, n <= last
    PROVE  n - last + len \in 1..len /\ last - len + (n - last + len) = n
OBVIOUS

\* The list of a command falls on rows of its own.
LEMMA LedgerRewritten ==
    ASSUME Sound, OwnEntries, NEW c \in Commands,
           cmd[c].pc \in {"publish", "fail"}, job.stage = "synthesize",
           AcceptsLog(c), attempts' = LedgerWith(c)
    PROVE  /\ Rewrites(c)
           /\ cmd[c].log # <<>> =>
                 \E n \in 1..MaxAttempts :
                    attempts'[cmd[c].key][n].status = cmd[c].log[Len(cmd[c].log)]
<1> DEFINE w == cmd[c]
           k == w.key
           len == Len(w.log)
           row(n) == [status |-> w.log[n - w.next + len], by |-> c]
<1>1. /\ k \in Keys /\ w.next \in 0..MaxAttempts /\ w.log \in Seq(AttemptStatuses)
      /\ len \in Nat /\ len <= w.next /\ Last(w) = w.next
  BY CommandParts DEF SoundCommand, Last, AtWork
<1>2. attempts \in [Keys -> [1..MaxAttempts -> AttemptRows]]
  BY Types DEF Sound
<1>3. attempts' = [attempts EXCEPT ![k] =
          [n \in 1..MaxAttempts |-> IF \E i \in DOMAIN w.log : n = Ordinal(w, i)
                                    THEN row(n) ELSE attempts[k][n]]]
  BY <1>1, <1>2 DEF LedgerWith
<1>4. ASSUME NEW n \in 1..MaxAttempts
      PROVE  (\E i \in DOMAIN w.log : n = Ordinal(w, i)) <=> (w.next - len < n /\ n <= w.next)
  <2>1. DOMAIN w.log = 1..len
    BY <1>1
  <2>2. ASSUME NEW i \in 1..len, n = Ordinal(w, i)
        PROVE  w.next - len < n /\ n <= w.next
    BY <1>1, <2>2, SynthesisAssumption DEF Ordinal
  <2>3. ASSUME w.next - len < n, n <= w.next
        PROVE  n - w.next + len \in 1..len /\ n = Ordinal(w, n - w.next + len)
    <3>1. w.next \in Nat /\ n \in Nat
      BY <1>1, SynthesisAssumption
    <3> QED
      BY <1>1, <2>3, <3>1, Position DEF Ordinal
  <2> QED
    BY <2>1, <2>2, <2>3
<1>5. ASSUME NEW n \in 1..MaxAttempts, w.next - len < n, n <= w.next
      PROVE  /\ n - w.next + len \in 1..len
             /\ row(n) \in AttemptRows
             /\ attempts[k][n].by = c
             /\ attempts[k][n].status \in {"none", "pending"} \/ attempts[k][n] = row(n)
  <2>0. w.next \in Nat /\ n \in Nat
    BY <1>1, SynthesisAssumption
  <2>1. n - w.next + len \in 1..len /\ DOMAIN w.log = 1..len
    BY <1>1, <1>5, <2>0, Position
  <2>2. w.log[n - w.next + len] \in AttemptStatuses
    BY <1>1, <2>1
  <2>3. row(n) \in AttemptRows
    BY <2>2 DEF AttemptRows
  <2>4. attempts[k][n].by = c
    BY <1>1, <1>5 DEF OwnEntries, AtWork
  <2>5. Ordinal(w, n - w.next + len) = n
    BY <1>1, SynthesisAssumption DEF Ordinal
  <2>6. Accepts(k, n, w.log[n - w.next + len], c)
    BY <2>1, <2>5 DEF AcceptsLog
  <2> QED
    BY <2>1, <2>3, <2>4, <2>6 DEF Accepts
<1> HIDE DEF row
<1>6. ASSUME NEW n \in 1..MaxAttempts
      PROVE  attempts'[k][n] = IF w.next - len < n /\ n <= w.next THEN row(n) ELSE attempts[k][n]
  BY <1>1, <1>2, <1>3, <1>4
<1>7. attempts' \in [Keys -> [1..MaxAttempts -> AttemptRows]]
  <2>1. [n \in 1..MaxAttempts |-> IF \E i \in DOMAIN w.log : n = Ordinal(w, i)
                                  THEN row(n) ELSE attempts[k][n]]
           \in [1..MaxAttempts -> AttemptRows]
    BY <1>1, <1>2, <1>4, <1>5
  <2> QED
    BY <1>1, <1>2, <1>3, <2>1
<1>8. \A j \in Keys \ {k} : attempts'[j] = attempts[j]
  BY <1>2, <1>3
<1>9. Rewrites(c)
  <2>1. ASSUME NEW j \in Keys, NEW n \in 1..MaxAttempts
        PROVE  \/ attempts'[j][n] = attempts[j][n]
               \/ /\ attempts[j][n].by = c /\ attempts'[j][n].by = c
                  /\ attempts[j][n].status \in {"none", "pending"}
    <3>1. row(n).by = c
      BY DEF row
    <3> QED
      BY <1>5, <1>6, <1>8, <3>1
  <2> QED
    BY <1>7, <2>1 DEF Rewrites
<1>10. w.log # <<>> => \E n \in 1..MaxAttempts : attempts'[k][n].status = w.log[len]
  <2> SUFFICES ASSUME w.log # <<>> PROVE attempts'[k][w.next].status = w.log[len] /\ w.next \in 1..MaxAttempts
    OBVIOUS
  <2>1. len >= 1
    BY <1>1
  <2>2. w.next \in 1..MaxAttempts /\ w.next - len < w.next /\ w.next - w.next + len = len
    BY <1>1, <2>1, SynthesisAssumption
  <2>3. row(w.next).status = w.log[len]
    <3>1. row(w.next).status = w.log[w.next - w.next + len]
      BY DEF row
    <3> QED
      BY <2>2, <3>1
  <2> QED
    BY <1>6, <2>2, <2>3
<1> QED
  BY <1>9, <1>10

\* An attempt that ends is written over the command's own pending row.
LEMMA FinishRewrites ==
    ASSUME Sound, OwnEntries, NEW c \in Commands, NEW s \in AttemptStatuses, NEW a \in Answers,
           FinishAttempt(c, s, a)
    PROVE  UNCHANGED attempts \/ Rewrites(c)
<1> DEFINE k == cmd[c].key
           m == cmd[c].next
           row == [status |-> s, by |-> c]
<1>1. cmd[c].pc = "call"
  BY DEF FinishAttempt
<1>2. k \in Keys /\ m \in 1..MaxAttempts
  BY <1>1, CommandParts, SynthesisAssumption DEF SoundCommand
<1>3. CASE AccountingActor(cmd[c].owner) /\ Accepts(k, m, s, c)
  <2>1. attempts' = [attempts EXCEPT ![k][m] = row]
    BY <1>3 DEF FinishAttempt
  <2>2. attempts \in [Keys -> [1..MaxAttempts -> AttemptRows]]
    BY Types DEF Sound
  <2>3. job.stage = "synthesize"
    BY <1>3 DEF AccountingActor
  <2>4. attempts[k][m].by = c
    BY <1>1, <2>3 DEF OwnEntries, AtWork
  <2>5. row \in AttemptRows
    BY DEF AttemptRows
  <2>6. attempts' \in [Keys -> [1..MaxAttempts -> AttemptRows]]
    BY <1>2, <2>1, <2>2, <2>5
  <2>7. ASSUME NEW j \in Keys, NEW n \in 1..MaxAttempts
        PROVE  attempts'[j][n] = IF j = k /\ n = m THEN row ELSE attempts[j][n]
    BY <1>2, <2>1, <2>2
  <2>8. attempts[k][m].status \in {"none", "pending"} \/ attempts[k][m] = row
    BY <1>3 DEF Accepts
  <2> QED
    BY <2>3, <2>4, <2>6, <2>7, <2>8 DEF Rewrites
<1>4. CASE ~(AccountingActor(cmd[c].owner) /\ Accepts(k, m, s, c))
  BY <1>4 DEF FinishAttempt
<1> QED
  BY <1>3, <1>4

(* The attempt a command begins: a row that nobody has. *)
Begins(c) ==
    /\ job.stage = "synthesize"
    /\ cmd[c].pc = "begin" /\ cmd'[c].pc = "call"
    /\ cmd[c].key \in Keys /\ cmd[c].next \in 1..MaxAttempts
    /\ attempts[cmd[c].key][cmd[c].next] = NoAttempt
    /\ attempts' = [attempts EXCEPT ![cmd[c].key][cmd[c].next] =
                       [status |-> "pending", by |-> c]]
    /\ calls' = [calls EXCEPT ![cmd[c].key] = @ + 1]
    /\ UNCHANGED <<job, cache>>

\* The ledger changes when an attempt begins, when a command writes what its
\* attempts came to, and when rows are cleaned up.
LEMMA LedgerEffect ==
    ASSUME Sound, OwnEntries, Next
    PROVE  \/ UNCHANGED <<attempts, calls>>
           \/ \E c \in Commands : Rewrites(c) /\ UNCHANGED calls
           \/ \E c \in Commands : Begins(c)
           \/ \E ks \in SUBSET Keys : CleanupCache(ks)
<1> DEFINE Goal == \/ UNCHANGED <<attempts, calls>>
                   \/ \E c \in Commands : Rewrites(c) /\ UNCHANGED calls
                   \/ \E c \in Commands : Begins(c)
                   \/ \E ks \in SUBSET Keys : CleanupCache(ks)
<1>1. ASSUME NEW c \in Commands, NEW k \in Keys, NEW o \in Owners, Start(c, k, o)
      PROVE  Goal
  BY <1>1 DEF Start, history
<1>2. ASSUME NEW c \in Commands,
             \/ PersistExclusion(c) \/ Reserve(c) \/ ReserveExhausted(c) \/ ReserveRefused(c)
             \/ MaterializeCached(c) \/ BuildProvider(c) \/ BeginRefused(c) \/ Wake(c)
             \/ CheckOutcome(c) \/ SettleCancelled(c) \/ Watch(c) \/ Crash(c)
      PROVE  Goal
  BY <1>2 DEF PersistExclusion, Reserve, ReserveExhausted, ReserveRefused, MaterializeCached,
     BuildProvider, BeginRefused, Wake, CheckOutcome, SettleCancelled, Watch, Crash, history
<1>3. ASSUME NEW c \in Commands, BeginAttempt(c) PROVE Goal
  <2>1. cmd[c].pc = "begin" /\ ActiveActor(cmd[c].owner, "synthesize") /\ Go(c, "call")
    BY <1>3 DEF BeginAttempt
  <2>2. cmd[c].key \in Keys /\ cmd[c].next \in 1..MaxAttempts
    BY <2>1, CommandParts, SynthesisAssumption DEF SoundCommand
  <2>3. cmd'[c].pc = "call"
    BY <2>1, CommandParts, Types DEF Go, Sound, CommandRecords
  <2>4. Begins(c)
    BY <1>3, <2>1, <2>2, <2>3 DEF Begins, BeginAttempt, ActiveActor, AttemptIsFree
  <2> QED
    BY <2>4
<1>4. ASSUME NEW c \in Commands, NEW s \in AttemptStatuses, NEW a \in Answers,
             FinishAttempt(c, s, a)
      PROVE  Goal
  <2>1. UNCHANGED calls
    BY <1>4 DEF FinishAttempt, history
  <2> QED
    BY <1>4, <2>1, FinishRewrites
<1>5. ASSUME NEW c \in Commands, PublishAnswer(c) PROVE Goal
  <2>1. UNCHANGED calls /\ cmd[c].pc = "publish"
    BY <1>5 DEF PublishAnswer, history
  <2>2. CASE UNCHANGED attempts
    BY <2>1, <2>2
  <2>3. CASE attempts' # attempts
    <3>1. /\ ActiveActor(cmd[c].owner, "synthesize") /\ AcceptsLog(c)
          /\ attempts' = LedgerWith(c)
      BY <1>5, <2>3 DEF PublishAnswer
    <3> QED
      BY <2>1, <3>1, LedgerRewritten DEF ActiveActor
  <2> QED
    BY <2>2, <2>3
<1>6. ASSUME NEW c \in Commands, PublishFailure(c) PROVE Goal
  <2>1. UNCHANGED calls /\ cmd[c].pc = "fail"
    BY <1>6 DEF PublishFailure, history
  <2>2. CASE UNCHANGED attempts
    BY <2>1, <2>2
  <2>3. CASE attempts' # attempts
    <3>1. /\ AccountingActor(cmd[c].owner) /\ AcceptsLog(c)
          /\ attempts' = LedgerWith(c)
      BY <1>6, <2>3 DEF PublishFailure
    <3> QED
      BY <2>1, <3>1, LedgerRewritten DEF AccountingActor
  <2> QED
    BY <2>2, <2>3
<1>7. ASSUME \/ \E k \in Keys : GrowStale(k)
             \/ RequestCancel \/ AcknowledgeCancel \/ PauseJob \/ ResumeJob
             \/ \E o \in Owners : RecoverStaleJob(o)
             \/ ContinueWithoutModel \/ PublishGeneration \/ CompleteJob
      PROVE  Goal
  BY <1>7 DEF GrowStale, RequestCancel, AcknowledgeCancel, PauseJob, ResumeJob, RecoverStaleJob,
     ContinueWithoutModel, PublishGeneration, CompleteJob, JobStep, history
<1> HIDE DEF Goal
<1>8. (\E ks \in SUBSET Keys : CleanupCache(ks)) => Goal
  BY DEF Goal
<1>9. Goal
  BY <1>1, <1>2, <1>3, <1>4, <1>5, <1>6, <1>7, <1>8 DEF Next, Advance, Disturb
<1> QED
  BY <1>9 DEF Goal

(* A reservation is made: of a row that is not there, or of a stale one. *)
Reserves(k) ==
    /\ job.stage = "synthesize"
    /\ k \notin Protected
    /\ cache[k].status = "absent" \/ IsStale(k)
    /\ \E o \in Owners : cache' = [cache EXCEPT ![k] = Row("pending", o, Null)]

(* A pending reservation is settled; a ready one has a successful attempt. *)
Settles(k) ==
    /\ job.stage = "synthesize"
    /\ k \notin Protected
    /\ cache[k].status = "pending"
    /\ \E s \in Settled, a \in Answers \cup {Null} :
          /\ cache' = [cache EXCEPT ![k] = Row(s, Null, a)]
          /\ s = "ready" => \E n \in 1..MaxAttempts : attempts'[k][n].status = "success"

(* The row of a key in protected source. *)
Excludes(k) ==
    /\ job.stage = "synthesize"
    /\ k \in Protected
    /\ cache' = [cache EXCEPT ![k] = Row("excluded", Null, Null)]

\* A row is excluded, reserved, settled, ages, or is cleaned up.
LEMMA CacheEffect ==
    ASSUME Sound, OwnEntries, Next
    PROVE  \/ UNCHANGED cache
           \/ \E k \in Keys : Excludes(k) \/ Reserves(k) \/ Settles(k) \/ GrowStale(k)
           \/ \E ks \in SUBSET Keys : CleanupCache(ks)
<1> DEFINE Goal == \/ UNCHANGED cache
                   \/ \E k \in Keys : Excludes(k) \/ Reserves(k) \/ Settles(k) \/ GrowStale(k)
                   \/ \E ks \in SUBSET Keys : CleanupCache(ks)
<1>0. ASSUME NEW c \in Commands, cmd[c].pc \in AtWork, NEW s \in {"failed", "cancelled"},
             SettleAs(cmd[c].key, cmd[c].owner, s)
      PROVE  Goal
  <2>1. cmd[c].key \in Keys /\ cmd[c].key \notin Protected
    BY <1>0, CommandParts DEF SoundCommand, AtWork
  <2>2. UNCHANGED cache \/ Settles(cmd[c].key)
    BY <1>0, <2>1 DEF SettleAs, Settles, AccountingActor, OwnsPending, Settled
  <2> QED
    BY <2>1, <2>2
<1>1. ASSUME NEW c \in Commands, NEW k \in Keys, NEW o \in Owners, Start(c, k, o)
      PROVE  Goal
  BY <1>1 DEF Start
<1>2. ASSUME NEW c \in Commands,
             \/ ReserveRefused(c) \/ MaterializeCached(c) \/ BeginAttempt(c) \/ BeginRefused(c)
             \/ Wake(c) \/ CheckOutcome(c) \/ Watch(c) \/ Crash(c)
             \/ \E s \in AttemptStatuses, a \in Answers : FinishAttempt(c, s, a)
      PROVE  Goal
  BY <1>2 DEF ReserveRefused, MaterializeCached, BeginAttempt, BeginRefused, Wake, CheckOutcome,
     Watch, Crash, FinishAttempt
<1>3. ASSUME NEW c \in Commands, PersistExclusion(c) PROVE Goal
  <2>1. cmd[c].key \in Keys /\ cmd[c].key \in Protected
    BY <1>3, CommandParts DEF PersistExclusion, SoundCommand
  <2>2. UNCHANGED cache \/ Excludes(cmd[c].key)
    BY <1>3, <2>1 DEF PersistExclusion, Excludes, ActiveActor
  <2> QED
    BY <2>1, <2>2
<1>4. ASSUME NEW c \in Commands, Reserve(c) PROVE Goal
  <2>1. cmd[c].key \in Keys /\ cmd[c].key \notin Protected /\ cmd[c].owner \in Owners
    BY <1>4, CommandParts DEF Reserve, SoundCommand
  <2>2. Reserves(cmd[c].key)
    BY <1>4, <2>1 DEF Reserve, Reserves, ActiveActor
  <2> QED
    BY <2>1, <2>2
<1>5. ASSUME NEW c \in Commands, ReserveExhausted(c) PROVE Goal
  <2>1. cmd[c].key \in Keys /\ cmd[c].key \notin Protected
    BY <1>5, CommandParts DEF ReserveExhausted, SoundCommand
  <2>2. Settles(cmd[c].key)
    BY <1>5, <2>1 DEF ReserveExhausted, Settles, ActiveActor, IsStale, Settled
  <2> QED
    BY <2>1, <2>2
<1>6. ASSUME NEW c \in Commands, BuildProvider(c) \/ SettleCancelled(c) \/ PublishFailure(c)
      PROVE  Goal
  <2>1. cmd[c].pc \in AtWork
    BY <1>6 DEF BuildProvider, SettleCancelled, PublishFailure, AtWork
  <2>2. \/ UNCHANGED cache
        \/ \E s \in {"failed", "cancelled"} : SettleAs(cmd[c].key, cmd[c].owner, s)
    BY <1>6 DEF BuildProvider, SettleCancelled, PublishFailure
  <2> QED
    BY <1>0, <2>1, <2>2
<1>7. ASSUME NEW c \in Commands, PublishAnswer(c) PROVE Goal
  <2>1. CASE UNCHANGED cache
    BY <2>1
  <2>2. CASE cache' # cache
    <3>1. /\ cmd[c].pc = "publish"
          /\ ActiveActor(cmd[c].owner, "synthesize") /\ AcceptsLog(c)
          /\ OwnsPending(cmd[c].key, cmd[c].owner)
          /\ attempts' = LedgerWith(c)
          /\ cache' = [cache EXCEPT ![cmd[c].key] = Row("ready", Null, cmd[c].answer)]
      BY <1>7, <2>2 DEF PublishAnswer
    <3>2. /\ cmd[c].key \in Keys /\ cmd[c].key \notin Protected
          /\ cmd[c].log # <<>> /\ cmd[c].log[Len(cmd[c].log)] = "success"
          /\ cmd[c].answer \in Answers \cup {Null}
      BY <3>1, CommandParts DEF SoundCommand, AtWork, CommandRecords
    <3>3. job.stage = "synthesize"
      BY <3>1 DEF ActiveActor
    <3>4. \E n \in 1..MaxAttempts : attempts'[cmd[c].key][n].status = "success"
      BY <3>1, <3>2, <3>3, LedgerRewritten
    <3>5. Settles(cmd[c].key)
      BY <3>1, <3>2, <3>3, <3>4 DEF Settles, OwnsPending, Settled
    <3> QED
      BY <3>2, <3>5
  <2> QED
    BY <2>1, <2>2
<1>8. ASSUME \/ RequestCancel \/ AcknowledgeCancel \/ PauseJob \/ ResumeJob
             \/ \E o \in Owners : RecoverStaleJob(o)
             \/ ContinueWithoutModel \/ PublishGeneration \/ CompleteJob
      PROVE  Goal
  BY <1>8 DEF RequestCancel, AcknowledgeCancel, PauseJob, ResumeJob, RecoverStaleJob,
     ContinueWithoutModel, PublishGeneration, CompleteJob, JobStep
<1>9. ((\E k \in Keys : GrowStale(k)) \/ (\E ks \in SUBSET Keys : CleanupCache(ks))) => Goal
  OBVIOUS
<1> HIDE DEF Goal
<1>10. Goal
  BY <1>1, <1>2, <1>3, <1>4, <1>5, <1>6, <1>7, <1>8, <1>9 DEF Next, Advance, Disturb
<1> QED
  BY <1>10 DEF Goal

\* A rule is made from the answer of a ready row, and ends the synthesis.
LEMMA RuleEffect ==
    ASSUME Sound, Next
    PROVE  \/ UNCHANGED rule
           \/ \E k \in Keys :
                 /\ cache'[k].status = "ready"
                 /\ cache'[k].answer \in Answers \cup {Null}
                 /\ rule' = [rule EXCEPT ![RuleOf[k]] = [key |-> k, answer |-> cache'[k].answer]]
                 /\ job'.stage # "synthesize"
<1> DEFINE Made(k) == /\ cache'[k].status = "ready"
                      /\ cache'[k].answer \in Answers \cup {Null}
                      /\ rule' = [rule EXCEPT ![RuleOf[k]] = [key |-> k, answer |-> cache'[k].answer]]
                      /\ job'.stage # "synthesize"
           Goal == UNCHANGED rule \/ \E k \in Keys : Made(k)
<1>0. job \in JobRows /\ cache \in [Keys -> CacheRows]
  BY Types DEF Sound
<1>a. ASSUME NEW k \in Keys, NEW a \in Answers \cup {Null}, Materialize(k, a),
             cache'[k].status = "ready", cache'[k].answer = a
      PROVE  Goal
  <2>1. job'.stage # "synthesize"
    BY <1>0, <1>a DEF Materialize, JobRows
  <2>2. Made(k)
    BY <1>a, <2>1 DEF Materialize
  <2> QED
    BY <2>2
<1>1. ASSUME NEW c \in Commands, NEW k \in Keys, NEW o \in Owners, Start(c, k, o)
      PROVE  Goal
  <2>1. UNCHANGED cache
    BY <1>1 DEF Start
  <2>2. UNCHANGED rule \/ (cache[k].status = "ready" /\ Materialize(k, cache[k].answer))
    BY <1>1 DEF Start
  <2>3. cache[k].answer \in Answers \cup {Null}
    BY <1>0 DEF CacheRows
  <2> HIDE DEF Goal
  <2>4. UNCHANGED rule => Goal
    BY DEF Goal
  <2> QED
    BY <1>a, <2>1, <2>2, <2>3, <2>4
<1>2. ASSUME NEW c \in Commands, MaterializeCached(c) PROVE Goal
  <2> DEFINE k == cmd[c].key
  <2>0. k \in Keys
    BY <1>2, CommandParts DEF MaterializeCached
  <2>1. UNCHANGED cache
    BY <1>2 DEF MaterializeCached
  <2>2. UNCHANGED rule \/ (cache[k].status = "ready" /\ Materialize(k, cache[k].answer))
    BY <1>2 DEF MaterializeCached
  <2>3. cache[k].answer \in Answers \cup {Null}
    BY <1>0, <2>0 DEF CacheRows
  <2> HIDE DEF Goal
  <2>4. UNCHANGED rule => Goal
    BY DEF Goal
  <2> QED
    BY <1>a, <2>0, <2>1, <2>2, <2>3, <2>4
<1>3. ASSUME NEW c \in Commands, PublishAnswer(c) PROVE Goal
  <2> DEFINE k == cmd[c].key
  <2>1. \/ UNCHANGED rule
        \/ /\ cache' = [cache EXCEPT ![k] = Row("ready", Null, cmd[c].answer)]
           /\ Materialize(k, cmd[c].answer)
           /\ cmd[c].pc = "publish"
    BY <1>3 DEF PublishAnswer
  <2>2. CASE /\ cache' = [cache EXCEPT ![k] = Row("ready", Null, cmd[c].answer)]
             /\ Materialize(k, cmd[c].answer)
             /\ cmd[c].pc = "publish"
    <3>1. k \in Keys /\ cmd[c].answer \in Answers \cup {Null}
      BY <2>2, CommandParts DEF CommandRecords
    <3>2. cache'[k] = Row("ready", Null, cmd[c].answer)
      BY <1>0, <2>2, <3>1
    <3>3. cache'[k].status = "ready" /\ cache'[k].answer = cmd[c].answer
      BY <3>2 DEF Row
    <3> QED
      BY <1>a, <2>2, <3>1, <3>3
  <2> QED
    BY <2>1, <2>2
<1>4. ASSUME NEW c \in Commands,
             \/ PersistExclusion(c) \/ Reserve(c) \/ ReserveExhausted(c) \/ ReserveRefused(c)
             \/ BuildProvider(c) \/ BeginAttempt(c) \/ BeginRefused(c) \/ Wake(c)
             \/ CheckOutcome(c) \/ SettleCancelled(c) \/ PublishFailure(c) \/ Watch(c) \/ Crash(c)
             \/ \E s \in AttemptStatuses, a \in Answers : FinishAttempt(c, s, a)
      PROVE  UNCHANGED rule
  BY <1>4 DEF PersistExclusion, Reserve, ReserveExhausted, ReserveRefused, BuildProvider,
     BeginAttempt, BeginRefused, Wake, CheckOutcome, SettleCancelled, PublishFailure, Watch,
     Crash, FinishAttempt
<1>5. ASSUME \/ \E k \in Keys : GrowStale(k)
             \/ RequestCancel \/ AcknowledgeCancel \/ PauseJob \/ ResumeJob
             \/ \E o \in Owners : RecoverStaleJob(o)
             \/ ContinueWithoutModel \/ PublishGeneration \/ CompleteJob
             \/ \E ks \in SUBSET Keys : CleanupCache(ks)
      PROVE  UNCHANGED rule
  BY <1>5 DEF GrowStale, RequestCancel, AcknowledgeCancel, PauseJob, ResumeJob, RecoverStaleJob,
     ContinueWithoutModel, PublishGeneration, CompleteJob, CleanupCache, JobStep
<1>6. UNCHANGED rule => Goal
  OBVIOUS
<1> HIDE DEF Goal
<1>7. Goal
  BY <1>1, <1>2, <1>3, <1>4, <1>5, <1>6 DEF Next, Advance, Disturb
<1> QED
  BY <1>7 DEF Goal

(* How the list of a command that is at work afterwards came about. *)
Keeps(c) ==
    /\ cmd[c].pc \in AtWork
    /\ cmd'[c].key = cmd[c].key
    /\ Last(cmd'[c]) = Last(cmd[c]) /\ Len(cmd'[c].log) = Len(cmd[c].log)
    /\ cmd'[c].pc = "call" => cmd[c].pc = "call" /\ cmd'[c].next = cmd[c].next
Lists(c) ==
    /\ cmd[c].pc = "call" /\ cmd'[c].pc # "call"
    /\ cmd'[c].key = cmd[c].key
    /\ Last(cmd'[c]) = cmd[c].next /\ Len(cmd'[c].log) = Len(cmd[c].log) + 1

\* A command at work has an empty list, begins an attempt, puts one in its
\* list, or leaves its list as it was.
LEMMA ListEffect ==
    ASSUME Sound, Next, NEW d \in Commands, cmd'[d].pc \in AtWork
    PROVE  \/ cmd'[d].log = <<>> /\ cmd'[d].pc # "call"
           \/ BeginAttempt(d)
           \/ Lists(d)
           \/ Keeps(d)
<1> DEFINE Goal == \/ cmd'[d].log = <<>> /\ cmd'[d].pc # "call"
                   \/ BeginAttempt(d)
                   \/ Lists(d)
                   \/ Keeps(d)
<1>0. cmd \in [Commands -> CommandRecords] /\ SoundCommand(cmd[d])
  BY Types DEF Sound, CommandsSound
<1>a. ASSUME cmd'[d] = cmd[d] PROVE Goal
  BY <1>0, <1>a DEF Keeps, Last
<1>b. ASSUME NEW c \in Commands, NEW w, cmd' = [cmd EXCEPT ![c] = w], c = d => Goal
      PROVE  Goal
  BY <1>0, <1>a, <1>b
<1>c. ASSUME NEW c \in Commands, Leave(c) PROVE Goal
  <2>1. c # d
    BY <1>0, <1>c DEF Leave, Idle, AtWork
  <2> QED
    BY <1>0, <1>a, <1>c, <2>1 DEF Leave
<1>d. ASSUME NEW c \in Commands, NEW pc, Go(c, pc),
             c = d => cmd[d].pc \in AtWork /\ cmd[d].pc # "call" /\ pc # "call"
                      /\ (cmd[d].pc = "begin" <=> pc = "begin")
      PROVE  Goal
  <2>1. cmd' = [cmd EXCEPT ![c] = [cmd[c] EXCEPT !.pc = pc]]
    BY <1>0, <1>d DEF Go
  <2>2. CASE c = d
    <3>1. cmd'[d] = [cmd[d] EXCEPT !.pc = pc]
      BY <1>0, <2>1, <2>2
    <3> QED
      BY <1>0, <1>d, <2>2, <3>1 DEF Keeps, Last, CommandRecords, AtWork
  <2> QED
    BY <1>b, <2>1, <2>2
<1>1. ASSUME NEW c \in Commands, NEW k \in Keys, NEW o \in Owners, Start(c, k, o)
      PROVE  Goal
  <2>1. \/ UNCHANGED cmd
        \/ \E pc \in {"exclude", "reserve"} :
              cmd' = [cmd EXCEPT ![c] = [Idle EXCEPT !.pc = pc, !.key = k, !.owner = o]]
    BY <1>1 DEF Start
  <2>2. ASSUME NEW pc \in {"exclude", "reserve"},
               cmd' = [cmd EXCEPT ![c] = [Idle EXCEPT !.pc = pc, !.key = k, !.owner = o]]
        PROVE  Goal
    <3>1. c # d
      BY <1>0, <2>2 DEF Idle, AtWork
    <3> QED
      BY <1>0, <1>a, <2>2, <3>1
  <2> QED
    BY <1>a, <2>1, <2>2
<1>2. ASSUME NEW c \in Commands, Reserve(c) PROVE Goal
  <2> DEFINE n == IF cache[cmd[c].key].status = "absent" THEN 1 ELSE NextOrdinal(cmd[c].key)
  <2>1. cmd[c].pc = "reserve" /\ cmd' = [cmd EXCEPT ![c].pc = "build", ![c].next = n]
    BY <1>2 DEF Reserve
  <2> HIDE DEF n
  <2>2. cmd' = [cmd EXCEPT ![c] = [cmd[c] EXCEPT !.pc = "build", !.next = n]]
    BY <1>0, <2>1 DEF CommandRecords
  <2>3. CASE c = d
    <3>1. cmd'[d] = [cmd[d] EXCEPT !.pc = "build", !.next = n]
      BY <1>0, <2>2, <2>3
    <3>2. cmd'[d].log = <<>> /\ cmd'[d].pc = "build"
      BY <1>0, <2>1, <2>3, <3>1 DEF CommandRecords, SoundCommand
    <3> QED
      BY <1>2, <2>3, <3>2
  <2> QED
    BY <1>b, <2>2, <2>3
<1>3. ASSUME NEW c \in Commands,
             \/ PersistExclusion(c) \/ ReserveExhausted(c) \/ MaterializeCached(c)
             \/ SettleCancelled(c) \/ PublishAnswer(c) \/ PublishFailure(c) \/ Crash(c)
      PROVE  Goal
  BY <1>c, <1>3 DEF PersistExclusion, ReserveExhausted, MaterializeCached, SettleCancelled,
     PublishAnswer, PublishFailure, Crash
<1>4. ASSUME NEW c \in Commands, ReserveRefused(c) PROVE Goal
  <2>1. CASE Leave(c)
    BY <1>c, <2>1
  <2>2. CASE Go(c, "cached")
    <3>1. c # d
      BY <1>0, <2>2 DEF Go, AtWork, CommandRecords
    <3> QED
      BY <1>d, <2>2, <3>1
  <2> QED
    BY <1>4, <2>1, <2>2 DEF ReserveRefused
<1>5. ASSUME NEW c \in Commands, BuildProvider(c) PROVE Goal
  <2>1. CASE Leave(c)
    BY <1>c, <2>1
  <2>2. CASE Go(c, "begin")
    <3>1. cmd[c].pc = "build" /\ cmd' = [cmd EXCEPT ![c] = [cmd[c] EXCEPT !.pc = "begin"]]
      BY <1>0, <1>5, <2>2 DEF BuildProvider, Go
    <3>2. CASE c = d
      <4>1. cmd'[d] = [cmd[d] EXCEPT !.pc = "begin"]
        BY <1>0, <3>1, <3>2
      <4>2. cmd'[d].log = <<>> /\ cmd'[d].pc = "begin"
        BY <1>0, <3>1, <3>2, <4>1 DEF CommandRecords, SoundCommand
      <4> QED
        BY <4>2
    <3> QED
      BY <1>b, <3>1, <3>2
  <2> QED
    BY <1>5, <2>1, <2>2 DEF BuildProvider
<1>6. ASSUME NEW c \in Commands, BeginAttempt(c) PROVE Goal
  <2>1. cmd' = [cmd EXCEPT ![c] = [cmd[c] EXCEPT !.pc = "call"]]
    BY <1>0, <1>6 DEF BeginAttempt, Go
  <2> QED
    BY <1>b, <1>6, <2>1
<1>7. ASSUME NEW c \in Commands, BeginRefused(c) PROVE Goal
  <2> DEFINE m == cmd[c].next - 1
  <2>1. cmd[c].pc = "begin"
    BY <1>7 DEF BeginRefused
  <2>2. cmd' = [cmd EXCEPT ![c] = [cmd[c] EXCEPT !.pc = "outcome", !.next = m]]
    BY <1>0, <1>7 DEF BeginRefused, CommandRecords
  <2>3. CASE c = d
    <3>1. cmd'[d] = [cmd[d] EXCEPT !.pc = "outcome", !.next = m]
      BY <1>0, <2>2, <2>3
    <3>2. /\ cmd'[d].pc = "outcome" /\ cmd'[d].next = m /\ cmd'[d].log = cmd[d].log
          /\ cmd'[d].key = cmd[d].key
      BY <1>0, <3>1 DEF CommandRecords
    <3>3. Last(cmd'[d]) = m /\ Last(cmd[d]) = cmd[d].next - 1
      BY <2>1, <2>3, <3>2 DEF Last
    <3> QED
      BY <2>1, <2>3, <3>2, <3>3 DEF Keeps, AtWork
  <2> HIDE DEF m
  <2> QED
    BY <1>b, <2>2, <2>3
<1>8. ASSUME NEW c \in Commands, NEW s \in AttemptStatuses, NEW a \in Answers,
             FinishAttempt(c, s, a)
      PROVE  Goal
  <2>1. /\ cmd[c].pc = "call"
        /\ \E to \in {"sleep", "outcome"}, b \in Answers \cup {Null} :
              cmd' = [cmd EXCEPT ![c].pc = to, ![c].log = Append(@, s), ![c].answer = b]
    <3>1. After(s, cmd[c].next) \subseteq {"sleep", "outcome"}
      BY DEF After
    <3> QED
      BY <1>8, <3>1 DEF FinishAttempt
  <2>2. PICK to \in {"sleep", "outcome"}, b \in Answers \cup {Null} :
              cmd' = [cmd EXCEPT ![c].pc = to, ![c].log = Append(@, s), ![c].answer = b]
    BY <2>1
  <2>3. cmd' = [cmd EXCEPT ![c] = [cmd[c] EXCEPT !.pc = to, !.log = Append(@, s), !.answer = b]]
    BY <1>0, <2>2 DEF CommandRecords
  <2>4. CASE c = d
    <3>1. cmd'[d] = [cmd[d] EXCEPT !.pc = to, !.log = Append(@, s), !.answer = b]
      BY <1>0, <2>3, <2>4
    <3>2. /\ cmd'[d].pc = to /\ cmd'[d].next = cmd[d].next /\ cmd'[d].log = Append(cmd[d].log, s)
          /\ cmd'[d].key = cmd[d].key /\ cmd[d].log \in Seq(AttemptStatuses)
      BY <1>0, <3>1 DEF CommandRecords
    <3>3. Len(cmd'[d].log) = Len(cmd[d].log) + 1
      BY <3>2
    <3>4. Last(cmd'[d]) = cmd[d].next
      BY <3>2 DEF Last
    <3> QED
      BY <2>1, <2>4, <3>2, <3>3, <3>4 DEF Lists
  <2> QED
    BY <1>b, <2>3, <2>4
<1>9. ASSUME NEW c \in Commands, Wake(c) PROVE Goal
  <2>1. cmd[c].pc = "sleep"
    BY <1>9 DEF Wake
  <2>2. CASE Go(c, "outcome")
    BY <1>d, <2>1, <2>2 DEF AtWork
  <2>3. CASE cmd' = [cmd EXCEPT ![c].pc = "begin", ![c].next = @ + 1]
    <3>1. cmd' = [cmd EXCEPT ![c] = [cmd[c] EXCEPT !.pc = "begin", !.next = @ + 1]]
      BY <1>0, <2>3 DEF CommandRecords
    <3>2. CASE c = d
      <4>1. cmd'[d] = [cmd[d] EXCEPT !.pc = "begin", !.next = @ + 1]
        BY <1>0, <3>1, <3>2
      <4>2. /\ cmd'[d].pc = "begin" /\ cmd'[d].next = cmd[d].next + 1
            /\ cmd'[d].log = cmd[d].log /\ cmd'[d].key = cmd[d].key
            /\ cmd[d].next \in Nat
        BY <1>0, <4>1, SynthesisAssumption DEF CommandRecords
      <4>3. Last(cmd'[d]) = cmd[d].next /\ Last(cmd[d]) = cmd[d].next
        BY <2>1, <3>2, <4>2 DEF Last
      <4> QED
        BY <2>1, <3>2, <4>2, <4>3 DEF Keeps, AtWork
    <3> QED
      BY <1>b, <3>1, <3>2
  <2> QED
    BY <1>9, <2>2, <2>3 DEF Wake
<1>10. ASSUME NEW c \in Commands, CheckOutcome(c) PROVE Goal
  <2>1. cmd[c].pc = "outcome"
    BY <1>10 DEF CheckOutcome
  <2>2. \/ Leave(c) \/ Go(c, "settle")
        \/ Go(c, IF cmd[c].answer # Null THEN "publish" ELSE "fail")
    BY <1>10 DEF CheckOutcome
  <2> QED
    BY <1>c, <1>d, <2>1, <2>2 DEF AtWork
<1>11. ASSUME NEW c \in Commands, Watch(c) PROVE Goal
  <2> DEFINE told == JobOutcome(cmd[c].owner)
  <2>1. /\ cmd[c].pc \in {"begin", "call", "sleep", "outcome"}
        /\ cmd' = [cmd EXCEPT ![c] = [cmd[c] EXCEPT !.told = told]]
    BY <1>0, <1>11 DEF Watch
  <2> HIDE DEF told
  <2>2. CASE c = d
    <3>1. cmd'[d] = [cmd[d] EXCEPT !.told = told]
      BY <1>0, <2>1, <2>2
    <3>2. /\ cmd'[d].pc = cmd[d].pc /\ cmd'[d].next = cmd[d].next
          /\ cmd'[d].log = cmd[d].log /\ cmd'[d].key = cmd[d].key
      BY <1>0, <3>1 DEF CommandRecords
    <3> QED
      BY <2>1, <2>2, <3>2 DEF Keeps, Last, AtWork
  <2> QED
    BY <1>b, <2>1, <2>2
<1>12. ASSUME \/ \E k \in Keys : GrowStale(k)
              \/ RequestCancel \/ AcknowledgeCancel \/ PauseJob \/ ResumeJob
              \/ \E o \in Owners : RecoverStaleJob(o)
              \/ ContinueWithoutModel \/ PublishGeneration \/ CompleteJob
              \/ \E ks \in SUBSET Keys : CleanupCache(ks)
       PROVE  Goal
  BY <1>a, <1>12 DEF GrowStale, RequestCancel, AcknowledgeCancel, PauseJob, ResumeJob,
     RecoverStaleJob, ContinueWithoutModel, PublishGeneration, CompleteJob, CleanupCache, JobStep
<1> HIDE DEF Goal
<1>13. Goal
  BY <1>1, <1>2, <1>3, <1>4, <1>5, <1>6, <1>7, <1>8, <1>9, <1>10, <1>11, <1>12
     DEF Next, Advance, Disturb
<1> QED
  BY <1>13 DEF Goal

\* While the job synthesizes, a ledger row keeps the name it has.
LEMMA NamesStay ==
    ASSUME Sound, OwnEntries, Next, job.stage = "synthesize",
           NEW k \in Keys, NEW n \in 1..MaxAttempts, NEW c \in Commands,
           attempts[k][n].by = c
    PROVE  attempts'[k][n].by = c
<1>0. attempts \in [Keys -> [1..MaxAttempts -> AttemptRows]]
  BY Types DEF Sound
<1>1. ASSUME NEW ks \in SUBSET Keys, CleanupCache(ks) PROVE FALSE
  BY <1>1 DEF CleanupCache, ActiveActor
<1>2. ASSUME NEW d \in Commands, Begins(d) PROVE attempts'[k][n].by = c
  <2>1. NoAttempt.by = Null
    BY DEF NoAttempt
  <2>2. ~(k = cmd[d].key /\ n = cmd[d].next)
    BY <1>2, <2>1, SynthesisAssumption DEF Begins
  <2>3. attempts'[k][n] = attempts[k][n]
    BY <1>0, <1>2, <2>2 DEF Begins
  <2> QED
    BY <2>3
<1>3. ASSUME NEW d \in Commands, Rewrites(d) PROVE attempts'[k][n].by = c
  BY <1>3 DEF Rewrites
<1> QED
  BY <1>1, <1>2, <1>3, LedgerEffect

\* A command's entries stay its own: lists grow by calls that were begun.
LEMMA OwnEntriesStep ==
    ASSUME Sound, OwnEntries, Next
    PROVE  OwnEntries'
<1> SUFFICES ASSUME job'.stage = "synthesize", NEW c \in Commands, cmd'[c].pc \in AtWork
             PROVE  /\ \A n \in 1..MaxAttempts :
                          Last(cmd'[c]) - Len(cmd'[c].log) < n /\ n <= Last(cmd'[c])
                              => attempts'[cmd'[c].key][n].by = c
                    /\ cmd'[c].pc = "call" => attempts'[cmd'[c].key][cmd'[c].next].by = c
  BY DEF OwnEntries, Last
<1>1. job.stage = "synthesize"
  BY JobEffect
<1>2. cmd[c].pc \in AtWork =>
        /\ \A n \in 1..MaxAttempts :
              Last(cmd[c]) - Len(cmd[c].log) < n /\ n <= Last(cmd[c])
                  => attempts[cmd[c].key][n].by = c
        /\ cmd[c].pc = "call" => attempts[cmd[c].key][cmd[c].next].by = c
  BY <1>1 DEF OwnEntries
<1>3. cmd[c] \in CommandRecords /\ SoundCommand(cmd[c])
  BY CommandParts
<1>4. cmd[c].pc \in AtWork => cmd[c].key \in Keys
  BY <1>3 DEF SoundCommand, AtWork
<1>5. ASSUME NEW n \in 1..MaxAttempts, cmd[c].pc \in AtWork, attempts[cmd[c].key][n].by = c
      PROVE  attempts'[cmd[c].key][n].by = c
  BY <1>1, <1>4, <1>5, NamesStay
<1>6. CASE cmd'[c].log = <<>> /\ cmd'[c].pc # "call"
  <2>1. cmd' \in [Commands -> CommandRecords]
    BY CommandStep
  <2>2. cmd'[c] \in CommandRecords /\ Len(cmd'[c].log) = 0
    BY <1>6, <2>1
  <2>3. Last(cmd'[c]) \in Int
    BY <2>2, SynthesisAssumption DEF CommandRecords, Last
  <2> QED
    BY <1>6, <2>2, <2>3
<1>7. CASE BeginAttempt(c)
  <2>1. cmd[c].pc = "begin" /\ cmd' = [cmd EXCEPT ![c].pc = "call"]
    BY <1>7 DEF BeginAttempt, Go
  <2>2. cmd'[c] = [cmd[c] EXCEPT !.pc = "call"]
    BY <2>1, Types DEF Sound
  <2>3. /\ cmd'[c].pc = "call" /\ cmd'[c].next = cmd[c].next /\ cmd'[c].log = cmd[c].log
        /\ cmd'[c].key = cmd[c].key
    BY <1>3, <2>2 DEF CommandRecords
  <2>4. Last(cmd'[c]) = Last(cmd[c])
    BY <2>1, <2>3 DEF Last
  <2>5. cmd[c].next \in 1..MaxAttempts
    BY <1>3, <2>1, SynthesisAssumption DEF SoundCommand, CommandRecords
  <2>6. attempts'[cmd[c].key][cmd[c].next].by = c
    <3>1. attempts \in [Keys -> [1..MaxAttempts -> AttemptRows]]
      BY Types DEF Sound
    <3>2. attempts' = [attempts EXCEPT ![cmd[c].key][cmd[c].next] =
                          [status |-> "pending", by |-> c]]
      BY <1>7 DEF BeginAttempt
    <3>3. cmd[c].key \in Keys
      BY <1>4, <2>1 DEF AtWork
    <3> QED
      BY <2>5, <3>1, <3>2, <3>3
  <2>7. cmd[c].pc \in AtWork
    BY <2>1 DEF AtWork
  <2> QED
    BY <1>2, <1>5, <2>3, <2>4, <2>6, <2>7
<1>8. CASE Lists(c)
  <2>1. /\ cmd[c].next \in 1..MaxAttempts /\ Last(cmd[c]) = cmd[c].next - 1
        /\ Len(cmd[c].log) \in Nat /\ cmd[c].pc \in AtWork
    BY <1>3, <1>8, SynthesisAssumption DEF Lists, SoundCommand, CommandRecords, Last, AtWork
  <2>2. ASSUME NEW n \in 1..MaxAttempts,
               Last(cmd'[c]) - Len(cmd'[c].log) < n, n <= Last(cmd'[c])
        PROVE  attempts[cmd[c].key][n].by = c
    <3>1. /\ Last(cmd'[c]) = cmd[c].next /\ Len(cmd'[c].log) = Len(cmd[c].log) + 1
          /\ cmd[c].pc = "call"
      BY <1>8 DEF Lists
    <3>2. n = cmd[c].next \/ (Last(cmd[c]) - Len(cmd[c].log) < n /\ n <= Last(cmd[c]))
      BY <2>1, <2>2, <3>1, SynthesisAssumption
    <3> QED
      BY <1>2, <2>1, <3>1, <3>2
  <2> QED
    BY <1>5, <1>8, <2>1, <2>2 DEF Lists
<1>9. CASE Keeps(c)
  <2>1. cmd[c].pc = "call" => cmd[c].next \in 1..MaxAttempts
    BY <1>3, SynthesisAssumption DEF SoundCommand, CommandRecords
  <2> QED
    BY <1>2, <1>5, <1>9, <2>1 DEF Keeps
<1> QED
  BY <1>6, <1>7, <1>8, <1>9, ListEffect

-----------------------------------------------------------------------------
(***************************************************************************)
(* The parts of the invariant, one after the other.                        *)
(***************************************************************************)
LEMMA RowsAreRows ==
    ASSUME NEW k \in Keys, NEW s \in Settled \cup {"absent", "pending"},
           NEW o \in Owners \cup {Null}, NEW a \in Answers \cup {Null}
    PROVE  /\ Row(s, o, a) \in CacheRows
           /\ Row(s, o, a).status = s /\ Row(s, o, a).answer = a
BY Zenon DEF Row, CacheRows

\* Only time makes a reservation look stale.
LEMMA JumpEffect ==
    ASSUME Next
    PROVE  UNCHANGED jumped \/ \E k \in Keys : GrowStale(k)
<1> DEFINE Goal == UNCHANGED jumped \/ \E k \in Keys : GrowStale(k)
<1>1. ASSUME NEW c \in Commands, NEW k \in Keys, NEW o \in Owners, Start(c, k, o)
      PROVE  Goal
  BY <1>1 DEF Start, history
<1>2. ASSUME NEW c \in Commands,
             \/ PersistExclusion(c) \/ Reserve(c) \/ ReserveExhausted(c) \/ ReserveRefused(c)
             \/ MaterializeCached(c) \/ BuildProvider(c) \/ BeginAttempt(c) \/ BeginRefused(c)
             \/ Wake(c) \/ CheckOutcome(c)
      PROVE  Goal
  BY <1>2 DEF PersistExclusion, Reserve, ReserveExhausted, ReserveRefused, MaterializeCached,
     BuildProvider, BeginAttempt, BeginRefused, Wake, CheckOutcome, history
<1>3. ASSUME NEW c \in Commands,
             \/ SettleCancelled(c) \/ PublishAnswer(c) \/ PublishFailure(c) \/ Watch(c) \/ Crash(c)
             \/ \E s \in AttemptStatuses, a \in Answers : FinishAttempt(c, s, a)
      PROVE  Goal
  BY <1>3 DEF SettleCancelled, PublishAnswer, PublishFailure, Watch, Crash, FinishAttempt, history
<1>4. ASSUME \/ RequestCancel \/ AcknowledgeCancel \/ PauseJob \/ ResumeJob
             \/ \E o \in Owners : RecoverStaleJob(o)
             \/ ContinueWithoutModel \/ PublishGeneration \/ CompleteJob
             \/ \E ks \in SUBSET Keys : CleanupCache(ks)
      PROVE  Goal
  BY <1>4 DEF RequestCancel, AcknowledgeCancel, PauseJob, ResumeJob, RecoverStaleJob,
     ContinueWithoutModel, PublishGeneration, CompleteJob, CleanupCache, JobStep, history
<1>5. (\E k \in Keys : GrowStale(k)) => Goal
  OBVIOUS
<1> HIDE DEF Goal
<1>6. Goal
  BY <1>1, <1>2, <1>3, <1>4, <1>5 DEF Next, Advance, Disturb
<1> QED
  BY <1>6 DEF Goal

\* Every step keeps every column to its values.
LEMMA TypeStep ==
    ASSUME Sound, OwnEntries, Next
    PROVE  TypeOK'
<1>0. /\ cache \in [Keys -> CacheRows]
      /\ attempts \in [Keys -> [1..MaxAttempts -> AttemptRows]]
      /\ rule \in [Rules -> [key : Keys \cup {Null}, answer : Answers \cup {Null}]]
      /\ calls \in [Keys -> Nat] /\ jumped \in BOOLEAN
  BY Types DEF Sound
<1>1. job' \in JobRows
  BY JobEffect
<1>2. cmd' \in [Commands -> CommandRecords]
  BY CommandStep
<1>3. cache' \in [Keys -> CacheRows]
  <2>1. ASSUME NEW k \in Keys, NEW row \in CacheRows, cache' = [cache EXCEPT ![k] = row]
        PROVE  cache' \in [Keys -> CacheRows]
    BY <1>0, <2>1
  <2>2. ASSUME NEW k \in Keys, Excludes(k) \/ Reserves(k) \/ Settles(k)
        PROVE  cache' \in [Keys -> CacheRows]
    <3>1. \E s \in Settled \cup {"absent", "pending"}, o \in Owners \cup {Null},
             a \in Answers \cup {Null} : cache' = [cache EXCEPT ![k] = Row(s, o, a)]
      BY <2>2 DEF Excludes, Reserves, Settles, Settled
    <3> QED
      BY <2>1, <3>1, RowsAreRows
  <2>3. ASSUME NEW k \in Keys, GrowStale(k)
        PROVE  cache' \in [Keys -> CacheRows]
    <3>1. cache' = [cache EXCEPT ![k] = [cache[k] EXCEPT !.stale = TRUE]]
      BY <1>0, <2>3 DEF GrowStale
    <3>2. [cache[k] EXCEPT !.stale = TRUE] \in CacheRows
      BY <1>0 DEF CacheRows
    <3> QED
      BY <2>1, <3>1, <3>2
  <2>4. ASSUME NEW ks \in SUBSET Keys, CleanupCache(ks)
        PROVE  cache' \in [Keys -> CacheRows]
    <3>1. NoRow \in CacheRows
      BY DEF NoRow, Row, CacheRows
    <3> QED
      BY <1>0, <2>4, <3>1 DEF CleanupCache
  <2> QED
    BY <1>0, <2>2, <2>3, <2>4, CacheEffect
<1>4. attempts' \in [Keys -> [1..MaxAttempts -> AttemptRows]] /\ calls' \in [Keys -> Nat]
  <2>1. ASSUME NEW c \in Commands, Begins(c)
        PROVE  attempts' \in [Keys -> [1..MaxAttempts -> AttemptRows]] /\ calls' \in [Keys -> Nat]
    <3>1. [status |-> "pending", by |-> c] \in AttemptRows
      BY DEF AttemptRows
    <3> QED
      BY <1>0, <2>1, <3>1 DEF Begins
  <2>2. ASSUME NEW ks \in SUBSET Keys, CleanupCache(ks)
        PROVE  attempts' \in [Keys -> [1..MaxAttempts -> AttemptRows]] /\ calls' \in [Keys -> Nat]
    <3>1. NoAttempt \in AttemptRows
      BY DEF NoAttempt, AttemptRows
    <3>2. UNCHANGED calls
      BY <2>2 DEF CleanupCache, history
    <3>3. attempts' \in [Keys -> [1..MaxAttempts -> AttemptRows]]
      BY <1>0, <2>2, <3>1 DEF CleanupCache
    <3> QED
      BY <1>0, <3>2, <3>3
  <2>3. ASSUME NEW c \in Commands, Rewrites(c), UNCHANGED calls
        PROVE  attempts' \in [Keys -> [1..MaxAttempts -> AttemptRows]] /\ calls' \in [Keys -> Nat]
    BY <1>0, <2>3 DEF Rewrites
  <2> QED
    BY <1>0, <2>1, <2>2, <2>3, LedgerEffect
<1>5. rule' \in [Rules -> [key : Keys \cup {Null}, answer : Answers \cup {Null}]]
  <2>1. ASSUME NEW k \in Keys, NEW a \in Answers \cup {Null},
               rule' = [rule EXCEPT ![RuleOf[k]] = [key |-> k, answer |-> a]]
        PROVE  rule' \in [Rules -> [key : Keys \cup {Null}, answer : Answers \cup {Null}]]
    BY <1>0, <2>1, SynthesisAssumption
  <2> QED
    BY <1>0, <2>1, RuleEffect
<1>6. jumped' \in BOOLEAN
  <2>1. ASSUME NEW k \in Keys, GrowStale(k) PROVE jumped' \in BOOLEAN
    BY <2>1 DEF GrowStale
  <2> QED
    BY <1>0, <2>1, JumpEffect
<1>7. (/\ job \in JobRows
       /\ cache \in [Keys -> CacheRows]
       /\ attempts \in [Keys -> [1..MaxAttempts -> AttemptRows]]
       /\ rule \in [Rules -> [key : Keys \cup {Null}, answer : Answers \cup {Null}]]
       /\ cmd \in [Commands -> CommandRecords]
       /\ calls \in [Keys -> Nat] /\ jumped \in BOOLEAN)'
  BY <1>1, <1>2, <1>3, <1>4, <1>5, <1>6
<1> QED
  BY <1>7, Types, PTL

\* A call and its row come together, and rows go only when the job cleans up.
LEMMA AccountsStep ==
    ASSUME Sound, OwnEntries, Accounts, Next
    PROVE  Accounts'
<1>0. /\ cache \in [Keys -> CacheRows]
      /\ attempts \in [Keys -> [1..MaxAttempts -> AttemptRows]]
      /\ calls \in [Keys -> Nat]
  BY Types DEF Sound
<1>1. ASSUME NEW k \in Keys
      PROVE  IsFiniteSet(Used(k)) /\ Cardinality(Used(k)) <= MaxAttempts
  <2>1. IsFiniteSet(1..MaxAttempts) /\ Cardinality(1..MaxAttempts) = MaxAttempts
    BY FS_Interval, SynthesisAssumption
  <2>2. Used(k) \subseteq 1..MaxAttempts
    BY DEF Used
  <2> QED
    BY <2>1, <2>2, FS_Subset
<1>2. SUFFICES ASSUME NEW k \in Keys
               PROVE  /\ calls'[k] <= MaxAttempts
                      /\ cache'[k].status # "absent" \/ job'.stage = "synthesize"
                             => calls'[k] = Cardinality(Used(k)')
  BY DEF Accounts
<1>3. /\ calls[k] <= MaxAttempts
      /\ cache[k].status # "absent" \/ job.stage = "synthesize"
             => calls[k] = Cardinality(Used(k))
  BY DEF Accounts
<1>4. cache'[k].status # "absent" \/ job'.stage = "synthesize"
        => cache[k].status # "absent" \/ job.stage = "synthesize"
  <2>1. job'.stage = "synthesize" => job.stage = "synthesize"
    BY JobEffect
  <2>2. ASSUME NEW ks \in SUBSET Keys, CleanupCache(ks), cache'[k].status # "absent"
        PROVE  cache[k].status # "absent"
    BY <2>2 DEF CleanupCache, NoRow, Row
  <2>3. ASSUME NEW j \in Keys, GrowStale(j), cache'[k].status # "absent"
        PROVE  cache[k].status # "absent"
    BY <1>0, <2>3 DEF GrowStale, CacheRows
  <2>4. ASSUME NEW j \in Keys, Excludes(j) \/ Reserves(j) \/ Settles(j)
        PROVE  job.stage = "synthesize"
    BY <2>4 DEF Excludes, Reserves, Settles
  <2> QED
    BY <2>1, <2>2, <2>3, <2>4, CacheEffect
<1>5. CASE UNCHANGED <<attempts, calls>>
  BY <1>3, <1>4, <1>5 DEF Used
<1>6. ASSUME NEW c \in Commands, Rewrites(c), UNCHANGED calls
      PROVE  /\ calls'[k] <= MaxAttempts
             /\ cache'[k].status # "absent" \/ job'.stage = "synthesize"
                    => calls'[k] = Cardinality(Used(k)')
  <2>1. ASSUME NEW n \in 1..MaxAttempts
        PROVE  attempts'[k][n] # NoAttempt <=> attempts[k][n] # NoAttempt
    <3>1. NoAttempt.by # c
      BY SynthesisAssumption DEF NoAttempt
    <3> QED
      BY <1>6, <3>1 DEF Rewrites
  <2>2. Used(k)' = Used(k)
    BY <2>1 DEF Used
  <2> QED
    BY <1>3, <1>4, <1>6, <2>2
<1>7. ASSUME NEW c \in Commands, Begins(c)
      PROVE  /\ calls'[k] <= MaxAttempts
             /\ cache'[k].status # "absent" \/ job'.stage = "synthesize"
                    => calls'[k] = Cardinality(Used(k)')
  <2>1. CASE k # cmd[c].key
    <3>1. attempts'[k] = attempts[k] /\ calls'[k] = calls[k]
      BY <1>0, <1>7, <2>1 DEF Begins
    <3>2. Used(k)' = Used(k)
      BY <3>1 DEF Used
    <3> QED
      BY <1>3, <1>4, <3>1, <3>2
  <2>2. CASE k = cmd[c].key
    <3> DEFINE m == cmd[c].next
    <3>1. m \in 1..MaxAttempts /\ m \notin Used(k) /\ job.stage = "synthesize"
      BY <1>7, <2>2 DEF Begins, Used
    <3>2. calls'[k] = calls[k] + 1
      BY <1>0, <1>7, <2>2 DEF Begins
    <3>3. Used(k)' = Used(k) \cup {m}
      <4>1. [status |-> "pending", by |-> c] # NoAttempt
        BY SynthesisAssumption DEF NoAttempt
      <4>2. ASSUME NEW n \in 1..MaxAttempts
            PROVE  attempts'[k][n] = IF n = m THEN [status |-> "pending", by |-> c]
                                     ELSE attempts[k][n]
        BY <1>0, <1>7, <2>2 DEF Begins
      <4> QED
        BY <3>1, <4>1, <4>2 DEF Used
    <3>4. Cardinality(Used(k)') = Cardinality(Used(k)) + 1
      BY <1>1, <3>1, <3>3, FS_AddElement
    <3>5. Cardinality(Used(k)') <= MaxAttempts
      <4>1. Used(k)' \subseteq 1..MaxAttempts
        BY DEF Used
      <4> QED
        BY <4>1, FS_Interval, FS_Subset, SynthesisAssumption
    <3> QED
      BY <1>3, <3>1, <3>2, <3>4, <3>5
  <2> QED
    BY <2>1, <2>2
<1>8. ASSUME NEW ks \in SUBSET Keys, CleanupCache(ks)
      PROVE  /\ calls'[k] <= MaxAttempts
             /\ cache'[k].status # "absent" \/ job'.stage = "synthesize"
                    => calls'[k] = Cardinality(Used(k)')
  <2>1. /\ UNCHANGED <<job, calls>> /\ job.stage = "cleanup"
        /\ \/ cache'[k] = NoRow
           \/ cache'[k] = cache[k] /\ attempts'[k] = attempts[k]
    BY <1>8 DEF CleanupCache, ActiveActor, history
  <2>2. NoRow.status = "absent"
    BY DEF NoRow, Row
  <2>3. attempts'[k] = attempts[k] => Used(k)' = Used(k)
    BY DEF Used
  <2> QED
    BY <1>3, <2>1, <2>2, <2>3
<1> QED
  BY <1>5, <1>6, <1>7, <1>8, LedgerEffect

\* A final row of the ledger, and so a success, stays as long as its cache row.
LEMMA ReadyStep ==
    ASSUME Sound, OwnEntries, ReadyHasSuccess, Next
    PROVE  ReadyHasSuccess'
<1>0. /\ cache \in [Keys -> CacheRows]
      /\ attempts \in [Keys -> [1..MaxAttempts -> AttemptRows]]
  BY Types DEF Sound
<1> SUFFICES ASSUME NEW k \in Keys, cache'[k].status = "ready"
             PROVE  \E n \in 1..MaxAttempts : attempts'[k][n].status = "success"
  BY DEF ReadyHasSuccess
<1>1. \/ cache[k].status = "ready"
      \/ \E n \in 1..MaxAttempts : attempts'[k][n].status = "success"
  <2>1. ASSUME NEW j \in Keys, Excludes(j) \/ Reserves(j), j = k PROVE FALSE
    <3>1. cache'[k].status \in {"excluded", "pending"}
      BY <1>0, <2>1 DEF Excludes, Reserves, Row
    <3> QED
      BY <3>1
  <2>2. ASSUME NEW j \in Keys, Excludes(j) \/ Reserves(j) \/ Settles(j) \/ GrowStale(j), j # k
        PROVE  cache'[k] = cache[k]
    BY <1>0, <2>2 DEF Excludes, Reserves, Settles, GrowStale
  <2>3. ASSUME Settles(k)
        PROVE  \E n \in 1..MaxAttempts : attempts'[k][n].status = "success"
    BY <1>0, <2>3 DEF Settles, Row
  <2>4. ASSUME GrowStale(k) PROVE FALSE
    BY <1>0, <2>4 DEF GrowStale, CacheRows
  <2>5. ASSUME NEW ks \in SUBSET Keys, CleanupCache(ks) PROVE cache'[k] = cache[k]
    BY <2>5 DEF CleanupCache, NoRow, Row
  <2> QED
    BY <2>1, <2>2, <2>3, <2>4, <2>5, CacheEffect
<1>2. ASSUME cache[k].status = "ready"
      PROVE  \E n \in 1..MaxAttempts : attempts'[k][n].status = "success"
  <2>1. PICK n \in 1..MaxAttempts : attempts[k][n].status = "success"
    BY <1>2 DEF ReadyHasSuccess
  <2>2. ASSUME NEW c \in Commands, Begins(c) PROVE attempts'[k][n] = attempts[k][n]
    <3>1. NoAttempt.status # "success"
      BY DEF NoAttempt
    <3> QED
      BY <1>0, <2>1, <2>2, <3>1 DEF Begins
  <2>3. ASSUME NEW c \in Commands, Rewrites(c) PROVE attempts'[k][n] = attempts[k][n]
    BY <2>1, <2>3 DEF Rewrites
  <2>4. ASSUME NEW ks \in SUBSET Keys, CleanupCache(ks) PROVE attempts'[k] = attempts[k]
    BY <2>4 DEF CleanupCache, NoRow, Row
  <2> QED
    BY <2>1, <2>2, <2>3, <2>4, LedgerEffect
<1> QED
  BY <1>1, <1>2

\* The keys of protected source are excluded and never anything else.
LEMMA ProtectedStep ==
    ASSUME Sound, OwnEntries, ProtectedRows, Next
    PROVE  ProtectedRows'
<1>0. cache \in [Keys -> CacheRows] /\ Protected \subseteq Keys
  BY Types, SynthesisAssumption DEF Sound
<1> SUFFICES ASSUME NEW k \in Protected
             PROVE  cache'[k] \in {NoRow, Row("excluded", Null, Null)}
  BY DEF ProtectedRows
<1>1. cache[k] \in {NoRow, Row("excluded", Null, Null)}
  BY DEF ProtectedRows
<1>2. ASSUME NEW j \in Keys, Excludes(j) \/ Reserves(j) \/ Settles(j)
      PROVE  cache'[k] \in {NoRow, Row("excluded", Null, Null)}
  BY <1>0, <1>1, <1>2 DEF Excludes, Reserves, Settles
<1>3. ASSUME NEW j \in Keys, GrowStale(j) PROVE cache'[k] = cache[k]
  <2>1. cache[k].status # "pending"
    BY <1>1 DEF NoRow, Row
  <2> QED
    BY <1>0, <1>3, <2>1 DEF GrowStale
<1>4. ASSUME NEW ks \in SUBSET Keys, CleanupCache(ks)
      PROVE  cache'[k] \in {NoRow, cache[k]}
  BY <1>0, <1>4 DEF CleanupCache
<1> QED
  BY <1>1, <1>2, <1>3, <1>4, CacheEffect

\* A rule exists only after the synthesis, when nothing but the cleanup
\* touches rows, and the cleanup spares those that rules name.
LEMMA RulesStep ==
    ASSUME Sound, OwnEntries, ReadyHasSuccess, RulesEndSynthesis, RulesKeepTheirAnswer, Next
    PROVE  RulesEndSynthesis' /\ RulesKeepTheirAnswer'
<1>0. /\ cache \in [Keys -> CacheRows]
      /\ rule \in [Rules -> [key : Keys \cup {Null}, answer : Answers \cup {Null}]]
  BY Types DEF Sound
<1>1. ReadyHasSuccess'
  BY ReadyStep
<1>2. SUFFICES ASSUME NEW r \in Rules, rule'[r].key # Null
               PROVE  /\ job'.stage # "synthesize"
                      /\ rule'[r].key \in Keys
                      /\ cache'[rule'[r].key].status = "ready"
                      /\ cache'[rule'[r].key].answer = rule'[r].answer
  BY <1>1 DEF RulesEndSynthesis, RulesKeepTheirAnswer, ReadyHasSuccess
<1>3. ASSUME rule'[r] = rule[r]
      PROVE  /\ job'.stage # "synthesize"
             /\ rule'[r].key \in Keys
             /\ cache'[rule'[r].key].status = "ready"
             /\ cache'[rule'[r].key].answer = rule'[r].answer
  <2> DEFINE k == rule[r].key
  <2>1. /\ job.stage # "synthesize" /\ k \in Keys
        /\ cache[k].status = "ready" /\ cache[k].answer = rule[r].answer
    BY <1>0, <1>2, <1>3 DEF RulesEndSynthesis, RulesKeepTheirAnswer
  <2>2. job'.stage # "synthesize"
    BY <2>1, JobEffect
  <2>3. cache'[k] = cache[k]
    <3>1. ASSUME NEW j \in Keys, Excludes(j) \/ Reserves(j) \/ Settles(j) PROVE FALSE
      BY <2>1, <3>1 DEF Excludes, Reserves, Settles
    <3>2. ASSUME NEW j \in Keys, GrowStale(j) PROVE cache'[k] = cache[k]
      BY <1>0, <2>1, <3>2 DEF GrowStale
    <3>3. ASSUME NEW ks \in SUBSET Keys, CleanupCache(ks) PROVE cache'[k] = cache[k]
      BY <2>1, <3>3 DEF CleanupCache, Unreferenced
    <3> QED
      BY <3>1, <3>2, <3>3, CacheEffect
  <2> QED
    BY <1>3, <2>1, <2>2, <2>3
<1>4. ASSUME NEW k \in Keys, cache'[k].status = "ready", job'.stage # "synthesize",
             rule' = [rule EXCEPT ![RuleOf[k]] = [key |-> k, answer |-> cache'[k].answer]]
      PROVE  /\ job'.stage # "synthesize"
             /\ rule'[r].key \in Keys
             /\ cache'[rule'[r].key].status = "ready"
             /\ cache'[rule'[r].key].answer = rule'[r].answer
  <2>1. CASE r = RuleOf[k]
    <3>1. rule'[r] = [key |-> k, answer |-> cache'[k].answer]
      BY <1>0, <1>4, <2>1
    <3>2. rule'[r].key = k /\ rule'[r].answer = cache'[k].answer
      BY <3>1
    <3> QED
      BY <1>4, <3>2
  <2>2. CASE r # RuleOf[k]
    <3>1. rule'[r] = rule[r]
      BY <1>0, <1>4, <2>2
    <3> QED
      BY <1>3, <3>1
  <2> QED
    BY <2>1, <2>2
<1> QED
  BY <1>3, <1>4, RuleEffect

-----------------------------------------------------------------------------
(***************************************************************************)
(* One command per reservation.                                            *)
(***************************************************************************)

\* A command at work was at work for the same key before, or has just made its
\* reservation.
LEMMA WorkersEffect ==
    ASSUME Sound, Next, NEW d \in Commands, cmd'[d].pc \in AtWork
    PROVE  (cmd[d].pc \in AtWork /\ cmd'[d].key = cmd[d].key) \/ Reserve(d)
<1> DEFINE Stays == cmd[d].pc \in AtWork /\ cmd'[d].key = cmd[d].key
           Goal == Stays \/ Reserve(d)
<1>0. cmd \in [Commands -> CommandRecords]
  BY Types DEF Sound
<1>a. ASSUME cmd'[d] = cmd[d] PROVE Stays
  BY <1>a
<1>b. ASSUME NEW c \in Commands, NEW w, cmd' = [cmd EXCEPT ![c] = w],
             w.pc \in AtWork => cmd[c].pc \in AtWork /\ w.key = cmd[c].key
      PROVE  Stays
  <2>1. CASE c = d
    BY <1>0, <1>b, <2>1
  <2>2. CASE c # d
    BY <1>0, <1>a, <1>b, <2>2
  <2> QED
    BY <2>1, <2>2
<1>c. ASSUME NEW c \in Commands, Leave(c) PROVE Stays
  <2>1. Idle.pc \notin AtWork
    BY DEF Idle, AtWork
  <2> QED
    BY <1>b, <1>c, <2>1 DEF Leave
<1>d. ASSUME NEW c \in Commands, NEW pc, Go(c, pc), pc \in AtWork => cmd[c].pc \in AtWork
      PROVE  Stays
  <2> DEFINE w == [cmd[c] EXCEPT !.pc = pc]
  <2>1. cmd' = [cmd EXCEPT ![c] = w]
    BY <1>0, <1>d DEF Go
  <2>2. w.pc = pc /\ w.key = cmd[c].key
    BY <1>0 DEF CommandRecords
  <2> HIDE DEF w
  <2> QED
    BY <1>b, <1>d, <2>1, <2>2
<1>1. ASSUME NEW c \in Commands, NEW k \in Keys, NEW o \in Owners, Start(c, k, o)
      PROVE  Stays
  <2>1. \/ UNCHANGED cmd
        \/ \E pc \in {"exclude", "reserve"} :
              cmd' = [cmd EXCEPT ![c] = [Idle EXCEPT !.pc = pc, !.key = k, !.owner = o]]
    BY <1>1 DEF Start
  <2>2. ASSUME NEW pc \in {"exclude", "reserve"},
               cmd' = [cmd EXCEPT ![c] = [Idle EXCEPT !.pc = pc, !.key = k, !.owner = o]]
        PROVE  Stays
    <3> DEFINE w == [Idle EXCEPT !.pc = pc, !.key = k, !.owner = o]
    <3>1. w.pc \notin AtWork /\ cmd' = [cmd EXCEPT ![c] = w]
      BY <2>2 DEF Idle, AtWork
    <3> HIDE DEF w
    <3> QED
      BY <1>b, <3>1
  <2> QED
    BY <1>a, <2>1, <2>2
<1>2. ASSUME NEW c \in Commands, Reserve(c) PROVE Goal
  <2> DEFINE n == IF cache[cmd[c].key].status = "absent" THEN 1 ELSE NextOrdinal(cmd[c].key)
  <2>1. cmd' = [cmd EXCEPT ![c].pc = "build", ![c].next = n]
    BY <1>2 DEF Reserve
  <2> HIDE DEF n
  <2>2. CASE c = d
    BY <1>2, <2>2
  <2>3. CASE c # d
    BY <1>0, <1>a, <2>1, <2>3
  <2> QED
    BY <2>2, <2>3
<1>3. ASSUME NEW c \in Commands,
             \/ PersistExclusion(c) \/ ReserveExhausted(c) \/ MaterializeCached(c)
             \/ SettleCancelled(c) \/ PublishAnswer(c) \/ PublishFailure(c) \/ Crash(c)
      PROVE  Stays
  BY <1>c, <1>3 DEF PersistExclusion, ReserveExhausted, MaterializeCached, SettleCancelled,
     PublishAnswer, PublishFailure, Crash
<1>4. ASSUME NEW c \in Commands,
             ReserveRefused(c) \/ BuildProvider(c) \/ BeginAttempt(c) \/ CheckOutcome(c)
      PROVE  Stays
  <2>1. Leave(c) \/ \E pc : Go(c, pc) /\ (pc \in AtWork => cmd[c].pc \in AtWork)
    BY <1>4 DEF ReserveRefused, BuildProvider, BeginAttempt, CheckOutcome, AtWork
  <2> QED
    BY <1>c, <1>d, <2>1
<1>5. ASSUME NEW c \in Commands,
             \/ BeginRefused(c) \/ Wake(c) \/ Watch(c)
             \/ \E s \in AttemptStatuses, a \in Answers : FinishAttempt(c, s, a)
      PROVE  Stays
  <2>1. cmd[c].pc \in AtWork
    BY <1>5 DEF BeginRefused, Wake, Watch, FinishAttempt, AtWork
  <2>2. \E w : cmd' = [cmd EXCEPT ![c] = w] /\ w.key = cmd[c].key
    <3>1. CASE BeginRefused(c)
      <4> DEFINE w == [cmd[c] EXCEPT !.pc = "outcome", !.next = @ - 1]
      <4>1. cmd' = [cmd EXCEPT ![c] = w] /\ w.key = cmd[c].key
        BY <1>0, <3>1 DEF BeginRefused, CommandRecords
      <4> QED
        BY <4>1
    <3>2. CASE Wake(c)
      <4> DEFINE v == [cmd[c] EXCEPT !.pc = "begin", !.next = @ + 1]
                 w == [cmd[c] EXCEPT !.pc = "outcome"]
      <4>1. v.key = cmd[c].key /\ w.key = cmd[c].key
        BY <1>0 DEF CommandRecords
      <4>2. cmd' = [cmd EXCEPT ![c] = v] \/ cmd' = [cmd EXCEPT ![c] = w]
        BY <1>0, <3>2 DEF Wake, Go, CommandRecords
      <4> HIDE DEF v, w
      <4> QED
        BY <4>1, <4>2
    <3>3. CASE Watch(c)
      <4> DEFINE w == [cmd[c] EXCEPT !.told = JobOutcome(cmd[c].owner)]
      <4>1. cmd' = [cmd EXCEPT ![c] = w] /\ w.key = cmd[c].key
        BY <1>0, <3>3 DEF Watch, CommandRecords
      <4> QED
        BY <4>1
    <3>4. ASSUME NEW s \in AttemptStatuses, NEW a \in Answers, FinishAttempt(c, s, a)
          PROVE  \E w : cmd' = [cmd EXCEPT ![c] = w] /\ w.key = cmd[c].key
      <4> DEFINE recorded == AccountingActor(cmd[c].owner) /\ Accepts(cmd[c].key, cmd[c].next, s, c)
                 answer   == IF recorded /\ s = "success" THEN a ELSE Null
      <4>0. \E to \in IF recorded THEN After(s, cmd[c].next) ELSE {"outcome"} :
               cmd' = [cmd EXCEPT ![c].pc = to, ![c].log = Append(@, s), ![c].answer = answer]
        BY <3>4 DEF FinishAttempt
      <4> HIDE DEF recorded, answer
      <4>1. PICK to, b : cmd' = [cmd EXCEPT ![c].pc = to, ![c].log = Append(@, s), ![c].answer = b]
        BY <4>0
      <4> DEFINE w == [cmd[c] EXCEPT !.pc = to, !.log = Append(@, s), !.answer = b]
      <4>2. cmd' = [cmd EXCEPT ![c] = w] /\ w.key = cmd[c].key
        BY <1>0, <4>1 DEF CommandRecords
      <4> QED
        BY <4>2
    <3> QED
      BY <1>5, <3>1, <3>2, <3>3, <3>4
  <2> QED
    BY <1>b, <2>1, <2>2
<1>6. ASSUME \/ \E k \in Keys : GrowStale(k)
             \/ RequestCancel \/ AcknowledgeCancel \/ PauseJob \/ ResumeJob
             \/ \E o \in Owners : RecoverStaleJob(o)
             \/ ContinueWithoutModel \/ PublishGeneration \/ CompleteJob
             \/ \E ks \in SUBSET Keys : CleanupCache(ks)
      PROVE  Stays
  BY <1>a, <1>6 DEF GrowStale, RequestCancel, AcknowledgeCancel, PauseJob, ResumeJob,
     RecoverStaleJob, ContinueWithoutModel, PublishGeneration, CompleteJob, CleanupCache, JobStep
<1> HIDE DEF Stays
<1>7. Goal
  BY <1>1, <1>2, <1>3, <1>4, <1>5, <1>6 DEF Next, Advance, Disturb
<1> QED
  BY <1>7 DEF Stays

\* What Working means for commands whose place is one of the known ones.
LEMMA WorkingIsAtWork ==
    ASSUME cmd \in [Commands -> CommandRecords], NEW k \in Keys
    PROVE  Working(k) = {c \in Commands : cmd[c].key = k /\ cmd[c].pc \in AtWork}
BY DEF Working, CommandRecords, Places, AtWork

(* How the row of a key and the commands at work for it change together. *)
Settling(k) ==      \* by a command that leaves
    \E c \in Working(k) : Working(k)' \subseteq Working(k) \ {c}
Reserving(k) ==     \* by a command that joins
    /\ job.stage = "synthesize"
    /\ cache[k].status = "absent" \/ IsStale(k)
    /\ \E c \in Commands : Working(k)' \subseteq Working(k) \cup {c}
    /\ \E o \in Owners : cache'[k] = Row("pending", o, Null)
Aging(k) ==         \* by time
    /\ Working(k)' = Working(k)
    /\ jumped' = (jumped \/ Working(k) # {})
Closing(k) ==       \* by the next one, with no attempt left, or for good
    /\ Working(k)' \subseteq Working(k)
    /\ \/ job.stage = "synthesize" /\ (IsStale(k) \/ k \in Protected)
       \/ job.stage = "cleanup"

\* Every step is one of these for each key, or leaves its row alone and lets
\* no command join.
LEMMA RowAndWorkers ==
    ASSUME Sound, Next, NEW k \in Keys
    PROVE  \/ Working(k)' \subseteq Working(k) /\ cache'[k] = cache[k]
           \/ Settling(k) \/ Reserving(k) \/ Aging(k) \/ Closing(k)
<1> DEFINE Goal == \/ Working(k)' \subseteq Working(k) /\ cache'[k] = cache[k]
                   \/ Settling(k) \/ Reserving(k) \/ Aging(k) \/ Closing(k)
<1>0. cmd \in [Commands -> CommandRecords] /\ cache \in [Keys -> CacheRows]
  BY Types DEF Sound
<1>1. cmd' \in [Commands -> CommandRecords]
  BY CommandStep
<1>2. /\ Working(k) = {c \in Commands : cmd[c].key = k /\ cmd[c].pc \in AtWork}
      /\ Working(k)' = {c \in Commands : cmd'[c].key = k /\ cmd'[c].pc \in AtWork}
  <2>1. Working(k)' = {c \in Commands : cmd'[c].key = k /\ cmd'[c].pc \in AtWork}
    BY <1>1 DEF Working, CommandRecords, Places, AtWork
  <2> QED
    BY <1>0, <2>1, WorkingIsAtWork
<1>3. (\A d \in Commands : ~Reserve(d)) => Working(k)' \subseteq Working(k)
  BY <1>2, WorkersEffect
<1>a. ASSUME NEW c \in Commands, Leave(c), cmd[c].key = k, cmd[c].pc \in AtWork,
             \A d \in Commands : ~Reserve(d)
      PROVE  Settling(k)
  <2>1. cmd'[c] = Idle
    BY <1>0, <1>a DEF Leave
  <2>2. c \in Working(k) /\ c \notin Working(k)'
    BY <1>2, <1>a, <2>1 DEF Idle, AtWork
  <2> QED
    BY <1>3, <1>a, <2>2 DEF Settling
<1>4. ASSUME NEW c \in Commands, Reserve(c) PROVE Goal
  <2>0. cmd[c].pc = "reserve" /\ cmd[c].key \in Keys /\ cmd[c].owner \in Owners
    BY <1>4, CommandParts DEF Reserve
  <2>1. ASSUME NEW d \in Commands, d # c PROVE cmd'[d] = cmd[d]
    BY <1>0, <1>4, <2>1 DEF Reserve
  <2>2. cmd'[c].key = cmd[c].key
    BY <1>0, <1>4 DEF Reserve, CommandRecords
  <2>3. CASE cmd[c].key = k
    <3>1. Working(k)' \subseteq Working(k) \cup {c}
      BY <1>2, <2>1
    <3>2. cache'[k] = Row("pending", cmd[c].owner, Null)
      BY <1>0, <1>4, <2>3 DEF Reserve
    <3>3. job.stage = "synthesize" /\ (cache[k].status = "absent" \/ IsStale(k))
      BY <1>4, <2>3 DEF Reserve, ActiveActor
    <3> QED
      BY <2>0, <3>1, <3>2, <3>3 DEF Reserving
  <2>4. CASE cmd[c].key # k
    <3>1. cache'[k] = cache[k]
      BY <1>0, <1>4, <2>0, <2>4 DEF Reserve
    <3>2. Working(k)' \subseteq Working(k)
      BY <1>2, <2>1, <2>2, <2>4
    <3> QED
      BY <3>1, <3>2
  <2> QED
    BY <2>3, <2>4
<1>5. ASSUME \A d \in Commands : ~Reserve(d) PROVE Goal
  <2>0. Working(k)' \subseteq Working(k)
    BY <1>3, <1>5
  <2>k. cache'[k] = cache[k] => Goal
    BY <2>0
  <2>1. ASSUME NEW c \in Commands, Leave(c), cmd[c].pc \in AtWork,
               \/ UNCHANGED cache
               \/ \E row : cache' = [cache EXCEPT ![cmd[c].key] = row]
        PROVE  Goal
    <3>1. CASE cmd[c].key = k
      BY <1>5, <1>a, <2>1, <3>1
    <3>2. CASE cmd[c].key # k
      BY <1>0, <2>k, <2>1, <3>2
    <3> QED
      BY <3>1, <3>2
  <2>2. ASSUME NEW c \in Commands,
               BuildProvider(c) \/ SettleCancelled(c) \/ PublishAnswer(c) \/ PublishFailure(c)
        PROVE  Goal
    <3>1. cmd[c].pc \in AtWork
      BY <2>2 DEF BuildProvider, SettleCancelled, PublishAnswer, PublishFailure, AtWork
    <3>2. \/ UNCHANGED cache
          \/ Leave(c) /\ \E row : cache' = [cache EXCEPT ![cmd[c].key] = row]
      BY <2>2 DEF BuildProvider, SettleCancelled, PublishAnswer, PublishFailure, SettleAs
    <3> QED
      BY <2>k, <2>1, <3>1, <3>2
  <2>3. ASSUME NEW c \in Commands, PersistExclusion(c) PROVE Goal
    <3>1. cmd[c].key \in Protected
      BY <2>3, CommandParts DEF PersistExclusion, SoundCommand
    <3>2. CASE cmd[c].key = k /\ job.stage = "synthesize"
      BY <2>0, <3>1, <3>2 DEF Closing
    <3>3. CASE ~(cmd[c].key = k /\ job.stage = "synthesize")
      BY <1>0, <2>k, <2>3, <3>3 DEF PersistExclusion, ActiveActor
    <3> QED
      BY <3>2, <3>3
  <2>4. ASSUME NEW c \in Commands, ReserveExhausted(c) PROVE Goal
    <3>1. CASE cmd[c].key = k
      BY <2>0, <2>4, <3>1 DEF Closing, ReserveExhausted, ActiveActor
    <3>2. CASE cmd[c].key # k
      BY <1>0, <2>k, <2>4, <3>2 DEF ReserveExhausted
    <3> QED
      BY <3>1, <3>2
  <2>5. ASSUME NEW c \in Commands, NEW j \in Keys, NEW o \in Owners, Start(c, j, o)
        PROVE  Goal
    BY <2>k, <2>5 DEF Start
  <2>6. ASSUME NEW c \in Commands,
               \/ ReserveRefused(c) \/ MaterializeCached(c) \/ BeginAttempt(c) \/ BeginRefused(c)
               \/ Wake(c) \/ CheckOutcome(c) \/ Watch(c) \/ Crash(c)
               \/ \E s \in AttemptStatuses, a \in Answers : FinishAttempt(c, s, a)
        PROVE  Goal
    BY <2>k, <2>6 DEF ReserveRefused, MaterializeCached, BeginAttempt, BeginRefused, Wake,
       CheckOutcome, Watch, Crash, FinishAttempt
  <2>7. ASSUME NEW j \in Keys, GrowStale(j) PROVE Goal
    <3>1. CASE j = k
      <4>1. Working(k)' = Working(k)
        BY <2>7 DEF GrowStale, Working
      <4> QED
        BY <2>7, <3>1, <4>1 DEF GrowStale, Aging
    <3>2. CASE j # k
      BY <1>0, <2>k, <2>7, <3>2 DEF GrowStale
    <3> QED
      BY <3>1, <3>2
  <2>8. ASSUME NEW ks \in SUBSET Keys, CleanupCache(ks) PROVE Goal
    BY <2>0, <2>8 DEF CleanupCache, ActiveActor, Closing
  <2>9. ASSUME \/ RequestCancel \/ AcknowledgeCancel \/ PauseJob \/ ResumeJob
               \/ \E o \in Owners : RecoverStaleJob(o)
               \/ ContinueWithoutModel \/ PublishGeneration \/ CompleteJob
        PROVE  Goal
    BY <2>k, <2>9 DEF RequestCancel, AcknowledgeCancel, PauseJob, ResumeJob, RecoverStaleJob,
       ContinueWithoutModel, PublishGeneration, CompleteJob, JobStep
  <2> HIDE DEF Goal
  <2> QED
    BY <1>5, <2>2, <2>3, <2>4, <2>5, <2>6, <2>7, <2>8, <2>9 DEF Next, Advance, Disturb
<1> HIDE DEF Goal
<1>6. Goal
  BY <1>4, <1>5
<1> QED
  BY <1>6 DEF Goal

\* The only command at work for a key settles its row and leaves; a row that
\* others may take is one that nobody works for.
LEMMA FlightStep ==
    ASSUME Sound, Flight, Next
    PROVE  Flight'
<1>1. SUFFICES ASSUME ~jumped', NEW k \in Keys
               PROVE  /\ \A c, d \in Working(k)' : c = d
                      /\ job'.stage = "synthesize" =>
                            (Working(k)' # {} =>
                                cache'[k].status = "pending" /\ ~cache'[k].stale)
  BY DEF Flight
<1>2. ~jumped
  <2>1. ASSUME NEW j \in Keys, GrowStale(j) PROVE ~jumped
    BY <1>1, <2>1 DEF GrowStale
  <2> QED
    BY <1>1, <2>1, JumpEffect
<1>3. /\ \A c, d \in Working(k) : c = d
      /\ job.stage = "synthesize" =>
            (Working(k) # {} => cache[k].status = "pending" /\ ~cache[k].stale)
  BY <1>2 DEF Flight
<1>4. job'.stage = "synthesize" => job.stage = "synthesize"
  BY JobEffect
<1>5. CASE Working(k)' \subseteq Working(k) /\ cache'[k] = cache[k]
  BY <1>3, <1>4, <1>5
<1>6. CASE Settling(k)
  <2>1. Working(k)' = {}
    BY <1>3, <1>6 DEF Settling
  <2> QED
    BY <2>1
<1>7. CASE Reserving(k)
  <2>1. Working(k) = {}
    BY <1>3, <1>7 DEF Reserving, IsStale
  <2>2. PICK c \in Commands : Working(k)' \subseteq {c}
    BY <1>7, <2>1 DEF Reserving
  <2>3. cache'[k].status = "pending" /\ ~cache'[k].stale
    BY <1>7 DEF Reserving, Row
  <2> QED
    BY <2>2, <2>3
<1>8. CASE Aging(k)
  <2>1. Working(k)' = {}
    BY <1>1, <1>8 DEF Aging
  <2> QED
    BY <2>1
<1>9. CASE Closing(k)
  <2>1. CASE job.stage = "cleanup"
    BY <1>3, <1>4, <1>9, <2>1 DEF Closing
  <2>2. CASE k \in Protected
    <3>1. ASSUME NEW c \in Working(k) PROVE FALSE
      <4>1. c \in Commands /\ cmd[c].key = k /\ cmd[c].pc \in AtWork
        BY WorkingIsAtWork, Types DEF Sound
      <4> QED
        BY <2>2, <4>1, CommandParts DEF SoundCommand
    <3> QED
      BY <1>9, <3>1 DEF Closing
  <2>3. CASE job.stage = "synthesize" /\ IsStale(k)
    BY <1>3, <1>9, <2>3 DEF Closing, IsStale
  <2> QED
    BY <1>9, <2>1, <2>2, <2>3 DEF Closing
<1> QED
  BY <1>5, <1>6, <1>7, <1>8, <1>9, RowAndWorkers

-----------------------------------------------------------------------------
(***************************************************************************)
(* The theorems.                                                           *)
(***************************************************************************)
Inv ==
    /\ TypeOK /\ CommandsSound /\ OwnEntries /\ Accounts
    /\ ReadyHasSuccess /\ RulesEndSynthesis /\ RulesKeepTheirAnswer
    /\ ProtectedRows /\ Flight

\* The derived job has no row, no call and no rule made by a model.
LEMMA InitInv == Init => Inv
<1> SUFFICES ASSUME Init PROVE Inv
  OBVIOUS
<1>1. TypeOK
  <2>1. /\ NoRow \in CacheRows /\ NoAttempt \in AttemptRows
        /\ Plain \in [key : Keys \cup {Null}, answer : Answers \cup {Null}]
    BY DEF NoRow, Row, CacheRows, NoAttempt, AttemptRows, Plain
  <2>2. job \in JobRows
    BY DEF Init, JobRows
  <2> QED
    BY <2>1, <2>2, IdleIsSound, Types DEF Init
<1>2. CommandsSound
  BY IdleIsSound DEF Init, CommandsSound
<1>3. \A c \in Commands : cmd[c].pc = "idle"
  BY DEF Init, Idle
<1>4. OwnEntries
  BY <1>3 DEF OwnEntries, AtWork
<1>5. Accounts
  <2>1. ASSUME NEW k \in Keys PROVE Used(k) = {}
    BY <2>1 DEF Used, Init
  <2>2. ASSUME NEW k \in Keys PROVE Cardinality(Used(k)) = 0
    BY <2>1, FS_EmptySet
  <2> QED
    BY <2>2, SynthesisAssumption DEF Accounts, Init
<1>6. \A k \in Keys : cache[k].status # "ready"
  BY DEF Init, NoRow, Row
<1>7. \A r \in Rules : rule[r].key = Null
  BY DEF Init, Plain
<1>8. ProtectedRows
  BY SynthesisAssumption DEF ProtectedRows, Init
<1>9. Flight
  <2>1. ASSUME NEW k \in Keys PROVE Working(k) = {}
    BY <1>3 DEF Working
  <2> QED
    BY <2>1 DEF Flight
<1> QED
  BY <1>1, <1>2, <1>4, <1>5, <1>6, <1>7, <1>8, <1>9
     DEF Inv, ReadyHasSuccess, RulesEndSynthesis, RulesKeepTheirAnswer

\* Every step preserves the invariant.
LEMMA StepInv == Inv /\ [Next]_vars => Inv'
<1>1. ASSUME Inv, Next PROVE Inv'
  <2>1. Sound
    BY <1>1 DEF Inv, Sound
  <2>2. TypeOK'
    BY <1>1, <2>1, TypeStep DEF Inv
  <2>3. CommandsSound'
    BY <1>1, <2>1, CommandStep
  <2>4. OwnEntries' /\ Accounts' /\ ReadyHasSuccess' /\ ProtectedRows' /\ Flight'
    BY <1>1, <2>1, OwnEntriesStep, AccountsStep, ReadyStep, ProtectedStep, FlightStep DEF Inv
  <2>5. RulesEndSynthesis' /\ RulesKeepTheirAnswer'
    BY <1>1, <2>1, RulesStep DEF Inv
  <2> QED
    BY <2>2, <2>3, <2>4, <2>5 DEF Inv
<1>2. ASSUME Inv, UNCHANGED vars PROVE Inv'
  <2>0. UNCHANGED <<job, cache, attempts, rule, cmd, calls, jumped>>
    BY <1>2 DEF vars, history
  <2>1. TypeOK' /\ CommandsSound'
    BY <1>2, <2>0 DEF Inv, TypeOK, CommandsSound
  <2>2. OwnEntries'
    BY <1>2, <2>0 DEF Inv, OwnEntries
  <2>3. Accounts'
    BY <1>2, <2>0 DEF Inv, Accounts, Used
  <2>4. ReadyHasSuccess' /\ RulesEndSynthesis' /\ RulesKeepTheirAnswer' /\ ProtectedRows'
    BY <1>2, <2>0 DEF Inv, ReadyHasSuccess, RulesEndSynthesis, RulesKeepTheirAnswer, ProtectedRows
  <2>5. Flight'
    BY <1>2, <2>0 DEF Inv, Flight, Working
  <2> QED
    BY <2>1, <2>2, <2>3, <2>4, <2>5 DEF Inv
<1> QED
  BY <1>1, <1>2

\* The invariant holds of every behaviour.
LEMMA AlwaysInv == Spec => []Inv
BY InitInv, StepInv, PTL DEF Spec

\* Every column keeps to its values, through every interleaving of commands,
\* crashes and job operations.
THEOREM TypeCorrect == Spec => []TypeOK
<1>1. Inv => TypeOK
  BY DEF Inv
<1> QED
  BY <1>1, AlwaysInv, PTL

\* No call of a provider without a ledger row of its own, and so never more
\* than MaxAttempts calls for one key (insert_pending_attempt).
THEOREM CallsAreAccounted == Spec => []CallsAccounted
<1>1. Inv => CallsAccounted
  BY DEF Inv, Accounts, CallsAccounted, Used
<1> QED
  BY <1>1, AlwaysInv, PTL

\* A rule made by a model keeps the ready row, the answer and the successful
\* attempt it came from (finalize_model_catalog, cleanup_synthesis_cache).
THEOREM RulesKeepAnswers == Spec => []RulesKeepTheirAnswer
<1>1. Inv => RulesKeepTheirAnswer
  BY DEF Inv
<1> QED
  BY <1>1, AlwaysInv, PTL

\* As long as no reservation looks stale during a call, one command at a time
\* works for a key (reserve_synthesis_cache).
THEOREM OneCommandPerReservation == Spec => []SingleFlight
<1>1. Inv => SingleFlight
  <2> SUFFICES ASSUME Inv, ~jumped, NEW k \in Keys PROVE Cardinality(Working(k)) <= 1
    BY DEF SingleFlight
  <2>1. \A c, d \in Working(k) : c = d
    BY DEF Inv, Flight
  <2>2. CASE Working(k) = {}
    BY <2>2, FS_EmptySet
  <2>3. ASSUME NEW c \in Working(k) PROVE Cardinality(Working(k)) <= 1
    <3>1. Working(k) = {c}
      BY <2>1, <2>3
    <3>2. Cardinality({c}) = 1
      BY FS_Singleton
    <3> QED
      BY <3>1, <3>2
  <2> QED
    BY <2>2, <2>3
<1> QED
  BY <1>1, AlwaysInv, PTL

\* A settled row is never changed again, only cleaned up: the compare-and-set
\* on pending rows keeps late answers out, and the upsert of the exclusion
\* meets only rows it has written itself.
THEOREM SettledRowsAreFinal == Spec => SettledIsFinal
<1> DEFINE Final == \A k \in Keys : cache[k].status \in Settled =>
                        cache'[k] = cache[k] \/ cache'[k] = NoRow
<1>1. ASSUME Inv, Next PROVE Final
  <2>0. Sound /\ OwnEntries /\ cache \in [Keys -> CacheRows]
    BY <1>1, Types DEF Inv, Sound
  <2> SUFFICES ASSUME NEW k \in Keys, cache[k].status \in Settled
               PROVE  cache'[k] = cache[k] \/ cache'[k] = NoRow
    OBVIOUS
  <2>1. ASSUME NEW j \in Keys, Reserves(j) \/ Settles(j) \/ GrowStale(j)
        PROVE  cache'[k] = cache[k]
    <3>1. j # k
      BY <2>1 DEF Reserves, Settles, GrowStale, IsStale, Settled
    <3> QED
      BY <2>0, <2>1, <3>1 DEF Reserves, Settles, GrowStale
  <2>2. ASSUME NEW j \in Keys, Excludes(j) PROVE cache'[k] = cache[k]
    <3>1. CASE j # k
      BY <2>0, <2>2, <3>1 DEF Excludes
    <3>2. CASE j = k
      <4>1. cache[k] \in {NoRow, Row("excluded", Null, Null)}
        BY <1>1, <2>2, <3>2 DEF Excludes, Inv, ProtectedRows
      <4>2. NoRow.status \notin Settled
        BY DEF NoRow, Row, Settled
      <4> QED
        BY <2>0, <2>2, <3>2, <4>1, <4>2 DEF Excludes
    <3> QED
      BY <3>1, <3>2
  <2>3. ASSUME NEW ks \in SUBSET Keys, CleanupCache(ks)
        PROVE  cache'[k] = cache[k] \/ cache'[k] = NoRow
    BY <2>3 DEF CleanupCache
  <2> QED
    BY <1>1, <2>0, <2>1, <2>2, <2>3, CacheEffect
<1>2. ASSUME UNCHANGED vars PROVE Final
  BY <1>2 DEF vars
<1>3. Inv /\ [Next]_vars => [Final]_vars
  BY <1>1, <1>2
<1> QED
  BY <1>3, AlwaysInv, PTL DEF Spec, SettledIsFinal
=============================================================================
