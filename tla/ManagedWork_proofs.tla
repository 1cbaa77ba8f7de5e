------------------------- MODULE ManagedWork_proofs -------------------------
(***************************************************************************)
(* Theorems about ManagedWork, for any number of work items, runs, hooks,  *)
(* processes, ports, edits and closures, and any of the faults.            *)
(***************************************************************************)
EXTENDS ManagedWork, WorkItems_proofs, FiniteSetTheorems

(* The command between two steps works on a run of the kind it began with. *)
OpSound ==
    /\ op.step # "free" => op.run \in Runs
    /\ op.step \in {"worktree", "ports", "plan"} => run[op.run].state = "starting"
    /\ op.step \in {"remove", "mark"} => Exists(op.run)

(* A hook names a run that was there, and has no checkpoint before it       *)
(* starts.                                                                 *)
HooksSound ==
    \A h \in Hooks :
        /\ hook[h].pc # "idle" => hook[h].run \in Runs /\ run[hook[h].run].state # "unused"
        /\ hook[h].pc \in {"idle", "read"} => ckpt[h].run = NULL

(* The checkpoints of a run have the numbers from 1 on, each once; and all  *)
(* numbers below the one a hook has read are taken, whoever came between.  *)
Sequence(r) == {ckpt[h].seq : h \in Of(r)}
Numbered ==
    /\ \A r \in Runs :
          /\ \E n \in Nat : Sequence(r) = 1..n
          /\ \A g, h \in Of(r) : ckpt[g].seq = ckpt[h].seq => g = h
    /\ \A h \in Hooks :
          hook[h].pc = "read" /\ Exists(hook[h].run) =>
              /\ hook[h].seq # 0
              /\ \A k \in 1..(hook[h].seq - 1) : k \in Sequence(hook[h].run)

(* The closures of an item have the versions from 1 on, each once.         *)
Versions(i) == {c.version : c \in OfItem(i)}
Versioned ==
    \A i \in Items :
        /\ \E n \in 0..MaxClosures : Versions(i) = 1..n
        /\ \A c, d \in OfItem(i) : c.version = d.version => c = d

(* No port is reserved twice, and the ports in a run's row are its own.    *)
Reserved ==
    /\ \A a, b \in reserved : a[2] = b[2] => a = b
    /\ \A r \in Runs : \A p \in run[r].ports : <<r, p>> \in reserved

Inv ==
    /\ TypeOK /\ OpSound /\ HooksSound
    /\ Numbered /\ Versioned /\ Reserved /\ OneLiveRun

-----------------------------------------------------------------------------
(***************************************************************************)
(* Counting.                                                               *)
(***************************************************************************)

\* A set whose members have the numbers from 1 to n, each once, has n members.
LEMMA NumberedCount ==
    ASSUME NEW S, NEW n \in Nat, NEW f,
           f \in [S -> Nat],
           \A x, y \in S : f[x] = f[y] => x = y,
           {f[x] : x \in S} = 1..n
    PROVE  IsFiniteSet(S) /\ Cardinality(S) = n
<1>1. f \in [S -> 1..n]
  BY SMT
<1>2. f \in Injection(S, 1..n)
  BY <1>1 DEF Injection, IsInjective
<1>3. f \in Surjection(S, 1..n)
  BY <1>1 DEF Surjection
<1>4. IsFiniteSet(1..n) /\ Cardinality(1..n) = n
  BY FS_Interval
<1> QED
  BY <1>2, <1>3, <1>4, FS_Injection

\* The greatest of the numbers from 0 to n.
LEMMA MaxOfNumbers ==
    ASSUME NEW n \in Nat, NEW S, S = 1..n
    PROVE  Max({0} \cup S) = n
<1> DEFINE T == {0} \cup S
           P(x) == x \in T /\ \A y \in T : x >= y
<1>1. T = 0..n
  OBVIOUS
<1>2. P(n)
  BY <1>1
<1>3. \A x : P(x) => x = n
  BY <1>1
<1>4. Max(T) = CHOOSE x : P(x)
  BY DEF Max
<1> HIDE DEF P
<1> QED
  BY <1>2, <1>3, <1>4

-----------------------------------------------------------------------------
(***************************************************************************)
(* What a step does to the items and the runs.                             *)
(***************************************************************************)

\* No command of the Board but a deletion takes an item away.
LEMMA EditKeepsItems ==
    ASSUME ItemsTypeOK, EditBoard, NEW j \in Items, item[j].exists
    PROVE  item'[j].exists
<1>0. item \in [Items -> ItemRows]
  BY DEF ItemsTypeOK
<1>1. ASSUME NEW i \in Items, NEW repo, CreateItem(i, repo) PROVE item'[j].exists
  <2>1. i # j /\ item' = [item EXCEPT ![i] = [NoItem EXCEPT !.exists = TRUE, !.repo = repo]]
    BY <1>1 DEF CreateItem
  <2> QED
    BY <1>0, <2>1
<1>2. ASSUME NEW i \in Items, NEW row, row.exists = item[i].exists,
             item' = [item EXCEPT ![i] = row]
      PROVE  item'[j].exists
  BY <1>0, <1>2
<1>3. ASSUME NEW i \in Items, NEW u, UpdateItem(i, u) PROVE item'[j].exists
  <2>1. item' = [item EXCEPT ![i] = Updated(item[i], u)]
    BY <1>0, <1>3 DEF UpdateItem
  <2>2. Updated(item[i], u).exists = item[i].exists
    BY <1>0 DEF Updated, ItemRows
  <2> QED
    BY <1>2, <2>1, <2>2
<1>4. ASSUME NEW i \in Items, NEW s, AttachSession(i, s) PROVE item'[j].exists
  <2> DEFINE row == [item[i] EXCEPT !.session = s,
                        !.repo = IF item[i].repo = NULL THEN SessionRepo[s] ELSE item[i].repo]
  <2>1. item' = [item EXCEPT ![i] = row] /\ row.exists = item[i].exists
    BY <1>0, <1>4 DEF AttachSession, ItemRows
  <2> QED
    BY <1>2, <2>1
<1>5. ASSUME NEW i \in Items, NEW status, NEW disp, TransitionItem(i, status, disp)
      PROVE  item'[j].exists
  <2> DEFINE row == [item[i] EXCEPT !.status = status,
                                    !.disp = IF status = "done" THEN disp ELSE NULL]
  <2>1. item' = [item EXCEPT ![i] = row] /\ row.exists = item[i].exists
    BY <1>0, <1>5 DEF TransitionItem, ItemRows
  <2> QED
    BY <1>2, <2>1
<1> QED
  BY <1>1, <1>3, <1>4, <1>5 DEF EditBoard

\* The items stay rows, and only DeleteItem removes one.
LEMMA ItemsStep ==
    ASSUME ItemsTypeOK, Next
    PROVE  /\ ItemsTypeOK'
           /\ \A j \in Items : item[j].exists => item'[j].exists \/ DeleteItem(j)
<1>0. item \in [Items -> ItemRows]
  BY DEF ItemsTypeOK
<1>1. CASE EditItem
  <2>1. EditBoard
    BY <1>1 DEF EditItem
  <2> QED
    BY <2>1, EditKeepsItems, RowStep DEF NextItems
<1>2. ASSUME NEW i \in Items, DeleteItem(i)
      PROVE  /\ ItemsTypeOK'
             /\ \A j \in Items : item[j].exists => item'[j].exists \/ DeleteItem(j)
  <2>1. RemoveItem(i)
    BY <1>2 DEF DeleteItem
  <2>2. \A j \in Items : j # i => item'[j] = item[j]
    BY <1>0, <2>1 DEF RemoveItem
  <2> QED
    BY <1>2, <2>1, <2>2, RowStep DEF NextItems
<1>3. UNCHANGED item =>
             /\ ItemsTypeOK'
             /\ \A j \in Items : item[j].exists => item'[j].exists \/ DeleteItem(j)
  BY DEF ItemsTypeOK
<1>4. CASE Create \/ Archive \/ Crash
  BY <1>3, <1>4 DEF Create, CreateWorktree, ReservePorts, FinishCreate, Archive, ArchiveRemove,
     ArchiveMark, Crash
<1>5. CASE \E i \in Items : \/ \E r \in Runs : CreateRun(i, r)
                            \/ \E r \in Runs \cup {NULL} : CreateClosure(i, r)
  BY <1>3, <1>5 DEF CreateRun, CreateClosure
<1>6. CASE \E r \in Runs : \/ \E p \in Processes : AttachProcess(r, p)
                           \/ Reconcile(r) \/ ArchiveCheck(r) \/ EditTree(r) \/ LoseTree(r)
                           \/ \E h \in Hooks : HookRead(h, r)
  BY <1>3, <1>6 DEF AttachProcess, Reconcile, ArchiveCheck, EditTree, LoseTree, HookRead
<1>7. CASE (\E h \in Hooks : HookStep(h)) \/ \E p \in Processes : EndProcess(p)
  BY <1>3, <1>7 DEF HookStep, HookStart, HookExecute, HookIdentify, HookSettle, EndProcess
<1> QED
  BY <1>1, <1>2, <1>4, <1>5, <1>6, <1>7 DEF Next

(* A row of the same item, written anew. *)
Rewritten(new, row, state, ports) ==
    new \in RunRows /\ new.item = row.item /\ new.state = state /\ new.ports = ports

\* What the commands write to a row makes a row, of the same item.
LEMMA RowFields ==
    ASSUME NEW row \in RunRows, NEW s \in RunStates, NEW c \in Contents, NEW P \in SUBSET Ports
    PROVE  /\ Rewritten([row EXCEPT !.state = s, !.chg = c], row, s, row.ports)
           /\ Rewritten([row EXCEPT !.state = s, !.proc = NULL], row, s, row.ports)
           /\ Rewritten([row EXCEPT !.state = s, !.chg = c, !.ports = P], row, s, P)
BY DEF RunRows, Rewritten

(* Only the row of r changes. *)
Only(r) == run' = [run EXCEPT ![r] = run'[r]]

(* create_managed_run has inserted r. *)
Created(r) ==
    /\ Only(r) /\ run[r].state = "unused"
    /\ run'[r] \in RunRows /\ run'[r].state = "starting" /\ run'[r].ports = {}
    /\ run'[r].item \in Items /\ item[run'[r].item].exists /\ IndexAllows(run'[r].item, r)
    /\ UNCHANGED <<item, reserved, ckpt, closures>>

(* A command has updated r. *)
Written(r) ==
    /\ Only(r) /\ Exists(r) /\ Exists(r)'
    /\ run'[r] \in RunRows /\ run'[r].item = run[r].item
    /\ run'[r].ports \in {run[r].ports, ReservedBy(r)}
    /\ run'[r].state \in LiveStates => run[r].state \in LiveStates \/ MayBeLive(r)
    /\ UNCHANGED <<item, reserved, closures>>

\* A run that a step writes to exists, and is made live only if the index allows it.
LEMMA RunEffect ==
    ASSUME TypeOK, OpSound, HooksSound, Next
    PROVE  \/ UNCHANGED run
           \/ \E r \in Runs : Created(r) \/ Written(r)
           \/ \E i \in Items : DeleteItem(i)
<1> DEFINE Goal == \/ UNCHANGED run
                   \/ \E r \in Runs : Created(r) \/ Written(r)
                   \/ \E i \in Items : DeleteItem(i)
<1> SUFFICES Goal
  OBVIOUS
<1>0. /\ run \in [Runs -> RunRows] /\ tree \in [Runs -> Trees] /\ hook \in [Hooks -> HookCalls]
      /\ op \in [run : Runs \cup {NULL}, step : {"free", "worktree", "ports", "plan",
                                               "remove", "mark"}]
  BY DEF TypeOK
<1>a. UNCHANGED run => Goal
  OBVIOUS
<1>b. ASSUME NEW r \in Runs, Written(r) PROVE Goal
  BY <1>b
<1>c. ASSUME NEW r \in Runs, Created(r) PROVE Goal
  BY <1>c
<1>d. (\E i \in Items : DeleteItem(i)) => Goal
  OBVIOUS
<1> HIDE DEF Goal
\* A row with a new state, and perhaps a new identity, process or ports.
<1>e. ASSUME NEW r \in Runs, NEW row, run' = [run EXCEPT ![r] = row], Exists(r),
             row \in RunRows, row.item = run[r].item, row.state \notin {"unused", "deleted"},
             row.ports \in {run[r].ports, ReservedBy(r)},
             row.state \in LiveStates => run[r].state \in LiveStates \/ MayBeLive(r),
             UNCHANGED <<item, reserved, closures>>
      PROVE  Goal
  <2>1. run'[r] = row
    BY <1>0, <1>e
  <2>2. Exists(r)'
    BY <1>e, <2>1 DEF Exists
  <2> QED
    BY <1>b, <1>e, <2>1, <2>2 DEF Written, Only
<1>1. ASSUME NEW i \in Items, NEW r \in Runs, CreateRun(i, r) PROVE Goal
  <2> DEFINE row == [NoRun EXCEPT !.state = "starting", !.item = i]
  <2>1. run' = [run EXCEPT ![r] = row] /\ run[r].state = "unused" /\ item[i].exists
        /\ IndexAllows(i, r) /\ UNCHANGED <<item, reserved, ckpt, closures>>
    BY <1>1 DEF CreateRun
  <2>2. row \in RunRows /\ row.state = "starting" /\ row.item = i /\ row.ports = {}
    BY DEF NoRun, RunRows, RunStates, LiveStates
  <2>3. run'[r] = row
    BY <1>0, <2>1
  <2> HIDE DEF row
  <2> QED
    BY <1>c, <2>1, <2>2, <2>3 DEF Created, Only
<1>2. CASE CreateWorktree
  <2> DEFINE row == [run[op.run] EXCEPT !.state = "failed"]
  <2>1. op.run \in Runs /\ run[op.run].state = "starting"
    BY <1>2 DEF CreateWorktree, OpSound
  <2>2. CASE run' = [run EXCEPT ![op.run].state = "failed"]
    <3>1. run' = [run EXCEPT ![op.run] = row]
      BY <2>2
    <3>2. /\ row \in RunRows /\ row.item = run[op.run].item /\ row.ports = run[op.run].ports
          /\ row.state = "failed"
      BY <1>0, <2>1 DEF RunRows, RunStates
    <3> HIDE DEF row
    <3> QED
      BY <1>2, <1>e, <2>1, <3>1, <3>2 DEF CreateWorktree, Exists, LiveStates
  <2> QED
    BY <1>2, <1>a, <2>2 DEF CreateWorktree
<1>3. CASE FinishCreate
  <2> DEFINE row == [run[op.run] EXCEPT !.state = "planned", !.chg = tree[op.run].ident,
                                        !.ports = ReservedBy(op.run)]
  <2>1. op.run \in Runs /\ run[op.run].state = "starting"
    BY <1>3 DEF FinishCreate, OpSound
  <2>2. CASE run' = [run EXCEPT ![op.run].state = "planned", ![op.run].chg = tree[op.run].ident,
                                ![op.run].ports = ReservedBy(op.run)]
    <3>1. run' = [run EXCEPT ![op.run] = row]
      BY <1>0, <2>1, <2>2 DEF RunRows
    <3>0. tree[op.run].ident \in Contents /\ ReservedBy(op.run) \in SUBSET Ports
      BY <1>0, <2>1 DEF Trees, ReservedBy
    <3>2. /\ row \in RunRows /\ row.item = run[op.run].item /\ row.ports = ReservedBy(op.run)
          /\ row.state = "planned"
      <4>1. run[op.run] \in RunRows /\ "planned" \in RunStates
        BY <1>0, <2>1 DEF RunStates, LiveStates
      <4>2. Rewritten(row, run[op.run], "planned", ReservedBy(op.run))
        BY <3>0, <4>1, RowFields
      <4> QED
        BY <4>2 DEF Rewritten
    <3> HIDE DEF row
    <3> QED
      BY <1>3, <1>e, <2>1, <3>1, <3>2 DEF FinishCreate, Exists, LiveStates
  <2> QED
    BY <1>3, <1>a, <2>2 DEF FinishCreate
<1>4. ASSUME NEW r \in Runs, NEW p \in Processes, AttachProcess(r, p) PROVE Goal
  <2> DEFINE row == [run[r] EXCEPT !.state = "running", !.proc = p]
  <2>1. run' = [run EXCEPT ![r] = row]
    BY <1>0, <1>4 DEF AttachProcess, RunRows
  <2>2. /\ row \in RunRows /\ row.item = run[r].item /\ row.ports = run[r].ports
        /\ row.state = "running"
    BY <1>0 DEF RunRows, RunStates, LiveStates
  <2> HIDE DEF row
  <2> QED
    BY <1>4, <1>e, <2>1, <2>2 DEF AttachProcess, Exists
<1>5. ASSUME NEW r \in Runs, Reconcile(r) PROVE Goal
  <2> DEFINE gone == [run[r] EXCEPT !.state = "disconnected"]
             row == [run[r] EXCEPT !.chg = tree[r].ident]
  <2>1. Exists(r) /\ UNCHANGED <<item, reserved, closures>>
        /\ run' = [run EXCEPT ![r] = IF Unowned(r) THEN gone ELSE row]
    BY <1>5 DEF Reconcile
  <2>2. tree[r].ident \in Contents
    BY <1>0 DEF Trees
  <2>3. /\ row \in RunRows /\ row.item = run[r].item /\ row.ports = run[r].ports
        /\ row.state = run[r].state
    BY <1>0, <2>2 DEF RunRows
  <2>4. /\ gone \in RunRows /\ gone.item = run[r].item /\ gone.ports = run[r].ports
        /\ gone.state = "disconnected"
    BY <1>0 DEF RunRows, RunStates
  <2> HIDE DEF gone, row
  <2>5. CASE Unowned(r)
    <3>1. run' = [run EXCEPT ![r] = gone]
      BY <2>1, <2>5
    <3> QED
      BY <1>e, <2>1, <2>4, <3>1 DEF LiveStates
  <2>6. CASE ~Unowned(r)
    <3>1. run' = [run EXCEPT ![r] = row]
      BY <2>1, <2>6
    <3> QED
      BY <1>e, <2>1, <2>3, <3>1 DEF Exists
  <2> QED
    BY <2>5, <2>6
<1>6. ASSUME NEW h \in Hooks, HookStart(h) PROVE Goal
  <2> DEFINE r == hook[h].run
             row == [run[r] EXCEPT !.state = "checking"]
  <2>1. r \in Runs
    BY <1>6 DEF HookStart, HooksSound
  <2>2. CASE run' = [run EXCEPT ![r].state = "checking"] /\ MayBeLive(r) /\ SequenceIsFree(r, hook[h].seq)
    <3>1. run' = [run EXCEPT ![r] = row]
      BY <2>2
    <3>2. /\ row \in RunRows /\ row.item = run[r].item /\ row.ports = run[r].ports
          /\ row.state = "checking"
      BY <1>0, <2>1 DEF RunRows, RunStates, LiveStates
    <3>3. Exists(r) /\ UNCHANGED <<item, reserved, closures>>
      BY <1>6, <2>2 DEF HookStart, SequenceIsFree
    <3> HIDE DEF row, r
    <3> QED
      BY <1>e, <2>1, <2>2, <3>1, <3>2, <3>3
  <2> QED
    BY <1>6, <1>a, <2>2 DEF HookStart
<1>7. ASSUME NEW h \in Hooks, HookSettle(h) PROVE Goal
  <2> DEFINE r == hook[h].run
             state == IF hook[h].ok THEN "running" ELSE "attention"
             chg == hook[h].chg
             row == [run[r] EXCEPT !.state = state, !.chg = chg]
  <2>1. r \in Runs
    BY <1>7 DEF HookSettle, HooksSound
  <2>2. CASE Exists(r) /\ MayBeLive(r)
    <3>0. state \in {"running", "attention"} /\ chg \in Contents
      BY <1>0 DEF HookCalls
    <3>1. run' = [run EXCEPT ![r] = row] /\ UNCHANGED <<item, reserved, closures>>
      BY <1>0, <1>7, <2>1, <2>2 DEF HookSettle, RunRows
    <3> HIDE DEF state, chg
    <3>2. /\ row \in RunRows /\ row.item = run[r].item /\ row.ports = run[r].ports
          /\ row.state \in {"running", "attention"}
      <4>1. run[r] \in RunRows /\ state \in RunStates
        BY <1>0, <2>1, <3>0 DEF RunStates, LiveStates
      <4>2. Rewritten(row, run[r], state, run[r].ports)
        <5>1. {} \in SUBSET Ports
          OBVIOUS
        <5> QED
          BY <3>0, <4>1, <5>1, RowFields
      <4> QED
        BY <3>0, <4>2 DEF Rewritten
    <3> HIDE DEF row, r
    <3> QED
      BY <1>e, <2>1, <2>2, <3>1, <3>2
  <2> QED
    BY <1>7, <1>a, <2>2 DEF HookSettle
<1>8. CASE ArchiveMark
  <2> DEFINE row == [run[op.run] EXCEPT !.state = "archived", !.proc = NULL]
  <2>1. op.run \in Runs /\ Exists(op.run)
    BY <1>8 DEF ArchiveMark, OpSound
  <2>2. run' = [run EXCEPT ![op.run] = row]
    BY <1>0, <1>8, <2>1 DEF ArchiveMark, RunRows
  <2>3. /\ row \in RunRows /\ row.item = run[op.run].item /\ row.ports = run[op.run].ports
        /\ row.state = "archived"
    <3>1. run[op.run] \in RunRows /\ "archived" \in RunStates /\ 0 \in Contents /\ {} \in SUBSET Ports
      BY <1>0, <2>1, ManagedAssumption DEF RunStates, Contents
    <3>2. Rewritten(row, run[op.run], "archived", run[op.run].ports)
      BY <3>1, RowFields
    <3> QED
      BY <3>2 DEF Rewritten
  <2> HIDE DEF row
  <2> QED
    BY <1>8, <1>e, <2>1, <2>2, <2>3 DEF ArchiveMark, LiveStates
<1>9. CASE EditItem \/ ReservePorts \/ ArchiveRemove \/ Crash
           \/ \E p \in Processes : EndProcess(p)
  BY <1>9, <1>a DEF EditItem, ReservePorts, ArchiveRemove, Crash, EndProcess, db
<1>10. CASE \E r \in Runs : \/ ArchiveCheck(r) \/ EditTree(r) \/ LoseTree(r)
                            \/ \E h \in Hooks : HookRead(h, r)
  BY <1>10, <1>a DEF ArchiveCheck, EditTree, LoseTree, HookRead, db
<1>11. CASE \/ \E h \in Hooks : HookExecute(h) \/ HookIdentify(h)
            \/ \E i \in Items, r \in Runs \cup {NULL} : CreateClosure(i, r)
  BY <1>11, <1>a DEF HookExecute, HookIdentify, CreateClosure, db
<1> QED
  BY <1>1, <1>2, <1>3, <1>4, <1>5, <1>6, <1>7, <1>8, <1>9, <1>10, <1>11, <1>d
     DEF Next, Create, Archive, HookStep

\* The runs of an item.
Gone(i) == {r \in Runs : run[r].item = i /\ Exists(r)}

\* Deleting an item takes its runs with it, and what belongs to them.
LEMMA DeleteEffect ==
    ASSUME TypeOK, NEW i \in Items, DeleteItem(i)
    PROVE  /\ item' = [item EXCEPT ![i] = NoItem]
           /\ run' \in [Runs -> RunRows]
           /\ \A r \in Gone(i) : run'[r].state = "deleted" /\ run'[r].ports = {} /\ ~Exists(r)'
           /\ \A r \in Runs \ Gone(i) : run'[r] = run[r] /\ (Exists(r)' <=> Exists(r))
           /\ reserved' = {rp \in reserved : rp[1] \notin Gone(i)}
           /\ ckpt' = [h \in Hooks |-> IF ckpt[h].run \in Gone(i) THEN NoCheckpoint ELSE ckpt[h]]
           /\ closures' = {[c EXCEPT !.run = IF @ \in Gone(i) THEN NULL ELSE @] :
                              c \in closures \ OfItem(i)}
           /\ UNCHANGED <<hook, op, world>>
<1> DEFINE row == [NoRun EXCEPT !.state = "deleted"]
<1>0. run \in [Runs -> RunRows]
  BY DEF TypeOK
<1>1. /\ item' = [item EXCEPT ![i] = NoItem]
      /\ run' = [r \in Runs |-> IF r \in Gone(i) THEN row ELSE run[r]]
      /\ reserved' = {rp \in reserved : rp[1] \notin Gone(i)}
      /\ ckpt' = [h \in Hooks |-> IF ckpt[h].run \in Gone(i) THEN NoCheckpoint ELSE ckpt[h]]
      /\ closures' = {[c EXCEPT !.run = IF @ \in Gone(i) THEN NULL ELSE @] :
                         c \in closures \ OfItem(i)}
      /\ UNCHANGED <<hook, op, world>>
  BY DEF DeleteItem, Gone, RemoveItem
<1>2. row \in RunRows /\ row.state = "deleted" /\ row.ports = {}
  BY DEF NoRun, RunRows, RunStates
<1> HIDE DEF row
<1>3. run' \in [Runs -> RunRows]
  BY <1>0, <1>1, <1>2
<1>4. \A r \in Gone(i) : r \in Runs
  BY DEF Gone
<1>5. \A r \in Gone(i) : run'[r] = row
  BY <1>1, <1>4
<1>6. \A r \in Runs \ Gone(i) : run'[r] = run[r]
  BY <1>1
<1> QED
  BY <1>1, <1>2, <1>3, <1>5, <1>6 DEF Exists

\* The runs are rows, of items that exist; and only with its item a run goes away.
LEMMA RunsStep ==
    ASSUME TypeOK, OpSound, HooksSound, Next
    PROVE  /\ run' \in [Runs -> RunRows]
           /\ \A r \in Runs : Exists(r)' => run'[r].item # NULL /\ item'[run'[r].item].exists
           /\ \A r \in Runs : Exists(r) => Exists(r)' \/ \E i \in Items : DeleteItem(i) /\ r \in Gone(i)
<1>0. /\ run \in [Runs -> RunRows] /\ ItemsTypeOK /\ item \in [Items -> ItemRows]
      /\ \A r \in Runs : run[r].item \in Items \cup {NULL}
      /\ \A r \in Runs : Exists(r) => run[r].item # NULL /\ item[run[r].item].exists
  BY DEF TypeOK, RunRows, ItemsTypeOK
<1>1. ASSUME NEW i \in Items, DeleteItem(i)
      PROVE  /\ run' \in [Runs -> RunRows]
             /\ \A r \in Runs : Exists(r)' => run'[r].item # NULL /\ item'[run'[r].item].exists
             /\ \A r \in Runs : Exists(r) => Exists(r)' \/ r \in Gone(i)
  <2>1. ASSUME NEW r \in Runs, Exists(r)'
        PROVE  run'[r].item # NULL /\ item'[run'[r].item].exists
    <3>1. r \notin Gone(i) /\ run'[r] = run[r] /\ Exists(r)
      BY <1>1, <2>1, DeleteEffect
    <3>2. run[r].item # i /\ run[r].item # NULL /\ item[run[r].item].exists
      BY <1>0, <3>1 DEF Gone
    <3>3. item' = [item EXCEPT ![i] = NoItem]
      BY <1>1, DeleteEffect
    <3> QED
      BY <1>0, <3>1, <3>2, <3>3
  <2>2. \A r \in Runs : Exists(r) => Exists(r)' \/ r \in Gone(i)
    BY <1>1, DeleteEffect
  <2> QED
    BY <1>1, <2>1, <2>2, DeleteEffect
<1>2. ASSUME \A i \in Items : ~DeleteItem(i)
      PROVE  /\ run' \in [Runs -> RunRows]
             /\ \A r \in Runs : Exists(r)' => run'[r].item # NULL /\ item'[run'[r].item].exists
             /\ \A r \in Runs : Exists(r) => Exists(r)'
  <2>1. \A j \in Items : item[j].exists => item'[j].exists
    BY <1>0, <1>2, ItemsStep
  <2>2. CASE UNCHANGED run
    BY <1>0, <2>1, <2>2 DEF Exists
  <2>3. ASSUME NEW r \in Runs, Created(r) \/ Written(r)
        PROVE  /\ run' \in [Runs -> RunRows]
               /\ \A s \in Runs : Exists(s)' => run'[s].item # NULL /\ item'[run'[s].item].exists
               /\ \A s \in Runs : Exists(s) => Exists(s)'
    <3>1. run' = [run EXCEPT ![r] = run'[r]] /\ run'[r] \in RunRows
      BY <2>3 DEF Created, Written, Only
    <3>2. run' \in [Runs -> RunRows] /\ \A s \in Runs \ {r} : run'[s] = run[s]
      BY <1>0, <3>1
    <3>3. run'[r].item # NULL /\ item'[run'[r].item].exists
      <4>1. CASE Created(r)
        BY <2>1, <4>1, ManagedAssumption DEF Created
      <4>2. CASE Written(r)
        BY <1>0, <2>1, <4>2 DEF Written
      <4> QED
        BY <2>3, <4>1, <4>2
    <3>4. Exists(r) => Exists(r)'
      BY <2>3 DEF Created, Written, Exists
    <3> QED
      BY <1>0, <2>1, <3>2, <3>3, <3>4 DEF Exists
  <2> QED
    BY <1>2, <2>2, <2>3, RunEffect
<1> QED
  BY <1>1, <1>2

\* The unique index and the lock leave at most one run of an item live.
LEMMA OneLiveStep ==
    ASSUME TypeOK, OpSound, HooksSound, OneLiveRun, Next
    PROVE  OneLiveRun'
<1>0. /\ run \in [Runs -> RunRows]
      /\ \A r, s \in Runs : run[r].state \in LiveStates /\ run[s].state \in LiveStates
                            /\ run[r].item = run[s].item => r = s
  BY DEF TypeOK, OneLiveRun, LiveStates
<1> SUFFICES ASSUME NEW r \in Runs, NEW s \in Runs, r # s,
                    run'[r].state \in LiveStates, run'[s].state \in LiveStates,
                    run'[r].item = run'[s].item
             PROVE  FALSE
  BY DEF OneLiveRun, LiveStates
<1>1. CASE UNCHANGED run
  BY <1>0, <1>1
<1>2. ASSUME NEW i \in Items, DeleteItem(i) PROVE FALSE
  <2>1. r \notin Gone(i) /\ s \notin Gone(i)
    BY <1>2, DeleteEffect DEF LiveStates
  <2>2. run'[r] = run[r] /\ run'[s] = run[s]
    BY <1>2, <2>1, DeleteEffect
  <2> QED
    BY <1>0, <2>2
<1>3. ASSUME NEW t \in Runs, Created(t) \/ Written(t) PROVE FALSE
  <2>1. \A u \in Runs \ {t} : run'[u] = run[u]
    BY <1>0, <1>3 DEF Created, Written, Only
  <2>2. ASSUME NEW u \in Runs \ {t}, run'[u].state \in LiveStates, run'[t].state \in LiveStates,
               run'[u].item = run'[t].item
        PROVE  FALSE
    <3>1. run[u].state \in LiveStates /\ run[u].item = run'[t].item
      BY <2>1, <2>2
    <3>2. CASE Created(t)
      BY <3>1, <3>2 DEF Created, IndexAllows
    <3>3. CASE Written(t)
      BY <1>0, <2>2, <3>1, <3>3 DEF Written, MayBeLive, IndexAllows
    <3> QED
      BY <1>3, <3>2, <3>3
  <2>3. CASE r = t
    BY <2>2, <2>3
  <2>4. CASE s = t
    BY <2>2, <2>4
  <2>5. CASE r # t /\ s # t
    BY <1>0, <2>1, <2>5
  <2> QED
    BY <2>3, <2>4, <2>5
<1> QED
  BY <1>1, <1>2, <1>3, RunEffect

-----------------------------------------------------------------------------
(***************************************************************************)
(* The ports.                                                              *)
(***************************************************************************)

\* Ports are reserved for a run being created, and given back with it.
LEMMA ReservedEffect ==
    ASSUME TypeOK, OpSound, Next
    PROVE  \/ UNCHANGED reserved
           \/ \E P \in SUBSET FreePorts :
                 /\ reserved' = reserved \cup ({op.run} \X P)
                 /\ op.run \in Runs /\ Exists(op.run) /\ UNCHANGED run
           \/ \E i \in Items : DeleteItem(i)
<1> DEFINE Goal == \/ UNCHANGED reserved
                   \/ \E P \in SUBSET FreePorts :
                         /\ reserved' = reserved \cup ({op.run} \X P)
                         /\ op.run \in Runs /\ Exists(op.run) /\ UNCHANGED run
                   \/ \E i \in Items : DeleteItem(i)
<1> SUFFICES Goal
  OBVIOUS
<1>1. UNCHANGED reserved \/ (\E i \in Items : DeleteItem(i)) => Goal
  OBVIOUS
<1>2. CASE ReservePorts
  <2>1. op.run \in Runs /\ Exists(op.run) /\ UNCHANGED run
    BY <1>2 DEF ReservePorts, OpSound, Exists
  <2>2. kSubset(PortsWanted, FreePorts) \subseteq SUBSET FreePorts
    BY DEF kSubset
  <2> QED
    BY <1>2, <2>1, <2>2 DEF ReservePorts
<1> HIDE DEF Goal
<1>3. CASE \/ EditItem \/ CreateWorktree \/ FinishCreate \/ Archive \/ Crash
           \/ \E p \in Processes : EndProcess(p)
  BY <1>1, <1>3 DEF EditItem, CreateWorktree, FinishCreate, Archive, ArchiveRemove, ArchiveMark,
     Crash, EndProcess, db
<1>4. CASE \E i \in Items : \/ \E r \in Runs : CreateRun(i, r)
                            \/ \E r \in Runs \cup {NULL} : CreateClosure(i, r)
  BY <1>1, <1>4 DEF CreateRun, CreateClosure
<1>5. CASE \E r \in Runs : \/ \E p \in Processes : AttachProcess(r, p)
                           \/ Reconcile(r) \/ ArchiveCheck(r) \/ EditTree(r) \/ LoseTree(r)
                           \/ \E h \in Hooks : HookRead(h, r)
  BY <1>1, <1>5 DEF AttachProcess, Reconcile, ArchiveCheck, EditTree, LoseTree, HookRead, db
<1>6. CASE \E h \in Hooks : HookStep(h)
  BY <1>1, <1>6 DEF HookStep, HookStart, HookExecute, HookIdentify, HookSettle, db
<1> QED
  BY <1>1, <1>2, <1>3, <1>4, <1>5, <1>6 DEF Next, Create

\* Reservations are of runs that exist, and a port has one at most.
LEMMA ReservedStep ==
    ASSUME TypeOK, OpSound, HooksSound, Reserved, Next
    PROVE  /\ reserved' \subseteq Runs \X Ports
           /\ \A rp \in reserved' : Exists(rp[1])'
           /\ Reserved'
<1>0. /\ run \in [Runs -> RunRows] /\ reserved \subseteq Runs \X Ports
      /\ \A rp \in reserved : Exists(rp[1]) /\ rp[1] \in Runs
  BY DEF TypeOK
<1>1. ASSUME NEW i \in Items, DeleteItem(i)
      PROVE  /\ reserved' \subseteq Runs \X Ports
             /\ \A rp \in reserved' : Exists(rp[1])'
             /\ Reserved'
  <2>1. reserved' = {rp \in reserved : rp[1] \notin Gone(i)}
    BY <1>1, DeleteEffect
  <2>2. \A rp \in reserved' : Exists(rp[1])'
    BY <1>0, <1>1, <2>1, DeleteEffect
  <2>3. \A a, b \in reserved' : a[2] = b[2] => a = b
    BY <2>1 DEF Reserved
  <2>4. ASSUME NEW r \in Runs, NEW p \in run'[r].ports PROVE <<r, p>> \in reserved'
    <3>1. r \notin Gone(i) /\ run'[r] = run[r]
      BY <1>1, <2>4, DeleteEffect
    <3> QED
      BY <2>1, <2>4, <3>1 DEF Reserved
  <2> QED
    BY <1>0, <2>1, <2>2, <2>3, <2>4 DEF Reserved
<1>2. ASSUME \A i \in Items : ~DeleteItem(i)
      PROVE  /\ reserved' \subseteq Runs \X Ports
             /\ \A rp \in reserved' : Exists(rp[1])'
             /\ Reserved'
  <2>0. \A r \in Runs : Exists(r) => Exists(r)'
    BY <1>2, RunsStep
  <2>1. CASE UNCHANGED reserved
    <3>1. ASSUME NEW r \in Runs, NEW p \in run'[r].ports PROVE <<r, p>> \in reserved
      <4>1. CASE UNCHANGED run
        BY <3>1, <4>1 DEF Reserved
      <4>2. ASSUME NEW s \in Runs, Created(s) \/ Written(s) PROVE <<r, p>> \in reserved
        <5>1. r # s => run'[r] = run[r]
          BY <1>0, <4>2 DEF Created, Written, Only
        <5>2. CASE r = s
          BY <3>1, <4>2, <5>2 DEF Created, Written, ReservedBy, Reserved
        <5> QED
          BY <3>1, <5>1, <5>2 DEF Reserved
      <4> QED
        BY <1>2, <4>1, <4>2, RunEffect
    <3> QED
      BY <1>0, <2>0, <2>1, <3>1 DEF Reserved
  <2>2. ASSUME NEW P \in SUBSET FreePorts, reserved' = reserved \cup ({op.run} \X P),
               op.run \in Runs, Exists(op.run), UNCHANGED run
        PROVE  /\ reserved' \subseteq Runs \X Ports
               /\ \A rp \in reserved' : Exists(rp[1])'
               /\ Reserved'
    <3>1. \A p \in P : p \in Ports /\ \A rp \in reserved : rp[2] # p
      BY DEF FreePorts
    <3>2. \A rp \in reserved' : rp \in reserved \/ (rp = <<op.run, rp[2]>> /\ rp[1] = op.run /\ rp[2] \in P)
      BY <2>2
    <3>3. \A a, b \in reserved' : a[2] = b[2] => a = b
      <4> SUFFICES ASSUME NEW a \in reserved', NEW b \in reserved', a[2] = b[2] PROVE a = b
        OBVIOUS
      <4>1. CASE a \in reserved /\ b \in reserved
        BY <4>1 DEF Reserved
      <4>2. CASE a \notin reserved /\ b \notin reserved
        BY <3>2, <4>2
      <4> QED
        BY <3>1, <3>2, <4>1, <4>2
    <3>4. reserved' \subseteq Runs \X Ports
      BY <1>0, <2>2, <3>1
    <3>5. \A rp \in reserved' : Exists(rp[1])'
      BY <1>0, <2>0, <2>2, <3>2
    <3>6. \A r \in Runs : \A p \in run'[r].ports : <<r, p>> \in reserved'
      BY <2>2 DEF Reserved
    <3> QED
      BY <3>3, <3>4, <3>5, <3>6 DEF Reserved
  <2> QED
    BY <1>2, <2>1, <2>2, ReservedEffect
<1> QED
  BY <1>1, <1>2

-----------------------------------------------------------------------------
(***************************************************************************)
(* The lock and the world.                                                 *)
(***************************************************************************)

\* A command goes on with the run it began with.
LEMMA OpStep ==
    ASSUME TypeOK, OpSound, Next
    PROVE  /\ op' \in [run : Runs \cup {NULL}, step : {"free", "worktree", "ports", "plan",
                                                      "remove", "mark"}]
           /\ OpSound'
<1> DEFINE Ops == [run : Runs \cup {NULL}, step : {"free", "worktree", "ports", "plan",
                                                   "remove", "mark"}]
           Goal == op' \in Ops /\ OpSound'
<1> SUFFICES Goal
  OBVIOUS
<1>0. op \in Ops /\ run \in [Runs -> RunRows]
  BY DEF TypeOK
<1>1. ASSUME op' = Free PROVE Goal
  <2>1. op'.step = "free" /\ op' \in Ops
    BY <1>1 DEF Free
  <2> QED
    BY <2>1 DEF OpSound
<1>2. ASSUME NEW r \in Runs, NEW s \in {"worktree", "ports", "plan", "remove", "mark"},
             op' = [run |-> r, step |-> s],
             s \in {"worktree", "ports", "plan"} => run'[r].state = "starting",
             s \in {"remove", "mark"} => Exists(r)'
      PROVE  Goal
  <2>1. op'.run = r /\ op'.step = s /\ op' \in Ops
    BY <1>2
  <2> QED
    BY <1>2, <2>1 DEF OpSound, Exists
<1>3. ASSUME op' = op, run' = run PROVE Goal
  BY <1>0, <1>3 DEF OpSound, Exists
<1> HIDE DEF Goal
<1>4. ASSUME Unlocked, op' = op PROVE Goal
  BY <1>1, <1>4 DEF Unlocked
<1>5. ASSUME NEW i \in Items, NEW r \in Runs, CreateRun(i, r) PROVE Goal
  <2>1. run'[r] = [NoRun EXCEPT !.state = "starting", !.item = i]
    BY <1>0, <1>5 DEF CreateRun
  <2>2. run'[r].state = "starting"
    BY <2>1 DEF NoRun
  <2> QED
    BY <1>2, <1>5, <2>2 DEF CreateRun
\* The next step of the command on the same run.
<1>6. ASSUME op.step \in {"worktree", "ports"}, UNCHANGED run,
             NEW s \in {"ports", "plan"}, op' = [op EXCEPT !.step = s]
      PROVE  Goal
  <2>1. op.run \in Runs /\ run[op.run].state = "starting"
    BY <1>6 DEF OpSound
  <2>2. op' = [run |-> op.run, step |-> s]
    BY <1>0, <1>6
  <2> QED
    BY <1>2, <1>6, <2>1, <2>2
<1>7. CASE CreateWorktree
  BY <1>1, <1>6, <1>7 DEF CreateWorktree
<1>8. CASE ReservePorts
  BY <1>1, <1>6, <1>8 DEF ReservePorts
<1>9. ASSUME NEW r \in Runs, ArchiveCheck(r) PROVE Goal
  <2>1. op' = [run |-> r, step |-> "remove"] /\ Exists(r) /\ UNCHANGED run
    BY <1>9 DEF ArchiveCheck, db
  <2>2. Exists(r)'
    BY <2>1 DEF Exists
  <2> QED
    BY <1>2, <2>1, <2>2
<1>10. CASE ArchiveRemove
  <2>1. op.run \in Runs /\ Exists(op.run) /\ UNCHANGED run
    BY <1>10 DEF ArchiveRemove, OpSound, db
  <2>2. op' = Free \/ op' = [run |-> op.run, step |-> "mark"]
    BY <1>0, <1>10 DEF ArchiveRemove
  <2>3. run'[op.run].state \notin {"unused", "deleted"}
    BY <2>1 DEF Exists
  <2>4. CASE op' = Free
    BY <1>1, <2>4
  <2>5. CASE op' = [run |-> op.run, step |-> "mark"]
    <3>1. op'.run = op.run /\ op'.step = "mark" /\ op' \in Ops /\ run' = run
      BY <2>1, <2>5
    <3> QED
      BY <2>1, <2>3, <3>1 DEF OpSound, Exists, Goal
  <2> QED
    BY <2>2, <2>4, <2>5
<1>11. CASE FinishCreate \/ ArchiveMark \/ Crash
  BY <1>1, <1>11 DEF FinishCreate, ArchiveMark, Crash
<1>12. CASE \/ EditItem
            \/ \E i \in Items : DeleteItem(i) \/ \E r \in Runs \cup {NULL} : CreateClosure(i, r)
  BY <1>4, <1>12 DEF EditItem, DeleteItem, CreateClosure
<1>13. CASE \E r \in Runs : \/ \E p \in Processes : AttachProcess(r, p)
                            \/ Reconcile(r) \/ \E h \in Hooks : HookRead(h, r)
  BY <1>4, <1>13 DEF AttachProcess, Reconcile, HookRead
<1>14. CASE \E h \in Hooks : HookStart(h) \/ HookSettle(h)
  BY <1>4, <1>14 DEF HookStart, HookSettle
<1>15. CASE \/ \E r \in Runs : EditTree(r) \/ LoseTree(r)
            \/ \E h \in Hooks : HookExecute(h) \/ HookIdentify(h)
            \/ \E p \in Processes : EndProcess(p)
  BY <1>3, <1>15 DEF EditTree, LoseTree, HookExecute, HookIdentify, EndProcess, db
<1> QED
  BY <1>5, <1>7, <1>8, <1>9, <1>10, <1>11, <1>12, <1>13, <1>14, <1>15
     DEF Next, Create, Archive, HookStep

\* Fields of the right kind make a worktree.
LEMMA TreeFields ==
    ASSUME NEW t \in Trees, NEW e \in Contents
    PROVE  /\ [t EXCEPT !.ident = e, !.content = e, !.dirty = TRUE] \in Trees
           /\ [t EXCEPT !.ident = e, !.content = e, !.dirty = TRUE, !.untracked = TRUE] \in Trees
           /\ [t EXCEPT !.content = e] \in Trees
           /\ [t EXCEPT !.ident = e, !.dirty = FALSE, !.untracked = FALSE] \in Trees
BY DEF Trees

\* Worktrees and processes keep to their types.
LEMMA WorldStep ==
    ASSUME TypeOK, OpSound, Next
    PROVE  tree' \in [Runs -> Trees] /\ edits' \in Contents /\ alive' \subseteq Processes
<1> DEFINE Goal == tree' \in [Runs -> Trees] /\ edits' \in Contents /\ alive' \subseteq Processes
<1> SUFFICES Goal
  OBVIOUS
<1>0. tree \in [Runs -> Trees] /\ edits \in Contents /\ alive \subseteq Processes
  BY DEF TypeOK
<1>a. NoTree \in Trees /\ [NoTree EXCEPT !.here = TRUE] \in Trees
  <2>1. 0 \in Contents
    BY ManagedAssumption DEF Contents
  <2> QED
    BY <2>1 DEF NoTree, Trees
<1>b. ASSUME NEW r \in Runs, NEW t \in Trees, tree' = [tree EXCEPT ![r] = t],
             edits' \in Contents, UNCHANGED alive
      PROVE  Goal
  BY <1>0, <1>b
<1>c. UNCHANGED world => Goal
  BY <1>0 DEF world
<1>1. ASSUME NEW p \in Processes, EndProcess(p) PROVE Goal
  BY <1>0, <1>1 DEF EndProcess
<1> HIDE DEF Goal
<1>2. CASE CreateWorktree \/ ArchiveRemove
  <2>1. op.run \in Runs
    BY <1>2 DEF CreateWorktree, ArchiveRemove, OpSound
  <2>2. /\ UNCHANGED <<edits, alive>>
        /\ \/ UNCHANGED tree
           \/ \E t \in Trees : tree' = [tree EXCEPT ![op.run] = t]
    BY <1>2, <1>a DEF CreateWorktree, ArchiveRemove
  <2>3. UNCHANGED tree => UNCHANGED world
    BY <2>2 DEF world
  <2> QED
    BY <1>0, <1>b, <1>c, <2>1, <2>2, <2>3
<1>3. ASSUME NEW r \in Runs, LoseTree(r) PROVE Goal
  BY <1>0, <1>3, <1>a, <1>b DEF LoseTree
<1>4. ASSUME NEW r \in Runs, EditTree(r) PROVE Goal
  <2>1. edits' \in Contents /\ UNCHANGED alive
    BY <1>0, <1>4, ManagedAssumption DEF EditTree, Contents
  <2> DEFINE e == edits'
  <2>2. tree[r] \in Trees
    BY <1>0
  <2>3. /\ [tree[r] EXCEPT !.ident = e, !.content = e, !.dirty = TRUE] \in Trees
        /\ [tree[r] EXCEPT !.ident = e, !.content = e, !.dirty = TRUE, !.untracked = TRUE] \in Trees
        /\ [tree[r] EXCEPT !.content = e] \in Trees
        /\ [tree[r] EXCEPT !.ident = e, !.dirty = FALSE, !.untracked = FALSE] \in Trees
    BY <2>1, <2>2, TreeFields
  <2>4. \/ tree' = [tree EXCEPT ![r] = [tree[r] EXCEPT !.ident = e, !.content = e, !.dirty = TRUE]]
        \/ tree' = [tree EXCEPT ![r] = [tree[r] EXCEPT !.ident = e, !.content = e, !.dirty = TRUE,
                                                      !.untracked = TRUE]]
        \/ tree' = [tree EXCEPT ![r] = [tree[r] EXCEPT !.content = e]]
        \/ tree' = [tree EXCEPT ![r] = [tree[r] EXCEPT !.ident = e, !.dirty = FALSE,
                                                      !.untracked = FALSE]]
    BY <1>0, <1>4 DEF EditTree, Trees
  <2> HIDE DEF e
  <2> QED
    BY <1>b, <2>1, <2>3, <2>4
<1>5. CASE \/ EditItem \/ ReservePorts \/ FinishCreate \/ ArchiveMark \/ Crash
           \/ \E i \in Items : \/ DeleteItem(i)
                               \/ \E r \in Runs : CreateRun(i, r)
                               \/ \E r \in Runs \cup {NULL} : CreateClosure(i, r)
  BY <1>5, <1>c DEF EditItem, ReservePorts, FinishCreate, ArchiveMark, Crash, DeleteItem, CreateRun,
     CreateClosure
<1>6. CASE \/ \E r \in Runs : \/ \E p \in Processes : AttachProcess(r, p)
                              \/ Reconcile(r) \/ ArchiveCheck(r)
                              \/ \E h \in Hooks : HookRead(h, r)
           \/ \E h \in Hooks : HookStep(h)
  BY <1>6, <1>c DEF AttachProcess, Reconcile, ArchiveCheck, HookRead, HookStep, HookStart, HookExecute,
     HookIdentify, HookSettle
<1> QED
  BY <1>1, <1>2, <1>3, <1>4, <1>5, <1>6 DEF Next, Create, Archive

-----------------------------------------------------------------------------
(***************************************************************************)
(* Hooks and checkpoints.                                                  *)
(***************************************************************************)

\* As long as a hook has no checkpoint, the next number of a run is one of the
\* numbers there are hooks for.
LEMMA NextNumber ==
    ASSUME TypeOK, Numbered, NEW r \in Runs, NEW h \in Hooks, ckpt[h].run # r,
           NEW n \in Nat, Sequence(r) = 1..n
    PROVE  /\ Max({0} \cup {ckpt[g].seq : g \in Of(r)}) = n
           /\ n + 1 \in 0..Cardinality(Hooks)
<1>0. ckpt \in [Hooks -> Checkpoints] /\ IsFiniteSet(Hooks)
  BY ManagedAssumption DEF TypeOK
<1>1. Max({0} \cup {ckpt[g].seq : g \in Of(r)}) = n
  BY MaxOfNumbers DEF Sequence
<1>2. IsFiniteSet(Of(r)) /\ Cardinality(Of(r)) = n
  <2> DEFINE f == [g \in Of(r) |-> ckpt[g].seq]
  <2>1. \A g \in Of(r) : ckpt[g].seq \in Nat
    <3>1. Cardinality(Hooks) \in Nat
      BY <1>0, FS_CardinalityType
    <3>2. \A g \in Of(r) : g \in Hooks
      BY DEF Of
    <3> QED
      BY <1>0, <3>1, <3>2 DEF Checkpoints
  <2>2. f \in [Of(r) -> Nat]
    BY <2>1
  <2>3. \A x, y \in Of(r) : f[x] = f[y] => x = y
    BY DEF Numbered
  <2>4. {f[x] : x \in Of(r)} = 1..n
    BY DEF Sequence
  <2> HIDE DEF f
  <2> QED
    BY <2>2, <2>3, <2>4, NumberedCount
<1>3. Of(r) \in SUBSET Hooks /\ Of(r) # Hooks
  BY DEF Of
<1>4. Cardinality(Hooks) \in Nat /\ n <= Cardinality(Hooks) /\ Cardinality(Hooks) # n
  BY <1>0, <1>2, <1>3, FS_Subset, FS_CardinalityType
<1> QED
  BY <1>1, <1>4

(* The hook g takes the next number of r. *)
Reads(g, r) ==
    /\ r \in Runs /\ Exists(r) /\ hook[g].pc = "idle"
    /\ hook'[g].pc = "read" /\ hook'[g].run = r
    /\ \E n \in Nat : Sequence(r) = 1..n /\ hook'[g].seq = n + 1
    /\ UNCHANGED <<run, ckpt>>

\* A hook reads a number, or goes on with the run it has.
LEMMA HookEffect ==
    ASSUME TypeOK, HooksSound, Numbered, Next
    PROVE  /\ hook' \in [Hooks -> HookCalls]
           /\ \A g \in Hooks :
                 \/ hook'[g] = hook[g]
                 \/ \E r \in Runs : Reads(g, r)
                 \/ /\ hook[g].pc # "idle" /\ hook'[g].run = hook[g].run
                    /\ hook'[g].pc \notin {"idle", "read"}
<1> DEFINE Moves(g) == /\ hook[g].pc # "idle" /\ hook'[g].run = hook[g].run
                       /\ hook'[g].pc \notin {"idle", "read"}
           Goal == /\ hook' \in [Hooks -> HookCalls]
                   /\ \A g \in Hooks : \/ hook'[g] = hook[g]
                                       \/ \E r \in Runs : Reads(g, r)
                                       \/ Moves(g)
<1> SUFFICES Goal
  OBVIOUS
<1>0. hook \in [Hooks -> HookCalls] /\ ckpt \in [Hooks -> Checkpoints] /\ tree \in [Runs -> Trees]
  BY DEF TypeOK
<1>a. UNCHANGED hook => Goal
  BY <1>0
<1>b. ASSUME NEW g \in Hooks, NEW c \in HookCalls, hook' = [hook EXCEPT ![g] = c],
             (\E r \in Runs : Reads(g, r)) \/ Moves(g)
      PROVE  Goal
  BY <1>0, <1>b
<1> HIDE DEF Goal
<1>c. ASSUME NEW g \in Hooks, NEW c \in HookCalls, hook' = [hook EXCEPT ![g] = c],
             hook[g].pc # "idle", c.run = hook[g].run, c.pc \notin {"idle", "read"}
      PROVE  Goal
  <2>1. hook'[g] = c
    BY <1>0, <1>c
  <2>2. Moves(g)
    BY <1>c, <2>1
  <2> QED
    BY <1>b, <1>c, <2>2
<1>d. ASSUME NEW g \in Hooks, hook[g].pc # "idle", Finished(g) PROVE Goal
  <2> DEFINE c == [hook[g] EXCEPT !.pc = "done"]
  <2>1. c \in HookCalls /\ c.run = hook[g].run /\ c.pc = "done"
    BY <1>0 DEF HookCalls
  <2>2. hook' = [hook EXCEPT ![g] = c]
    BY <1>d DEF Finished
  <2> HIDE DEF c
  <2> QED
    BY <1>c, <1>d, <2>1, <2>2
<1>1. ASSUME NEW g \in Hooks, NEW r \in Runs, HookRead(g, r) PROVE Goal
  <2>1. PICK n \in Nat : Sequence(r) = 1..n
    BY DEF Numbered
  <2>2. ckpt[g].run # r
    BY <1>1, ManagedAssumption DEF HookRead, HooksSound
  <2>3. /\ Max({0} \cup {ckpt[x].seq : x \in Of(r)}) = n
        /\ n + 1 \in 0..Cardinality(Hooks)
    BY <2>1, <2>2, NextNumber
  <2> DEFINE m == n + 1
             c == [IdleHook EXCEPT !.pc = "read", !.run = r, !.seq = m]
  <2>4. hook' = [hook EXCEPT ![g] = c]
    BY <1>1, <2>3 DEF HookRead
  <2>5. m \in 0..Cardinality(Hooks) /\ 0 \in Contents
    BY <2>3, ManagedAssumption DEF Contents
  <2>6. hook[g].pc = "idle" /\ Exists(r) /\ UNCHANGED <<run, ckpt>>
    BY <1>1 DEF HookRead, db
  <2>7. m = n + 1
    OBVIOUS
  <2> HIDE DEF m
  <2>8. c \in HookCalls /\ c.pc = "read" /\ c.run = r /\ c.seq = m
    BY <2>5 DEF IdleHook, HookCalls
  <2> HIDE DEF c
  <2>9. hook'[g] = c
    BY <1>0, <2>4
  <2>10. Reads(g, r)
    BY <2>1, <2>6, <2>7, <2>8, <2>9 DEF Reads
  <2> QED
    BY <1>b, <2>4, <2>8, <2>10
<1>2. ASSUME NEW g \in Hooks, HookStart(g) PROVE Goal
  <2>1. hook[g].pc # "idle"
    BY <1>2 DEF HookStart
  <2>2. CASE hook' = [hook EXCEPT ![g].pc = "exec"]
    <3> DEFINE c == [hook[g] EXCEPT !.pc = "exec"]
    <3>1. c \in HookCalls /\ c.run = hook[g].run /\ c.pc = "exec" /\ hook' = [hook EXCEPT ![g] = c]
      BY <1>0, <2>2 DEF HookCalls
    <3> HIDE DEF c
    <3> QED
      BY <1>c, <2>1, <3>1
  <2> QED
    BY <1>2, <1>d, <2>1, <2>2 DEF HookStart
<1>3. ASSUME NEW g \in Hooks, HookExecute(g) PROVE Goal
  <2>1. hook[g].pc # "idle"
    BY <1>3 DEF HookExecute
  <2>2. ASSUME NEW ok \in BOOLEAN,
               hook' = [hook EXCEPT ![g].pc = "ran", ![g].ok = ok,
                                    ![g].saw = tree[hook[g].run].content]
        PROVE  Goal
    <3> DEFINE saw == tree[hook[g].run].content
               c == [hook[g] EXCEPT !.pc = "ran", !.ok = ok, !.saw = saw]
    <3>1. saw \in Contents
      BY <1>0, <2>1 DEF Trees, HooksSound
    <3>2. hook' = [hook EXCEPT ![g] = c]
      BY <1>0, <2>2 DEF HookCalls
    <3> HIDE DEF saw
    <3>3. c \in HookCalls /\ c.run = hook[g].run /\ c.pc = "ran"
      BY <1>0, <3>1 DEF HookCalls
    <3> HIDE DEF c
    <3> QED
      BY <1>c, <2>1, <3>2, <3>3
  <2> QED
    BY <1>3, <1>d, <2>1, <2>2 DEF HookExecute
<1>4. ASSUME NEW g \in Hooks, HookIdentify(g) PROVE Goal
  <2>1. hook[g].pc # "idle"
    BY <1>4 DEF HookIdentify
  <2>2. CASE hook' = [hook EXCEPT ![g].pc = "settle", ![g].chg = tree[hook[g].run].ident]
    <3> DEFINE chg == tree[hook[g].run].ident
               c == [hook[g] EXCEPT !.pc = "settle", !.chg = chg]
    <3>1. chg \in Contents
      BY <1>0, <2>1 DEF Trees, HooksSound
    <3>2. hook' = [hook EXCEPT ![g] = c]
      BY <1>0, <2>2 DEF HookCalls
    <3> HIDE DEF chg
    <3>3. c \in HookCalls /\ c.run = hook[g].run /\ c.pc = "settle"
      BY <1>0, <3>1 DEF HookCalls
    <3> HIDE DEF c
    <3> QED
      BY <1>c, <2>1, <3>2, <3>3
  <2> QED
    BY <1>4, <1>d, <2>1, <2>2 DEF HookIdentify
<1>5. ASSUME NEW g \in Hooks, HookSettle(g) PROVE Goal
  BY <1>5, <1>d DEF HookSettle
<1>6. CASE Crash
  <2> DEFINE c(h) == [hook[h] EXCEPT !.pc = "done"]
  <2>1. \A h \in Hooks : c(h) \in HookCalls /\ c(h).run = hook[h].run /\ c(h).pc = "done"
    BY <1>0 DEF HookCalls
  <2>2. hook' = [h \in Hooks |-> IF hook[h].pc = "idle" THEN hook[h] ELSE c(h)]
    BY <1>6 DEF Crash
  <2> HIDE DEF c
  <2>3. \A h \in Hooks : hook'[h] = IF hook[h].pc = "idle" THEN hook[h] ELSE c(h)
    BY <2>2
  <2>4. hook' \in [Hooks -> HookCalls]
    BY <1>0, <2>1, <2>2
  <2>5. \A h \in Hooks : hook'[h] = hook[h] \/ Moves(h)
    BY <2>1, <2>3
  <2> QED
    BY <2>4, <2>5 DEF Goal
<1>7. CASE \/ EditItem \/ Create \/ Archive \/ \E p \in Processes : EndProcess(p)
  BY <1>7, <1>a DEF EditItem, Create, CreateWorktree, ReservePorts, FinishCreate, Archive, ArchiveRemove,
     ArchiveMark, EndProcess
<1>8. CASE \E i \in Items : \/ DeleteItem(i)
                            \/ \E r \in Runs : CreateRun(i, r)
                            \/ \E r \in Runs \cup {NULL} : CreateClosure(i, r)
  BY <1>8, <1>a DEF DeleteItem, CreateRun, CreateClosure
<1>9. CASE \E r \in Runs : \/ \E p \in Processes : AttachProcess(r, p)
                           \/ Reconcile(r) \/ ArchiveCheck(r) \/ EditTree(r) \/ LoseTree(r)
  BY <1>9, <1>a DEF AttachProcess, Reconcile, ArchiveCheck, EditTree, LoseTree
<1> QED
  BY <1>1, <1>2, <1>3, <1>4, <1>5, <1>6, <1>7, <1>8, <1>9 DEF Next, HookStep

(* The checkpoints keep their runs and numbers. *)
SameNumbers == \A h \in Hooks : ckpt'[h].run = ckpt[h].run /\ ckpt'[h].seq = ckpt[h].seq

(* The hook h inserts its checkpoint. *)
Inserts(h) ==
    /\ hook[h].pc = "read" /\ SequenceIsFree(hook[h].run, hook[h].seq)
    /\ ckpt'[h].run = hook[h].run /\ ckpt'[h].seq = hook[h].seq
    /\ \A g \in Hooks \ {h} : ckpt'[g] = ckpt[g]
    /\ hook'[h].pc \in {"exec", "done"}

\* A checkpoint that starts is one.
LEMMA NewCheckpoint ==
    ASSUME NEW r \in Runs, NEW n \in 0..Cardinality(Hooks)
    PROVE  LET c == [NoCheckpoint EXCEPT !.run = r, !.seq = n, !.state = "running"]
           IN  c \in Checkpoints /\ c.run = r /\ c.seq = n
<1>1. 0 \in Contents
  BY ManagedAssumption DEF Contents
<1> QED
  BY <1>1 DEF NoCheckpoint, Checkpoints

\* One checkpoint is written at a time, and its run and number once.
LEMMA CkptEffect ==
    ASSUME TypeOK, HooksSound, Next
    PROVE  /\ ckpt' \in [Hooks -> Checkpoints]
           /\ SameNumbers \/ (\E h \in Hooks : Inserts(h)) \/ \E i \in Items : DeleteItem(i)
<1> DEFINE Goal == /\ ckpt' \in [Hooks -> Checkpoints]
                   /\ SameNumbers \/ (\E h \in Hooks : Inserts(h)) \/ \E i \in Items : DeleteItem(i)
<1> SUFFICES Goal
  OBVIOUS
<1>0. /\ hook \in [Hooks -> HookCalls] /\ ckpt \in [Hooks -> Checkpoints]
      /\ \A h \in Hooks : hook[h].seq \in 0..Cardinality(Hooks) /\ hook[h].chg \in Contents
                          /\ hook[h].saw \in Contents
  BY DEF TypeOK, HookCalls
<1>a. UNCHANGED ckpt => Goal
  BY <1>0 DEF SameNumbers
<1>1. ASSUME NEW h \in Hooks, HookStart(h) PROVE Goal
  <2> DEFINE r == hook[h].run
             n == hook[h].seq
             c == [NoCheckpoint EXCEPT !.run = r, !.seq = n, !.state = "running"]
  <2>1. r \in Runs /\ hook[h].pc = "read" /\ n \in 0..Cardinality(Hooks)
    BY <1>0, <1>1 DEF HookStart, HooksSound
  <2>2. c \in Checkpoints /\ c.run = r /\ c.seq = n
    <3> HIDE DEF r, n
    <3> QED
      BY <2>1, NewCheckpoint
  <2>3. CASE SequenceIsFree(r, n)
    <3>1. ckpt' = [ckpt EXCEPT ![h] = c]
      BY <1>1, <2>3 DEF HookStart
    <3>2. hook' = [hook EXCEPT ![h].pc = "exec"] \/ hook' = [hook EXCEPT ![h].pc = "done"]
      BY <1>1, <2>3 DEF HookStart, Finished
    <3>3. hook'[h].pc \in {"exec", "done"}
      BY <1>0, <3>2 DEF HookCalls
    <3> HIDE DEF c
    <3>4. ckpt' \in [Hooks -> Checkpoints] /\ ckpt'[h] = c /\ \A g \in Hooks \ {h} : ckpt'[g] = ckpt[g]
      BY <1>0, <2>2, <3>1
    <3>5. Inserts(h)
      BY <2>1, <2>2, <2>3, <3>3, <3>4 DEF Inserts
    <3> QED
      BY <3>4, <3>5
  <2>4. CASE ~SequenceIsFree(r, n)
    BY <1>1, <1>a, <2>4 DEF HookStart
  <2> QED
    BY <2>3, <2>4
<1>2. ASSUME NEW h \in Hooks, HookSettle(h) PROVE Goal
  <2> DEFINE s == IF hook[h].ok THEN "passed" ELSE "failed"
             chg == hook[h].chg
             saw == hook[h].saw
             c == [ckpt[h] EXCEPT !.state = s, !.chg = chg, !.saw = saw]
  <2>1. CASE ckpt' = [ckpt EXCEPT ![h].state = s, ![h].chg = chg, ![h].saw = saw]
    <3>1. ckpt' = [ckpt EXCEPT ![h] = c]
      BY <1>0, <2>1 DEF Checkpoints
    <3>2. s \in {"passed", "failed"} /\ chg \in Contents /\ saw \in Contents /\ ckpt[h] \in Checkpoints
      BY <1>0
    <3> HIDE DEF s, chg, saw
    <3>4. c \in Checkpoints /\ c.run = ckpt[h].run /\ c.seq = ckpt[h].seq
      <4>1. ASSUME NEW old \in Checkpoints
            PROVE  LET d == [old EXCEPT !.state = s, !.chg = chg, !.saw = saw]
                   IN  d \in Checkpoints /\ d.run = old.run /\ d.seq = old.seq
        BY <3>2 DEF Checkpoints
      <4> QED
        BY <3>2, <4>1
    <3> HIDE DEF c
    <3>5. /\ ckpt' \in [Hooks -> Checkpoints]
          /\ \A g \in Hooks : ckpt'[g] = IF g = h THEN c ELSE ckpt[g]
      BY <1>0, <3>1, <3>4
    <3>6. SameNumbers
      BY <3>4, <3>5 DEF SameNumbers
    <3> QED
      BY <3>5, <3>6
  <2> QED
    BY <1>2, <1>a, <2>1 DEF HookSettle
<1>3. ASSUME NEW i \in Items, DeleteItem(i) PROVE Goal
  <2>1. NoCheckpoint \in Checkpoints
    <3>1. 0 \in Contents /\ 0 \in 0..Cardinality(Hooks)
      BY ManagedAssumption, FS_CardinalityType DEF Contents
    <3> QED
      BY <3>1 DEF NoCheckpoint, Checkpoints
  <2>2. ckpt' = [h \in Hooks |-> IF ckpt[h].run \in Gone(i) THEN NoCheckpoint ELSE ckpt[h]]
    BY <1>3, DeleteEffect
  <2> QED
    BY <1>0, <1>3, <2>1, <2>2
<1> HIDE DEF Goal
<1>4. CASE \/ EditItem \/ Create \/ Archive \/ Crash \/ \E p \in Processes : EndProcess(p)
  BY <1>4, <1>a DEF EditItem, Create, CreateWorktree, ReservePorts, FinishCreate, Archive, ArchiveRemove,
     ArchiveMark, Crash, EndProcess, db
<1>5. CASE \E i \in Items : \/ \E r \in Runs : CreateRun(i, r)
                            \/ \E r \in Runs \cup {NULL} : CreateClosure(i, r)
  BY <1>5, <1>a DEF CreateRun, CreateClosure
<1>6. CASE \E r \in Runs : \/ \E p \in Processes : AttachProcess(r, p)
                           \/ Reconcile(r) \/ ArchiveCheck(r) \/ EditTree(r) \/ LoseTree(r)
                           \/ \E h \in Hooks : HookRead(h, r)
  BY <1>6, <1>a DEF AttachProcess, Reconcile, ArchiveCheck, EditTree, LoseTree, HookRead, db
<1>7. CASE \E h \in Hooks : HookExecute(h) \/ HookIdentify(h)
  BY <1>7, <1>a DEF HookExecute, HookIdentify, db
<1> QED
  BY <1>1, <1>2, <1>3, <1>4, <1>5, <1>6, <1>7 DEF Next, HookStep

\* A run id is used once: no run comes back.
LEMMA RunLife ==
    ASSUME TypeOK, OpSound, HooksSound, Next, NEW r \in Runs
    PROVE  /\ run[r].state # "unused" => run'[r].state # "unused"
           /\ Exists(r)' /\ run[r].state # "unused" => Exists(r)
<1>0. run \in [Runs -> RunRows]
  BY DEF TypeOK
<1>1. ASSUME run'[r] = run[r] PROVE run[r].state # "unused" => run'[r].state # "unused" /\ (Exists(r)' => Exists(r))
  BY <1>1 DEF Exists
<1>2. ASSUME NEW i \in Items, DeleteItem(i), r \in Gone(i) PROVE run'[r].state = "deleted" /\ ~Exists(r)'
  BY <1>2, DeleteEffect
<1>3. ASSUME NEW i \in Items, DeleteItem(i), r \notin Gone(i) PROVE run'[r] = run[r]
  BY <1>3, DeleteEffect
<1>4. ASSUME NEW s \in Runs, Created(s) \/ Written(s), s # r PROVE run'[r] = run[r]
  BY <1>0, <1>4 DEF Created, Written, Only
<1>5. Created(r) => run[r].state = "unused"
  BY DEF Created
<1>6. Written(r) => run'[r].state # "unused" /\ Exists(r)
  BY DEF Written, Exists
<1> QED
  BY <1>1, <1>2, <1>3, <1>4, <1>5, <1>6, RunEffect

\* Hooks go on with their runs, and start once.
LEMMA HooksStep ==
    ASSUME TypeOK, OpSound, HooksSound, Numbered, Next
    PROVE  HooksSound'
<1> SUFFICES ASSUME NEW g \in Hooks
             PROVE  /\ hook'[g].pc # "idle" => hook'[g].run \in Runs /\ run'[hook'[g].run].state # "unused"
                    /\ hook'[g].pc \in {"idle", "read"} => ckpt'[g].run = NULL
  BY DEF HooksSound
<1>0. /\ hook[g].pc # "idle" => hook[g].run \in Runs /\ run[hook[g].run].state # "unused"
      /\ hook[g].pc \in {"idle", "read"} => ckpt[g].run = NULL
  BY DEF HooksSound
<1>1. hook[g].pc # "idle" => hook[g].run \in Runs /\ run'[hook[g].run].state # "unused"
  BY <1>0, RunLife
<1>2. CASE \E r \in Runs : Reads(g, r)
  BY <1>0, <1>2 DEF Reads, Exists
<1>3. CASE hook[g].pc # "idle" /\ hook'[g].run = hook[g].run /\ hook'[g].pc \notin {"idle", "read"}
  BY <1>1, <1>3
<1>4. CASE hook'[g] = hook[g]
  <2>1. ASSUME hook[g].pc \in {"idle", "read"} PROVE ckpt'[g].run = NULL
    <3>1. SameNumbers => ckpt'[g].run = NULL
      BY <1>0, <2>1 DEF SameNumbers
    <3>2. ASSUME NEW h \in Hooks, Inserts(h) PROVE ckpt'[g].run = NULL
      BY <1>0, <1>4, <2>1, <3>2 DEF Inserts
    <3>3. ASSUME NEW i \in Items, DeleteItem(i) PROVE ckpt'[g].run = NULL
      BY <1>0, <2>1, <3>3, DeleteEffect DEF NoCheckpoint
    <3> QED
      BY <3>1, <3>2, <3>3, CkptEffect
  <2> QED
    BY <1>1, <1>4, <2>1
<1> QED
  BY <1>2, <1>3, <1>4, HookEffect

\* Checkpoints are of runs that exist: the foreign key refuses the insert of a
\* hook whose run has been deleted.
LEMMA CkptRunStep ==
    ASSUME TypeOK, OpSound, HooksSound, Next, NEW h \in Hooks, ckpt'[h].run # NULL
    PROVE  Exists(ckpt[h].run)'
<1>0. /\ \A g \in Hooks : ckpt[g].run # NULL => Exists(ckpt[g].run)
      /\ ckpt \in [Hooks -> Checkpoints] /\ NoCheckpoint.run = NULL
  BY DEF TypeOK, NoCheckpoint
<1>1. ASSUME NEW r \in Runs, Exists(r)' , ckpt'[h].run = r PROVE Exists(ckpt[h].run)'
  BY <1>1 DEF Exists
<1>2. ckpt[h].run # NULL => ckpt[h].run \in Runs
  BY <1>0 DEF Checkpoints
<1>3. ASSUME NEW i \in Items, DeleteItem(i) PROVE Exists(ckpt[h].run)'
  <2>1. ckpt'[h].run = ckpt[h].run /\ ckpt[h].run \notin Gone(i)
    BY <1>0, <1>3, DeleteEffect
  <2>2. ckpt[h].run \in Runs \ Gone(i) /\ Exists(ckpt[h].run)
    BY <1>0, <1>2, <2>1
  <2>3. run'[ckpt[h].run] = run[ckpt[h].run]
    BY <1>3, <2>2, DeleteEffect
  <2> QED
    BY <2>1, <2>2, <2>3 DEF Exists
<1>4. ASSUME \A i \in Items : ~DeleteItem(i) PROVE Exists(ckpt[h].run)'
  <2>1. \A r \in Runs : Exists(r) => run'[r].state \notin {"unused", "deleted"}
    BY <1>4, RunsStep DEF Exists
  <2>2. CASE ckpt'[h].run = ckpt[h].run
    BY <1>0, <1>2, <2>1, <2>2 DEF Exists
  <2>3. CASE Inserts(h)
    <3>1. ckpt'[h].run = hook[h].run /\ hook[h].run \in Runs /\ Exists(hook[h].run)
      BY <2>3 DEF Inserts, SequenceIsFree, HooksSound
    <3> QED
      BY <2>1, <3>1 DEF Exists
  <2> QED
    BY <1>4, <2>2, <2>3, CkptEffect DEF SameNumbers, Inserts
<1> QED
  BY <1>3, <1>4

\* The numbers of a run stay the numbers from 1 on, and those of a run that is
\* not deleted stay taken: what a hook inserts is the next number.
LEMMA SequenceStep ==
    ASSUME TypeOK, OpSound, HooksSound, Numbered, Next, NEW r \in Runs
    PROVE  /\ \E n \in Nat : Sequence(r)' = 1..n
           /\ \A g, h \in Of(r)' : ckpt'[g].seq = ckpt'[h].seq => g = h
           /\ Exists(r)' => Sequence(r) \subseteq Sequence(r)'
<1> DEFINE Goal == /\ \E n \in Nat : Sequence(r)' = 1..n
                   /\ \A g, h \in Of(r)' : ckpt'[g].seq = ckpt'[h].seq => g = h
                   /\ Exists(r)' => Sequence(r) \subseteq Sequence(r)'
<1> SUFFICES Goal
  OBVIOUS
<1>0. /\ \E n \in Nat : Sequence(r) = 1..n
      /\ \A g, h \in Of(r) : ckpt[g].seq = ckpt[h].seq => g = h
  BY DEF Numbered
<1>a. \A h : (h \in Of(r) <=> h \in Hooks /\ ckpt[h].run = r) /\ (h \in Of(r)' <=> h \in Hooks /\ ckpt'[h].run = r)
  BY DEF Of
<1>b. Sequence(r) = {ckpt[h].seq : h \in Of(r)} /\ Sequence(r)' = {ckpt'[h].seq : h \in Of(r)'}
  BY DEF Sequence
<1>1. ASSUME \A h \in Hooks : ckpt[h].run = r <=> ckpt'[h].run = r,
             \A h \in Hooks : ckpt[h].run = r => ckpt'[h].seq = ckpt[h].seq
      PROVE  Goal
  <2>1. Of(r)' = Of(r)
    BY <1>1, <1>a
  <2>2. \A h \in Of(r) : ckpt'[h].seq = ckpt[h].seq
    BY <1>1, <1>a
  <2>3. Sequence(r)' = Sequence(r)
    BY <1>b, <2>1, <2>2
  <2> QED
    BY <1>0, <2>1, <2>2, <2>3
<1>2. CASE SameNumbers
  BY <1>1, <1>2 DEF SameNumbers
<1>3. ASSUME NEW i \in Items, DeleteItem(i) PROVE Goal
  <2>1. ckpt' = [h \in Hooks |-> IF ckpt[h].run \in Gone(i) THEN NoCheckpoint ELSE ckpt[h]]
    BY <1>3, DeleteEffect
  <2>2. NoCheckpoint.run # r
    BY ManagedAssumption DEF NoCheckpoint
  <2>3. CASE r \in Gone(i)
    <3>1. \A h \in Hooks : ckpt'[h].run # r
      BY <2>1, <2>2, <2>3
    <3>2. Of(r)' = {}
      BY <1>a, <3>1
    <3>3. Sequence(r)' = {} /\ ~Exists(r)'
      BY <1>3, <1>b, <2>3, <3>2, DeleteEffect
    <3>4. Sequence(r)' = 1..0
      BY <3>3
    <3> QED
      BY <3>2, <3>3, <3>4
  <2>4. CASE r \notin Gone(i)
    <3>1. \A h \in Hooks : ckpt[h].run = r <=> ckpt'[h].run = r
      BY <2>1, <2>2, <2>4
    <3>2. \A h \in Hooks : ckpt[h].run = r => ckpt'[h].seq = ckpt[h].seq
      BY <2>1, <2>4
    <3> QED
      BY <1>1, <3>1, <3>2
  <2> QED
    BY <2>3, <2>4
<1>4. ASSUME NEW h \in Hooks, Inserts(h) PROVE Goal
  <2>0. /\ hook[h].run \in Runs /\ ckpt[h].run = NULL /\ NULL \notin Runs
        /\ hook[h].pc = "read" /\ Exists(hook[h].run)
    BY <1>4, ManagedAssumption DEF Inserts, HooksSound, SequenceIsFree
  <2>1. CASE hook[h].run # r
    BY <1>1, <1>4, <2>0, <2>1 DEF Inserts
  <2>2. CASE hook[h].run = r
    <3> DEFINE s == hook[h].seq
    <3>1. PICK n \in Nat : Sequence(r) = 1..n
      BY <1>0
    <3>2. s # 0 /\ s \in Nat /\ \A k \in 1..(s - 1) : k \in Sequence(r)
      <4>1. Cardinality(Hooks) \in Nat /\ hook \in [Hooks -> HookCalls]
        BY ManagedAssumption, FS_CardinalityType DEF TypeOK
      <4>2. s \in 0..Cardinality(Hooks)
        BY <4>1 DEF HookCalls
      <4>3. s # 0 /\ \A k \in 1..(s - 1) : k \in Sequence(r)
        BY <2>0, <2>2 DEF Numbered
      <4> QED
        BY <4>1, <4>2, <4>3
    <3>3. s \notin Sequence(r)
      BY <1>4, <1>b, <2>2 DEF Inserts, SequenceIsFree
    <3> HIDE DEF s
    <3>4. s = n + 1
      <4>1. s > n
        BY <3>1, <3>2, <3>3
      <4>2. s - 1 <= n
        <5>1. CASE s = 1
          BY <5>1, <3>1
        <5>2. CASE s # 1
          <6>1. s - 1 \in 1..(s - 1)
            BY <3>2, <5>2
          <6>2. s - 1 \in 1..n
            BY <3>1, <3>2, <6>1
          <6> QED
            BY <6>2
        <5> QED
          BY <5>1, <5>2
      <4> QED
        BY <3>1, <3>2, <4>1, <4>2
    <3>5. ckpt'[h].run = r /\ ckpt'[h].seq = s /\ \A g \in Hooks \ {h} : ckpt'[g] = ckpt[g]
      BY <1>4, <2>2 DEF Inserts, s
    <3>6. Of(r)' = Of(r) \cup {h} /\ h \notin Of(r)
      BY <1>a, <2>0, <3>5
    <3>7. \A g \in Of(r) : ckpt'[g].seq = ckpt[g].seq
      BY <1>a, <3>5, <3>6
    <3>8. Sequence(r)' = Sequence(r) \cup {s}
      BY <1>b, <3>5, <3>6, <3>7
    <3>9. Sequence(r)' = 1..(n + 1)
      BY <3>1, <3>4, <3>8
    <3>10. \A g \in Of(r) : ckpt[g].seq # s
      BY <1>b, <3>3
    <3>11. \A f, g \in Of(r)' : ckpt'[f].seq = ckpt'[g].seq => f = g
      BY <1>0, <3>5, <3>6, <3>7, <3>10
    <3> QED
      BY <3>1, <3>8, <3>9, <3>11
  <2> QED
    BY <2>1, <2>2
<1> QED
  BY <1>2, <1>3, <1>4, CkptEffect

\* The numbers stay in order, and below what is read all numbers stay taken.
LEMMA NumberedStep ==
    ASSUME TypeOK, OpSound, HooksSound, Numbered, Next
    PROVE  Numbered'
<1>1. ASSUME NEW g \in Hooks, hook'[g].pc = "read", Exists(hook[g].run)'
      PROVE  /\ hook'[g].seq # 0 
             /\ \A k \in 1..(hook'[g].seq - 1) : k \in Sequence(hook[g].run)'
  <2>1. ASSUME NEW r \in Runs, hook[g].run = r, hook'[g] = hook[g]
        PROVE  /\ hook'[g].seq # 0
               /\ \A k \in 1..(hook'[g].seq - 1) : k \in Sequence(hook[g].run)'
    <3>1. run[r].state # "unused" /\ hook[g].pc = "read" /\ hook'[g].run = r /\ hook'[g].seq = hook[g].seq
      BY <1>1, <2>1 DEF HooksSound
    <3>2. Exists(r)'
      BY <1>1, <3>1 DEF Exists
    <3>3. Exists(r)
      BY <3>1, <3>2, RunLife
    <3>4. hook[g].seq # 0 /\ \A k \in 1..(hook[g].seq - 1) : k \in Sequence(r)
      BY <2>1, <3>1, <3>3 DEF Numbered
    <3>5. Sequence(r) \subseteq Sequence(r)'
      BY <3>2, SequenceStep
    <3>6. Sequence(hook[g].run)' = Sequence(r)'
      BY <3>1 DEF Sequence, Of
    <3> QED
      BY <3>1, <3>4, <3>5, <3>6
  <2>2. ASSUME NEW r \in Runs, Reads(g, r)
        PROVE  /\ hook'[g].seq # 0 
               /\ \A k \in 1..(hook'[g].seq - 1) : k \in Sequence(hook[g].run)'
    <3>1. PICK n \in Nat : Sequence(r) = 1..n /\ hook'[g].seq = n + 1
      BY <2>2 DEF Reads
    <3>2. ckpt' = ckpt /\ hook'[g].run = r
      BY <2>2 DEF Reads
    <3>3. Sequence(hook[g].run)' = Sequence(r)
      BY <3>2 DEF Sequence, Of
    <3> QED
      BY <3>1, <3>3
  <2> QED
    BY <1>1, <2>1, <2>2, HookEffect DEF HooksSound
<1>2. \A r \in Runs :
          /\ \E n \in Nat : Sequence(r)' = 1..n
          /\ \A g, h \in Of(r)' : ckpt'[g].seq = ckpt'[h].seq => g = h
  BY SequenceStep
<1> QED
  BY <1>1, <1>2 DEF Numbered

-----------------------------------------------------------------------------
(***************************************************************************)
(* Closures.                                                               *)
(***************************************************************************)
Closures ==
    [item : Items, run : Runs \cup {NULL}, chg : Contents \cup Changes, version : 1..MaxClosures]

\* Closures are recorded one at a time, and go with their item.
LEMMA ClosuresEffect ==
    ASSUME Next
    PROVE  \/ UNCHANGED closures
           \/ \E i \in Items, r \in Runs \cup {NULL} : CreateClosure(i, r)
           \/ \E i \in Items : DeleteItem(i)
<1>1. CASE \/ EditItem \/ Create \/ Archive \/ Crash \/ \E p \in Processes : EndProcess(p)
  BY <1>1 DEF EditItem, Create, CreateWorktree, ReservePorts, FinishCreate, Archive, ArchiveRemove,
     ArchiveMark, Crash, EndProcess, db
<1>2. CASE \E i \in Items, r \in Runs : CreateRun(i, r)
  BY <1>2 DEF CreateRun
<1>3. CASE \E r \in Runs : \/ \E p \in Processes : AttachProcess(r, p)
                           \/ Reconcile(r) \/ ArchiveCheck(r) \/ EditTree(r) \/ LoseTree(r)
                           \/ \E h \in Hooks : HookRead(h, r)
  BY <1>3 DEF AttachProcess, Reconcile, ArchiveCheck, EditTree, LoseTree, HookRead, db
<1>4. CASE \E h \in Hooks : HookStep(h)
  BY <1>4 DEF HookStep, HookStart, HookExecute, HookIdentify, HookSettle, db
<1> QED
  BY <1>1, <1>2, <1>3, <1>4 DEF Next

\* The next version of an item is one more than it has closures.
LEMMA NextVersion ==
    ASSUME TypeOK, NEW i \in Items, NEW n \in 0..MaxClosures, Versions(i) = 1..n,
           \A c, d \in OfItem(i) : c.version = d.version => c = d
    PROVE  /\ Cardinality(OfItem(i)) = n
           /\ Max({0} \cup {c.version : c \in OfItem(i)}) = n
<1>0. n \in Nat /\ \A c \in OfItem(i) : c.version \in Nat
  <2>1. MaxClosures \in Nat /\ closures \subseteq Closures
    BY ManagedAssumption DEF TypeOK, Closures
  <2> QED
    BY <2>1 DEF OfItem, Closures
<1> DEFINE f == [c \in OfItem(i) |-> c.version]
<1>1. f \in [OfItem(i) -> Nat]
  BY <1>0
<1>2. \A x, y \in OfItem(i) : f[x] = f[y] => x = y
  OBVIOUS
<1>3. {f[x] : x \in OfItem(i)} = 1..n
  BY DEF Versions
<1> HIDE DEF f
<1>4. Cardinality(OfItem(i)) = n
  BY <1>0, <1>1, <1>2, <1>3, NumberedCount
<1> QED
  BY <1>0, <1>4, MaxOfNumbers DEF Versions

\* Closures are of items and runs that exist; their versions stay in order, and
\* a deleted run is struck from those that name it.
LEMMA ClosuresStep ==
    ASSUME TypeOK, OpSound, HooksSound, Versioned, Next
    PROVE  /\ closures' \subseteq Closures
           /\ \A c \in closures' : item'[c.item].exists /\ (c.run # NULL => Exists(c.run)')
           /\ Versioned'
<1> DEFINE Goal == /\ closures' \subseteq Closures
                   /\ \A c \in closures' : item'[c.item].exists /\ (c.run # NULL => Exists(c.run)')
                   /\ Versioned'
<1> SUFFICES Goal
  OBVIOUS
<1>0. /\ closures \subseteq Closures /\ item \in [Items -> ItemRows] /\ MaxClosures \in Nat
      /\ \A c \in closures : item[c.item].exists /\ (c.run # NULL => Exists(c.run))
      /\ run \in [Runs -> RunRows]
  BY ManagedAssumption DEF TypeOK, ItemsTypeOK, Closures
<1>f. \A c \in closures : c.item \in Items /\ c.run \in Runs \cup {NULL}
  BY <1>0 DEF Closures
<1>v. \A i \in Items : /\ \E n \in 0..MaxClosures : Versions(i) = 1..n
                       /\ \A c, d \in OfItem(i) : c.version = d.version => c = d
  BY DEF Versioned
<1>1. ASSUME NEW i \in Items, DeleteItem(i) PROVE Goal
  <2> DEFINE g(c) == [c EXCEPT !.run = IF c.run \in Gone(i) THEN NULL ELSE c.run]
  <2>1. closures' = {g(c) : c \in closures \ OfItem(i)}
    BY <1>1, DeleteEffect
  <2>2. ASSUME NEW c \in closures
        PROVE  /\ g(c) \in Closures /\ g(c).item = c.item /\ g(c).version = c.version
               /\ g(c).run = IF c.run \in Gone(i) THEN NULL ELSE c.run
    BY <1>0 DEF Closures
  <2> HIDE DEF g
  <2>3. \A c \in closures' : \E d \in closures \ OfItem(i) :
           /\ c = g(d) /\ c \in Closures /\ c.item = d.item /\ c.version = d.version
           /\ c.run = IF d.run \in Gone(i) THEN NULL ELSE d.run
    BY <2>1, <2>2
  <2>4. \A d \in closures \ OfItem(i) : g(d) \in closures'
    BY <2>1
  <2>5. ASSUME NEW c \in closures'
        PROVE  item'[c.item].exists /\ (c.run # NULL => Exists(c.run)')
    <3>1. PICK d \in closures \ OfItem(i) :
             c.item = d.item /\ c.run = IF d.run \in Gone(i) THEN NULL ELSE d.run
      BY <2>3
    <3>2. d.item # i /\ d.item \in Items /\ item[d.item].exists
      BY <1>0, <1>f DEF OfItem
    <3>3. item'[c.item].exists
      <4>1. item' = [item EXCEPT ![i] = NoItem]
        BY <1>1, DeleteEffect
      <4> QED
        BY <1>0, <3>1, <3>2, <4>1
    <3>4. ASSUME c.run # NULL PROVE Exists(c.run)'
      <4>1. c.run = d.run /\ c.run \in Runs \ Gone(i) /\ Exists(c.run)
        BY <1>0, <1>f, <3>1, <3>4
      <4>2. run'[c.run] = run[c.run]
        BY <1>1, <4>1, DeleteEffect
      <4> QED
        BY <4>1, <4>2 DEF Exists
    <3> QED
      BY <3>3, <3>4
  <2>6. ASSUME NEW j \in Items
        PROVE  /\ \E n \in 0..MaxClosures : Versions(j)' = 1..n
               /\ \A c, d \in OfItem(j)' : c.version = d.version => c = d
    <3>1. Versions(j)' = {c.version : c \in {x \in closures' : x.item = j}}
          /\ Versions(j) = {c.version : c \in {x \in closures : x.item = j}}
          /\ OfItem(j)' = {x \in closures' : x.item = j}
      BY DEF Versions, OfItem
    <3>2. CASE j = i
      <4>1. OfItem(j)' = {} /\ Versions(j)' = {}
        BY <2>3, <3>1, <3>2 DEF OfItem
      <4>2. Versions(j)' = 1..0 /\ 0 \in 0..MaxClosures
        BY <1>0, <4>1
      <4> QED
        BY <4>1, <4>2
    <3>3. CASE j # i
      <4>1. \A c \in OfItem(j)' : \E d \in OfItem(j) : c = g(d) /\ c.version = d.version
        BY <2>3, <3>1 DEF OfItem
      <4>2. \A d \in OfItem(j) : g(d) \in OfItem(j)' /\ g(d).version = d.version
        BY <2>2, <2>4, <3>1, <3>3 DEF OfItem
      <4>3. Versions(j)' = {c.version : c \in OfItem(j)'} /\ Versions(j) = {c.version : c \in OfItem(j)}
        BY <3>1 DEF Versions
      <4>4. Versions(j)' = Versions(j)
        BY <4>1, <4>2, <4>3
      <4>5. \A c, d \in OfItem(j)' : c.version = d.version => c = d
        BY <1>v, <4>1
      <4> QED
        BY <1>v, <4>4, <4>5
    <3> QED
      BY <3>2, <3>3
  <2> QED
    BY <2>3, <2>5, <2>6 DEF Versioned
<1>2. ASSUME \A i \in Items : ~DeleteItem(i)
      PROVE  /\ \A i \in Items : item[i].exists => item'[i].exists
             /\ \A r \in Runs : Exists(r) => Exists(r)'
  BY <1>2, ItemsStep, RunsStep DEF TypeOK
<1>3. ASSUME NEW c \in closures, \A i \in Items : ~DeleteItem(i)
      PROVE  item'[c.item].exists /\ (c.run # NULL => Exists(c.run)')
  BY <1>0, <1>2, <1>3, <1>f
<1>4. ASSUME UNCHANGED closures, \A i \in Items : ~DeleteItem(i) PROVE Goal
  <2>1. Versioned'
    BY <1>4 DEF Versioned, Versions, OfItem
  <2> QED
    BY <1>0, <1>3, <1>4, <2>1
<1>5. ASSUME NEW i \in Items, NEW r \in Runs \cup {NULL}, CreateClosure(i, r),
             \A j \in Items : ~DeleteItem(j)
      PROVE  Goal
  <2>1. PICK n \in 0..MaxClosures : Versions(i) = 1..n
    BY <1>v
  <2>2. Cardinality(OfItem(i)) = n /\ Max({0} \cup {c.version : c \in OfItem(i)}) = n
    BY <1>v, <2>1, NextVersion
  <2> DEFINE chg == ClosureChange(i, r)
             new == [item |-> i, run |-> r, chg |-> chg, version |-> n + 1]
  <2>3. /\ closures' = closures \cup {new} /\ n < MaxClosures /\ chg # NULL
        /\ item[i].exists /\ (r # NULL => Exists(r))
    BY <1>5, <2>2 DEF CreateClosure
  <2>4. chg \in Contents \cup Changes
    <3>1. item[i].chg \in Changes \cup {NULL} /\ (r # NULL => run[r].chg \in Contents \cup {NULL})
      BY <1>0 DEF ItemRows, RunRows
    <3> QED
      BY <2>3, <3>1 DEF ClosureChange
  <2>5. n + 1 \in 1..MaxClosures /\ n \in Nat
    BY <1>0, <2>3
  <2> HIDE DEF chg
  <2>6. new \in Closures /\ new.item = i /\ new.run = r /\ new.version = n + 1
    BY <2>4, <2>5 DEF Closures
  <2> HIDE DEF new
  <2>7. \A c \in closures' : item'[c.item].exists /\ (c.run # NULL => Exists(c.run)')
    <3>1. item'[i].exists /\ (r # NULL => Exists(r)')
      BY <1>2, <1>5, <2>3
    <3>2. ASSUME NEW c \in closures' PROVE c \in closures \/ (c.item = i /\ c.run = r)
      BY <2>3, <2>6, <3>2
    <3>3. ASSUME NEW c \in closures', c.item = i, c.run = r
          PROVE  item'[c.item].exists /\ (c.run # NULL => Exists(c.run)')
      BY <3>1, <3>3
    <3> QED
      BY <1>3, <1>5, <3>2, <3>3
  <2>8. ASSUME NEW j \in Items
        PROVE  /\ \E m \in 0..MaxClosures : Versions(j)' = 1..m
               /\ \A c, d \in OfItem(j)' : c.version = d.version => c = d
    <3>0. Versions(j)' = {c.version : c \in OfItem(j)'} /\ Versions(j) = {c.version : c \in OfItem(j)}
      BY DEF Versions
    <3>1. CASE j # i
      <4>1. OfItem(j)' = OfItem(j)
        BY <2>3, <2>6, <3>1 DEF OfItem
      <4>2. Versions(j)' = Versions(j)
        BY <3>0, <4>1
      <4>3. \A c, d \in OfItem(j)' : c.version = d.version => c = d
        BY <1>v, <4>1
      <4>4. PICK m \in 0..MaxClosures : Versions(j) = 1..m
        BY <1>v
      <4>5. \E k \in 0..MaxClosures : Versions(j)' = 1..k
        BY <4>2, <4>4
      <4> QED
        BY <4>3, <4>5
    <3>2. CASE j = i
      <4>1. OfItem(j)' = OfItem(j) \cup {new}
        BY <2>3, <2>6, <3>2 DEF OfItem
      <4>2. Versions(j)' = Versions(j) \cup {n + 1}
        BY <2>6, <3>0, <4>1
      <4>3. Versions(j)' = 1..(n + 1) /\ n + 1 \in 0..MaxClosures
        BY <2>1, <2>5, <3>2, <4>2
      <4>4. \A c \in OfItem(j) : c.version # n + 1
        BY <2>1, <2>5, <3>0, <3>2
      <4>5. \A c, d \in OfItem(j)' : c.version = d.version => c = d
        BY <1>v, <2>6, <4>1, <4>4
      <4> QED
        BY <4>3, <4>5
    <3> QED
      BY <3>1, <3>2
  <2> QED
    BY <1>0, <2>3, <2>6, <2>7, <2>8 DEF Versioned
<1> HIDE DEF Goal
<1> QED
  BY <1>1, <1>4, <1>5, ClosuresEffect

-----------------------------------------------------------------------------
(***************************************************************************)
(* The theorems.                                                           *)
(***************************************************************************)

\* Nothing is recorded yet.
LEMMA InitInv == Init => Inv
<1> SUFFICES ASSUME Init PROVE Inv
  OBVIOUS
<1>0. /\ 0 \in Contents /\ 0 \in 0..Cardinality(Hooks) /\ MaxClosures \in Nat
      /\ NULL \notin Runs
  BY ManagedAssumption, FS_CardinalityType DEF Contents
<1>1. NoRun \in RunRows /\ NoRun.state = "unused" /\ NoRun.ports = {}
  BY DEF NoRun, RunRows, RunStates
<1>2. NoCheckpoint \in Checkpoints /\ NoCheckpoint.run = NULL
  BY <1>0 DEF NoCheckpoint, Checkpoints
<1>3. IdleHook \in HookCalls /\ IdleHook.pc = "idle"
  BY <1>0 DEF IdleHook, HookCalls
<1>4. NoTree \in Trees
  BY <1>0 DEF NoTree, Trees
<1>5. op \in [run : Runs \cup {NULL}, step : {"free", "worktree", "ports", "plan", "remove", "mark"}]
      /\ op.step = "free"
  BY DEF Init, Free
<1>6. /\ \A r \in Runs : run[r] = NoRun
      /\ \A h \in Hooks : ckpt[h] = NoCheckpoint /\ hook[h] = IdleHook
      /\ reserved = {} /\ closures = {}
  BY DEF Init
<1>7. \A r \in Runs : ~Exists(r) /\ Of(r) = {} /\ run[r].state \notin LiveStates
  BY <1>0, <1>1, <1>2, <1>6 DEF Exists, Of, LiveStates
<1>8. TypeOK
  <2>1. ItemsTypeOK
    BY NoItemIsRow DEF Init, InitItems, ItemsTypeOK
  <2>2. /\ run \in [Runs -> RunRows] /\ ckpt \in [Hooks -> Checkpoints]
        /\ hook \in [Hooks -> HookCalls] /\ tree \in [Runs -> Trees]
    BY <1>1, <1>2, <1>3, <1>4 DEF Init
  <2>3. edits \in Contents /\ alive \subseteq Processes
    BY <1>0 DEF Init
  <2> QED
    BY <1>2, <1>5, <1>6, <1>7, <2>1, <2>2, <2>3 DEF TypeOK
<1>9. OpSound /\ HooksSound
  BY <1>2, <1>3, <1>5, <1>6 DEF OpSound, HooksSound
<1>10. Numbered
  <2>1. \A r \in Runs : Sequence(r) = 1..0
    BY <1>7 DEF Sequence
  <2> QED
    BY <1>3, <1>6, <1>7, <2>1 DEF Numbered
<1>11. Versioned
  <2>1. \A i \in Items : OfItem(i) = {} /\ Versions(i) = 1..0
    BY <1>6 DEF OfItem, Versions
  <2>2. 0 \in 0..MaxClosures
    BY <1>0
  <2>3. ASSUME NEW i \in Items
        PROVE  /\ \E n \in 0..MaxClosures : Versions(i) = 1..n
               /\ \A c, d \in OfItem(i) : c.version = d.version => c = d
    BY <2>1, <2>2
  <2> QED
    BY <2>3 DEF Versioned
<1>12. Reserved
  BY <1>1, <1>6 DEF Reserved
<1>13. OneLiveRun
  BY <1>7 DEF OneLiveRun, LiveStates
<1> QED
  BY <1>8, <1>9, <1>10, <1>11, <1>12, <1>13 DEF Inv

\* Every step preserves the invariant.
LEMMA StepInv == Inv /\ [Next]_vars => Inv'
<1>1. ASSUME Inv, Next PROVE Inv'
  <2>0. TypeOK /\ OpSound /\ HooksSound /\ Numbered /\ Versioned /\ Reserved /\ OneLiveRun /\ ItemsTypeOK
    BY <1>1 DEF Inv, TypeOK
  <2>1. /\ ItemsTypeOK'
        /\ run' \in [Runs -> RunRows]
        /\ \A r \in Runs : Exists(r)' => run'[r].item # NULL /\ item'[run'[r].item].exists
    BY <1>1, <2>0, ItemsStep, RunsStep
  <2>2. /\ reserved' \subseteq Runs \X Ports
        /\ \A rp \in reserved' : Exists(rp[1])'
        /\ Reserved'
    BY <1>1, <2>0, ReservedStep
  <2>3. /\ op' \in [run : Runs \cup {NULL}, step : {"free", "worktree", "ports", "plan",
                                                   "remove", "mark"}]
        /\ OpSound'
        /\ tree' \in [Runs -> Trees] /\ edits' \in Contents /\ alive' \subseteq Processes
    BY <1>1, <2>0, OpStep, WorldStep
  <2>4. ckpt' \in [Hooks -> Checkpoints] /\ hook' \in [Hooks -> HookCalls]
    BY <1>1, <2>0, CkptEffect, HookEffect
  <2>5. /\ \A h \in Hooks : ckpt'[h].run # NULL => Exists(ckpt[h].run)'
        /\ HooksSound' /\ Numbered' /\ OneLiveRun'
    BY <1>1, <2>0, CkptRunStep, HooksStep, NumberedStep, OneLiveStep
  <2>6. /\ closures' \subseteq Closures
        /\ \A c \in closures' : item'[c.item].exists /\ (c.run # NULL => Exists(c.run)')
        /\ Versioned'
    BY <1>1, <2>0, ClosuresStep
  <2>7. TypeOK'
    BY <2>1, <2>2, <2>3, <2>4, <2>5, <2>6 DEF TypeOK, Closures
  <2> QED
    BY <2>2, <2>3, <2>5, <2>6, <2>7 DEF Inv
<1>2. ASSUME Inv, UNCHANGED vars PROVE Inv'
  <2>0. UNCHANGED <<item, run, reserved, ckpt, closures, hook, op, tree, edits, alive>>
    BY <1>2 DEF vars, db, world
  <2>1. TypeOK'
    BY <1>2, <2>0 DEF Inv, TypeOK, ItemsTypeOK, Exists
  <2>2. OpSound' /\ HooksSound' /\ Reserved' /\ OneLiveRun'
    BY <1>2, <2>0 DEF Inv, OpSound, HooksSound, Reserved, OneLiveRun, Exists
  <2>3. Numbered' /\ Versioned'
    BY <1>2, <2>0 DEF Inv, Numbered, Versioned, Sequence, Of, Versions, OfItem, Exists
  <2> QED
    BY <2>1, <2>2, <2>3 DEF Inv
<1> QED
  BY <1>1, <1>2

\* The invariant holds of every behaviour.
LEMMA AlwaysInv == Spec => []Inv
BY InitInv, StepInv, PTL DEF Spec

\* The rows of managed work are rows of their tables and refer to rows that
\* exist, though hooks write long after they have read (delete_work_item's
\* cascade, run_managed_work_hook).
THEOREM TypeCorrect == Spec => []TypeOK
<1>1. Inv => TypeOK
  BY DEF Inv
<1> QED
  BY <1>1, AlwaysInv, PTL

\* At most one run of a work item is live (idx_managed_work_runs_one_live_item),
\* although a run is planned without another look at the index.
THEOREM RunsLiveAlone == Spec => []OneLiveRun
<1>1. Inv => OneLiveRun
  BY DEF Inv
<1> QED
  BY <1>1, AlwaysInv, PTL

\* The ports a run has been given are reserved for it alone, through failed and
\* interrupted creations and deletions (managed_work_port_reservations).
THEOREM PortsStayReserved == Spec => []PortsAreReserved
<1>1. Inv => PortsAreReserved
  <2> SUFFICES ASSUME Inv, NEW r \in Runs, NEW p \in run[r].ports, NEW s \in Runs \ {r},
                      <<s, p>> \in reserved
               PROVE  FALSE
    BY DEF Inv, Reserved, PortsAreReserved
  <2>1. <<r, p>> \in reserved
    BY DEF Inv, Reserved
  <2> QED
    BY <2>1 DEF Inv, Reserved
<1> QED
  BY <1>1, AlwaysInv, PTL

\* The checkpoints of a run are numbered without gaps or repeats, for any number
\* of hooks that read their numbers before any is used (next_checkpoint_sequence
\* and UNIQUE(run_id, sequence)).
THEOREM CheckpointsStayNumbered == Spec => []CheckpointsAreNumbered
<1>1. Inv => CheckpointsAreNumbered
  <2> SUFFICES ASSUME Inv, NEW r \in Runs
               PROVE  Sequence(r) = 1..Cardinality(Of(r))
    BY DEF CheckpointsAreNumbered, Sequence
  <2>1. PICK n \in Nat : Sequence(r) = 1..n
    BY DEF Inv, Numbered
  <2> DEFINE f == [g \in Of(r) |-> ckpt[g].seq]
  <2>2. \A g \in Of(r) : ckpt[g].seq \in Nat
    BY <2>1 DEF Sequence
  <2>3. f \in [Of(r) -> Nat]
    BY <2>2
  <2>4. \A x, y \in Of(r) : f[x] = f[y] => x = y
    BY DEF Inv, Numbered
  <2>5. {f[x] : x \in Of(r)} = 1..n
    BY <2>1 DEF Sequence
  <2> HIDE DEF f
  <2>6. Cardinality(Of(r)) = n
    BY <2>3, <2>4, <2>5, NumberedCount
  <2> QED
    BY <2>1, <2>6
<1> QED
  BY <1>1, AlwaysInv, PTL

\* Only the two steps that create or remove a worktree under the lock, the
\* loss of it and the agent's writing touch a worktree.
LEMMA ArchiveStep ==
    [Next]_vars =>
        [\A r \in Runs : /\ op.step = "remove" /\ op.run = r /\ op' # op
                         /\ tree[r].here /\ ~tree'[r].here
                         => ~tree[r].dirty]_vars
<1> SUFFICES ASSUME Next, NEW r \in Runs, op.step = "remove", op.run = r, op' # op,
                    tree[r].here, ~tree'[r].here
             PROVE  ~tree[r].dirty
  BY DEF vars, world
<1>1. UNCHANGED tree => FALSE
  OBVIOUS
<1>2. ASSUME UNCHANGED op PROVE FALSE
  BY <1>2
<1>3. CASE ArchiveRemove
  BY <1>1, <1>3 DEF ArchiveRemove, GitRemoves
<1>4. CASE Create \/ ArchiveMark
  BY <1>1, <1>4 DEF Create, CreateWorktree, ReservePorts, FinishCreate, ArchiveMark, world
<1>5. CASE Crash \/ EditItem
  BY <1>1, <1>5 DEF Crash, EditItem, world
<1>6. CASE \E i \in Items : \/ DeleteItem(i)
                            \/ \E s \in Runs : CreateRun(i, s)
                            \/ \E s \in Runs \cup {NULL} : CreateClosure(i, s)
  BY <1>1, <1>6 DEF DeleteItem, CreateRun, CreateClosure, world
<1>7. CASE \E s \in Runs : \/ \E p \in Processes : AttachProcess(s, p)
                           \/ Reconcile(s) \/ ArchiveCheck(s)
                           \/ \E h \in Hooks : HookRead(h, s)
  BY <1>1, <1>7 DEF AttachProcess, Reconcile, ArchiveCheck, HookRead, world
<1>8. CASE \E s \in Runs : EditTree(s) \/ LoseTree(s)
  BY <1>2, <1>8 DEF EditTree, LoseTree
<1>9. CASE \/ \E h \in Hooks : HookStep(h)
           \/ \E p \in Processes : EndProcess(p)
  BY <1>1, <1>9 DEF HookStep, HookStart, HookExecute, HookIdentify, HookSettle, EndProcess, world
<1> QED
  BY <1>3, <1>4, <1>5, <1>6, <1>7, <1>8, <1>9 DEF Next, Archive

\* archive_run never destroys uncommitted work: what the agent writes between
\* the status check and the removal makes git worktree remove refuse.
THEOREM ArchiveDestroysNothing == Spec => ArchiveKeepsWork
BY ArchiveStep, PTL DEF Spec, ArchiveKeepsWork
=============================================================================
