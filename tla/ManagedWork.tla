----------------------------- MODULE ManagedWork -----------------------------
(***************************************************************************)
(* Managed work runs (commands/managed_work.rs): a run gives a work item   *)
(* an isolated git worktree, reserved ports and an attached provider       *)
(* process; hooks run programs in the worktree and leave checkpoints;      *)
(* closures record a person's decision about a change.  The synchronous    *)
(* commands hold the database lock throughout, hooks release it while the  *)
(* program runs, and the worktree and the processes change under both.     *)
(***************************************************************************)
EXTENDS WorkItems, FiniteSetsExt

CONSTANTS
    Runs,         \* run ids, each used once (UUIDs)
    Hooks,        \* hook invocations, each made once
    Processes,    \* process identities: a pid with its start time
    Ports,        \* loopback ports
    PortsWanted,  \* ports each run asks for
    EditKinds,    \* what the agent does in a worktree
    Faults,       \* what may go wrong
    MaxEdits,     \* bound on the edits of all worktrees
    MaxClosures   \* bound on the closures of an item

ASSUME ManagedAssumption ==
    /\ NULL \notin Items \cup Runs \cup Processes \cup Hooks
    /\ IsFiniteSet(Hooks)
    /\ PortsWanted \in Nat /\ MaxEdits \in Nat /\ MaxClosures \in Nat
    /\ EditKinds \subseteq {"tracked", "create", "untracked", "commit", "racing"}
    /\ Faults \subseteq {"worktree", "ports", "identity", "spawn", "lose", "crash"}

VARIABLES
    run,       \* managed_work_runs
    reserved,  \* managed_work_port_reservations, as pairs <<run, port>>
    ckpt,      \* managed_work_checkpoints, by the hook that wrote each
    hook,      \* where each hook invocation is
    op,        \* the command that holds the database lock between steps
    closures,  \* intent_closure_receipts
    tree,      \* the worktrees on disk
    edits,     \* edits made so far; gives every edit a fresh identity
    alive      \* the processes that are running

db == <<run, reserved, ckpt, closures>>
world == <<tree, edits, alive>>
vars == <<item, db, hook, op, world>>

Contents == 0..MaxEdits
(* idx_managed_work_runs_one_live_item *)
LiveStates == {"planned", "starting", "running", "attention", "checking"}
RunStates == LiveStates \cup {"unused", "disconnected", "failed", "archived", "deleted"}

RunRows ==
    [state : RunStates, item : Items \cup {NULL}, proc : Processes \cup {NULL},
     chg : Contents \cup {NULL}, ports : SUBSET Ports]
NoRun == [state |-> "unused", item |-> NULL, proc |-> NULL, chg |-> NULL, ports |-> {}]

(* "saw" is a history variable: the content the program ran on. *)
Checkpoints ==
    [run : Runs \cup {NULL}, seq : 0..Cardinality(Hooks), chg : Contents \cup {NULL},
     state : {"none", "running", "passed", "failed"}, saw : Contents]
NoCheckpoint == [run |-> NULL, seq |-> 0, chg |-> NULL, state |-> "none", saw |-> 0]

HookCalls ==
    [pc : {"idle", "read", "exec", "ran", "settle", "done"}, run : Runs \cup {NULL},
     seq : 0..Cardinality(Hooks), ok : BOOLEAN, chg : Contents, saw : Contents]
IdleHook == [pc |-> "idle", run |-> NULL, seq |-> 0, ok |-> FALSE, chg |-> 0, saw |-> 0]

(* A worktree: "ident" is its change identity (a digest of HEAD, the status *)
(* listing and the diff of tracked files), "content" what a program reads.  *)
Trees ==
    [here : BOOLEAN, ident : Contents, content : Contents,
     untracked : BOOLEAN, dirty : BOOLEAN]
NoTree == [here |-> FALSE, ident |-> 0, content |-> 0, untracked |-> FALSE, dirty |-> FALSE]

Free == [run |-> NULL, step |-> "free"]
Unlocked == op = Free

Init ==
    /\ InitItems
    /\ run = [r \in Runs |-> NoRun]
    /\ reserved = {}
    /\ ckpt = [h \in Hooks |-> NoCheckpoint]
    /\ hook = [h \in Hooks |-> IdleHook]
    /\ op = Free
    /\ closures = {}
    /\ tree = [r \in Runs |-> NoTree]
    /\ edits = 0
    /\ alive = Processes

Exists(r) == run[r].state \notin {"unused", "deleted"}

(* Mutant: the index does not list "checking". *)
IndexForgetsChecking(i, r) ==
    \A s \in Runs \ {r} : ~(run[s].item = i /\ run[s].state \in LiveStates \ {"checking"})

(* The unique index refuses a write that makes r live while another run of  *)
(* its item is.                                                            *)
IndexAllows(i, r) ==
    \A s \in Runs \ {r} : ~(run[s].item = i /\ run[s].state \in LiveStates)
MayBeLive(r) == IndexAllows(run[r].item, r)

-----------------------------------------------------------------------------
(* create_managed_run, one step per thing that can fail; the lock is held   *)
(* throughout.  Only a failed worktree marks the run failed: the later      *)
(* errors return and leave it in "starting".                               *)
CreateRun(i, r) ==
    /\ Unlocked
    /\ run[r].state = "unused"
    /\ item[i].exists /\ item[i].repo # NULL
    /\ IndexAllows(i, r)
    /\ run' = [run EXCEPT ![r] = [NoRun EXCEPT !.state = "starting", !.item = i]]
    /\ op' = [run |-> r, step |-> "worktree"]
    /\ UNCHANGED <<item, reserved, ckpt, closures, hook, world>>

CreateWorktree ==
    /\ op.step = "worktree"
    /\ \/ /\ tree' = [tree EXCEPT ![op.run] = [NoTree EXCEPT !.here = TRUE]]
          /\ op' = [op EXCEPT !.step = "ports"]
          /\ UNCHANGED run
       \/ /\ "worktree" \in Faults
          /\ run' = [run EXCEPT ![op.run].state = "failed"]
          /\ op' = Free
          /\ UNCHANGED tree
    /\ UNCHANGED <<item, reserved, ckpt, closures, hook, edits, alive>>

(* Mutant: the ports are not checked against those of other runs. *)
AllPorts == Ports

(* UNIQUE(port): a candidate some run already reserved is passed over. *)
FreePorts == Ports \ {rp[2] : rp \in reserved}

(* One transaction: all the ports or none. *)
ReservePorts ==
    /\ op.step = "ports"
    /\ \/ \E P \in kSubset(PortsWanted, FreePorts) :
             /\ reserved' = reserved \cup ({op.run} \X P)
             /\ op' = [op EXCEPT !.step = "plan"]
       \/ /\ "ports" \in Faults \/ Cardinality(FreePorts) < PortsWanted
          /\ op' = Free
          /\ UNCHANGED reserved
    /\ UNCHANGED <<item, run, ckpt, closures, hook, world>>

ReservedBy(r) == {p \in Ports : <<r, p>> \in reserved}

FinishCreate ==
    /\ op.step = "plan"
    /\ op' = Free
    /\ \/ /\ tree[op.run].here
          /\ run' = [run EXCEPT ![op.run].state = "planned",
                                ![op.run].chg = tree[op.run].ident,
                                ![op.run].ports = ReservedBy(op.run)]
       \/ /\ ~tree[op.run].here \/ "identity" \in Faults
          /\ UNCHANGED run
    /\ UNCHANGED <<item, reserved, ckpt, closures, hook, world>>

-----------------------------------------------------------------------------
(* attach_managed_work_process *)
AttachProcess(r, p) ==
    /\ Unlocked
    /\ p \in alive
    /\ run[r].state \in {"planned", "starting", "disconnected"}
    /\ MayBeLive(r)
    /\ run' = [run EXCEPT ![r].state = "running", ![r].proc = p]
    /\ UNCHANGED <<item, reserved, ckpt, closures, hook, op, world>>

(* reconcile_run, also the first thing get_managed_work_handoff does: a run *)
(* whose worktree or process is gone is disconnected (and keeps the process *)
(* it names), any other only takes the current change identity.            *)
Unowned(r) ==
    \/ ~tree[r].here
    \/ run[r].proc # NULL /\ run[r].proc \notin alive

Reconcile(r) ==
    /\ Unlocked
    /\ Exists(r) /\ run[r].state \notin {"archived", "failed"}
    /\ run' = [run EXCEPT ![r] =
                 IF Unowned(r) THEN [@ EXCEPT !.state = "disconnected"]
                               ELSE [@ EXCEPT !.chg = tree[r].ident]]
    /\ UNCHANGED <<item, reserved, ckpt, closures, hook, op, world>>

-----------------------------------------------------------------------------
(* run_managed_work_hook.  The sequence number is read under one lock and   *)
(* used under the next.                                                    *)
Of(r) == {h \in Hooks : ckpt[h].run = r}

HookRead(h, r) ==
    /\ Unlocked
    /\ hook[h].pc = "idle"
    /\ Exists(r)
    /\ hook' = [hook EXCEPT ![h] = [IdleHook EXCEPT !.pc = "read", !.run = r,
                   !.seq = Max({0} \cup {ckpt[g].seq : g \in Of(r)}) + 1]]
    /\ UNCHANGED <<item, db, op, world>>

Finished(h) == hook' = [hook EXCEPT ![h].pc = "done"]

(* Mutant: UNIQUE(run_id, sequence) is not declared. *)
AnySequence(r, n) == Exists(r)

(* Mutant: the foreign key is not enforced. *)
SequenceIsUnused(r, n) == \A g \in Of(r) : ckpt[g].seq # n

(* The insert obeys the foreign key and UNIQUE(run_id, sequence). *)
SequenceIsFree(r, n) == Exists(r) /\ \A g \in Of(r) : ckpt[g].seq # n

(* The insert and the update to "checking" are two statements: the index    *)
(* may refuse the second after the first has been committed.               *)
HookStart(h) ==
    LET r == hook[h].run IN
    /\ Unlocked
    /\ hook[h].pc = "read"
    /\ IF SequenceIsFree(r, hook[h].seq)
       THEN /\ ckpt' = [ckpt EXCEPT ![h] = [NoCheckpoint EXCEPT !.run = r,
                                      !.seq = hook[h].seq, !.state = "running"]]
            /\ IF MayBeLive(r)
               THEN /\ run' = [run EXCEPT ![r].state = "checking"]
                    /\ hook' = [hook EXCEPT ![h].pc = "exec"]
               ELSE UNCHANGED run /\ Finished(h)
       ELSE UNCHANGED <<ckpt, run>> /\ Finished(h)
    /\ UNCHANGED <<item, reserved, closures, op, world>>

(* The program runs, passes, fails or times out; without its directory, or  *)
(* when it cannot be started, the command returns and nothing is settled.  *)
HookExecute(h) ==
    /\ hook[h].pc = "exec"
    /\ \/ /\ tree[hook[h].run].here
          /\ \E ok \in BOOLEAN :
               hook' = [hook EXCEPT ![h].pc = "ran", ![h].ok = ok,
                                    ![h].saw = tree[hook[h].run].content]
       \/ /\ ~tree[hook[h].run].here \/ "spawn" \in Faults
          /\ Finished(h)
    /\ UNCHANGED <<item, db, op, world>>

(* The change identity is computed after the program has ended. *)
HookIdentify(h) ==
    /\ hook[h].pc = "ran"
    /\ \/ /\ tree[hook[h].run].here
          /\ hook' = [hook EXCEPT ![h].pc = "settle", ![h].chg = tree[hook[h].run].ident]
       \/ /\ ~tree[hook[h].run].here \/ "identity" \in Faults
          /\ Finished(h)
    /\ UNCHANGED <<item, db, op, world>>

(* The verdict is written whatever has become of the run in the meantime;   *)
(* of the two updates the index may refuse the second.                     *)
HookSettle(h) ==
    LET r == hook[h].run IN
    /\ Unlocked
    /\ hook[h].pc = "settle"
    /\ Finished(h)
    /\ ckpt' = IF ckpt[h].state = "none" THEN ckpt
               ELSE [ckpt EXCEPT ![h].state = IF hook[h].ok THEN "passed" ELSE "failed",
                                 ![h].chg = hook[h].chg, ![h].saw = hook[h].saw]
    /\ run' = IF Exists(r) /\ MayBeLive(r)
              THEN [run EXCEPT ![r].state = IF hook[h].ok THEN "running" ELSE "attention",
                               ![r].chg = hook[h].chg]
              ELSE run
    /\ UNCHANGED <<item, reserved, closures, op, world>>

-----------------------------------------------------------------------------
(* archive_run: the checks, git's removal and the update, under one lock    *)
(* that neither the agent nor the file system knows of.                    *)
ArchiveCheck(r) ==
    /\ Unlocked
    /\ Exists(r)
    /\ run[r].proc = NULL \/ run[r].proc \notin alive
    /\ tree[r].here /\ ~tree[r].dirty
    /\ op' = [run |-> r, step |-> "remove"]
    /\ UNCHANGED <<item, db, hook, world>>

(* Mutant: the worktree is removed with --force. *)
RemovesAnyTree(t) == t.here

(* git worktree remove refuses a worktree with changes. *)
GitRemoves(t) == t.here /\ ~t.dirty

ArchiveRemove ==
    /\ op.step = "remove"
    /\ IF GitRemoves(tree[op.run])
       THEN /\ tree' = [tree EXCEPT ![op.run] = NoTree]
            /\ op' = [op EXCEPT !.step = "mark"]
       ELSE UNCHANGED tree /\ op' = Free
    /\ UNCHANGED <<item, db, hook, edits, alive>>

ArchiveMark ==
    /\ op.step = "mark"
    /\ run' = [run EXCEPT ![op.run].state = "archived", ![op.run].proc = NULL]
    /\ op' = Free
    /\ UNCHANGED <<item, reserved, ckpt, closures, hook, world>>

-----------------------------------------------------------------------------
(* create_closure: the change identity of the run when one is named and has *)
(* one, else that of the item.                                             *)
ClosureChange(i, r) ==
    IF r # NULL /\ run[r].chg # NULL THEN run[r].chg ELSE item[i].chg

OfItem(i) == {c \in closures : c.item = i}

CreateClosure(i, r) ==
    /\ Unlocked
    /\ item[i].exists
    /\ r # NULL => Exists(r)
    /\ ClosureChange(i, r) # NULL
    /\ Cardinality(OfItem(i)) < MaxClosures
    /\ closures' = closures \cup
          {[item |-> i, run |-> r, chg |-> ClosureChange(i, r),
            version |-> Max({0} \cup {c.version : c \in OfItem(i)}) + 1]}
    /\ UNCHANGED <<item, run, reserved, ckpt, hook, op, world>>

(* list_closures *)
Stale(c) == item[c.item].chg # NULL /\ item[c.item].chg # c.chg

EditItem ==
    /\ Unlocked
    /\ EditBoard
    /\ UNCHANGED <<db, hook, op, world>>

(* delete_work_item; the foreign keys cascade, the worktrees stay on disk. *)
DeleteItem(i) ==
    LET gone == {r \in Runs : run[r].item = i /\ Exists(r)} IN
    /\ Unlocked
    /\ RemoveItem(i)
    /\ run' = [r \in Runs |-> IF r \in gone THEN [NoRun EXCEPT !.state = "deleted"]
                                            ELSE run[r]]
    /\ reserved' = {rp \in reserved : rp[1] \notin gone}
    /\ ckpt' = [h \in Hooks |-> IF ckpt[h].run \in gone THEN NoCheckpoint ELSE ckpt[h]]
    /\ closures' = {[c EXCEPT !.run = IF @ \in gone THEN NULL ELSE @] :
                      c \in closures \ OfItem(i)}
    /\ UNCHANGED <<hook, op, world>>

-----------------------------------------------------------------------------
(* What happens outside the program: the agent edits a tracked file, adds a *)
(* file, edits a file git does not track, or commits, also ("racing") while *)
(* a hook runs; processes end; the temporary directory is cleaned; the      *)
(* application is killed.                                                  *)
EditTree(r) ==
    /\ tree[r].here
    /\ edits < MaxEdits
    /\ "racing" \in EditKinds \/ \A h \in Hooks :
          hook[h].run = r => hook[h].pc \notin {"exec", "ran"}
    /\ edits' = edits + 1
    /\ \/ /\ "tracked" \in EditKinds
          /\ tree' = [tree EXCEPT ![r].ident = edits', ![r].content = edits', ![r].dirty = TRUE]
       \/ /\ "create" \in EditKinds /\ ~tree[r].untracked
          /\ tree' = [tree EXCEPT ![r].ident = edits', ![r].content = edits',
                                  ![r].dirty = TRUE, ![r].untracked = TRUE]
       \/ /\ "untracked" \in EditKinds /\ tree[r].untracked
          /\ tree' = [tree EXCEPT ![r].content = edits']
       \/ /\ "commit" \in EditKinds /\ tree[r].dirty
          /\ tree' = [tree EXCEPT ![r].ident = edits', ![r].dirty = FALSE,
                                  ![r].untracked = FALSE]
    /\ UNCHANGED <<item, db, hook, op, alive>>

EndProcess(p) ==
    /\ p \in alive
    /\ alive' = alive \ {p}
    /\ UNCHANGED <<item, db, hook, op, tree, edits>>

LoseTree(r) ==
    /\ "lose" \in Faults /\ tree[r].here
    /\ tree' = [tree EXCEPT ![r] = NoTree]
    /\ UNCHANGED <<item, db, hook, op, edits, alive>>

(* The database keeps every finished statement; the hooks die with the app. *)
Crash ==
    /\ "crash" \in Faults
    /\ \/ ~Unlocked
       \/ \E h \in Hooks : hook[h].pc \notin {"idle", "done"}
    /\ op' = Free
    /\ hook' = [h \in Hooks |-> IF hook[h].pc = "idle" THEN hook[h]
                                ELSE [hook[h] EXCEPT !.pc = "done"]]
    /\ UNCHANGED <<item, db, world>>

Create == CreateWorktree \/ ReservePorts \/ FinishCreate
Archive == ArchiveRemove \/ ArchiveMark
HookStep(h) == HookStart(h) \/ HookExecute(h) \/ HookIdentify(h) \/ HookSettle(h)

Next ==
    \/ EditItem
    \/ Create
    \/ Archive
    \/ \E i \in Items : \/ DeleteItem(i)
                        \/ \E r \in Runs : CreateRun(i, r)
                        \/ \E r \in Runs \cup {NULL} : CreateClosure(i, r)
    \/ \E r \in Runs : \/ \E p \in Processes : AttachProcess(r, p)
                       \/ Reconcile(r)
                       \/ ArchiveCheck(r)
                       \/ EditTree(r)
                       \/ LoseTree(r)
                       \/ \E h \in Hooks : HookRead(h, r)
    \/ \E h \in Hooks : HookStep(h)
    \/ \E p \in Processes : EndProcess(p)
    \/ Crash

Spec == Init /\ [][Next]_vars

-----------------------------------------------------------------------------
(* The rows are rows of their tables and refer to rows that exist, also      *)
(* when a hook writes after its run has been deleted.                       *)
TypeOK ==
    /\ ItemsTypeOK
    /\ run \in [Runs -> RunRows]
    /\ reserved \subseteq Runs \X Ports
    /\ ckpt \in [Hooks -> Checkpoints]
    /\ hook \in [Hooks -> HookCalls]
    /\ op \in [run : Runs \cup {NULL}, step : {"free", "worktree", "ports", "plan",
                                               "remove", "mark"}]
    /\ closures \subseteq [item : Items, run : Runs \cup {NULL}, chg : Contents \cup Changes,
                           version : 1..MaxClosures]
    /\ tree \in [Runs -> Trees]
    /\ edits \in Contents
    /\ alive \subseteq Processes
    /\ \A r \in Runs : Exists(r) => run[r].item # NULL /\ item[run[r].item].exists
    /\ \A h \in Hooks : ckpt[h].run # NULL => Exists(ckpt[h].run)
    /\ \A rp \in reserved : Exists(rp[1])
    /\ \A c \in closures : item[c.item].exists /\ (c.run # NULL => Exists(c.run))

(* At most one run of a work item is live, whatever late hooks, attachments *)
(* and reconciliations of its other runs still write.                      *)
OneLiveRun ==
    \A r, s \in Runs :
        /\ run[r].state \in {"planned", "starting", "running", "attention", "checking"}
        /\ run[s].state \in {"planned", "starting", "running", "attention", "checking"}
        /\ run[r].item = run[s].item
        => r = s

(* The checkpoints of a run are numbered 1, 2, ... without gaps or repeats, *)
(* although each hook reads its number before the others have used theirs.  *)
CheckpointsAreNumbered ==
    \A r \in Runs : {ckpt[h].seq : h \in Of(r)} = 1..Cardinality(Of(r))

(* The ports in a run's environment are reserved for it and for no other    *)
(* run, also after a failed creation or a crash in the middle of one.      *)
PortsAreReserved ==
    \A r \in Runs : \A p \in run[r].ports :
        /\ <<r, p>> \in reserved
        /\ \A s \in Runs \ {r} : <<s, p>> \notin reserved

(* Archiving never destroys uncommitted work, even when the agent writes    *)
(* between the status check and the removal.  A worktree that goes without  *)
(* a step of the archiving was removed by somebody else.                   *)
ArchiveKeepsWork ==
    [][\A r \in Runs : /\ op.step = "remove" /\ op.run = r /\ op' # op
                       /\ tree[r].here /\ ~tree'[r].here
                       => ~tree[r].dirty]_vars

(* docs/architecture/verification-workbench.md: "Managed runs use owned      *)
(* processes": a run that is "running" names the process it is running in.  *)
RunningOwnsAProcess ==
    \A r \in Runs : run[r].state = "running" => run[r].proc # NULL

(* reconcile_run leaves an archived run alone, whatever it finds of its      *)
(* process and worktree: archiving a run is its end.                        *)
ArchivedIsFinal ==
    [][\A r \in Runs : run[r].state = "archived"
                          => run'[r].state \in {"archived", "deleted"}]_vars

(* The same document: a checkpoint holds the "exact change identity" and is  *)
(* stale once "the worktree change identity advances".  A passed checkpoint  *)
(* whose identity is the worktree's current one is about what is in it.      *)
PassedIsWhatIsThere ==
    \A h \in Hooks :
        LET c == ckpt[h] IN
        c.state = "passed" /\ tree[c.run].here /\ tree[c.run].ident = c.chg
            => tree[c.run].content = c.saw

(* The same document: a closure is stale when the "Repository or diff        *)
(* identity advances after the decision".                                   *)
MovedClosureIsStale ==
    \A c \in closures :
        c.run # NULL /\ run[c.run].chg \notin {NULL, c.chg} => Stale(c)
=============================================================================
