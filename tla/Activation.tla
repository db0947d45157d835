----------------------------- MODULE Activation -----------------------------
(***************************************************************************)
(* The activation substrate of daemon-activation over the session store:   *)
(* every manager (one per process) wakes sessions from its dispatcher, its *)
(* recovery scanner and its API, reserves a directory slot, takes a lease, *)
(* and runs a cycle of fenced load - hydrate - run - commit turns that may *)
(* linger between turns.  A cycle lives in the slot it reserved, so it is  *)
(* indexed by manager and session.  Processes crash and lose everything    *)
(* but the store.                                                          *)
(***************************************************************************)
EXTENDS SessionStore, FiniteSetsExt

CONSTANTS
    Manager,        \* the processes sharing the store
    None,           \* "no session", "no caller"
    Linger,         \* HostConfig::linger is Some
    Rails,          \* the input rails in use: "wire" (clients), "host" (injections)
    MaxFence,       \* bound: leases of one session
    MaxSplices,     \* bound: splices of one session
    MaxEpoch,       \* bound: epoch up to which turns still suspend
    Budget          \* bound: how often each environment event may happen

EnvEvent == {"crash", "fail", "interrupt", "edit", "assign", "cut", "retry"}

ASSUME BoundAssumption  == MaxFence \in Nat /\ MaxSplices \in Nat
ASSUME BudgetAssumption == Budget \in [EnvEvent -> Nat]
ASSUME RailAssumption   == Rails \subseteq {"wire", "host"}
ASSUME LingerAssumption == Linger \in BOOLEAN

(* The tasks that call ActivationManager::wake: the two resident services   *)
(* and the API's assign.                                                    *)
Caller == {"dispatcher", "scanner", "api"}

VARIABLES
    cycle,          \* cycle[m][s]: the slot of s in m's directory and its task
    caller,         \* caller[m][c]: where a wake call of m stands
    client,         \* client[m]: an input being published by m's API
    worker,         \* worker[m]: the job m's job service popped
    cut,            \* cut[s]: a lease taken elsewhere, to be passed to activate
    budget          \* environment events still allowed

managerVars == <<cycle, caller, client, worker, cut, budget>>
vars == <<storeVars, managerVars>>

CyclePc == {"none", "reserved", "leased", "running", "again", "register",
            "check", "linger", "recheck", "exiting"}

(* eng is the snapshot the hydrated engine would checkpoint, pend the       *)
(* completions stashed in the engine but in no snapshot, loaded the         *)
(* completion keys the load delivered, mail the permit of the linger        *)
(* mailbox, waiter the caller still waiting for the first turn.             *)
Cycle == [pc : CyclePc, fence : Nat, turn : Nat, eng : Snapshot,
          pend : SUBSET JobId, loaded : SUBSET JobId, foldOnly : BOOLEAN,
          resident : BOOLEAN, mail : BOOLEAN, waiter : Caller \cup {None}]

Vacant == [pc |-> "none", fence |-> 0, turn |-> 0, eng |-> FreshSnapshot,
           pend |-> {}, loaded |-> {}, foldOnly |-> FALSE, resident |-> FALSE,
           mail |-> FALSE, waiter |-> None]

CallerState == [pc : {"idle", "status", "reserve", "await"},
                s : Session \cup {None}, todo : SUBSET Session]

IdleCaller == [pc |-> "idle", s |-> None, todo |-> {}]

ClientState == [pc : {"idle", "reopen", "wake"}, s : Session \cup {None}]

IdleClient == [pc |-> "idle", s |-> None]

NoJob == [epoch |-> 0, k |-> 0]

WorkerState == [pc : {"idle", "record", "publish"}, s : Session \cup {None}, j : JobId]

IdleWorker == [pc |-> "idle", s |-> None, j |-> NoJob]

(* Type correctness of the store rows and of every task of every process.   *)
TypeOK ==
    /\ StoreTypeOK
    /\ cycle  \in [Manager -> [Session -> Cycle]]
    /\ caller \in [Manager -> [Caller -> CallerState]]
    /\ client \in [Manager -> ClientState]
    /\ worker \in [Manager -> WorkerState]
    /\ cut    \in [Session -> Nat]
    /\ budget \in [EnvEvent -> Nat]

Init ==
    /\ StoreInit
    /\ cycle  = [m \in Manager |-> [s \in Session |-> Vacant]]
    /\ caller = [m \in Manager |-> [c \in Caller |-> IdleCaller]]
    /\ client = [m \in Manager |-> IdleClient]
    /\ worker = [m \in Manager |-> IdleWorker]
    /\ cut    = [s \in Session |-> 0]
    /\ budget = Budget

Spend(e) == budget[e] > 0 /\ budget' = [budget EXCEPT ![e] = @ - 1]

-----------------------------------------------------------------------------
(* Producers: the API rails that create sessions and publish inputs.        *)

Create(s) ==
    /\ \/ CreateIdle(s)
       \/ \E withInput \in BOOLEAN : CreateRunnable(s, withInput)
    /\ UNCHANGED managerVars

(* enqueue_wire_input and enqueue_durable_input: append, then on the wire   *)
(* rail reopen a settled session, then publish the wake: separate           *)
(* transactions.  The host rail looked at the status before it got here,    *)
(* which may have changed since, so it is no guard of the append.           *)
Submit(m, s, op) ==
    /\ client[m].pc = "idle"
    /\ AppendSplice(s, op)
    /\ \E rail \in Rails :
          client' = [client EXCEPT ![m] =
                [pc |-> IF rail = "wire" THEN "reopen" ELSE "wake", s |-> s]]
    /\ UNCHANGED <<cycle, caller, worker, cut>>

SubmitAppend(m, s) ==
    /\ lastSeq[s] < MaxSplices
    /\ \E op \in Op : ~HasOp(s, op) /\ Submit(m, s, op)
    /\ UNCHANGED budget

(* A producer that missed the acknowledgement sends the same op again.  The *)
(* rails above mint an op per call (mint_op_id); this exercises the         *)
(* append-or-return-existing contract of append_splice.                     *)
SubmitRetry(m, s) ==
    /\ Spend("retry")
    /\ \E op \in Op : HasOp(s, op) /\ Submit(m, s, op)

SubmitReopen(m, s) ==
    /\ client[m].pc = "reopen"
    /\ client[m].s = s
    /\ ReopenIfSettled(s)
    /\ client' = [client EXCEPT ![m].pc = "wake"]
    /\ UNCHANGED <<cycle, caller, worker, cut, budget>>

SubmitWake(m, s) ==
    /\ client[m].pc = "wake"
    /\ client[m].s = s
    /\ EnqueueWake(s)
    /\ client' = [client EXCEPT ![m] = IdleClient]
    /\ UNCHANGED <<cycle, caller, worker, cut, budget>>

Answer(s, j) == AnswerApproval(s, j) /\ UNCHANGED managerVars

(* fingerprint_revoke: edits the stored snapshot of a dormant session.      *)
Edit(s) ==
    /\ Spend("edit")
    /\ SwapSnapshotIfDormant(s)
    /\ UNCHANGED <<cycle, caller, client, worker, cut>>

Prune(s) ==
    /\ \E i \in 1 .. lastSeq[s] :
          /\ inbox[s][i].claim = "consumed"
          /\ PruneConsumedSplices(s, i)
    /\ UNCHANGED managerVars

-----------------------------------------------------------------------------
(* wake: the status check, the reservation and the lease are three steps    *)
(* of the calling task.                                                     *)

SetCaller(m, c, pc, s) == [caller EXCEPT ![m][c].pc = pc, ![m][c].s = s]

(* assign on an existing session: mark_ready_if_idle, then wake.            *)
Assign(m, s) ==
    /\ Spend("assign")
    /\ status[s] # "absent"
    /\ caller[m]["api"].pc = "idle"
    /\ MarkReadyIfIdle(s)
    /\ caller' = SetCaller(m, "api", "status", s)
    /\ UNCHANGED <<cycle, client, worker, cut>>

(* dispatch_wakes: the row is gone before the session is woken.             *)
DispatchWake(m, s) ==
    /\ caller[m]["dispatcher"].pc = "idle"
    /\ DequeueWake(s)
    /\ caller' = SetCaller(m, "dispatcher", "status", s)
    /\ UNCHANGED <<cycle, client, worker, cut, budget>>

(* scan_once: one list per pass, then one wake per member.                  *)
ScanResumable(m) ==
    /\ caller[m]["scanner"].pc = "idle"
    /\ caller[m]["scanner"].todo = {}
    /\ \E s \in Session : Resumable(s)
    /\ caller' = [caller EXCEPT ![m]["scanner"].todo = {s \in Session : Resumable(s)}]
    /\ UNCHANGED <<storeVars, cycle, client, worker, cut, budget>>

ScanNext(m, s) ==
    /\ caller[m]["scanner"].pc = "idle"
    /\ s \in caller[m]["scanner"].todo
    /\ caller' = [caller EXCEPT ![m]["scanner"].pc = "status",
                                ![m]["scanner"].s = s,
                                ![m]["scanner"].todo = @ \ {s}]
    /\ UNCHANGED <<storeVars, cycle, client, worker, cut, budget>>

(* wake returns at once for a session with nothing to run.                  *)
Wakeable(s) == status[s] \notin {"completed", "idle", "absent"}

CheckStatus(m, c) ==
    /\ caller[m][c].pc = "status"
    /\ caller' = IF Wakeable(caller[m][c].s)
                 THEN [caller EXCEPT ![m][c].pc = "reserve"]
                 ELSE SetCaller(m, c, "idle", None)
    /\ UNCHANGED <<storeVars, cycle, client, worker, cut, budget>>

(* try_reserve finds the slot vacant: the caller goes on to the lease.      *)
Reserve(m, c, s) ==
    /\ caller[m][c].pc = "reserve"
    /\ caller[m][c].s = s
    /\ cycle[m][s].pc = "none"
    /\ cycle'  = [cycle EXCEPT ![m][s] = [Vacant EXCEPT !.pc = "reserved", !.waiter = c]]
    /\ caller' = [caller EXCEPT ![m][c].pc = "await"]
    /\ UNCHANGED <<storeVars, client, worker, cut, budget>>

(* try_reserve finds it occupied: the hint goes to the linger mailbox when  *)
(* one is registered, and is dropped otherwise.                             *)
HasMailbox(cy) == cy.pc \in {"check", "linger"}

(* Mutant: the lease is taken before the slot is looked at.                 *)
AbsorbAfterLease(m, c, s) ==
    /\ caller[m][c].pc = "reserve"
    /\ caller[m][c].s = s
    /\ cycle[m][s].pc # "none"
    /\ AcquireActivationLease(s)
    /\ cycle'  = [cycle EXCEPT ![m][s].mail = @ \/ HasMailbox(cycle[m][s])]
    /\ caller' = SetCaller(m, c, "idle", None)
    /\ UNCHANGED <<client, worker, cut, budget>>

Absorb(m, c, s) ==
    /\ caller[m][c].pc = "reserve"
    /\ caller[m][c].s = s
    /\ cycle[m][s].pc # "none"
    /\ cycle'  = [cycle EXCEPT ![m][s].mail = @ \/ HasMailbox(cycle[m][s])]
    /\ caller' = SetCaller(m, c, "idle", None)
    /\ UNCHANGED <<storeVars, client, worker, cut, budget>>

(* acquire_activation_lease, by the waking caller or for a follow-on turn.  *)
Lease(m, s) ==
    /\ cycle[m][s].pc \in {"reserved", "again"}
    /\ fence[s] < MaxFence
    /\ AcquireActivationLease(s)
    /\ cycle' = [cycle EXCEPT ![m][s].pc = "leased", ![m][s].fence = fence'[s]]
    /\ UNCHANGED <<caller, client, worker, cut, budget>>

(* A remote node takes a lease over the cut and has m activate under it.    *)
LeaseElsewhere(s) ==
    /\ Spend("cut")
    /\ status[s] # "absent"
    /\ fence[s] < MaxFence
    /\ AcquireActivationLease(s)
    /\ cut' = [cut EXCEPT ![s] = fence'[s]]
    /\ UNCHANGED <<cycle, caller, client, worker>>

(* activate: refused as Busy when the slot is taken.                        *)
Activate(m, s) ==
    /\ cut[s] # 0
    /\ cut' = [cut EXCEPT ![s] = 0]
    /\ cycle' = IF cycle[m][s].pc = "none"
                THEN [cycle EXCEPT ![m][s] =
                        [Vacant EXCEPT !.pc = "leased", !.fence = cut[s]]]
                ELSE cycle
    /\ UNCHANGED <<storeVars, caller, client, worker, budget>>

-----------------------------------------------------------------------------
(* One turn: load and hydrate, then one of the commits.                     *)

(* The splices a hydrate folds: the claimed rows above the engine's cursor. *)
Fresh(rows, base, f) == {i \in HeldBy(ClaimSplices(rows, f), f) : i > base.cursor}

Folded(sn, fresh, f) ==
    [sn EXCEPT !.cursor = Max(fresh \cup {sn.cursor}),
               !.conv   = @ \cup {<<i, f>> : i \in fresh}]

(* Mutant: the resident engine outlives a change of the stored snapshot.     *)
KeepsStaleEngine(cy, s) == cy.resident

(* The resident engine is kept only over the very snapshot it committed.    *)
KeepsEngine(cy, s) == cy.resident /\ cy.eng = snap[s]

Load(m, s) ==
    LET cy    == cycle[m][s]
        base  == IF KeepsEngine(cy, s) THEN cy.eng ELSE snap[s]
        stash == IF KeepsEngine(cy, s) THEN cy.pend ELSE {}
        fresh == Fresh(inbox[s], base, cy.fence)
        opens == completions[s] # {} \/ \E i \in fresh : inbox[s][i].op \notin Observe
    IN  /\ cy.pc = "leased"
        /\ LoadForActivation(s, cy.fence)
        /\ cycle' = [cycle EXCEPT ![m][s] = [cy EXCEPT
              !.pc       = "running",
              !.turn     = turnSeq[s],
              !.eng      = Folded(base, fresh, cy.fence),
              !.pend     = stash \cup (completions[s] \cap base.waiting),
              !.loaded   = completions[s],
              !.foldOnly = fresh # {} /\ ~opens /\ base.waiting = {}]]
        /\ UNCHANGED <<caller, client, worker, cut, budget>>

(* Releasing the caller that waits for the first turn.                      *)
Release(m, w) ==
    IF w = None THEN caller
    ELSE [caller EXCEPT ![m][w].pc = "idle", ![m][w].s = None]

(* run_cycle after a commit: suspended and terminal turns leave, a turn     *)
(* commit goes on resident when lingering is configured.                    *)
Exiting(cy) == [Vacant EXCEPT !.pc = "exiting", !.waiter = cy.waiter]

LeaveCycle(m, s) ==
    /\ cycle' = [cycle EXCEPT ![m][s] = Exiting(@)]
    /\ UNCHANGED caller

GoOn(m, s, eng, pend, next) ==
    IF ~Linger THEN LeaveCycle(m, s)
    ELSE /\ cycle' = [cycle EXCEPT ![m][s] = [@ EXCEPT
                 !.pc       = IF next = "ready" THEN "again" ELSE "register",
                 !.eng      = eng,
                 !.pend     = pend,
                 !.resident = TRUE,
                 !.loaded   = {},
                 !.foldOnly = FALSE,
                 !.waiter   = None]]
         /\ caller' = Release(m, cycle[m][s].waiter)

(* TurnCommitted: commit_turn with the completions the load delivered.      *)
EndTurn(m, s, eng, pend) ==
    /\ CommitTurn(s, cycle[m][s].fence, eng, cycle[m][s].turn, cycle[m][s].loaded)
    /\ GoOn(m, s, eng, pend, status'[s])

(* Completed: the persisted policy decides between the two boundaries.      *)
Finish(m, s, eng, pend) ==
    IF s \in Interactive THEN EndTurn(m, s, eng, pend)
    ELSE MarkCompleted(s, cycle[m][s].fence, eng) /\ LeaveCycle(m, s)

Suspend(m, s, eng) ==
    LET f == cycle[m][s].fence
        j == CHOOSE x \in eng.waiting : TRUE
    IN  /\ IF j.k = 0 THEN CheckpointAndEnqueue(s, f, eng, j)
                      ELSE ParkApproval(s, f, eng, eng.waiting)
        /\ LeaveCycle(m, s)

(* A wake that folded only context commits without opening a model turn.    *)
FoldOnly(m, s) ==
    /\ cycle[m][s].pc = "running"
    /\ cycle[m][s].foldOnly
    /\ EndTurn(m, s, cycle[m][s].eng, cycle[m][s].pend)
    /\ UNCHANGED <<client, worker, cut, budget>>

(* An interrupt seen at the opening boundary ends the turn before it        *)
(* resolves the stashed completions.                                        *)
Interrupt(m, s) ==
    /\ cycle[m][s].pc = "running"
    /\ ~cycle[m][s].foldOnly
    /\ Spend("interrupt")
    /\ Finish(m, s, cycle[m][s].eng, cycle[m][s].pend)
    /\ UNCHANGED <<client, worker, cut>>

(* Awaited jobs the stashed completions leave open.                         *)
StillWaiting(cy) == cy.eng.waiting \ cy.pend

(* Woken while still waiting: suspend again on what is left.                *)
Resuspend(m, s) ==
    LET cy == cycle[m][s] IN
    /\ cy.pc = "running"
    /\ ~cy.foldOnly
    /\ StillWaiting(cy) # {}
    /\ Suspend(m, s, [cy.eng EXCEPT !.waiting = StillWaiting(cy)])
    /\ UNCHANGED <<client, worker, cut, budget>>

(* The engine that enters the model loop: everything awaited is resolved.   *)
Resumed(cy) ==
    [cy.eng EXCEPT !.waiting = {}, !.epoch = IF cy.pend = {} THEN @ ELSE @ + 1]

RunsModel(cy) == cy.pc = "running" /\ ~cy.foldOnly /\ StillWaiting(cy) = {}

RunToEnd(m, s) ==
    /\ RunsModel(cycle[m][s])
    /\ Finish(m, s, Resumed(cycle[m][s]), {})
    /\ UNCHANGED <<client, worker, cut, budget>>

(* The turn delegates (k = 0) or asks for one or more approvals.            *)
RunToSuspension(m, s) ==
    LET cy == cycle[m][s] IN
    /\ RunsModel(cy)
    /\ cy.eng.epoch < MaxEpoch
    /\ \E ks \in {{0}} \cup {1 .. n : n \in 1 .. MaxApprovals} :
          Suspend(m, s, [Resumed(cy) EXCEPT
              !.waiting = {[epoch |-> cy.eng.epoch + 1, k |-> k] : k \in ks},
              !.epoch   = @ + 1])
    /\ UNCHANGED <<client, worker, cut, budget>>

(* Whatever the turn ended in, the commit meets a newer fence.              *)
Fenced(m, s) ==
    /\ cycle[m][s].pc = "running"
    /\ ~CheckFence(s, cycle[m][s].fence)
    /\ LeaveCycle(m, s)
    /\ UNCHANGED <<storeVars, client, worker, cut, budget>>

(* Any other error of the store, the snapshot codec or the engine ends the  *)
(* cycle without a commit, and the scan pass that caused it with it.        *)
Fail(m, s) ==
    /\ cycle[m][s].pc \in {"reserved", "leased", "running", "again"}
    /\ Spend("fail")
    /\ cycle'  = [cycle EXCEPT ![m][s] = Exiting(@)]
    /\ caller' = IF cycle[m][s].waiter = "scanner"
                 THEN [caller EXCEPT ![m]["scanner"].todo = {}]
                 ELSE caller
    /\ UNCHANGED <<storeVars, client, worker, cut>>

-----------------------------------------------------------------------------
(* linger_wait and the end of the cycle.                                    *)

LingerRegister(m, s) ==
    /\ cycle[m][s].pc = "register"
    /\ cycle' = [cycle EXCEPT ![m][s].pc = "check"]
    /\ UNCHANGED <<storeVars, caller, client, worker, cut, budget>>

(* The mailbox is registered before the status is read, and removed as soon *)
(* as the wait is decided.                                                  *)
LingerCheck(m, s) ==
    /\ cycle[m][s].pc = "check"
    /\ cycle' = IF status[s] = "ready"
                THEN [cycle EXCEPT ![m][s].pc = "recheck", ![m][s].mail = FALSE]
                ELSE [cycle EXCEPT ![m][s].pc = "linger"]
    /\ UNCHANGED <<storeVars, caller, client, worker, cut, budget>>

LingerNotified(m, s) ==
    /\ cycle[m][s].pc = "linger"
    /\ cycle[m][s].mail
    /\ cycle' = [cycle EXCEPT ![m][s].pc = "recheck", ![m][s].mail = FALSE]
    /\ UNCHANGED <<storeVars, caller, client, worker, cut, budget>>

(* The idle timeout, or the shutdown token.                                 *)
LingerTimeout(m, s) ==
    /\ cycle[m][s].pc = "linger"
    /\ LeaveCycle(m, s)
    /\ UNCHANGED <<storeVars, client, worker, cut, budget>>

(* A notified cycle goes on only when the store says there is work.         *)
GoesOn(s) == status[s] = "ready"

LingerRecheck(m, s) ==
    /\ cycle[m][s].pc = "recheck"
    /\ cycle' = [cycle EXCEPT ![m][s] = IF GoesOn(s) THEN [@ EXCEPT !.pc = "again"]
                                                    ELSE Exiting(@)]
    /\ UNCHANGED <<storeVars, caller, client, worker, cut, budget>>

(* The slot guard drops before the waiting caller hears of the result.      *)
DropSlot(m, s) ==
    /\ cycle[m][s].pc = "exiting"
    /\ cycle'  = [cycle EXCEPT ![m][s] = Vacant]
    /\ caller' = Release(m, cycle[m][s].waiter)
    /\ UNCHANGED <<storeVars, client, worker, cut, budget>>

-----------------------------------------------------------------------------
(* run_workers: pop a job, record its completion, publish the wake.         *)

WorkerPop(m, s, j) ==
    /\ worker[m].pc = "idle"
    /\ DequeueJob(s, j)
    /\ worker' = [worker EXCEPT ![m] = [pc |-> "record", s |-> s, j |-> j]]
    /\ UNCHANGED <<cycle, caller, client, cut, budget>>

WorkerRecord(m, s) ==
    /\ worker[m].pc = "record"
    /\ worker[m].s = s
    /\ RecordCompletion(s, worker[m].j)
    /\ worker' = [worker EXCEPT ![m].pc = "publish"]
    /\ UNCHANGED <<cycle, caller, client, cut, budget>>

WorkerPublish(m, s) ==
    /\ worker[m].pc = "publish"
    /\ worker[m].s = s
    /\ EnqueueWake(s)
    /\ worker' = [worker EXCEPT ![m] = IdleWorker]
    /\ UNCHANGED <<cycle, caller, client, cut, budget>>

-----------------------------------------------------------------------------
(* A process dies: its directory, tasks and mailboxes are gone.             *)

LoseProcess(m) ==
    /\ Spend("crash")
    /\ cycle'  = [cycle  EXCEPT ![m] = [s \in Session |-> Vacant]]
    /\ caller' = [caller EXCEPT ![m] = [c \in Caller |-> IdleCaller]]
    /\ client' = [client EXCEPT ![m] = IdleClient]
    /\ worker' = [worker EXCEPT ![m] = IdleWorker]
    /\ UNCHANGED cut

Crash(m) == LoseProcess(m) /\ UNCHANGED storeVars

(* ... between the two statements of record_completion_and_wake.            *)
CrashInRecord(m, s) ==
    /\ worker[m].pc = "record"
    /\ worker[m].s = s
    /\ RecordCompletionOnly(s, worker[m].j)
    /\ LoseProcess(m)

-----------------------------------------------------------------------------
Producer(s) ==
    \/ Create(s)
    \/ Edit(s)
    \/ Prune(s)
    \/ LeaseElsewhere(s)
    \/ \E j \in parked[s] : Answer(s, j)

Wake(m, s) ==
    \/ Assign(m, s)
    \/ DispatchWake(m, s)
    \/ ScanNext(m, s)
    \/ \E c \in Caller : Reserve(m, c, s) \/ Absorb(m, c, s)

Turn(m, s) ==
    \/ Lease(m, s)
    \/ Activate(m, s)
    \/ Load(m, s)
    \/ FoldOnly(m, s)
    \/ Interrupt(m, s)
    \/ Resuspend(m, s)
    \/ RunToEnd(m, s)
    \/ RunToSuspension(m, s)
    \/ Fenced(m, s)
    \/ Fail(m, s)
    \/ DropSlot(m, s)

LingerStep(m, s) ==
    \/ LingerRegister(m, s)
    \/ LingerCheck(m, s)
    \/ LingerNotified(m, s)
    \/ LingerTimeout(m, s)
    \/ LingerRecheck(m, s)

Work(m, s) ==
    \/ SubmitAppend(m, s)
    \/ SubmitRetry(m, s)
    \/ SubmitReopen(m, s)
    \/ SubmitWake(m, s)
    \/ \E j \in {p[2] : p \in jobOutbox} : WorkerPop(m, s, j)
    \/ WorkerRecord(m, s)
    \/ WorkerPublish(m, s)
    \/ CrashInRecord(m, s)

Next ==
    \/ \E s \in Session : Producer(s)
    \/ \E m \in Manager, s \in Session :
          Wake(m, s) \/ Turn(m, s) \/ LingerStep(m, s) \/ Work(m, s)
    \/ \E m \in Manager :
          Crash(m) \/ ScanResumable(m) \/ \E c \in Caller : CheckStatus(m, c)

Spec == Init /\ [][Next]_vars

(* The fairness of the runtime: every resident service keeps ticking, every *)
(* spawned task keeps being polled, and a model turn ends (a failing        *)
(* provider ends it too).  Nothing is assumed of clients, operators, or     *)
(* environment events.                                                      *)
TurnEnds(m, s) ==
    \/ FoldOnly(m, s)
    \/ Resuspend(m, s)
    \/ RunToEnd(m, s)
    \/ RunToSuspension(m, s)
    \/ Fenced(m, s)

Fairness ==
    /\ \A m \in Manager : WF_vars(ScanResumable(m))
    /\ \A m \in Manager, c \in Caller : WF_vars(CheckStatus(m, c))
    /\ \A m \in Manager, s \in Session :
          /\ WF_vars(DispatchWake(m, s))
          /\ WF_vars(ScanNext(m, s))
          /\ \A c \in Caller : WF_vars(Reserve(m, c, s) \/ Absorb(m, c, s))
          /\ WF_vars(Lease(m, s))
          /\ WF_vars(Load(m, s))
          /\ WF_vars(TurnEnds(m, s))
          /\ WF_vars(DropSlot(m, s))
          /\ WF_vars(LingerStep(m, s))

FairSpec == Spec /\ Fairness

-----------------------------------------------------------------------------
(* Safety.                                                                  *)

Live(m, s) == cycle[m][s].pc \in {"leased", "running"}

(* No two incarnations, of any process or handed over by a peer, ever hold  *)
(* the same lease of a session: acquire_activation_lease is the only mint.  *)
LeaseUnique ==
    \A s \in Session :
        /\ \A m, n \in Manager :
              Live(m, s) /\ Live(n, s) /\ m # n => cycle[m][s].fence # cycle[n][s].fence
        /\ \A m \in Manager :
              Live(m, s) /\ cut[s] # 0 => cycle[m][s].fence # cut[s]

(* An incarnation whose commit would still be accepted was hydrated from    *)
(* the row it is about to replace: the same turn (so its journal seal names *)
(* the open segment), the same awaited jobs and epoch, and a conversation   *)
(* that extends the stored one.                                             *)
CommitsFresh ==
    \A m \in Manager, s \in Session :
        cycle[m][s].pc = "running" /\ cycle[m][s].fence = fence[s] =>
            /\ cycle[m][s].turn = turnSeq[s]
            /\ cycle[m][s].eng.waiting = snap[s].waiting
            /\ cycle[m][s].eng.epoch = snap[s].epoch
            /\ cycle[m][s].eng.cursor >= snap[s].cursor
            /\ snap[s].conv \subseteq cycle[m][s].eng.conv

(* A log that names each splice up to the cursor exactly once.              *)
ExactLog(conv, cursor) ==
    /\ {p[1] : p \in conv} = 1 .. cursor
    /\ \A p, q \in conv : p[1] = q[1] => p = q

(* Whatever crashes, fencing and re-claiming happened, the stored           *)
(* conversation holds every splice up to the cursor exactly once, and the   *)
(* consumed rows are exactly that prefix: none is lost, none folded twice.  *)
ExactlyOnce ==
    \A s \in Session :
        /\ ExactLog(snap[s].conv, snap[s].cursor)
        /\ \A i \in 1 .. lastSeq[s] :
              Settled(inbox[s][i]) <=> i <= snap[s].cursor

(* Idle means no runnable work: neither the scanner nor a wake looks at an  *)
(* Idle session, so a splice left in one would never be folded.             *)
NoStrandedIdle ==
    \A s \in Session : status[s] = "idle" => Unconsumed(inbox[s]) = {}

(* A settled session keeps no input that a client submitted: the wire rail  *)
(* reopens the session after the splice is in.                              *)
NoStrandedCompleted ==
    \A s \in Session :
        status[s] = "completed" /\ (\A m \in Manager : client[m].s # s) =>
            Unconsumed(inbox[s]) = {}

(* Reserving the slot before taking the lease keeps a process from fencing  *)
(* its own in-flight incarnation, however many wakes race.  (One process,   *)
(* no lease taken elsewhere.)                                               *)
NoSelfFencing ==
    \A m \in Manager, s \in Session : Live(m, s) => cycle[m][s].fence = fence[s]

(* An approval the stored snapshot waits for is either still open for the   *)
(* operator or recorded as a completion that will resume the session.       *)
AwaitedApprovalAccounted ==
    \A s \in Session : \A j \in snap[s].waiting :
        j.k > 0 => j \in (parked[s] \ answered[s]) \cup completions[s]

(* An edit of the stored snapshot (swap_snapshot_if_dormant) is never       *)
(* overwritten by the commit of an incarnation that did not see it.         *)
EditSurvives == [][\A s \in Session : snap'[s].edits >= snap[s].edits]_vars

-----------------------------------------------------------------------------
(* Liveness, under FairSpec.                                                *)

(* Waiting for a job or an operator that has not answered yet.              *)
Awaiting(s) == status[s] = "suspended" /\ completions[s] \cap snap[s].waiting = {}

(* An accepted input is folded, through crashes, failed turns and wakes     *)
(* lost or absorbed, unless the session waits for someone else.             *)
InputEventuallyFolded ==
    \A s \in Interactive : \A i \in 1 .. MaxSplices :
        (i \in Unconsumed(inbox[s])) ~> (i \notin Unconsumed(inbox[s]) \/ Awaiting(s))

(* A completion the snapshot waits for, once recorded, resumes the session. *)
CompletionApplied ==
    \A s \in Session :
        (completions[s] \cap snap[s].waiting # {}) ~> (completions[s] \cap snap[s].waiting = {})

(* A runnable session, whoever published it and whatever became of its      *)
(* wake, is run to a commit that leaves it terminal, quiescent or waiting.  *)
RunnableSettles ==
    \A s \in Session :
        (status[s] = "ready") ~> (status[s] \in {"completed", "idle", "suspended"})

-----------------------------------------------------------------------------
(* What the store promises its producers, and the mapping under which the   *)
(* substrate implements it.                                                 *)
Inbox == INSTANCE DurableInbox WITH
            Token    <- 1 .. MaxFence,
            accepted <- lastSeq,
            folded   <- [s \in Session |-> snap[s].cursor],
            log      <- [s \in Session |-> snap[s].conv]

(* Every step of every process is an append, a fold of the next splices by  *)
(* one incarnation, or invisible.                                           *)
ImplementsInbox == Inbox!Spec
-----------------------------------------------------------------------------
(* The inductive invariant behind the safety properties.  Its parts speak   *)
(* of the values of one session and one slot, so that a step which leaves   *)
(* those values alone trivially keeps them.                                 *)

(* Rows, cursor and log of a session agree, and Idle has nothing pending.   *)
RowsOK(st, fe, sn, n, rows) ==
    /\ sn.cursor <= n
    /\ \A i \in 1 .. n : Settled(rows[i]) <=> i <= sn.cursor
    /\ \A i \in 1 .. n : rows[i].claim = "claimed" => rows[i].by <= fe
    /\ ExactLog(sn.conv, sn.cursor)
    /\ st = "idle" => sn.cursor = n
    /\ st = "absent" => n = 0

(* A live incarnation holds a lease that was handed out.                    *)
HeldOK(cy, fe) == cy.pc \in {"leased", "running"} => cy.fence \in 1 .. fe

(* What folding the splices up to a new cursor adds to a log.               *)
Extended(sn, cursor, f) == sn.conv \cup {<<i, f>> : i \in sn.cursor + 1 .. cursor}

(* An incarnation that can still commit extends the stored snapshot.        *)
EngOK(cy, fe, turn, sn, n) ==
    cy.pc = "running" /\ cy.fence = fe =>
        /\ cy.turn = turn
        /\ cy.eng.waiting = sn.waiting
        /\ cy.eng.epoch = sn.epoch
        /\ cy.eng.cursor \in sn.cursor .. n
        /\ cy.eng.conv = Extended(sn, cy.eng.cursor, fe)

IInv ==
    /\ TypeOK
    /\ LeaseUnique
    /\ \A s \in Session :
          /\ cut[s] <= fence[s]
          /\ fence[s] <= MaxFence
          /\ RowsOK(status[s], fence[s], snap[s], lastSeq[s], inbox[s])
    /\ \A m \in Manager, s \in Session :
          /\ HeldOK(cycle[m][s], fence[s])
          /\ EngOK(cycle[m][s], fence[s], turnSeq[s], snap[s], lastSeq[s])
=============================================================================
