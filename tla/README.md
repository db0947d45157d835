# A TLA+ model of the daemon node

This directory specifies the parts of `daemon` whose correctness depends on the order of events:

* the durable session substrate: the session store, the activation manager that runs sessions out
  of it, and the part of the engine that crosses the durable boundary;
* the services built on it: durable delegation, the cron scheduler, the supervisor, the registry
  of background processes;
* the coordinator of a VHC training run.

TLC checks them on small instances; TLAPS proves all but one of the safety properties for every value
of the constants, those that fail under the condition that excludes what breaks them.

## 1. Inventory

`daemon` runs agents durably. A *session* is a row of a SQLite database: a status, a fence, a
turn counter and an engine snapshot. Everything that must survive a crash is in that database;
everything else can be rebuilt from it.

| Part | State | Operations | Interacts with |
|---|---|---|---|
| Session store (`daemon-store`) | session rows, splice inbox, completion inbox, approvals, wake and job outboxes, delegation and notice edges, cron tables | one transaction per method of `SessionStore` | called by all the others |
| Activation manager (`daemon-activation`) | slot directory, linger mailboxes, one task per active session | `wake`, `activate`, `dispatch_wakes`, `scan_once`, `run_workers` | store, incarnation, services |
| Engine incarnation (`daemon-host/engine_incarnation.rs`) | a hydrated engine | `hydrate`, `run`, `checkpoint` | activation manager, engine |
| Turn engine (`daemon-core`) | conversation, awaited jobs, epoch, stashed completions | `apply_completions`, `run_turn` | providers, tools |
| Node API (`daemon-host/node_api*`) | none of its own | submit, inject, assign, fingerprint revoke, approvals, rewind | store |
| Cut transport (`cut.rs`) | connections to remote substrates | store proxy, `activate_under` | store, activation manager |
| Orchestrate tool, fleet workers (`daemon-node/fleet`) | a popped job or notice in hand | `spawn`, `send`, `process_jobs_once`, `drain_once` | store, activation manager |
| Cron (`daemon-node/src/cron`, `daemon-host/src/cron.rs`) | a clone of the job in hand | `tick_once`, `fire_now`, create, update, pause, delete | store |
| Supervisor (`daemon-host/supervisor.rs`) | restart times, health | start, restart with backoff, meltdown, drain | all resident services |
| Process registry (`daemon-processes`) | table of running and finished processes, waiter counts | `spawn`, reader thread, `poll`, `wait`, `kill`, prune | tools, owner's inbox |
| VHC coordinator (`daemon-vhc-sdk-consensus`) | `CoordinatorState` | `tick(state, input)` | peers and operator, by signed frames |
| Journal, credentials, orchestration runtime | own tables | | store |
| Adapters, providers, memory, tools, coprocessors, contracts, other VHC crates | protocol, tensor or text state | | node API, engine |

**What is hard here.** Every handler is a sequence of store transactions or critical sections with
other tasks in between: the resident services, API calls, a lingering cycle, reader threads and,
over the cut, other processes act on one session at once. The process may die between any two
transactions. A wake is only a hint and may be lost or absorbed. Workers delete an outbox row before
they act on it. Cron writes back clones it read earlier. The coordinator meets frames in any order,
duplicated, late or never. `PROJECT.json` lists the hazards at the lines where they bite.

**What makes each part correct.**

* store: leases are unique; a superseded incarnation commits nothing; an input is folded exactly
  once and in order; Idle means no pending input;
* activation manager: a process never fences itself; every runnable session eventually settles;
* incarnation and engine: an awaited completion is neither dropped nor applied twice; an edit of
  the snapshot is not overwritten by an engine that has not seen it;
* node API: an accepted input reaches its session;
* delegation: a completed child has answered its parent; a notice arrives at most once; no parent
  waits for ever;
* cron: an occurrence fires once, the repeat cap holds, a due job is served;
* supervisor: no restart storm, honest health, a shutdown that drains;
* process registry: one verdict per process, every exit reported, finished entries evicted before the
  table grows, waits that end;
* VHC coordinator: rounds tile the data, one record each, a frozen roster, a run that finishes.

## 2. Modules

| Module | Content |
|---|---|
| `SessionStore` | the tables and one operator per store transaction, after `sqlite.rs` |
| `Activation` | extends it with the processes: producers, wake callers, cycles, linger, workers, crashes; the specification, its properties and the inductive invariant `IInv` |
| `DurableInbox` | the abstract promise: inputs are accepted in order and folded in order, each once, by one incarnation |
| `Delegation` | joining and detached children, the job worker, the notice worker, client messages, rewind, interrupts, crashes |
| `Cron` | one cron job: ticker, manual trigger, editor, failing calls, clock, crash |
| `Supervisor` | one-for-one supervision of the resident services |
| `Processes` | the background-process registry |
| `VhcCoordinator` | the coordinator's `tick` and its environment |
| `RoundLog` | the abstract promise of a run: rounds opened one at a time over consecutive data by an announced team, each closed by one sound record or given up and reopened |
| `MCActivation` | the environment budgets and the symmetry of the substrate's runs |
| `MCNode` | `Delegation`, `Cron`, `Supervisor` and `Processes` in one instance |
| `MCVhc` | the instances of the coordinator |
| `StoreProofs` | lemmas on the splice rows |
| `ActivationProofs` | type correctness of the substrate |
| `ExactlyOnceProofs` | its inductive invariant, the safety theorems and the refinement |
| `ProcessProofs` | the registry's inductive invariant and its theorems |
| `DelegationProofs`, `CronProofs`, `SupervisorProofs`, `VhcProofs` | the same for delegation, cron, the supervisor and the coordinator |

`SessionStore` and `Activation` are one specification. The four parts of `MCNode` share no state, so
a behaviour of that module runs one of them, chosen at the start (`part`), and leaves the others
untouched; its states are the sum of theirs, not the product. `Delegation` repeats the few columns of
the store that it needs and takes from `Activation` what that module establishes: a session runs in
at most one incarnation whose commit counts.

### The store

Each variable of `SessionStore` is a column or a table. A splice row is `pending`, `claimed` by a
fence, `consumed` by a turn, or `pruned` (deleted; the sequence counter remembers it). A snapshot
keeps the splice cursor, the awaited jobs, the epoch, a count of operator edits, and `conv`: the
set of pairs (splice, fence of the incarnation that folded it). `conv` is what lets
`ExactlyOnce` tell a lost splice from one folded twice. A completion or job is named by the epoch
of the turn that suspends and an ordinal, as `DelegateResolver` names it; ordinal 0 is the
delegated job, the others are approvals.

The in-memory backend writes its fence test as `check_fence`; SQLite repeats the comparison in
each fenced commit. `CheckFence` is that comparison. `load_for_activation` has no fence test, in
the code and in the model. `record_completion_and_wake` runs two statements outside a
transaction under one lock: other tasks see both or neither, a crash may see only the first
(`CrashInRecord`).

### Activation

`wake` is four steps of the calling task: `CheckStatus`, then `Reserve` or `Absorb`, then
`Lease`, after which the caller waits until the first turn is decided or the slot is free. There
are three callers: the wake dispatcher, the recovery scanner and the API's `assign`. A cycle is
indexed by process and session; its `pc` is the place in `run_cycle`:

    reserved -> leased -> running -> exiting -> none
                             |-> again  -> leased                    (committed Ready)
                             |-> register -> check -> linger -> ...  (committed Idle)

`Load` is `load_for_activation` followed by `hydrate`: no other task can observe the point
between them, as hydrate touches only the incarnation. From `running` a turn takes one of the
commits: `FoldOnly`, `Interrupt`, `Resuspend`, `RunToEnd`, `RunToSuspension`, or meets a newer
fence (`Fenced`) or another error (`Fail`). A turn commit with lingering configured goes on
resident; `linger_wait` is modelled step by step (register the mailbox, read the status, wait,
remove the mailbox, read the status again) because its races are the point. `DropSlot` releases
the slot before the waiting caller, as `run_reserved` does.

Inputs come over the rails in `Rails`: the wire rail appends, reopens a settled session and
publishes a wake in three transactions; the host rail appends and publishes. The wire and host
rails mint an op per call, so `SubmitRetry` is a producer that keeps its op, which the contract of
`append_splice` allows for. `LeaseElsewhere` and `Activate` are a peer that acquires the lease
over the cut and has this process run under it. `Crash` loses all but the store.

### Delegation

A session id is its path from the root, as the code forms it: `c` and the epoch for a joining child,
`d` and a counter for a detached one, which is why a re-enqueued job meets the child it created
before. A session record holds its status, the jobs it waits for, its completion rows and its inbox.
`DelTurn` is a turn between the calls of the orchestrate tool: `SpawnJoining` suspends on the job,
`SpawnDetached` enqueues the job and `BindNotice` writes the notice edge in a later transaction,
`SendToChild` appends to a child and `WakeSentTo` wakes it. A turn ends in `CommitRoot` (`commit_turn` of
the interactive root) or `Complete` (`mark_completed` with both of its branches). `DelInterrupt` ends it
at the opening boundary (`engine.rs:1158`), before the loaded completions are looked at: the session is
committed still waiting, and for those completions nothing will wake it again, because `commit_turn`
deletes their rows and `mark_completed` settles the session. The history variable `severed` holds these
waits.

A client's message is three steps (append, reopen, wake). The two workers move by store call: pop (the
row is deleted), create or inject, wake; `JobFails` and `InjectFails` are errors in the middle, `DelCrash`
loses what they hold. `Rewind` is the durable rewind of a session that is not Active: it bumps the epoch
and drops the wait, so that late completions meet a parent that no longer waits for them.

Left out: the extra cap on ephemeral children and the reaper that deletes them, engine construction,
the text of notices, and fences, leases and lingering.

### Cron

Every writer of the job (`tick_once`, `fire_now`, pause and update) reads a clone, makes several store
calls and writes the clone back; a step of the model is one such call, so the lost updates of the code
are lost updates of the model. `update` replaces the spec, and a stale clone restores the old one. Any
call may fail (`Call`): the reads then return nothing, the writes have no effect and their errors are
ignored, `cron_remove` may have deleted the job but not its runs, and `fire` returns early when the
session cannot be created. An occurrence is fired by seeding a session named by the second, appending
the run and writing the job. A one-shot is armed while its instant is ahead, also by resume and update.
The sessions run on their own: they start, suspend for an operator or a job, resume and end; Active and
Suspended count as in flight, Ready does not.

Two history variables carry the properties. `fired` has the fires on schedule, each with the occurrence
it serves, the second that names its session and the cap it ran under. `mishaps` has the kinds of event
the scheduler is not proof against: a fire whose clone was not written back, a tick that fired and ended
before its last write, two writers under way at once, a cap replaced by an update.

Left out: scripts without an agent, output capture, delivery, jitter, the bookkeeping of the last run,
suggestions, and schedules that do not parse. Several jobs do not interact except through the tick's
order.

### Supervisor

One record per child: sleeping before a start, running, or stopped; `restart_times` (a set, as only
ages and number of its entries matter, each entry with the number of the restart it stamps); the
lifetime restart count; the health. `ServiceEnds` is the whole of the loop body after the service returns:
policy, window, meltdown, backoff. The clock stands still after a cancellation, so `ShutdownDrains`
shows that a drain needs no time; `starts` is a history of start times.

### Processes

A step is one critical section of the registry. `mark_exited` is four of them (the verdict, the
move from running to finished, the test of the consumed marker, the test of the waiters with the
notification), and any caller may be inside it: the reader thread at end of file, a kill, or the
reconciliation that polls and waits do once the child is gone and the grace is over. `spawn` starts
the reader before it enters the process in the table, so `Register` is a step of its own. `fate` and
`seen` are history variables that say how the owner was informed. Time is abstract: the grace, the watch window and the retention end at some moment.

Left out: output and its ring buffer, stdin, listing, failed spawns, adoption, `kill_all`, and the
global breaker, which only thins watch matches out.

### The VHC coordinator

`tick` is a pure function, and the handlers are operators from a state to the set of states it may
return: a singleton but for the seeded choice of a witness committee. An action picks an input and
applies its handler and, for a clock reading, the phase logic. The environment is arbitrary: any peer's
frame may arrive at any time, any number of times, or not at all; the budgets bound how often the
expensive ones do. An attestation declares a root and may carry a set of entries inline, which need not
match: `commit.rs` recomputes the root of the inline set, and so do `Covering` and `Agreeing`. The clock is the time since the phase began, told apart up to the phase's
timeout (`PhaseLimit`), and a member's silence up to the window after which it is dropped. `opened`,
`recorded` and `readied` are history variables.

`ImplementsRoundLog` maps this to `RoundLog`: its round and cursor are the coordinator's, its team the
trainers of the slot while a round is active and nobody otherwise, its announcements and log the
histories. `RoundLog` has no phases, clock, evidence or membership, so the refinement says what a peer
that only hears of opens and records may rely on: a record names the open round, holds at most one
entry of a peer, all of the announced team, drops nobody it has an entry of, and the team of a round
opened directly after it is exactly that team without the dropped. That no round is ever recorded
twice (`RecordUnique`) is a consequence.

Left out, because `tick` never reads them back: digests and the desync flag, the checkpoint ledger,
`last_seen_round`, the epoch numbers. Frames reach the handlers authenticated and of the run's
version.

### What else is abstracted

* Payloads and the conversation text; whether a turn suspends, ends or fails is a free choice.
  `Steer` and `StartTurn` inputs are one kind (both open a turn); `Observe` is kept.
* Approvals that an attached client answers on the hub during the turn: the turn then simply does
  not suspend. An interrupt needs an attached hub; it is modelled where it has its own effect, at
  the opening boundary. A later interrupt ends the turn like `RunToEnd`.
* Journal content; the seal is represented by the turn it was computed for (`CommitTurn` requires
  it to be the open one, `CommitsFresh` shows the requirement never blocks).
* The resident engine is also rebuilt when the profile inputs changed. It is rebuilt from the same
  snapshot, which differs from a reuse only in stashed completions.
* The `scheduled_job` flag of cron sessions, which only turns off fold-only commits.
* In `Activation`, `run_workers` is the worker modelled; the fleet worker is `Delegation`'s.
  `passivate` (no caller in the repository) is left out.
* In `Activation`, `Edit` stands for `fingerprint_revoke`.
* Retention: `Prune` may delete any consumed prefix at any time.

## 3. Runs

Deadlock checking is off: with all inputs handled the system is quiescent until a client acts, a
stopped service stays stopped, and a bounded clock ends.

| Run | Module | Instance | Distinct states | Checks |
|---|---|---|---|---|
| `one_process` | `MCActivation` | 1 session, linger, 3 leases; either faults (2 inputs, one context-only, 1 approval, a job, two of a crash, a failure and a resend) or callers (2 assigns, an input over either rail, an edit, a failure) | 2.49 M | `TypeOK`, `ExactlyOnce`, `NoStrandedIdle`, `AwaitedApprovalAccounted`, `NoSelfFencing`, `EditSurvives`, `ImplementsInbox` |
| `rivals` | `MCActivation` | 2 processes, 1 session, 2 inputs, 3 leases, 1 of them foreign, or an interrupt; symmetric in processes and inputs | 2.38 M | `LeaseUnique`, `CommitsFresh`, `ExactlyOnce` |
| `progress` | `MCActivation` | an interactive or a background session, approval and job, linger, a crash or a failure, fair | 159 k | `InputEventuallyFolded`, `CompletionApplied`, `RunnableSettles` |
| `node` | `MCNode` | the four services, below, fair | 223 k | delegation: `DelTypeOK`, `JoinAccounted`, `NoticeAtMostOnce`, `JoinsResolve`; cron: `CronTypeOK`, `OnceUnlessLost`, `CapUnlessLost`, `DueServed`; supervisor: `SupTypeOK`, `RestartsBounded`, `HealthHonest`, `ShutdownDrains`; registry: `ProcTypeOK`, `ExitAccounted`, `EvictsFirst`, `VerdictStands`, `WaitEnds` |
| `vhc` | `MCVhc` | 3 peers, 2 seats, floor 1, 3 rounds in epochs of 2, a ring of 2, fair | 293 k | `VhcTypeOK`, `SeatsBounded`, `RosterFrozen`, `WindowsTile`, `ReplayGapFree`, `WarmupHonest`, `RunFinishes`, `ImplementsRoundLog` |

Every action and every disjunct fires in at least one of them.

**Bounds of the substrate.** `MaxFence` bounds leases, `MaxSplices` inputs, `MaxEpoch` suspensions and
`Budget` each environment event. Two inputs are the least for which order and prefix matter; three
leases let an incarnation be superseded twice. The state constraints of `one_process` and `rivals` keep
the two environments of each apart; `one_process` has no interrupt, which breaks
`AwaitedApprovalAccounted` (`lost_completion`). In `progress` a session that met the bound on leases
(`MaxFence`, 12) would stay Ready for good, which `RunnableSettles` would report: the bound can only
refute the liveness properties, never make them hold. `NoSelfFencing` is stated for one process without
foreign leases, `EditSurvives` in `one_process` for a session to which no completion comes in during a
turn; the run `lost_edit` shows why. The runs have one approval; sessions parked on several are covered
by the theorem `ApprovalsStayAccounted` only.

**Bounds of the node services.** Delegation: nesting to depth 2, fan-out 1, two epochs, one detached
child per parent, and one of four environments (a crash with two spawns; an interrupt with a client
message or with two spawns; a failure, a rewind and a send). Depth 2 is the least at which a waiting
child is itself a parent. Cron: a clock of three ticks and a period of one, one of three specs (an
interval without cap under skip, one with a cap of 1 under queue, a one-shot under allow) that an update
may exchange for another, and one crash, one failing call, one trigger or one edit. Supervisor: one child, of each
policy in turn, two restarts per window of 5, a clock to 8, so that the window slides and the backoff
reaches its cap. Registry: two processes and two concurrent calls over a table of one entry, so that prune,
eviction and every order of kill, poll and wait against the reader occur.

**Bounds of the coordinator.** Three peers for two seats force a staged join; three rounds in epochs of
two pass an epoch boundary and the final cooldown; a ring of two wraps. One kind of rare input per
behaviour (a pause; two attestations; a receipt; a straggler; a ready heartbeat), joins, heartbeats and
commitments without bound.

**Fairness.** In the substrate: each caller's next step, the scanner, the dispatcher per session,
a cycle's lease, load, end of turn, linger and release. The services are interval loops that the
supervisor restarts, tasks are polled by Tokio, and a turn ends because providers time out or
fail. `dequeue_wake` takes rows in order, so no session's row waits forever. `SoloFairSpec` restricts
`progress` to behaviours in which one of the two sessions lives and one fault happens; neither is
caused by a fair action. Two processes are not part of the fair runs: leases have no owner or expiry,
and two scanners that both see Active may take the lease from each other for ever. Delegation: both
workers, scanner, dispatcher and the running turn. Cron: the tick, a trigger that began, and active
sessions, which end or suspend; not the end of a suspension, which is up to an operator, nor the clock.
Supervisor: the clock, and a task whose sleep is over or that was cancelled.
Registry: threads and calls that are under way, and the end of the grace period; not the processes or
their pipes. Coordinator: the clock, the join and the heartbeats of the `Timely` peers, which the
model also takes to be heard within the window after which silence drops a member, and the operator's
`Resume`. Nothing is assumed of clients, operators, models, faults or training anywhere.

### Disagreements between code and its comments

| Run | Property | What happens |
|---|---|---|
| `lost_completion` | `AwaitedApprovalAccounted` | an interrupt at the opening boundary commits a resumed turn before it resolves the completion, whose row is deleted |
| `lost_edit` | `EditSurvives` | a completion flips a running session to Ready, so the snapshot swap passes and is then overwritten |
| `stranded_input` | `NoStrandedCompleted` | a terminal commit settles a session over an input submitted during the last turn |
| `lost_spawn` | `SpawnAccounted` | a crash after `dequeue_job` or `dequeue_completion_notice` loses the job or the notice |
| `lost_exit` | `ExitReported` | a process that exits before it is entered in the table, or during a wait that then gives up, is reported to nobody |
| `pending_applied` | `PendingApplied` | Resume enters WaitingForMembers without seating the joins staged before the pause; a repeated join is answered Admitted and stays unseated |
| `double_fire` | `AtMostOnce` | a crash after the session of a cron occurrence is seeded and before the advanced job is written fires the occurrence again |

`PROJECT.json` quotes the lines. The model exhibits more that has no run of its own:

* `wake` reads the status and leases later, so it may lease a session that went Idle meanwhile
  (`daemon-activation/src/lib.rs:537`); the cost is a turn without input.
* A session parked on its second approval keeps the completion of the first, which neither
  `park_approval` nor the checkpoint deletes: every scan leases it and runs a turn that suspends again.
  Activations are thus not bounded by the work there is.
* A completion that arrives after a rewind still sets the parent Ready: a turn without a cause.
* A parent resumed by its child and interrupted at the opening boundary waits for ever: the case of
  `lost_completion` for delegated jobs, which `JoinAccounted` and `JoinsResolve` except by `severed`.
* `CronSpec::repeat` is "Maximum number of fires before the job auto-deletes"
  (`daemon-api/src/lib.rs:3527`). A manual trigger counts as a fire but does not test the cap, so a job
  with a cap of 1 that is triggered once still fires on schedule; a fire whose tick does not reach its
  last write, a stale clone or an `update` that lowers the cap also let it be passed. `CapUnlessLost`
  states what holds of the fires on schedule.
* The skip policy is said to close "the manual-trigger-vs-tick double-fire race"
  (`daemon-api/src/lib.rs:3458`, `worker.rs:67`). A run that is seeded but not yet started is Ready,
  which is not in flight, so a trigger right after a tick, or the reverse, seeds a second session; and a
  trigger or an edit that writes its older clone back undoes the advance of the tick, which then fires
  the occurrence again. So do two failing `cron_set` calls of one tick, whose errors are ignored, without
  any race; a single one is made good by the tick's last write.
* A cron session that is Ready but has not started counts as settled for the overlap policy, and the
  run of a one-shot job is never reconciled, as its job is gone.
* Two joining spawns in one batch of tool calls share a job id. A crash between `enqueue_detached_job`
  and the bind of the notice edge leaves a child the fan-out cap does not count. A `send` to a child
  that has completed does not reopen it.
* The backoff grows with the lifetime restarts of a service, where its comment speaks of consecutive
  ones, and a service that was degraded once is never reported healthy again.
* A wait that reads the consumed marker before it is counted, and a prune that drops the marker, each
  allow a second notification of an exit. `kill` declares the process killed although the signal may
  be ignored.
* `max_tracked` is "Max concurrently tracked processes, running + finished"
  (`daemon-processes/src/lib.rs:62`). `spawn` refuses nobody and evicts at most one finished entry, so
  running processes, and exited ones left among them by a late registration, take the table past it.
  `EvictsFirst` states what holds.
* `det_state.rs:75` calls the horizon of 16 the minimum span of committed records a coordinator retains
  and re-serves. The open round takes a slot of the ring of that length, so 15 are held while a round is
  open. `ReplayGapFree` says that what is replayed has no gap and ends with the last committed round;
  that the ring holds all but one of its length is part of its proof (`RingOK`).
* A queue-policy cron job whose run is suspended is held back until somebody resumes that run.
* A pause in the Cooldown after the last round, followed by Resume, forms a roster again and opens a
  round beyond the stop: only `exit_cooldown` tests `stop_reached`, `Resume` (`tick.rs:504`) does not.
  `swarm-training-spec.md:656` has Cooldown end in `Finished` when the stop is reached. `StopHeeded`
  states it and fails on an instance of `MCVhc` with a stop of 1 and one pause; section 4 has the
  condition under which it holds.

## 4. Proofs

| Theorem | States |
|---|---|
| `ActivationProofs!TypeCorrect` | `Spec => []TypeOK` |
| `ExactlyOnceProofs!Inductive` | `Spec => []IInv` |
| `LeasesUnique`, `OnlyFreshCommits`, `FoldedExactlyOnce`, `NothingStrandedIdle` | `LeaseUnique`, `CommitsFresh`, `ExactlyOnce`, `NoStrandedIdle` are invariants |
| `InboxImplemented` | `Spec => Inbox!Spec` |
| `NeverFencesItself` | `Alone => (Spec => []NoSelfFencing)`: one process, no lease taken elsewhere |
| `ApprovalsStayAccounted` | `Spec /\ [][CleanInterrupts]_vars => []AwaitedApprovalAccounted` |
| `EditsSurvive` | `Spec /\ [][Undisturbed]_vars => EditSurvives` |
| `NothingStrandedOtherwise` | `Spec /\ [][InputsHeeded]_vars => []NoStrandedCompleted` |
| `ProcessProofs!ProcTypeCorrect` | `ProcSpec => []ProcTypeOK` |
| `ExitsAccounted` | `ExitAccounted` is an invariant |
| `VerdictsStand`, `FullTableEvicts` | `ProcSpec => VerdictStands`, `ProcSpec => EvictsFirst` |
| `ExitsReportedOtherwise` | `ProcSpec /\ [][ListedFirst /\ WaitsLook]_procVars => []ExitReported` |
| `VhcProofs!VhcTypeCorrect`, `SeatsStayBounded`, `RosterStaysFrozen`, `WindowsAlwaysTile`, `RecordsUnique`, `ReplayStaysGapFree` | `VhcTypeOK`, `SeatsBounded`, `RosterFrozen`, `WindowsTile`, `RecordUnique`, `ReplayGapFree` are invariants of `VhcSpec` |
| `WarmupStaysHonest` | `VhcSpec => WarmupHonest` |
| `RunImplemented` | `VhcSpec => ImplementsRoundLog` |
| `PendingAppliedUnlessPaused` | `VhcSpec /\ [][PausesUnstaged]_vhcVars => []PendingApplied` |
| `StopHeededUnlessPaused` | `VhcSpec /\ [][PausesEarly]_vhcVars => []StopHeeded`, for a run of at least one round |
| `SupervisorProofs!SupTypeCorrect`, `HealthStaysHonest`, `RestartsStayBounded` | `SupTypeOK`, `HealthHonest`, `RestartsBounded` are invariants of `SupSpec` |
| `CronProofs!CronTypeCorrect`, `FiresOnceUnlessLost`, `CapHoldsUnlessLost` | `CronTypeOK`, `OnceUnlessLost`, `CapUnlessLost` are invariants of `CronBehaviour` |
| `DelegationProofs!DelTypeCorrect`, `JoinsStayAccounted`, `NoticesStayUnique` | `DelTypeOK`, `JoinAccounted`, `NoticeAtMostOnce` are invariants of `DelSpec` |
| `SpawnsAccountedOtherwise` | `DelSpec /\ [][HoldsOn /\ StaysSettled]_delVars => []SpawnAccounted` |

Assumptions, all evaluated by TLC in each run. Substrate: interactive sessions are sessions,
context-only ops are ops, the bounds and budgets are naturals, the rails are the two known ones,
`Linger` is Boolean. Registry: the limits are naturals and the strike limit is not 0. Delegation: depth,
fan-out and budgets are naturals. Cron: the specs are specs, the period is not 0, the budgets are
naturals. Supervisor: the thresholds and the clock bound are naturals. Coordinator: finitely many peers,
a floor of at least 1 and not above the seats, naturals in the schedule, a ring of at least 2. Nothing
is assumed of the number of sessions, processes, inputs, leases, calls, children or services.

**The substrate: why an inductive invariant.** `ExactlyOnce` speaks of stored rows only. A commit
replaces them by what a running engine holds, so the invariant must say what an engine whose commit
would be accepted holds: `EngOK`, the stored snapshot extended by the splices from the stored cursor up
to its own, folded under its lease. That is preserved because no other incarnation can commit
meanwhile, which needs unique leases (`LeaseUnique`) that were handed out (`HeldOK`, `cut <= fence`);
and it is established by `Load` because the claimable rows above the cursor are all of them, which
needs that claims never carry a fence newer than the row (`RowsOK`). `RowsOK` also carries the Idle
rule.

**How it is laid out.** `StoreProofs` shows what claiming, consuming, appending and pruning do to
a table of rows. The parts of `IInv` are predicates of the values of one session or one slot;
the lemmas `CalmStep`, `QuietStep` and `RowsStep` carry them over steps that leave those values
alone, and `LeaseKeeps`, `ActivateKeeps`, `LoadKeeps` and `CommitKeeps` do the steps that do
not. Each action then has one step, which also shows that it is a step of `DurableInbox` or
stutters: an append is `Accept`, a commit that moves the cursor is `Fold` under the lease of the
committing incarnation, all else is invisible.

**Properties with a condition.** Some properties fail without one: those that the violation runs refute,
`StopHeeded`, `NoSelfFencing`, the cap of a cron job and the join of a delegation. For each there is a
theorem whose hypothesis is an action property (what no step of the behaviour does), a history variable
of such steps (`mishaps`, `severed`) or, for `NoSelfFencing`, a condition on the constants. It names the
steps that break the property; the theorem says that there are no others, for any constants. It is thus
also what a repair has to ensure.

| Property | Holds unless | Run |
|---|---|---|
| `NoSelfFencing` | there is another process or a foreign lease (by design) | |
| `AwaitedApprovalAccounted` | an interrupt ends a turn that holds an undelivered completion | `lost_completion` |
| `EditSurvives` | a completion is recorded while the session is Active | `lost_edit` |
| `NoStrandedCompleted` | an input arrives while an incarnation runs that may settle the session; or goes to a settled session over the rail that does not reopen; or its client dies between append and reopen | `stranded_input` |
| `SpawnAccounted` | a worker lets go of a job or a notice it has popped; or a settled parent is reopened after an announcement it was too settled to hear | `lost_spawn` |
| `ExitReported` | a process exits before it is entered in the table; or a wait leaves an exited process without a look | `lost_exit` |
| `PendingApplied` | a pause finds joins staged | `pending_applied` |
| `StopHeeded` | a pause comes once the stop is reached | |
| `AtMostOnce` (`OnceUnlessLost`) | a crash or a failed write keeps a fire from writing its clone back; or two of tick, trigger and edit overlap | `double_fire` |
| the cap (`CapUnlessLost`) | a tick that fired does not reach its last write; or two writers overlap; or an update replaces the cap | |
| a completed child has answered (`JoinAccounted`) | a turn of the parent is interrupted after it loaded the answer | |

Behaviours that meet the hypotheses reach the states the properties speak of. For `NoStrandedCompleted`
each of the three alternatives alone, with the others excluded, still gives a counterexample.

**The conditional theorems of the substrate.** Two processes fence each other by design, so
`NoSelfFencing` assumes a process alone (`Alone`). An interrupt that ends a turn holding an undelivered
completion loses it, which the run `lost_completion` exhibits; `CleanInterrupts` excludes just those
interrupts. A completion recorded while the session is Active makes it Ready and so editable under a
running engine, which `lost_edit` exhibits; `Undisturbed` excludes just those. Interrupts of other
turns, completions for sessions that are not running, crashes, further processes and foreign leases
remain. `StepKinds` sorts all actions by what they do to a session beyond its rows: nothing but appends,
edits and completions (`Tame`), a lease, an activation, a load, or a commit. Each invariant then has one
step per kind. `SelfInv` adds that no lease is held elsewhere. `AwaitInv` says that approvals are named
after epochs not above the snapshot's, so a turn parks on fresh ones, and that every loaded completion
the engine waits for is stashed until it is delivered. `EditInv` says that the holder of the newest
lease runs an Active session and has seen every edit. `HeedInv` says that a settled session has folded
every splice or a client is about to reopen it, and that an incarnation of a one-shot session that may
commit has folded every splice there is: `Load` claims all of them, and `InputsHeeded` lets no other in
before the commit. TLC checked `AwaitInv` first on a complete instance of 3.6 M states, `EditInv` with
two processes on 5.2 M states, to depth 25, and `HeedInv` with two processes, both rails, a crash, a
failure, an interrupt and a foreign lease on 13.9 M states, to depth 18.

**The registry.** `ExitAccounted` is not inductive: what the notification step decides depends on how
far `mark_exited` has come and on what the table says of the process. `RegistryInv` adds, per process,
that an exit under way or done was declared, that a finished `mark_exited` has decided how the owner is
informed, that silence is kept only where nobody asked, and that a consumed marker means a call showed
the exit (`RowOK`); and per call, that it is about a process of the table (`CallOK`). Both are
predicates of one row or one call, so a step needs an argument only for the row or call it changes,
and for the rows that `Register` prunes. `VerdictStands`
follows from it step by step. `EvictsFirst` is a counting argument of its own: `Register` is the only
step that adds to the table, and with a full table and a finished entry it evicts the oldest one; that
the oldest exists is well-foundedness of `<`, the counting uses the library's facts on cardinality.
`ExitReported` adds to `RegistryInv` that a verdict
finds the process among the running ones, and that a notification suppressed for a wait has a wait that
will show the exit.

**The coordinator.** The handlers are functions of a state, so the core of `VhcInv` is a predicate of a
state (`Good`) and one lemma per handler says that it takes good states to good states and how it moves
round, cursor and ring (`Evolves`: not at all, or the round is closed by a record of its own and the
cursor moves past its window). `RosterFrozen` and `WindowsTile` need the slot tied to the state it was
opened from (`RoundOK`); `ReplayGapFree` needs that the ring keeps the last `NumStored - 1` rounds at
every point and none older than one round more (`RingOK`), and that an open round has a slot to itself
(`SlotFree`): `NumStored` consecutive rounds fall into different slots, and the round `NumStored` above
falls into the same one again (`ModWraps`), so opening a round drops exactly the oldest record. The histories are tied to the state by `RecordsOK`, `OpensOK` and `ReadyOK`; from them
`WarmupHonest` follows as an action property. `RunImplemented` sorts the ticks by `Evolves`: one that
leaves the round alone opens it, gives it up or is invisible (`KeepsLogged`), one that closes it is
`Close` (`MovesLogged`), where the team of a round opened at once is the old one less the dropped
because the roster was frozen. `PendingAppliedUnlessPaused` needs that nobody is staged from the forming
of a roster to the end of its warmup (`NobodyStaged`), `StopHeededUnlessPaused` that a coordinator that
reached the stop is in its last Cooldown or finished (`OverAtStop`).

**The supervisor.** `RestartsBounded` speaks of start times, the code counts end times after pruning.
`ChildOK` relates them: starts are ordered, each restart ended a start and is stamped no earlier than
it, and what was pruned started before the window (`Remembers`). When `BackOff` is taken at most
`MaxRestarts` stamps remain, so of any `MaxRestarts + 1` earlier starts one was pruned, hence
`MaxRestarts + 2` starts span more than a window (`Spread`); the last step is the pigeonhole.

**Cron.** `OnceUnlessLost` speaks of fires only, while what fires next depends on the row and on every
clone that may yet be written. `FreshOK` says that, as long as nothing was lost, each of them is armed
for an instant beyond all occurrences fired so far (`Armed`), except between a fire and the write of its
clone, where only the tick's clone is. It needs that times move on (`TimesOK`) and that two tasks under
way at once are on record (`Apart`). `CapUnlessLost` is the same with counts: `CountOK` says that the
row and each clone count every fire so far and have one left (`Room`), except from a fire to the end of
its tick, where one is behind; a trigger only adds to the count. On small
instances TLC finds the cap passed after each of the four mishaps alone, and an occurrence fired twice
after an overlap alone or after a fire neither of whose two writes took effect.

**Delegation.** `JoinAccounted` asks of a waiting parent that a completed child has left its row, unless
the wait is in `severed`. A
parent waits in its row or in its running incarnation (`Waits`), and an epoch it delegated at is never
used for another job (`EnqueuedOK`, which needs that rewinds and commits only raise it). A child id
names its edge (`JoinsOK`, `ChildrenOK`, `JoinInjective`), so a re-created child is the same child and
its edge the same edge. `NoticeAtMostOnce` counts copies in four places; `PlacesOK` says each comes from
a marked edge, `OnceOK` that no two places hold one, `LiveOK` that an incarnation's view of its inbox is
still the row's, so that its commit moves a notice and does not repeat it. `SpawnAccounted` is the
converse, that nothing is dropped: every enqueued job is in the outbox, in the worker's hand or has its
child (`JobsPlaced`), a completed detached child is marked on its edge (`MarkedOK`), and a marked edge
has its notice somewhere on the way from outbox to parent, or a settled parent (`AnnouncedOK`).

Each of these invariants was checked by TLC before it was proved, on instances larger than those of
the runs where the proof was in doubt (delegation: fan-out 2, three epochs, two detached children, 3.7 M
states; cron: 1.3 M).

**Only model-checked.** All liveness: fairness is out of the prover's reach. So `DueServed`, `JoinsResolve`,
`RunFinishes` and the rest hold of the instances of section 3. In `vhc` the floor is one peer and the
staged ones are seated at the next cooldown, so `RunFinishes` does not depend on the decay of silent
members.

## 5. Not modelled

The repository holds some 376,000 lines, most of them outside the reach of a state-machine model, and
the map covers a small part of them: provider clients and local inference, chat-platform and protocol
adapters, context compression and retrieval (whose outcome is text), wire types and codecs, tools and
skills, tensor and artefact code of VHC, command-line programs and build tasks. They are translation,
I/O and numerics with little control state of their own, and the substrate meets them as free choices:
a turn ends, suspends or fails. `PROJECT.json` lists them with the reason each is left out.

Parts with control state that are still missing, in the order worth doing:

1. Journal: fenced append and seal of a turn's segment, composed with `SessionStore` through the turn
   number; the live rewind through an attached engine, with truncation.
2. The reaper of ephemeral children against a child that is reopened.
3. Delivery and ingest retries of the adapters; leases and revocation of credentials.
4. The VHC peers, so that the coordinator's environment is no longer arbitrary; two coordinators of one
   run across a restart.
