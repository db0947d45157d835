----------------------------- MODULE Delegation -----------------------------
(***************************************************************************)
(* Durable delegation.  A turn of a session spawns children through the    *)
(* orchestrate tool: a joining child suspends its parent on a job, a       *)
(* detached one reports back with a completion notice.  The fleet job      *)
(* worker materialises the jobs, mark_completed of a child fulfils the     *)
(* parent's job or pushes the notice, the notice worker injects the notice *)
(* into the parent.  All of it runs in one process that may crash and then *)
(* keeps only the store.  Leases, fences and linger are Activation's       *)
(* subject; here a session runs in at most one incarnation.  Children are  *)
(* managed ones: the extra cap on ephemeral children does not apply, and   *)
(* at most one client's call is under way.                                 *)
(***************************************************************************)
EXTENDS Integers, Sequences, FiniteSets

CONSTANTS
    MaxDepth,       \* OrchestrateTool::max_depth
    MaxFanout,      \* OrchestrateTool::max_fanout
    MaxEpoch,       \* bound: the last epoch a turn delegates at
    MaxDetached,    \* bound: detached children minted per parent
    DelBudgets      \* bounds: how often each environment event may happen

DelEvent == {"crash", "fail", "rewind", "interrupt", "message", "send", "spawn"}

ASSUME DepthAssumption  == MaxDepth \in Nat /\ MaxFanout \in Nat
ASSUME DelBudgetAssumption == DelBudgets \subseteq [DelEvent -> Nat]

VARIABLES
    sess,           \* session_record with its snapshot, completions and inbox
    jobs,           \* job_outbox, by rowseq
    enqueued,       \* enqueued_jobs
    joins,          \* delegations: child -> the parent's job
    notices,        \* completion_notices: child -> parent, call_id known, notified
    outbox,         \* completion_notice_outbox, by rowseq
    wakeSet,        \* the sessions wake_outbox names
    live,           \* the incarnations running in the process
    jobWorker,      \* FleetJobWorker between two of its transactions
    noticeWorker,   \* NoticeWorker between two of its steps
    submit,         \* a client's enqueue_wire_input between two of its calls
    severed,        \* history: waits whose completion an interrupted turn passed over
    delBudget       \* environment events still allowed

delStore == <<sess, jobs, enqueued, joins, notices, outbox, wakeSet>>
delVars  == <<delStore, live, jobWorker, noticeWorker, submit, severed, delBudget>>

-----------------------------------------------------------------------------
(* A session id is its path from the root: "/c{epoch}" for a joining child, *)
(* "/d{n}" for a detached one.                                              *)
Segment == [kind : {"c", "d"}, n : Nat]
Path    == Seq(Segment)

DelRoot == <<>>

JoinChild(p, e)     == Append(p, [kind |-> "c", n |-> e])
DetachedChild(p, n) == Append(p, [kind |-> "d", n |-> n])

(* What lands in an inbox: a client's or a parent's message, or the notice  *)
(* of a detached child.                                                     *)
Item == [kind : {"message", "send", "notice"}, of : Path]

Message(s)     == [kind |-> "message", of |-> s]
SendFrom(p)    == [kind |-> "send", of |-> p]
NoticeOf(c)    == [kind |-> "notice", of |-> c]

(* minted is detached_seq.n.                                                *)
DelSession == [status  : {"idle", "ready", "active", "suspended", "completed"},
               epoch   : Nat, waiting : SUBSET Nat, comps : SUBSET Nat,
               inbox   : SUBSET Item, heard : SUBSET Item, minted : Nat]

NewSession == [status |-> "ready", epoch |-> 0, waiting |-> {}, comps |-> {},
               inbox |-> {}, heard |-> {}, minted |-> 0]

DelJob == [parent : Path, epoch : Nat, child : Path, detached : BOOLEAN]

(* The decoded snapshot (epoch, waiting, heard) with what the load          *)
(* delivered (comps, items); pc "bind" is between enqueue_detached_job and  *)
(* bind_completion_notice, "sent" between append_splice and enqueue_wake,   *)
(* for the child named.                                                     *)
Incarnation == [pc : {"hydrated", "model", "bind", "sent"}, epoch : Nat,
                waiting : SUBSET Nat, comps : SUBSET Nat, items : SUBSET Item,
                heard : SUBSET Item, child : Path]

NoIncarnation == [pc |-> "hydrated", epoch |-> 0, waiting |-> {}, comps |-> {},
                  items |-> {}, heard |-> {}, child |-> DelRoot]
NoDelJob == [parent |-> DelRoot, epoch |-> 0, child |-> DelRoot, detached |-> FALSE]
IdleJobWorker == [pc |-> "idle", job |-> NoDelJob]

Notice == [parent : Path, child : Path, call : BOOLEAN]
NoNotice == [parent |-> DelRoot, child |-> DelRoot, call |-> FALSE]
IdleNoticeWorker == [pc |-> "idle", notice |-> NoNotice]

Submission == [pc : {"idle", "reopen", "wake"}, to : Path]
NoSubmit == [pc |-> "idle", to |-> DelRoot]

(* Type correctness of the tables and of the workers.                       *)
DelTypeOK ==
    /\ DOMAIN sess \subseteq Path
    /\ sess \in [DOMAIN sess -> DelSession]
    /\ jobs \in Seq(DelJob)
    /\ enqueued \subseteq Path \X Nat
    /\ DOMAIN joins \subseteq Path
    /\ joins \in [DOMAIN joins -> [parent : Path, epoch : Nat]]
    /\ DOMAIN notices \subseteq Path
    /\ notices \in [DOMAIN notices -> [parent : Path, call : BOOLEAN, notified : BOOLEAN]]
    /\ outbox \in Seq(Notice)
    /\ wakeSet \subseteq Path
    /\ DOMAIN live \subseteq DOMAIN sess
    /\ live \in [DOMAIN live -> Incarnation]
    /\ jobWorker \in [pc : {"idle", "create", "wake"}, job : DelJob]
    /\ noticeWorker \in [pc : {"idle", "check", "append", "wake"}, notice : Notice]
    /\ submit \in Submission
    /\ severed \subseteq Path \X Nat
    /\ delBudget \in [DelEvent -> Nat]

DelInit ==
    /\ sess = [s \in {DelRoot} |->
                 [NewSession EXCEPT !.inbox = {Message(DelRoot)}]]
    /\ jobs = <<>>
    /\ enqueued = {}
    /\ joins = [c \in {} |-> NoDelJob]
    /\ notices = [c \in {} |-> NoNotice]
    /\ outbox = <<>>
    /\ wakeSet = {}
    /\ live = [s \in {} |-> NoIncarnation]
    /\ jobWorker = IdleJobWorker
    /\ noticeWorker = IdleNoticeWorker
    /\ submit = NoSubmit
    /\ severed = {}
    /\ delBudget \in DelBudgets

DelSpend(e) == delBudget[e] > 0 /\ delBudget' = [delBudget EXCEPT ![e] = @ - 1]

Has(s, st) == s \in DOMAIN sess /\ sess[s].status = st

(* f with x mapped to v, and with an INSERT OR IGNORE of that row.          *)
With(f, x, v) == [y \in DOMAIN f \cup {x} |-> IF y = x THEN v ELSE f[y]]
OrIgnore(f, x, v) == IF x \in DOMAIN f THEN f ELSE With(f, x, v)
Without(f, x) == [y \in DOMAIN f \ {x} |-> f[y]]

-----------------------------------------------------------------------------
(* The inbox and the clients.                                               *)

(* append_splice: only an Idle session is flipped Ready.                    *)
AppendItem(f, s, item) ==
    [f EXCEPT ![s].inbox  = @ \cup {item},
              ![s].status = IF @ = "idle" THEN "ready" ELSE @]

(* A client writes to any session of the tree (enqueue_wire_input): append, *)
(* reopen the session if it is settled, wake it.                            *)
ClientMessage(s) ==
    /\ submit.pc = "idle"
    /\ DelSpend("message")
    /\ sess' = AppendItem(sess, s, Message(s))
    /\ submit' = [pc |-> "reopen", to |-> s]
    /\ UNCHANGED <<jobs, enqueued, joins, severed, notices, outbox, wakeSet, live, jobWorker,
                   noticeWorker>>

ReopenSettled ==
    /\ submit.pc = "reopen"
    /\ sess' = [sess EXCEPT ![submit.to].status = IF @ = "completed" THEN "ready" ELSE @]
    /\ submit' = [submit EXCEPT !.pc = "wake"]
    /\ UNCHANGED <<jobs, enqueued, joins, severed, notices, outbox, wakeSet, live, jobWorker,
                   noticeWorker, delBudget>>

WakeAddressed ==
    /\ submit.pc = "wake"
    /\ wakeSet' = wakeSet \cup {submit.to}
    /\ submit' = NoSubmit
    /\ UNCHANGED <<sess, jobs, enqueued, joins, severed, notices, outbox, live, jobWorker,
                   noticeWorker, delBudget>>

(* rewind_durable on a session that is not Active: the tail is cut, nothing *)
(* is awaited any more, the epoch moves on; status and rows stay.           *)
Rewind(s) ==
    /\ DelSpend("rewind")
    /\ sess[s].status # "active"
    /\ s # DelRoot \/ sess[s].heard # {}
    /\ sess' = [sess EXCEPT ![s].waiting = {}, ![s].epoch = @ + 1]
    /\ UNCHANGED <<jobs, enqueued, joins, severed, notices, outbox, wakeSet, live, jobWorker,
                   submit, noticeWorker>>

-----------------------------------------------------------------------------
(* Activation: the lease sets Active, the load delivers the completion rows *)
(* and the unconsumed inbox.                                                *)

DelResumable(s) ==
    \/ sess[s].status \in {"ready", "active"}
    \/ sess[s].status = "suspended" /\ sess[s].comps # {}

Hydrate(s) ==
    /\ sess' = [sess EXCEPT ![s].status = "active"]
    /\ live' = With(live, s, [pc |-> "hydrated", epoch |-> sess[s].epoch,
                              waiting |-> sess[s].waiting, comps |-> sess[s].comps,
                              items |-> sess[s].inbox, heard |-> sess[s].heard,
                              child |-> DelRoot])

ScanWake(s) ==
    /\ s \notin DOMAIN live
    /\ DelResumable(s)
    /\ Hydrate(s)
    /\ UNCHANGED <<jobs, enqueued, joins, severed, notices, outbox, wakeSet, jobWorker, submit,
                   noticeWorker, delBudget>>

(* A wake for a running, settled or idle session is dropped.                *)
Dispatch(s) ==
    /\ s \in wakeSet
    /\ wakeSet' = wakeSet \ {s}
    /\ IF s \in DOMAIN sess /\ s \notin DOMAIN live
          /\ sess[s].status \notin {"idle", "completed"}
       THEN Hydrate(s)
       ELSE UNCHANGED <<sess, live>>
    /\ UNCHANGED <<jobs, enqueued, joins, severed, notices, outbox, jobWorker, submit,
                   noticeWorker, delBudget>>

-----------------------------------------------------------------------------
(* The turn.  apply_completions keeps only awaited completions; a session   *)
(* that still waits suspends again, every other one enters the model loop.  *)

(* Mutant: completions are dropped.                                         *)
AppliedNone(s) == {}

Applied(s) == live[s].comps \cap live[s].waiting

(* A resumed turn has moved the epoch on before the model is called.        *)
(* Mutant: the epoch is counted from one less.                              *)
EpochBehind(s) == live[s].epoch - 1

EpochIn(s) == IF Applied(s) = {} THEN live[s].epoch ELSE live[s].epoch + 1

(* The row a commit writes: the incarnation's snapshot with the loaded      *)
(* items folded, suspended on the jobs given or no longer waiting.          *)
Captured(s, st, waiting, epoch) ==
    [sess[s] EXCEPT !.status = st, !.waiting = waiting, !.epoch = epoch,
                    !.inbox  = @ \ live[s].items,
                    !.heard  = live[s].heard \cup live[s].items]

(* checkpoint_and_enqueue: enqueued_jobs drops a job enqueued before.       *)
Enqueue(p, e) ==
    /\ enqueued' = enqueued \cup {<<p, e>>}
    /\ jobs' = IF <<p, e>> \in enqueued THEN jobs
               ELSE Append(jobs, [parent |-> p, epoch |-> e, child |-> JoinChild(p, e),
                                  detached |-> FALSE])

StaySuspended(s) ==
    /\ live[s].pc = "hydrated"
    /\ Applied(s) = {}
    /\ \E e \in live[s].waiting :
          /\ sess' = [sess EXCEPT ![s] =
                        Captured(s, "suspended", live[s].waiting, live[s].epoch)]
          /\ Enqueue(s, e)
    /\ live' = Without(live, s)
    /\ UNCHANGED <<joins, severed, notices, outbox, wakeSet, jobWorker, submit, noticeWorker,
                   delBudget>>

EnterModel(s) ==
    /\ live[s].pc = "hydrated"
    /\ Applied(s) # {} \/ live[s].waiting = {}
    /\ live' = [live EXCEPT ![s].pc = "model"]
    /\ UNCHANGED <<delStore, severed, jobWorker, submit, noticeWorker, delBudget>>

(* spawn with wait: the turn suspends on the job of the next epoch.         *)
SpawnJoining(s) ==
    LET e == EpochIn(s) + 1 IN
    /\ live[s].pc = "model"
    /\ Len(s) < MaxDepth
    /\ e <= MaxEpoch
    /\ DelSpend("spawn")
    /\ sess' = [sess EXCEPT ![s] = Captured(s, "suspended", {e}, e)]
    /\ Enqueue(s, e)
    /\ live' = Without(live, s)
    /\ UNCHANGED <<joins, severed, notices, outbox, wakeSet, jobWorker, submit, noticeWorker>>

(* active_child_count: the children with an edge that have not completed.   *)
Children(p) == {c \in DOMAIN joins : joins[c].parent = p}
                 \cup {c \in DOMAIN notices : notices[c].parent = p}

ActiveChildren(p) == {c \in Children(p) : ~Has(c, "completed")}

(* spawn without wait: mint and enqueue in one transaction ...              *)
SpawnDetached(s) ==
    LET n == sess[s].minted + 1 IN
    /\ live[s].pc = "model"
    /\ Len(s) < MaxDepth
    /\ n <= MaxDetached
    /\ DelSpend("spawn")
    /\ Cardinality(ActiveChildren(s)) < MaxFanout
    /\ sess' = [sess EXCEPT ![s].minted = n]
    /\ jobs' = Append(jobs, [parent |-> s, epoch |-> 0, child |-> DetachedChild(s, n),
                             detached |-> TRUE])
    /\ live' = [live EXCEPT ![s].pc = "bind", ![s].child = DetachedChild(s, n)]
    /\ UNCHANGED <<enqueued, joins, severed, notices, outbox, wakeSet, jobWorker, submit,
                   noticeWorker>>

(* ... and bind the edge, with the spawning call, in another.               *)
NoticeEdge(p, call) == [parent |-> p, call |-> call, notified |-> FALSE]

BindNotice(s) ==
    /\ live[s].pc = "bind"
    /\ notices' = OrIgnore(notices, live[s].child, NoticeEdge(s, TRUE))
    /\ live' = [live EXCEPT ![s].pc = "model"]
    /\ UNCHANGED <<sess, jobs, enqueued, joins, severed, outbox, wakeSet, jobWorker, submit,
                   noticeWorker, delBudget>>

OwnsSubtree(p, c) == Len(p) < Len(c) /\ SubSeq(c, 1, Len(p)) = p

(* send: to a descendant that has a row; append, no reopen ...              *)
SendToChild(s, c) ==
    /\ live[s].pc = "model"
    /\ DelSpend("send")
    /\ OwnsSubtree(s, c)
    /\ sess' = AppendItem(sess, c, SendFrom(s))
    /\ live' = [live EXCEPT ![s].pc = "sent", ![s].child = c]
    /\ UNCHANGED <<jobs, enqueued, joins, severed, notices, outbox, wakeSet, jobWorker, submit,
                   noticeWorker>>

(* ... and wake.                                                            *)
WakeSentTo(s) ==
    /\ live[s].pc = "sent"
    /\ wakeSet' = wakeSet \cup {live[s].child}
    /\ live' = [live EXCEPT ![s].pc = "model"]
    /\ UNCHANGED <<sess, jobs, enqueued, joins, severed, notices, outbox, jobWorker, submit,
                   noticeWorker, delBudget>>

-----------------------------------------------------------------------------
(* The end of a turn.                                                       *)

(* commit_turn, of the interactive root: the loaded completion rows go.     *)
CommitTurn(s, waiting, epoch) ==
    LET rest == sess[s].inbox \ live[s].items
        left == sess[s].comps \ live[s].comps
        next == IF rest # {} \/ left # {} THEN "ready" ELSE "idle"
    IN  /\ sess' = [sess EXCEPT ![s] =
                      [Captured(s, next, waiting, epoch) EXCEPT !.comps = left]]
        /\ wakeSet' = IF next = "ready" THEN wakeSet \cup {s} ELSE wakeSet
        /\ live' = Without(live, s)
        /\ UNCHANGED <<jobs, enqueued, joins, notices, outbox, jobWorker, submit, noticeWorker>>

CommitRoot(s) ==
    /\ s = DelRoot
    /\ live[s].pc = "model"
    /\ CommitTurn(s, {}, EpochIn(s))
    /\ UNCHANGED <<severed, delBudget>>

(* mark_completed of a child: one transaction settles it, fulfils the       *)
(* parent's job (a fresh completion row makes the parent Ready, whatever it *)
(* was) and pushes the notice of an edge not yet notified.  Its own         *)
(* completion rows stay.                                                    *)
Settle(s, waiting, epoch) == Captured(s, "completed", waiting, epoch)

Fulfils(s) == s \in DOMAIN joins /\ joins[s].epoch \notin sess[joins[s].parent].comps

(* Mutant: the parent's completion is left to a later transaction.          *)
FulfilNobody(s, waiting, epoch) == [sess EXCEPT ![s] = Settle(s, waiting, epoch)]

Fulfil(s, waiting, epoch) ==
    LET settled == [sess EXCEPT ![s] = Settle(s, waiting, epoch)] IN
    IF ~Fulfils(s) THEN settled
    ELSE [settled EXCEPT ![joins[s].parent].comps  = @ \cup {joins[s].epoch},
                         ![joins[s].parent].status = "ready"]

Notifies(s) == s \in DOMAIN notices /\ ~notices[s].notified

(* Mutant: the edge is not marked as notified.                              *)
MarkNothing(s) == notices

MarkNotified(s) == IF Notifies(s) THEN [notices EXCEPT ![s].notified = TRUE] ELSE notices

MarkCompleted(s, waiting, epoch) ==
    /\ sess' = Fulfil(s, waiting, epoch)
    /\ wakeSet' = IF Fulfils(s) THEN wakeSet \cup {joins[s].parent} ELSE wakeSet
    /\ notices' = MarkNotified(s)
    /\ outbox' = IF Notifies(s)
                 THEN Append(outbox, [parent |-> notices[s].parent, child |-> s,
                                      call |-> notices[s].call])
                 ELSE outbox
    /\ live' = Without(live, s)
    /\ UNCHANGED <<jobs, enqueued, joins, jobWorker, submit, noticeWorker>>

Complete(s) ==
    /\ s # DelRoot
    /\ live[s].pc = "model"
    /\ MarkCompleted(s, {}, EpochIn(s))
    /\ UNCHANGED <<severed, delBudget>>

(* An interrupt seen at the opening boundary ends the turn before it looks  *)
(* at the completions: the session still waits, but nothing will wake it    *)
(* for those that commit_turn deletes or mark_completed leaves behind.      *)
PassedOver(s) == live[s].waiting \cap (IF s = DelRoot THEN live[s].comps ELSE sess[s].comps)

DelInterrupt(s) ==
    /\ live[s].pc = "hydrated"
    /\ DelSpend("interrupt")
    /\ IF s = DelRoot THEN CommitTurn(s, live[s].waiting, live[s].epoch)
                      ELSE MarkCompleted(s, live[s].waiting, live[s].epoch)
    /\ severed' = severed \cup {<<s, e>> : e \in PassedOver(s)}

-----------------------------------------------------------------------------
(* FleetJobWorker: pop a job, materialise its child, wake it.               *)

PopJob ==
    /\ jobWorker.pc = "idle"
    /\ jobs # <<>>
    /\ jobs' = Tail(jobs)
    /\ jobWorker' = [pc |-> "create", job |-> Head(jobs)]
    /\ UNCHANGED <<sess, enqueued, joins, severed, notices, outbox, wakeSet, live, submit,
                   noticeWorker, delBudget>>

(* create_runnable for an absent child writes row and edge together; for an *)
(* existing one only the edge is asserted again.                            *)
Materialise ==
    LET j == jobWorker.job IN
    /\ jobWorker.pc = "create"
    /\ sess' = OrIgnore(sess, j.child, NewSession)
    /\ IF j.detached
       THEN /\ notices' = OrIgnore(notices, j.child, NoticeEdge(j.parent, FALSE))
            /\ UNCHANGED joins
       ELSE /\ joins' = OrIgnore(joins, j.child, [parent |-> j.parent, epoch |-> j.epoch])
            /\ UNCHANGED notices
    /\ jobWorker' = [jobWorker EXCEPT !.pc = "wake"]
    /\ UNCHANGED <<jobs, enqueued, severed, outbox, wakeSet, live, submit, noticeWorker,
                   delBudget>>

WakeChild ==
    /\ jobWorker.pc = "wake"
    /\ wakeSet' = wakeSet \cup {jobWorker.job.child}
    /\ jobWorker' = IdleJobWorker
    /\ UNCHANGED <<sess, jobs, enqueued, joins, severed, notices, outbox, live, submit,
                   noticeWorker, delBudget>>

(* The store or the codec fails under the worker: process_jobs_once returns *)
(* the error and the popped job with it.                                    *)
JobFails ==
    /\ jobWorker.pc = "create"
    /\ DelSpend("fail")
    /\ jobWorker' = IdleJobWorker
    /\ UNCHANGED <<delStore, severed, live, submit, noticeWorker>>

-----------------------------------------------------------------------------
(* NoticeWorker: pop a notice, look at the parent, append, wake.  An error  *)
(* of the append is logged and the notice is gone.                          *)

SetNotice(pc) == noticeWorker' = [noticeWorker EXCEPT !.pc = pc]

PopNotice ==
    /\ noticeWorker.pc = "idle"
    /\ outbox # <<>>
    /\ outbox' = Tail(outbox)
    /\ noticeWorker' = [pc |-> "check", notice |-> Head(outbox)]
    /\ UNCHANGED <<sess, jobs, enqueued, joins, severed, notices, wakeSet, live, jobWorker,
                   submit, delBudget>>

(* A settled parent drops its notice.                                       *)
CheckParent ==
    /\ noticeWorker.pc = "check"
    /\ IF Has(noticeWorker.notice.parent, "completed")
       THEN noticeWorker' = IdleNoticeWorker
       ELSE SetNotice("append")
    /\ UNCHANGED <<delStore, severed, live, jobWorker, submit, delBudget>>

InjectNotice ==
    /\ noticeWorker.pc = "append"
    /\ sess' = AppendItem(sess, noticeWorker.notice.parent,
                          NoticeOf(noticeWorker.notice.child))
    /\ SetNotice("wake")
    /\ UNCHANGED <<jobs, enqueued, joins, severed, notices, outbox, wakeSet, live, jobWorker,
                   submit, delBudget>>

InjectFails ==
    /\ noticeWorker.pc = "append"
    /\ DelSpend("fail")
    /\ noticeWorker' = IdleNoticeWorker
    /\ UNCHANGED <<delStore, severed, live, jobWorker, submit>>

WakeParent ==
    /\ noticeWorker.pc = "wake"
    /\ wakeSet' = wakeSet \cup {noticeWorker.notice.parent}
    /\ noticeWorker' = IdleNoticeWorker
    /\ UNCHANGED <<sess, jobs, enqueued, joins, severed, notices, outbox, live, jobWorker,
                   submit, delBudget>>

-----------------------------------------------------------------------------
(* The process dies: incarnations and the workers' hands are lost.          *)
DelCrash ==
    /\ DelSpend("crash")
    /\ live' = [s \in {} |-> NoIncarnation]
    /\ jobWorker' = IdleJobWorker
    /\ noticeWorker' = IdleNoticeWorker
    /\ submit' = NoSubmit
    /\ UNCHANGED <<delStore, severed>>

DelTurn(s) ==
    \/ StaySuspended(s)
    \/ EnterModel(s)
    \/ SpawnJoining(s)
    \/ SpawnDetached(s)
    \/ BindNotice(s)
    \/ \E c \in DOMAIN sess : SendToChild(s, c)
    \/ WakeSentTo(s)
    \/ CommitRoot(s)
    \/ Complete(s)
    \/ DelInterrupt(s)

DelNext ==
    \/ \E s \in DOMAIN sess : ClientMessage(s) \/ Rewind(s) \/ ScanWake(s)
    \/ ReopenSettled \/ WakeAddressed
    \/ \E s \in wakeSet : Dispatch(s)
    \/ \E s \in DOMAIN live : DelTurn(s)
    \/ PopJob \/ Materialise \/ WakeChild \/ JobFails
    \/ PopNotice \/ CheckParent \/ InjectNotice \/ InjectFails \/ WakeParent
    \/ DelCrash

DelSpec == DelInit /\ [][DelNext]_delVars

(* The fairness of the runtime: scanner, dispatcher and both workers keep   *)
(* ticking, a running turn goes on and ends.  Nothing is assumed of the     *)
(* clients, of what the model asks for, or of faults.  Ids are the sessions *)
(* the bounds allow.                                                        *)
DelIds ==
    LET segs == [kind : {"c"}, n : 1 .. MaxEpoch] \cup [kind : {"d"}, n : 1 .. MaxDetached]
    IN  UNION {[1 .. k -> segs] : k \in 0 .. MaxDepth}

TurnProceeds(s) ==
    /\ s \in DOMAIN live
    /\ \/ StaySuspended(s) \/ EnterModel(s) \/ BindNotice(s) \/ WakeSentTo(s)
       \/ CommitRoot(s) \/ Complete(s)

DelFairness ==
    /\ WF_delVars(PopJob \/ Materialise \/ WakeChild)
    /\ WF_delVars(PopNotice \/ CheckParent \/ InjectNotice \/ WakeParent)
    /\ \A s \in DelIds :
          /\ WF_delVars(s \in DOMAIN sess /\ ScanWake(s))
          /\ WF_delVars(Dispatch(s))
          /\ WF_delVars(TurnProceeds(s))

DelFairSpec == DelSpec /\ DelFairness

-----------------------------------------------------------------------------
(* A completed joining child has answered: while its parent still waits for *)
(* the job, the completion row is there, and the edge that will fulfil the  *)
(* job exists as soon as the child does.  create_runnable and               *)
(* mark_completed each write both sides in one transaction; the one way to  *)
(* lose the answer is a turn interrupted after it loaded the row.           *)
JoinAccounted ==
    \A p \in DOMAIN sess : \A e \in sess[p].waiting :
        JoinChild(p, e) \in DOMAIN sess =>
            /\ JoinChild(p, e) \in DOMAIN joins
            /\ joins[JoinChild(p, e)] = [parent |-> p, epoch |-> e]
            /\ Has(JoinChild(p, e), "completed") =>
                  e \in sess[p].comps \/ <<p, e>> \in severed

(* The notices of child c that still travel or have arrived.                *)
InFlight(c) == {i \in DOMAIN outbox : outbox[i].child = c}

NoticeCopies(c) ==
    Cardinality(InFlight(c))
      + (IF noticeWorker.pc \in {"check", "append"} /\ noticeWorker.notice.child = c
         THEN 1 ELSE 0)
      + Cardinality({p \in DOMAIN sess : NoticeOf(c) \in sess[p].inbox})
      + Cardinality({p \in DOMAIN sess : NoticeOf(c) \in sess[p].heard})

(* A detached child is announced to its parent at most once, however often  *)
(* it is reopened and completes, and whatever crashes in between: the       *)
(* notified flag of its edge.                                               *)
NoticeAtMostOnce == \A c \in DOMAIN sess : NoticeCopies(c) <= 1

(* The job of every wait is queued, in the worker's hands, or its child     *)
(* exists.                                                                  *)
JobsAccounted ==
    \A p \in DOMAIN sess : \A e \in sess[p].waiting :
        \/ JoinChild(p, e) \in DOMAIN sess
        \/ \E i \in DOMAIN jobs : jobs[i].child = JoinChild(p, e)
        \/ jobWorker.pc = "create" /\ jobWorker.job.child = JoinChild(p, e)

(* Every spawn is accounted for: the job of every wait, and the outcome of  *)
(* every completed detached child, which is on its way, has arrived, or     *)
(* finds its parent settled.                                                *)
(* src/crates/node/daemon-node/src/fleet/notice_worker.rs:14 promises that  *)
(* "the parent always learns the outcome".                                  *)
SpawnAccounted ==
    /\ JobsAccounted
    /\ \A c \in DOMAIN notices :
          Has(c, "completed") =>
              \/ NoticeCopies(c) > 0
              \/ Has(notices[c].parent, "completed")

(* Every wait ends: through any nesting of delegations, with notices and    *)
(* messages arriving meanwhile and a crash at any point, a time comes when  *)
(* a parent waits only for what an interrupted turn passed over, unless a   *)
(* job was lost.                                                            *)
JoinsResolve ==
    <>[](JobsAccounted =>
            \A p \in DOMAIN sess : \A e \in sess[p].waiting : <<p, e>> \in severed)
=============================================================================
