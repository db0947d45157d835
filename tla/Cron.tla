-------------------------------- MODULE Cron --------------------------------
(***************************************************************************)
(* The cron scheduler, for one job: CronWorker::tick_once claims a due     *)
(* occurrence and fires it as an isolated session, fire_now fires one on   *)
(* request, CronService edits the job, and sessions run on their own.      *)
(* Each step is one call of the store, which may fail; every writer of the *)
(* job writes back a clone it read earlier.  The process may crash and     *)
(* keeps the store.  Scripts (no_agent), output capture, delivery, jitter  *)
(* and the job's last_* bookkeeping are left out; unparsable schedules do  *)
(* not occur, and at most one trigger and one edit are under way.          *)
(***************************************************************************)
EXTENDS Integers, FiniteSets

CONSTANTS
    CronSpecs,      \* the specs the job may be created with or updated to
    Period,         \* an interval schedule's period
    MaxTime,        \* bound: the last time modelled
    CronBudgets     \* bounds: how often each environment event may happen

CronEvent == {"crash", "error", "trigger", "edit"}

(* ts: the instant of a one-shot, 0 for an interval; repeat: the fire cap,  *)
(* 0 for none; tolerance: how late an occurrence may still fire (catch_up). *)
CronSpec == [ts : Nat, overlap : {"skip", "allow", "queue"}, repeat : Nat, tolerance : Nat]

ASSUME CronSpecAssumption  == CronSpecs \subseteq CronSpec
ASSUME CronTimeAssumption  == Period \in Nat \ {0} /\ MaxTime \in Nat \ {0}
ASSUME CronBudgetAssumption == CronBudgets \subseteq [CronEvent -> Nat]

VARIABLES
    now,            \* the clock
    cjob,           \* the cron_jobs row, as a set of at most one job
    latest,         \* the newest row of cron_runs, as a set of at most one run
    cronSession,    \* the cron sessions, by the second that names them
    ticker,         \* tick_once between two calls of the store
    firing,         \* fire_now between two calls of the store
    editor,         \* CronService::pause or update between its read and its write
    fired,          \* history: the sessions fired on schedule
    mishaps,        \* history: what the scheduler is not proof against
    cronBudget      \* environment events still allowed

cronStore == <<cjob, latest, cronSession>>
cronHist  == <<fired, mishaps>>
cronVars  == <<now, cronStore, ticker, firing, editor, cronHist, cronBudget>>

-----------------------------------------------------------------------------
(* next is next_fire_unix, 0 for none.                                      *)
CronJob == [spec : CronSpecs, next : Nat, paused : BOOLEAN, fires : Nat]
CronRun == [session : 1 .. MaxTime, finished : BOOLEAN]

IdleTask == [pc |-> "idle"]

(* job is the clone in hand, slot the occurrence it was due for, cap the    *)
(* repeat of its spec, at the second the tick or the fire began, run the    *)
(* newest run as last read.                                                 *)
TickTask == [pc : {"reconcile", "status", "mark", "stamp", "overlap", "decide", "rearm",
                   "seed", "append", "count", "reread", "settle"},
             job : CronJob, slot : Nat, cap : Nat, at : 1 .. MaxTime, run : SUBSET CronRun]

FireTask == [pc : {"overlap", "decide", "seed", "append", "count"},
             job : CronJob, at : 1 .. MaxTime, run : SUBSET CronRun]

EditTask == [pc : {"write"}, job : CronJob]

(* A session fired for the occurrence slot, named by the second at, under a *)
(* spec with the fire cap cap.                                              *)
Fire == [slot : Nat, at : 1 .. MaxTime, cap : Nat]

(* uncounted: a fire whose clone was not written back; unsettled: a tick    *)
(* that fired and ended before its last write; overlap: two of the tick, a  *)
(* trigger and an edit under way at once; update: the spec was replaced.    *)
Mishap == {"uncounted", "unsettled", "overlap", "update"}

(* Type correctness of the tables and of the three tasks.                   *)
CronTypeOK ==
    /\ now \in 1 .. MaxTime
    /\ cjob \subseteq CronJob /\ Cardinality(cjob) <= 1
    /\ latest \subseteq CronRun /\ Cardinality(latest) <= 1
    /\ cronSession \in
          [1 .. MaxTime -> {"none", "ready", "active", "suspended", "completed"}]
    /\ ticker \in TickTask \cup {IdleTask}
    /\ firing \in FireTask \cup {IdleTask}
    /\ editor \in EditTask \cup {IdleTask}
    /\ fired \subseteq Fire
    /\ mishaps \subseteq Mishap
    /\ cronBudget \in [CronEvent -> Nat]

(* next_after, advanced, first_fire: strictly after t; a one-shot is armed  *)
(* while it is still ahead.                                                 *)
NextAfter(s, t) ==
    IF s.ts = 0 THEN t + Period ELSE IF s.ts > t THEN s.ts ELSE 0

CronInit ==
    /\ now = 1
    /\ \E s \in CronSpecs :
          cjob = {[spec |-> s, next |-> NextAfter(s, 1), paused |-> FALSE, fires |-> 0]}
    /\ latest = {}
    /\ cronSession = [t \in 1 .. MaxTime |-> "none"]
    /\ ticker = IdleTask
    /\ firing = IdleTask
    /\ editor = IdleTask
    /\ fired = {}
    /\ mishaps = {}
    /\ cronBudget \in CronBudgets

CronSpend(e) ==
    /\ cronBudget[e] > 0
    /\ cronBudget' = [cronBudget EXCEPT ![e] = @ - 1]

(* A call of the store succeeds or fails.                                   *)
Call(ok) == IF ok THEN UNCHANGED cronBudget ELSE CronSpend("error")

(* A failed read returns nothing, a failed write has no effect; the caller  *)
(* goes on.  cron_set is an upsert, cron_remove two deletes.                *)
(* Mutant: cron_set inserts.                                                *)
CronInsert(ok, j) ==
    /\ cjob' = IF ok THEN cjob \cup {j} ELSE cjob
    /\ UNCHANGED <<latest, cronSession>>

CronSet(ok, j) ==
    /\ cjob' = IF ok THEN {j} ELSE cjob
    /\ UNCHANGED <<latest, cronSession>>

CronRemove(ok) ==
    /\ IF ok THEN cjob' = {} /\ latest' = {}
             ELSE cjob' \in {cjob, {}} /\ UNCHANGED latest
    /\ UNCHANGED cronSession

CronRunsList(ok) == IF ok THEN latest ELSE {}

CronRunAppend(ok, run) ==
    /\ latest' = IF ok THEN {run} ELSE latest
    /\ UNCHANGED <<cjob, cronSession>>

(* status: a run whose session is still Ready counts as settled, like one   *)
(* that ended or whose status cannot be read.                               *)
CronInFlight(ok, runs) ==
    \E r \in runs : /\ ~r.finished /\ ok
                    /\ cronSession[r.session] \in {"active", "suspended"}

-----------------------------------------------------------------------------
(* fire, shared by the tick and the trigger: seed the session named by the  *)
(* second, append the run, write the clone back with the fire counted.      *)

SeedSession(ok) ==
    /\ cronSession' = IF ok /\ cronSession[now] = "none"
                      THEN [cronSession EXCEPT ![now] = "ready"] ELSE cronSession
    /\ UNCHANGED <<cjob, latest>>

AppendRun(ok, task) == CronRunAppend(ok, [session |-> task.at, finished |-> FALSE])

(* Mutant: the fire is counted in the stored row, which is not advanced.    *)
CountInRow(ok, task) ==
    /\ cjob' = IF ok THEN {[j EXCEPT !.fires = @ + 1] : j \in cjob} ELSE cjob
    /\ UNCHANGED <<latest, cronSession>>

CountFire(ok, task) == CronSet(ok, [task.job EXCEPT !.fires = @ + 1])

-----------------------------------------------------------------------------
(* tick_once.                                                               *)

Note(which) == mishaps' = mishaps \cup which

TickerTo(pc) == ticker' = [ticker EXCEPT !.pc = pc]
TickerOnly   == UNCHANGED <<now, firing, editor>>

Overlapping(others) == IF \E t \in others : t # IdleTask THEN {"overlap"} ELSE {}

CronDue ==
    /\ ticker = IdleTask
    /\ \E j \in cjob :
          /\ ~j.paused /\ j.next # 0 /\ j.next <= now
          /\ ticker' = [pc |-> "reconcile", job |-> j, slot |-> j.next,
                        cap |-> j.spec.repeat, at |-> now, run |-> {}]
    /\ Note(Overlapping({firing, editor}))
    /\ TickerOnly /\ UNCHANGED <<cronStore, fired, cronBudget>>

(* reconcile: a run that has settled ...                                    *)
ReconcileRead ==
    /\ ticker.pc = "reconcile"
    /\ \E ok \in BOOLEAN :
          /\ Call(ok)
          /\ ticker' = [ticker EXCEPT !.pc = "status", !.run = CronRunsList(ok)]
    /\ TickerOnly /\ UNCHANGED <<cronStore, cronHist>>

ReconcileStatus ==
    /\ ticker.pc = "status"
    /\ \E ok \in BOOLEAN :
          /\ Call(ok)
          /\ TickerTo(IF (\E r \in ticker.run : ~r.finished) /\ ~CronInFlight(ok, ticker.run)
                      THEN "mark" ELSE "overlap")
    /\ TickerOnly /\ UNCHANGED <<cronStore, cronHist>>

(* ... is appended again as finished, and becomes the newest ...            *)
MarkFinished ==
    /\ ticker.pc = "mark"
    /\ \E ok \in BOOLEAN, r \in ticker.run :
          Call(ok) /\ CronRunAppend(ok, [r EXCEPT !.finished = TRUE])
    /\ TickerTo("stamp")
    /\ TickerOnly /\ UNCHANGED cronHist

(* ... and the job's bookkeeping is written with the clone of cron_due.     *)
StampJob ==
    /\ ticker.pc = "stamp"
    /\ \E ok \in BOOLEAN : Call(ok) /\ CronSet(ok, ticker.job)
    /\ TickerTo("overlap")
    /\ TickerOnly /\ UNCHANGED cronHist

InFlightRead ==
    /\ ticker.pc = "overlap"
    /\ \E ok \in BOOLEAN :
          /\ Call(ok)
          /\ ticker' = [ticker EXCEPT !.pc = "decide", !.run = CronRunsList(ok)]
    /\ TickerOnly /\ UNCHANGED <<cronStore, cronHist>>

(* Mutant: an ended session still counts as a run in flight.                *)
DefersForEver(busy) == ticker.job.spec.overlap = "queue" /\ ticker.run # {}

Defers(busy) == ticker.job.spec.overlap = "queue" /\ busy

ShouldFire(busy) ==
    /\ ticker.job.spec.overlap = "skip" => ~busy
    /\ ticker.at - ticker.slot <= ticker.job.spec.tolerance

Decide ==
    /\ ticker.pc = "decide"
    /\ \E ok \in BOOLEAN :
          LET busy == CronInFlight(ok, ticker.run)
          IN  /\ Call(ok)
              /\ ticker' =
                    IF Defers(busy) THEN IdleTask
                    ELSE [ticker EXCEPT !.pc = IF ShouldFire(busy) THEN "seed" ELSE "rearm",
                                        !.job.next = NextAfter(ticker.job.spec, ticker.at)]
    /\ TickerOnly /\ UNCHANGED <<cronStore, cronHist>>

(* Not fired: persist the advance, or delete an exhausted one-shot.         *)
Rearm ==
    /\ ticker.pc = "rearm"
    /\ \E ok \in BOOLEAN :
          /\ Call(ok)
          /\ IF ticker.job.next = 0 THEN CronRemove(ok) ELSE CronSet(ok, ticker.job)
    /\ ticker' = IdleTask
    /\ TickerOnly /\ UNCHANGED cronHist

(* fire returns early when the session cannot be encoded or created.        *)
TickSeed ==
    /\ ticker.pc = "seed"
    /\ \E ok \in BOOLEAN :
          /\ Call(ok)
          /\ SeedSession(ok)
          /\ fired' = fired \cup
                IF ok /\ cronSession[now] = "none"
                THEN {[slot |-> ticker.slot, at |-> now, cap |-> ticker.cap]} ELSE {}
          /\ ticker' = [ticker EXCEPT !.pc = IF ok THEN "append" ELSE "reread", !.at = now]
    /\ TickerOnly /\ UNCHANGED mishaps

TickAppend ==
    /\ ticker.pc = "append"
    /\ \E ok \in BOOLEAN : Call(ok) /\ AppendRun(ok, ticker)
    /\ TickerTo("count")
    /\ TickerOnly /\ UNCHANGED cronHist

TickCount ==
    /\ ticker.pc = "count"
    /\ \E ok \in BOOLEAN :
          /\ Call(ok)
          /\ CountFire(ok, ticker)
          /\ Note(IF ok THEN {} ELSE {"uncounted"})
    /\ TickerTo("reread")
    /\ TickerOnly /\ UNCHANGED fired

(* The row is read again ...                                                *)
Reread ==
    /\ ticker.pc = "reread"
    /\ \E ok \in BOOLEAN :
          /\ Call(ok)
          /\ \/ /\ cjob = {} \/ ~ok
                /\ ticker' = IdleTask
             \/ /\ ok
                /\ \E j \in cjob :
                      ticker' = [ticker EXCEPT !.pc = "settle",
                                               !.job = [j EXCEPT !.next = ticker.job.next]]
          /\ Note(IF ok THEN {} ELSE {"unsettled"})
    /\ TickerOnly /\ UNCHANGED <<cronStore, fired>>

(* ... and written with the advanced next fire, or removed when the cap of  *)
(* the spec in hand is reached or the one-shot exhausted.                   *)
(* Mutant: the fire cap is not looked at.                                   *)
NeverExhausted(task) == task.job.next = 0

Exhausted(task) == task.job.next = 0 \/ (task.cap > 0 /\ task.job.fires >= task.cap)

SettleJob ==
    /\ ticker.pc = "settle"
    /\ \E ok \in BOOLEAN :
          /\ Call(ok)
          /\ IF Exhausted(ticker) THEN CronRemove(ok) ELSE CronSet(ok, ticker.job)
          /\ Note(IF ok THEN {} ELSE {"unsettled"})
    /\ ticker' = IdleTask
    /\ TickerOnly /\ UNCHANGED fired

TickOnce ==
    CronDue \/ ReconcileRead \/ ReconcileStatus \/ MarkFinished \/ StampJob \/ InFlightRead
        \/ Decide \/ Rearm \/ TickSeed \/ TickAppend \/ TickCount \/ Reread \/ SettleJob

-----------------------------------------------------------------------------
(* fire_now: under the skip policy it looks for a run in flight; the clone  *)
(* is not advanced.                                                         *)
FiringOnly == UNCHANGED <<now, ticker, editor, fired>>

FireNow ==
    /\ firing = IdleTask
    /\ CronSpend("trigger")
    /\ \E j \in cjob :
          firing' = [pc |-> IF j.spec.overlap = "skip" THEN "overlap" ELSE "seed",
                     job |-> j, at |-> now, run |-> {}]
    /\ Note(Overlapping({ticker, editor}))
    /\ FiringOnly /\ UNCHANGED cronStore

FireRead ==
    /\ firing.pc = "overlap"
    /\ \E ok \in BOOLEAN :
          /\ Call(ok)
          /\ firing' = [firing EXCEPT !.pc = "decide", !.run = CronRunsList(ok)]
    /\ FiringOnly /\ UNCHANGED <<cronStore, mishaps>>

FireDecide ==
    /\ firing.pc = "decide"
    /\ \E ok \in BOOLEAN :
          /\ Call(ok)
          /\ firing' = IF CronInFlight(ok, firing.run) THEN IdleTask ELSE [firing EXCEPT !.pc = "seed"]
    /\ FiringOnly /\ UNCHANGED <<cronStore, mishaps>>

FireSeed ==
    /\ firing.pc = "seed"
    /\ \E ok \in BOOLEAN :
          /\ Call(ok)
          /\ SeedSession(ok)
          /\ firing' = IF ok THEN [firing EXCEPT !.pc = "append", !.at = now] ELSE IdleTask
    /\ FiringOnly /\ UNCHANGED mishaps

FireAppend ==
    /\ firing.pc = "append"
    /\ \E ok \in BOOLEAN : Call(ok) /\ AppendRun(ok, firing)
    /\ firing' = [firing EXCEPT !.pc = "count"]
    /\ FiringOnly /\ UNCHANGED mishaps

FireCount ==
    /\ firing.pc = "count"
    /\ \E ok \in BOOLEAN : Call(ok) /\ CountFire(ok, firing)
    /\ firing' = IdleTask
    /\ FiringOnly /\ UNCHANGED mishaps

FiringGoesOn == FireRead \/ FireDecide \/ FireSeed \/ FireAppend \/ FireCount

-----------------------------------------------------------------------------
(* CronService: pause and resume keep the spec, update replaces it; each    *)
(* reads the row and writes it back with the next fire cleared or computed  *)
(* from now.  delete removes it.                                            *)
EditorOnly == UNCHANGED <<now, ticker, firing, fired>>

EditRead ==
    /\ editor = IdleTask
    /\ CronSpend("edit")
    /\ \E j \in cjob, s \in CronSpecs, paused \in BOOLEAN :
          /\ editor' = [pc |-> "write",
                        job |-> [j EXCEPT !.spec = s, !.paused = paused,
                                          !.next = IF paused THEN 0 ELSE NextAfter(s, now)]]
          /\ Note(Overlapping({ticker, firing})
                     \cup IF s.repeat # j.spec.repeat THEN {"update"} ELSE {})
    /\ EditorOnly /\ UNCHANGED cronStore

EditWrite ==
    /\ editor.pc = "write"
    /\ \E ok \in BOOLEAN : Call(ok) /\ CronSet(ok, editor.job)
    /\ editor' = IdleTask
    /\ EditorOnly /\ UNCHANGED mishaps

Delete ==
    /\ CronSpend("edit")
    /\ \E ok \in BOOLEAN : CronRemove(ok)
    /\ EditorOnly /\ UNCHANGED <<editor, mishaps>>

-----------------------------------------------------------------------------
(* A session runs, may suspend for an operator or a job any number of times *)
(* and ends; the clock advances; the process crashes.                       *)
Environs == UNCHANGED <<cjob, latest, fired>>

SessionMoves(t, from, to) ==
    /\ cronSession[t] = from
    /\ cronSession' = [cronSession EXCEPT ![t] = to]
    /\ Environs /\ UNCHANGED <<now, ticker, firing, editor, mishaps, cronBudget>>

SessionStarts(t)   == SessionMoves(t, "ready", "active")
SessionSuspends(t) == SessionMoves(t, "active", "suspended")
SessionResumes(t)  == SessionMoves(t, "suspended", "active")
SessionEnds(t)     == SessionMoves(t, "active", "completed")

CronClock ==
    /\ now < MaxTime
    /\ now' = now + 1
    /\ Environs /\ UNCHANGED <<cronSession, ticker, firing, editor, mishaps, cronBudget>>

CronCrash ==
    /\ CronSpend("crash")
    /\ ticker' = IdleTask /\ firing' = IdleTask /\ editor' = IdleTask
    /\ Note((IF ticker.pc \in {"append", "count"} THEN {"uncounted"} ELSE {})
              \cup (IF ticker.pc \in {"append", "count", "reread", "settle"}
                    THEN {"unsettled"} ELSE {}))
    /\ Environs /\ UNCHANGED <<now, cronSession>>

CronNext ==
    \/ TickOnce
    \/ FireNow \/ FiringGoesOn
    \/ EditRead \/ EditWrite \/ Delete
    \/ \E t \in 1 .. MaxTime :
          SessionStarts(t) \/ SessionSuspends(t) \/ SessionResumes(t) \/ SessionEnds(t)
    \/ CronClock
    \/ CronCrash

CronBehaviour == CronInit /\ [][CronNext]_cronVars

(* The cron service keeps ticking, a call that began goes on, and an active *)
(* session ends or suspends.  Nothing ends a suspension.                    *)
CronFairness ==
    /\ WF_cronVars(TickOnce)
    /\ WF_cronVars(FiringGoesOn)
    /\ \A t \in 1 .. MaxTime :
          WF_cronVars(SessionStarts(t) \/ SessionSuspends(t) \/ SessionEnds(t))

CronFairSpec == CronBehaviour /\ CronFairness

-----------------------------------------------------------------------------
(* worker.rs:65, "each due job's next_fire is advanced first (at-most-once  *)
(* across a crash)": no occurrence is fired twice.                          *)
AtMostOnce == \A f, g \in fired : f.slot = g.slot => f = g

(* What does hold: an occurrence is fired twice only if the clone of a fire *)
(* was not written back, because of a crash after the session was seeded or *)
(* a failed write, or if a trigger or an edit overlapped a tick or one      *)
(* another.  A crash, a failed call, a trigger or an edit at any other      *)
(* point does no harm, nor does a deletion at any point.                    *)
OnceUnlessLost == mishaps \cap {"uncounted", "overlap"} = {} => AtMostOnce

(* Fires on schedule never exceed the repeat cap, however many triggers are *)
(* counted in between, unless a tick that fired was cut short of its last   *)
(* write, two writers overlapped, or the cap itself was replaced.           *)
CapUnlessLost ==
    mishaps = {} => \A f \in fired : f.cap > 0 => Cardinality(fired) <= f.cap

(* A due job is served: it fires, is fast-forwarded or removed.  The only   *)
(* thing that may hold it back for ever is the queue policy behind a run    *)
(* that stays suspended.                                                    *)
IsDue == \E j \in cjob : ~j.paused /\ j.next # 0 /\ j.next <= now

HeldBack ==
    /\ \E j \in cjob : j.spec.overlap = "queue"
    /\ \E r \in latest : ~r.finished /\ cronSession[r.session] = "suspended"

DueServed == IsDue ~> (~IsDue \/ HeldBack)
=============================================================================
