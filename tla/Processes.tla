------------------------------ MODULE Processes ------------------------------
(***************************************************************************)
(* The background-process registry.  A spawn starts the child and its      *)
(* reader thread and then enters the process in the table; the reader, a   *)
(* kill and the reconciliation done by queries and waits all may declare   *)
(* it exited.  The owner learns of the exit by one notification, unless a  *)
(* query or a wait shows it.  A step is one critical section.              *)
(*                                                                         *)
(* Time is abstract: grace, watch window and retention end when they end.  *)
(* Left out: output and its ring buffer, stdin, listing, failed spawns,    *)
(* the text of notifications, and the global breaker, which only thins     *)
(* watch matches out.                                                      *)
(***************************************************************************)
EXTENDS Integers, FiniteSets

CONSTANTS
    MaxProcs,       \* bound: the processes that may be spawned
    ToolCall,       \* the tool calls that may run at once
    MaxTracked,     \* RegistryConfig::max_tracked
    StrikeLimit,    \* RegistryConfig::watch_strike_limit
    ProcBudgets     \* bounds: how often each event may happen

Proc == 1 .. MaxProcs       \* by start time

ProcEvent == {"spawn", "query", "wait", "kill", "leave", "match"}

ASSUME RegistryAssumption ==
    MaxProcs \in Nat /\ MaxTracked \in Nat /\ StrikeLimit \in Nat \ {0}
ASSUME ProcBudgetAssumption == ProcBudgets \subseteq [ProcEvent -> Nat]

VARIABLES
    proc,           \* each process: the child, its ProcState and its table entry
    toolCall,       \* query, wait and kill calls between two critical sections
    fate,           \* history: how mark_exited left the owner informed
    seen,           \* history: processes whose exit a call returned
    procBudget      \* events still allowed

procVars == <<proc, toolCall, fate, seen, procBudget>>

-----------------------------------------------------------------------------
(* child is the direct child, pipe whether anyone holds its output open;    *)
(* mark is what remains of mark_exited; armed is reconcile_armed_ms; cool,  *)
(* struck, strikes and disabled are the WatchState.                         *)
Process ==
    [child : {"none", "alive", "gone"}, pipe : BOOLEAN, exited : BOOLEAN,
     reason : {"none", "exited", "killed"}, notify : BOOLEAN, watches : BOOLEAN,
     table : {"none", "running", "finished", "pruned"}, consumed : BOOLEAN,
     armed : {"no", "armed", "due"}, mark : {"no", "move", "announce", "count", "done"},
     cool : {"never", "cooling", "over"}, struck : BOOLEAN, strikes : 0 .. StrikeLimit,
     disabled : BOOLEAN]

Unborn ==
    [child |-> "none", pipe |-> FALSE, exited |-> FALSE, reason |-> "none", notify |-> FALSE,
     watches |-> FALSE, table |-> "none", consumed |-> FALSE, armed |-> "no", mark |-> "no",
     cool |-> "never", struck |-> FALSE, strikes |-> 0, disabled |-> FALSE]

IdleCall == [pc |-> "idle", op |-> "query", of |-> {}]

(* Type correctness of the registry; strikes never pass their limit.        *)
ProcTypeOK ==
    /\ proc \in [Proc -> Process]
    /\ toolCall \in [ToolCall -> [pc : {"idle", "reconcile", "marking", "look", "select", "kill"},
                                  op : {"query", "wait", "kill"}, of : SUBSET Proc]]
    /\ fate \in [Proc -> {"open", "silent", "announced", "waited for", "consumed", "untracked"}]
    /\ seen \subseteq Proc
    /\ procBudget \in [ProcEvent -> Nat]

ProcInit ==
    /\ proc = [p \in Proc |-> Unborn]
    /\ toolCall = [c \in ToolCall |-> IdleCall]
    /\ fate = [p \in Proc |-> "open"]
    /\ seen = {}
    /\ procBudget \in ProcBudgets

ProcSpend(e) == procBudget[e] > 0 /\ procBudget' = [procBudget EXCEPT ![e] = @ - 1]

InTable(st) == {p \in Proc : proc[p].table = st}
Tracked     == InTable("running") \cup InTable("finished")

-----------------------------------------------------------------------------
(* spawn: child and reader start, then the entry is made.                   *)

Spawn(p, notify, watches) ==
    /\ proc[p].child = "none"
    /\ \A q \in Proc : q < p => proc[q].child # "none"
    /\ ~(notify /\ watches)
    /\ watches => procBudget["match"] > 0
    /\ ProcSpend("spawn")
    /\ proc' = [proc EXCEPT ![p].child = "alive", ![p].pipe = TRUE,
                            ![p].notify = notify, ![p].watches = watches]
    /\ UNCHANGED <<toolCall, fate, seen>>

(* prune_locked: finished entries older than the retention go, and then the *)
(* oldest one if the table is still full; so do the consumed markers of     *)
(* what is in the table no longer.                                          *)

(* Mutant: the cap is passed before anything is evicted.                    *)
FullLate(tracked) == Cardinality(tracked) > MaxTracked

Full(tracked) == Cardinality(tracked) >= MaxTracked

Evicted(finished, tracked) ==
    IF Full(tracked)
    THEN {p \in finished : \A q \in finished : p <= q} ELSE {}

Pruned(expired) ==
    expired \cup Evicted(InTable("finished") \ expired, Tracked \ expired)

Register(p) ==
    /\ proc[p].child # "none" /\ proc[p].table = "none"
    /\ \E expired \in SUBSET InTable("finished") :
          /\ \A q \in expired, r \in InTable("finished") : r < q => r \in expired
          /\ proc' = [q \in Proc |->
                IF q = p THEN [proc[q] EXCEPT !.table = "running"]
                ELSE IF q \in Pruned(expired) \cup InTable("pruned")
                     THEN [proc[q] EXCEPT !.table = "pruned", !.consumed = FALSE]
                     ELSE proc[q]]
    /\ UNCHANGED <<toolCall, fate, seen, procBudget>>

-----------------------------------------------------------------------------
(* The operating system: the child exits, the pipe closes (late, when a     *)
(* descendant holds it), a grace period and a watch window end.             *)

OnlyProc == UNCHANGED <<toolCall, fate, seen>>

ChildExits(p) ==
    /\ proc[p].child = "alive"
    /\ proc' = [proc EXCEPT ![p].child = "gone"]
    /\ OnlyProc /\ UNCHANGED procBudget

PipeCloses(p) ==
    /\ proc[p].pipe
    /\ proc' = [proc EXCEPT ![p].pipe = FALSE]
    /\ OnlyProc /\ UNCHANGED procBudget

GraceEnds(p) ==
    /\ proc[p].armed = "armed" /\ ~proc[p].exited
    /\ proc' = [proc EXCEPT ![p].armed = "due"]
    /\ OnlyProc /\ UNCHANGED procBudget

WindowEnds(p) ==
    /\ proc[p].cool = "cooling"
    /\ procBudget["match"] > 0
    /\ proc' = [proc EXCEPT ![p].cool = "over"]
    /\ OnlyProc /\ UNCHANGED procBudget

-----------------------------------------------------------------------------
(* ingest_chunk with a line that matches a watch pattern.                   *)

(* Mutant: the watch is disabled one strike too late.                       *)
StruckOutLate(n) == n > StrikeLimit

StruckOut(n) == n >= StrikeLimit

(* WatchState::scan.  A match inside the window is dropped, the first one   *)
(* counts a strike, and the last strike promotes to notify_on_complete.     *)
Scan(r) ==
    IF r.cool = "cooling"
    THEN IF r.struck THEN r
         ELSE [r EXCEPT !.struck = TRUE, !.strikes = @ + 1,
                        !.disabled = StruckOut(r.strikes + 1),
                        !.notify = @ \/ StruckOut(r.strikes + 1)]
    ELSE [r EXCEPT !.cool = "cooling", !.struck = FALSE,
                   !.strikes = IF r.cool = "over" /\ ~r.struck THEN 0 ELSE @]

Match(p) ==
    /\ proc[p].pipe
    /\ ~proc[p].exited
    /\ proc[p].watches /\ ~proc[p].disabled
    /\ ProcSpend("match")
    /\ proc' = [proc EXCEPT ![p] = Scan(@)]
    /\ OnlyProc

-----------------------------------------------------------------------------
(* mark_exited: the first caller flips the state, moves the entry and       *)
(* decides about the notification, in critical sections of their own.       *)

(* Mutant: a later verdict replaces the first.                              *)
FlipAgain(p, reason) ==
    [proc EXCEPT ![p].exited = TRUE, ![p].reason = reason, ![p].mark = "move"]

Flip(p, reason) ==
    IF proc[p].exited THEN proc
    ELSE [proc EXCEPT ![p].exited = TRUE, ![p].reason = reason, ![p].mark = "move"]

(* The reader thread at end of file, after it has reaped the child.         *)
ReaderMarks(p) ==
    /\ proc[p].child = "gone" /\ ~proc[p].pipe
    /\ proc' = Flip(p, "exited")
    /\ OnlyProc /\ UNCHANGED procBudget

Move(p) ==
    /\ proc[p].mark = "move"
    /\ IF proc[p].table = "running"
       THEN /\ proc' = [proc EXCEPT ![p].table = "finished", ![p].mark = "announce"]
            /\ UNCHANGED fate
       ELSE /\ proc' = [proc EXCEPT ![p].mark = "done"]
            /\ fate' = [fate EXCEPT ![p] = "untracked"]
    /\ UNCHANGED <<toolCall, seen, procBudget>>

Waiting(p) ==
    {c \in ToolCall : toolCall[c].op = "wait" /\ toolCall[c].pc # "idle" /\ p \in toolCall[c].of}

(* consumed is read first, the waiters after it.                            *)
Announce(p) ==
    LET quiet == ~proc[p].notify \/ proc[p].consumed IN
    /\ proc[p].mark = "announce"
    /\ proc' = [proc EXCEPT ![p].mark = IF quiet THEN "done" ELSE "count"]
    /\ fate' = [fate EXCEPT ![p] =
                  IF ~quiet THEN @ ELSE IF proc[p].notify THEN "consumed" ELSE "silent"]
    /\ UNCHANGED <<toolCall, seen, procBudget>>

Emit(p) ==
    /\ proc[p].mark = "count"
    /\ proc' = [proc EXCEPT ![p].mark = "done"]
    /\ fate' = [fate EXCEPT ![p] = IF Waiting(p) # {} THEN "waited for" ELSE "announced"]
    /\ UNCHANGED <<toolCall, seen, procBudget>>

-----------------------------------------------------------------------------
(* The tool calls: query (poll and read_log), wait and kill.                *)

Goes(c, pc) == toolCall' = [toolCall EXCEPT ![c].pc = pc]
Subject(c)  == CHOOSE p \in toolCall[c].of : TRUE

Invoke(c, op, p) ==
    /\ toolCall[c].pc = "idle"
    /\ p \in Tracked
    /\ ProcSpend(op)
    /\ toolCall' = [toolCall EXCEPT ![c] =
          [pc |-> IF op = "kill" THEN "kill" ELSE "reconcile", op |-> op, of |-> {p}]]
    /\ UNCHANGED <<proc, fate, seen>>

(* reconcile: the child is gone but the reader is not done; the first time  *)
(* arms the grace period, after it the exit is declared here.               *)
(* Mutant: the grace period is never over.                                  *)
NeverOverdue(p) == FALSE

Overdue(p) == proc[p].armed = "due"

ReconcileCall(c) ==
    LET p == Subject(c) IN
    /\ toolCall[c].pc = "reconcile"
    /\ IF proc[p].exited \/ proc[p].child = "alive" THEN UNCHANGED proc /\ Goes(c, "look")
       ELSE IF Overdue(p) THEN proc' = Flip(p, "exited") /\ Goes(c, "marking")
       ELSE /\ proc' = [proc EXCEPT ![p].armed = IF @ = "no" THEN "armed" ELSE @]
            /\ Goes(c, "look")
    /\ UNCHANGED <<fate, seen, procBudget>>

(* The caller that declared the exit completes mark_exited first.           *)
Marked(c) ==
    /\ toolCall[c].pc = "marking"
    /\ proc[Subject(c)].mark = "done"
    /\ Goes(c, IF toolCall[c].op = "kill" THEN "idle" ELSE "look")
    /\ UNCHANGED <<proc, fate, seen, procBudget>>

(* Mutant: any query consumes the completion.                               *)
ConsumesAny(p) == TRUE

Consumes(p) == proc[p].exited

(* A call that finds the process exited returns that, and consumes it; a    *)
(* wait goes on otherwise.                                                  *)
Look(c) ==
    LET p == Subject(c) IN
    /\ toolCall[c].pc = "look"
    /\ proc' = [proc EXCEPT ![p].consumed = @ \/ Consumes(p)]
    /\ seen' = IF proc[p].exited THEN seen \cup {p} ELSE seen
    /\ Goes(c, IF toolCall[c].op = "wait" /\ ~proc[p].exited THEN "select" ELSE "idle")
    /\ UNCHANGED <<fate, procBudget>>

(* Woken by the exit or by the tick, a wait looks again ...                 *)
WaitAgain(c) ==
    /\ toolCall[c].pc = "select"
    /\ Goes(c, "reconcile")
    /\ UNCHANGED <<proc, fate, seen, procBudget>>

(* ... and at its deadline or on cancellation it leaves without a look.     *)
WaitLeaves(c) ==
    /\ toolCall[c].pc = "select"
    /\ ProcSpend("leave")
    /\ Goes(c, "idle")
    /\ UNCHANGED <<proc, fate, seen>>

(* kill: the signal is sent, whatever the process makes of it, and the exit *)
(* declared; a signal that cannot be sent changes nothing.                  *)
Kill(c) ==
    LET p == Subject(c) IN
    /\ toolCall[c].pc = "kill"
    /\ \/ ~proc[p].exited /\ proc' = Flip(p, "killed") /\ Goes(c, "marking")
       \/ UNCHANGED proc /\ Goes(c, "idle")
    /\ UNCHANGED <<fate, seen, procBudget>>

CallProceeds(c) == ReconcileCall(c) \/ Marked(c) \/ Look(c) \/ WaitAgain(c) \/ Kill(c)

ProcNext ==
    \/ \E p \in Proc :
          \/ \E notify, watches \in BOOLEAN : Spawn(p, notify, watches)
          \/ Register(p)
          \/ ChildExits(p) \/ PipeCloses(p) \/ GraceEnds(p) \/ WindowEnds(p)
          \/ Match(p)
          \/ ReaderMarks(p) \/ Move(p) \/ Announce(p) \/ Emit(p)
    \/ \E c \in ToolCall :
          \/ \E op \in {"query", "wait", "kill"}, p \in Proc : Invoke(c, op, p)
          \/ CallProceeds(c)
          \/ WaitLeaves(c)

ProcSpec == ProcInit /\ [][ProcNext]_procVars

(* Threads and tool calls go on, time passes.  Nothing is assumed of the    *)
(* processes, their pipes or the agent.                                     *)
ProcFairness ==
    /\ \A p \in Proc :
          /\ WF_procVars(Register(p) \/ Move(p) \/ Announce(p) \/ Emit(p))
          /\ WF_procVars(GraceEnds(p))
    /\ \A c \in ToolCall : WF_procVars(CallProceeds(c))

ProcFairSpec == ProcSpec /\ ProcFairness

-----------------------------------------------------------------------------
(* The first verdict on a process stands: a kill that raced the reader or a *)
(* reconciliation is never relabelled, and an exit is never taken back.     *)
VerdictStands ==
    [][\A p \in Proc : proc[p].exited =>
          proc'[p].exited /\ proc'[p].reason = proc[p].reason]_procVars

(* An exit the owner asked to be told of (from the start or promoted by the *)
(* watch limit) and about which nobody tells: no notification, no call that *)
(* returned it, and no wait that still will.                                *)
Unreported(p) ==
    /\ proc[p].mark = "done"
    /\ proc[p].notify
    /\ fate[p] # "announced"
    /\ p \notin seen
    /\ Waiting(p) = {}

(* An exit goes unreported in two ways only: it was declared before spawn   *)
(* had entered the process in the table, or the wait that suppressed the    *)
(* notification left.  Kills, reconciliation, promotion, queries and        *)
(* pruning lose none.                                                       *)
ExitAccounted == \A p \in Proc : Unreported(p) => fate[p] \in {"untracked", "waited for"}

(* registry.rs:149 promises "exactly one notification into the owner when   *)
(* the process exits".                                                      *)
ExitReported == \A p \in Proc : ~Unreported(p)

(* Evict before growing: a table that is full of finished and running      *)
(* entries grows by no step while a finished entry is left to evict.  (With *)
(* running entries alone it does grow: spawn refuses nobody.)               *)
EvictsFirst ==
    [][Cardinality(Tracked) >= MaxTracked /\ InTable("finished") # {}
          => Cardinality(Tracked') <= Cardinality(Tracked)]_procVars

(* A wait on a process whose child is gone ends, even when a descendant     *)
(* keeps the pipe open and the reader never comes to its end.               *)
WaitEnds ==
    \A c \in ToolCall :
        toolCall[c].op = "wait" /\ toolCall[c].pc # "idle"
          /\ proc[Subject(c)].child = "gone" ~> toolCall[c].pc = "idle"
=============================================================================
