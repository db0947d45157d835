------------------------------- MODULE MCNode -------------------------------
(***************************************************************************)
(* Four services of the node on small instances: durable delegation, the   *)
(* cron scheduler, the supervisor and the process registry.  They share no *)
(* state, so a behaviour runs one of them, chosen at the start, and the    *)
(* others stand still.                                                     *)
(***************************************************************************)
EXTENDS Delegation, Cron, Supervisor, Processes

VARIABLE part       \* the service this behaviour runs

nodeVars == <<part, delVars, cronVars, supVars, procVars>>

(* Budgets of delegation: crash, fail, rewind, interrupt, message, send,    *)
(* spawn.                                                                   *)
DelBudget(crash, fail, rewind, interrupt, message, send, spawn) ==
    [e \in DelEvent |->
        CASE e = "crash"     -> crash
          [] e = "fail"      -> fail
          [] e = "rewind"    -> rewind
          [] e = "interrupt" -> interrupt
          [] e = "message"   -> message
          [] e = "send"      -> send
          [] e = "spawn"     -> spawn]

DelCases == {DelBudget(1, 0, 0, 0, 0, 0, 2), DelBudget(0, 0, 0, 1, 1, 0, 1),
             DelBudget(0, 1, 1, 0, 0, 1, 1), DelBudget(0, 0, 0, 1, 0, 0, 2)}

CronCase(ts, overlap, repeat, tolerance) ==
    [ts |-> ts, overlap |-> overlap, repeat |-> repeat, tolerance |-> tolerance]

CronCases == {CronCase(0, "skip", 0, 1), CronCase(0, "queue", 1, 1),
              CronCase(2, "allow", 0, 1)}

CronBudget(event) == [e \in CronEvent |-> IF e = event THEN 1 ELSE 0]

CronEventCases == {CronBudget(e) : e \in CronEvent}

JustACrash == {CronBudget("crash")}

(* Budgets of the registry: spawn, query, wait, kill, leave, match.         *)
ProcBudgetOf(spawn, query, wait, kill, leave, match) ==
    [e \in ProcEvent |->
        CASE e = "spawn" -> spawn
          [] e = "query" -> query
          [] e = "wait"  -> wait
          [] e = "kill"  -> kill
          [] e = "leave" -> leave
          [] e = "match" -> match]

ProcCases == {ProcBudgetOf(1, 1, 1, 1, 1, 0), ProcBudgetOf(1, 0, 0, 1, 0, 4),
              ProcBudgetOf(2, 1, 0, 0, 0, 0)}

NodeInit ==
    /\ part \in {"delegation", "cron", "supervisor", "processes"}
    /\ DelInit
    /\ CronInit
    /\ SupInit
    /\ ProcInit
    (* What stands still starts in one way only.                            *)
    /\ part # "delegation" => delBudget = DelBudget(1, 0, 0, 0, 0, 0, 2)
    /\ part # "cron" => /\ cronBudget = CronBudget("crash")
                        /\ \A j \in cjob : j.spec = CronCase(0, "skip", 0, 1)
    /\ part # "supervisor" => policy = [c \in Child |-> "permanent"]
    /\ part # "processes" => procBudget = ProcBudgetOf(2, 1, 0, 0, 0, 0)

RunsDelegation ==
    part = "delegation" /\ DelNext /\ UNCHANGED <<part, cronVars, supVars, procVars>>

RunsCron ==
    part = "cron" /\ CronNext /\ UNCHANGED <<part, delVars, supVars, procVars>>

RunsSupervisor ==
    part = "supervisor" /\ SupNext /\ UNCHANGED <<part, delVars, cronVars, procVars>>

RunsProcesses ==
    part = "processes" /\ ProcNext /\ UNCHANGED <<part, delVars, cronVars, supVars>>

NodeNext == RunsDelegation \/ RunsCron \/ RunsSupervisor \/ RunsProcesses

NodeSpec == NodeInit /\ [][NodeNext]_nodeVars

(* Each service's own fairness, where it runs.                              *)
NodeFairSpec ==
    /\ NodeSpec
    /\ \/ part = "delegation" /\ DelFairness
       \/ part = "cron" /\ CronFairness
       \/ part = "supervisor" /\ SupFairness
       \/ part = "processes" /\ ProcFairness
=============================================================================
