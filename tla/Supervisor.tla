----------------------------- MODULE Supervisor -----------------------------
(***************************************************************************)
(* The one-for-one supervisor of the host's resident services (scanner,    *)
(* dispatchers, workers, cron): one supervising task per child runs the    *)
(* service to its end, applies the restart policy, counts the restarts of  *)
(* a sliding window, backs off and starts the service again, until         *)
(* cancelled.  A service is an interval loop that ends with an error or a  *)
(* panic of its tick, or normally once it sees the cancellation.           *)
(***************************************************************************)
EXTENDS Integers, Sequences, FiniteSets

CONSTANTS
    Child,          \* the supervised services
    Policies,       \* the restart policies they may have
    Initial,        \* Backoff::initial, doubled with every restart ...
    MaxDelay,       \* ... up to Backoff::max
    MaxRestarts,    \* MeltdownPolicy::max_restarts
    MeltWindow,     \* MeltdownPolicy::window
    MaxClock        \* bound: the last time modelled

Policy == {"permanent", "transient", "temporary"}

ASSUME PolicyAssumption == Policies \subseteq Policy
ASSUME BackoffAssumption == Initial \in Nat /\ MaxDelay \in Nat
ASSUME MeltdownAssumption == MaxRestarts \in Nat /\ MeltWindow \in Nat
ASSUME MaxClockAssumption == MaxClock \in Nat

VARIABLES
    clock,          \* the monotonic clock
    policy,         \* each child's restart policy
    child,          \* each child's supervising task and its ChildState
    cancelled,      \* the host's cancellation token
    starts          \* history: when each child was started

supVars == <<clock, policy, child, cancelled, starts>>

-----------------------------------------------------------------------------
(* A waiting task sleeps until the given time; times is restart_times, whose *)
(* order is never read: each restart's number and time.                     *)
Stamp == [nth : Nat, at : Nat]

Supervised == [pc : {"waiting", "running", "stopped"}, until : Nat, times : SUBSET Stamp,
               restarts : Nat, health : {"ok", "degraded", "unhealthy"}]

(* Type correctness of the tasks and of the health map; no sleep outlasts   *)
(* the capped backoff.                                                      *)
SupTypeOK ==
    /\ clock \in 0 .. MaxClock
    /\ policy \in [Child -> Policies]
    /\ child \in [Child -> Supervised] /\ \A c \in Child : child[c].until <= MaxClock
    /\ cancelled \in BOOLEAN
    /\ starts \in [Child -> Seq(0 .. MaxClock)]

(* Backoff::delay of the n-th restart, 0-indexed.                           *)
(* Mutant: the cap is forgotten.                                            *)
UncappedDelay(n) == Initial * 2 ^ n

Delay(n) == LET scaled == Initial * 2 ^ n IN IF scaled < MaxDelay THEN scaled ELSE MaxDelay

SupInit ==
    /\ clock = 0
    /\ policy \in [Child -> Policies]
    /\ child = [c \in Child |-> [pc |-> "waiting", until |-> 0, times |-> {},
                                 restarts |-> 0, health |-> "ok"]]
    /\ cancelled = FALSE
    /\ starts = [c \in Child |-> <<>>]

-----------------------------------------------------------------------------
(* supervise_child, the top of the loop: start the service unless           *)
(* cancelled.                                                               *)
StartService(c) ==
    /\ child[c].pc = "waiting"
    /\ ~cancelled
    /\ clock >= child[c].until
    /\ child' = [child EXCEPT ![c].pc = "running"]
    /\ starts' = [starts EXCEPT ![c] = Append(@, clock)]
    /\ UNCHANGED <<clock, policy, cancelled>>

(* A cancellation ends the sleep and the loop.                              *)
(* Mutant: the sleep is not raced with the cancellation.                    *)
SleepOut(c) ==
    /\ child[c].pc = "waiting"
    /\ cancelled
    /\ clock >= child[c].until
    /\ child' = [child EXCEPT ![c].pc = "stopped"]
    /\ UNCHANGED <<clock, policy, cancelled, starts>>

StopWaiting(c) ==
    /\ child[c].pc = "waiting"
    /\ cancelled
    /\ child' = [child EXCEPT ![c].pc = "stopped"]
    /\ UNCHANGED <<clock, policy, cancelled, starts>>

(* A running service sees the cancellation: no restart, no health change.   *)
StopService(c) ==
    /\ child[c].pc = "running"
    /\ cancelled
    /\ child' = [child EXCEPT ![c].pc = "stopped"]
    /\ UNCHANGED <<clock, policy, cancelled, starts>>

ShouldRestart(c, abnormal) ==
    policy[c] = "permanent" \/ (policy[c] = "transient" /\ abnormal)

(* The restarts of the sliding window, this one included.                   *)
RecentTimes(c) ==
    {t \in child[c].times \cup {[nth |-> child[c].restarts + 1, at |-> clock]} :
        clock - t.at <= MeltWindow}

(* A service that will not be restarted is unhealthy if it failed.          *)
GiveUp(c, abnormal) ==
    [child[c] EXCEPT !.pc = "stopped",
                     !.health = IF abnormal THEN "unhealthy" ELSE @]

(* Mutant: the health of a child that melts down is not written.            *)
MeltQuietly(c, times) ==
    [child[c] EXCEPT !.pc = "stopped", !.times = times, !.restarts = @ + 1]

Meltdown(c, times) ==
    [child[c] EXCEPT !.pc = "stopped", !.times = times, !.restarts = @ + 1,
                     !.health = "unhealthy"]

(* The delay grows with the restarts of the child's whole life.             *)
BackOff(c, times) ==
    [child[c] EXCEPT !.pc = "waiting", !.times = times, !.restarts = @ + 1,
                     !.until = clock + Delay(child[c].restarts),
                     !.health = IF Cardinality(times) > 1 THEN "degraded" ELSE @]

(* Mutant: this restart is not counted yet when the threshold is tested.    *)
SuperviseLate(c, abnormal) ==
    LET times == RecentTimes(c) IN
    IF ~ShouldRestart(c, abnormal) THEN GiveUp(c, abnormal)
    ELSE IF Cardinality(child[c].times) > MaxRestarts THEN Meltdown(c, times)
    ELSE BackOff(c, times)

Supervise(c, abnormal) ==
    LET times == RecentTimes(c) IN
    IF ~ShouldRestart(c, abnormal) THEN GiveUp(c, abnormal)
    ELSE IF Cardinality(times) > MaxRestarts THEN Meltdown(c, times)
    ELSE BackOff(c, times)

(* The service returns or panics.  The guard on the clock is the bound.     *)
ServiceEnds(c, abnormal) ==
    /\ child[c].pc = "running"
    /\ ~cancelled
    /\ clock + MaxDelay <= MaxClock
    /\ child' = [child EXCEPT ![c] = Supervise(c, abnormal)]
    /\ UNCHANGED <<clock, policy, cancelled, starts>>

(* SupervisorHandle::shutdown, or the host's own token.                     *)
Cancel ==
    /\ ~cancelled
    /\ cancelled' = TRUE
    /\ UNCHANGED <<clock, policy, child, starts>>

(* The clock stands still once cancelled: a drain may not need time.        *)
SupClock ==
    /\ clock < MaxClock
    /\ ~cancelled
    /\ clock' = clock + 1
    /\ UNCHANGED <<policy, child, cancelled, starts>>

SupNext ==
    \/ \E c \in Child : StartService(c) \/ StopWaiting(c) \/ StopService(c)
    \/ \E c \in Child, abnormal \in BOOLEAN : ServiceEnds(c, abnormal)
    \/ Cancel
    \/ SupClock

SupSpec == SupInit /\ [][SupNext]_supVars

(* Time passes, a task whose sleep is over goes on, and an interval service *)
(* returns once cancelled.  Nothing is assumed of failures or of shutdown.  *)
SupFairness ==
    /\ WF_supVars(SupClock)
    /\ \A c \in Child :
          WF_supVars(StartService(c) \/ StopWaiting(c) \/ StopService(c))

SupFairSpec == SupSpec /\ SupFairness

-----------------------------------------------------------------------------
(* No restart storm: in any interval of the window's length a child is      *)
(* started at most max_restarts + 1 times, although the supervisor counts   *)
(* the ends and not the starts.                                             *)
StartsIn(c, from) ==
    {i \in DOMAIN starts[c] : starts[c][i] \in from .. from + MeltWindow}

RestartsBounded ==
    \A c \in Child, from \in 0 .. MaxClock : Cardinality(StartsIn(c, from)) <= MaxRestarts + 1

(* Health tells the truth: a permanent service that is down while the host  *)
(* runs is reported unhealthy, and a service reported unhealthy is down.    *)
HealthHonest ==
    \A c \in Child :
        /\ child[c].health = "unhealthy" => child[c].pc = "stopped"
        /\ child[c].pc = "stopped" /\ policy[c] = "permanent" /\ ~cancelled
              => child[c].health = "unhealthy"

(* A shutdown drains, without waiting for a backoff to pass: every          *)
(* supervising task ends.                                                   *)
ShutdownDrains == cancelled ~> \A c \in Child : child[c].pc = "stopped"
=============================================================================
