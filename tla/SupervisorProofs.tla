-------------------------- MODULE SupervisorProofs --------------------------
(***************************************************************************)
(* Proofs about the supervisor, for any services, policies, backoff and    *)
(* meltdown thresholds.                                                    *)
(***************************************************************************)
EXTENDS Supervisor, TLAPS, FiniteSetTheorems, WellFoundedInduction, SequenceTheorems

-----------------------------------------------------------------------------
(* The inductive invariant.                                                 *)

(* Starts are recorded in order, none in the future.                        *)
StartsSorted(c) ==
    \A i, j \in DOMAIN starts[c] :
        i <= j => starts[c][i] <= starts[c][j] /\ starts[c][j] <= clock

(* A task that waits has ended as often as it started.                      *)
StartsCounted(c) ==
    /\ child[c].pc = "waiting" => Len(starts[c]) = child[c].restarts
    /\ child[c].pc = "running" => Len(starts[c]) = child[c].restarts + 1

(* A stamp is an end: no earlier than the start it ends.                    *)
StampsOK(c) ==
    /\ IsFiniteSet(child[c].times)
    /\ child[c].pc # "stopped" => Cardinality(child[c].times) <= MaxRestarts
    /\ \A t \in child[c].times :
          /\ t.nth \in DOMAIN starts[c] /\ t.nth <= child[c].restarts
          /\ starts[c][t.nth] <= t.at /\ t.at <= clock

(* Only the stamps of services started before the window are forgotten.     *)
Remembers(c) ==
    child[c].pc # "stopped" =>
        \A i \in 1 .. child[c].restarts :
            \/ \E t \in child[c].times : t.nth = i
            \/ starts[c][i] + MeltWindow < clock

(* max_restarts + 2 starts span more than the window.                       *)
Spread(c) ==
    \A i, j \in DOMAIN starts[c] :
        i + MaxRestarts < j => starts[c][i] + MeltWindow < starts[c][j]

ChildOK(c) ==
    StartsSorted(c) /\ StartsCounted(c) /\ StampsOK(c) /\ Remembers(c) /\ Spread(c)

SupInv == SupTypeOK /\ HealthHonest /\ \A c \in Child : ChildOK(c)

-----------------------------------------------------------------------------
(* Arithmetic.                                                              *)

(* 2 ^ n counts the subsets of a set of n elements.                         *)
LEMMA PowerNat ==
    ASSUME NEW n \in Nat
    PROVE  2 ^ n \in Nat
<1> DEFINE S == 1 .. n
<1>1. IsFiniteSet(S) /\ Cardinality(S) = n
  BY FS_Interval
<1> HIDE DEF S
<1>2. Cardinality(SUBSET S) = 2 ^ Cardinality(S)
  BY <1>1, FS_SUBSET, Zenon
<1>3. IsFiniteSet(SUBSET S)
  BY <1>1, FS_SUBSET, Zenon
<1>4. Cardinality(SUBSET S) \in Nat
  BY <1>3, FS_CardinalityType
<1> QED BY <1>1, <1>2, <1>4

(* Backoff::delay never exceeds Backoff::max.                               *)
LEMMA DelayBounded ==
    ASSUME NEW n \in Nat
    PROVE  Delay(n) \in Nat /\ Delay(n) <= MaxDelay
<1>1. \A x, y \in Nat : x * y \in Nat
  BY Z3
<1>2. Initial * 2 ^ n \in Nat
  BY <1>1, PowerNat, BackoffAssumption
<1> QED BY <1>2, BackoffAssumption DEF Delay

LEMMA LeastElement ==
    ASSUME NEW T \in SUBSET Nat, T # {}
    PROVE  \E x \in T : \A y \in T : x <= y
<1> DEFINE R == OpToRel(<, Nat)
<1>1. IsWellFoundedOn(R, Nat)
  BY NatLessThanWellFounded
<1>2. \A x, y \in Nat : x < y => <<x, y>> \in R
  BY DEF OpToRel
<1> HIDE DEF R
<1>3. PICK x \in T : \A y \in T : ~ (<<y, x>> \in R)
  BY <1>1, WFMin
<1>4. ASSUME NEW y \in T, y < x PROVE FALSE
  <2>1. <<y, x>> \in R
    BY <1>2, <1>4, Zenon
  <2> QED BY <1>3, <2>1, Zenon
<1>5. \A y \in T : x <= y
  BY <1>4
<1> QED BY <1>5

-----------------------------------------------------------------------------
(* The records of the tasks.                                                *)

LEMMA TaskFields ==
    ASSUME SupTypeOK, NEW c \in Child
    PROVE  /\ child[c] \in Supervised
           /\ child[c].pc \in {"waiting", "running", "stopped"}
           /\ child[c].until \in Nat /\ child[c].until <= MaxClock
           /\ child[c].times \subseteq Stamp /\ child[c].restarts \in Nat
           /\ child[c].health \in {"ok", "degraded", "unhealthy"}
           /\ clock \in Nat /\ clock <= MaxClock /\ MaxClock \in Nat
           /\ starts[c] \in Seq(0 .. MaxClock) /\ policy[c] \in Policies
BY MaxClockAssumption DEF SupTypeOK, Supervised

LEMMA StartsNat ==
    ASSUME SupTypeOK, NEW c \in Child
    PROVE  /\ Len(starts[c]) \in Nat /\ DOMAIN starts[c] = 1 .. Len(starts[c])
           /\ \A i \in DOMAIN starts[c] : starts[c][i] \in Nat
<1>1. starts[c] \in Seq(0 .. MaxClock) /\ MaxClock \in Nat
  BY TaskFields
<1>2. Len(starts[c]) \in Nat /\ DOMAIN starts[c] = 1 .. Len(starts[c])
  BY <1>1, LenProperties
<1>3. \A i \in 1 .. Len(starts[c]) : starts[c][i] \in 0 .. MaxClock
  BY <1>1, ElementOfSeq
<1> QED BY <1>1, <1>2, <1>3

(* What an end of the service writes.                                       *)
LEMMA RecentOK ==
    ASSUME SupTypeOK, NEW c \in Child, IsFiniteSet(child[c].times)
    PROVE  RecentTimes(c) \subseteq Stamp /\ IsFiniteSet(RecentTimes(c))
             /\ Cardinality(RecentTimes(c)) \in Nat
<1> DEFINE new == [nth |-> child[c].restarts + 1, at |-> clock]
           all == child[c].times \cup {new}
<1>1. new \in Stamp
  BY TaskFields DEF Stamp
<1>2. all \subseteq Stamp
  BY <1>1, TaskFields
<1>3. IsFiniteSet(all)
  BY FS_AddElement
<1>4. RecentTimes(c) \in SUBSET all
  BY DEF RecentTimes
<1> HIDE DEF all
<1>5. IsFiniteSet(RecentTimes(c))
  BY <1>3, <1>4, FS_Subset
<1> QED BY <1>2, <1>4, <1>5, FS_CardinalityType

(* The three outcomes of an end, field by field.                            *)
LEMMA SuperviseOK ==
    ASSUME SupTypeOK, NEW c \in Child, NEW abnormal \in BOOLEAN,
           IsFiniteSet(child[c].times), clock + MaxDelay <= MaxClock
    PROVE  LET m == Supervise(c, abnormal) IN
           /\ m \in Supervised /\ m.until <= MaxClock
           /\ \/ /\ m.pc = "stopped" /\ policy[c] # "permanent"
                 /\ m.times = child[c].times /\ m.restarts = child[c].restarts
              \/ /\ m.pc = "stopped" /\ m.health = "unhealthy"
                 /\ m.times = RecentTimes(c) /\ m.restarts = child[c].restarts + 1
              \/ /\ m.pc = "waiting" /\ Cardinality(RecentTimes(c)) <= MaxRestarts
                 /\ m.times = RecentTimes(c) /\ m.restarts = child[c].restarts + 1
                 /\ m.health = child[c].health \/ m.health = "degraded"
<1> DEFINE m == Supervise(c, abnormal)
           k == child[c]
           times == RecentTimes(c)
           until == clock + Delay(child[c].restarts)
           restarts == child[c].restarts + 1
<1>0. times \subseteq Stamp /\ Cardinality(times) \in Nat /\ MaxRestarts \in Nat
      /\ k \in Supervised /\ k.until <= MaxClock /\ restarts \in Nat
  BY RecentOK, TaskFields, MeltdownAssumption
<1>1. until \in Nat /\ until <= MaxClock
  <2>1. child[c].restarts \in Nat /\ clock \in Nat /\ MaxClock \in Nat
    BY TaskFields
  <2>2. Delay(child[c].restarts) \in Nat /\ Delay(child[c].restarts) <= MaxDelay
    BY <2>1, DelayBounded
  <2> HIDE DEF m, k, times, restarts
  <2> QED BY <2>1, <2>2, BackoffAssumption
<1>2. CASE ~ShouldRestart(c, abnormal)
  <2>1. m = [k EXCEPT !.pc = "stopped"]
          \/ m = [k EXCEPT !.pc = "stopped", !.health = "unhealthy"]
    BY <1>2 DEF Supervise, GiveUp, Supervised
  <2>2. policy[c] # "permanent"
    BY <1>2 DEF ShouldRestart
  <2> HIDE DEF m, k
  <2>3. /\ m \in Supervised /\ m.until = k.until /\ m.pc = "stopped"
        /\ m.times = k.times /\ m.restarts = k.restarts
    BY <1>0, <2>1 DEF Supervised
  <2> QED BY <1>0, <2>2, <2>3 DEF k, m
<1>3. CASE ShouldRestart(c, abnormal) /\ Cardinality(times) > MaxRestarts
  <2>1. m = [k EXCEPT !.pc = "stopped", !.times = times, !.restarts = restarts,
                      !.health = "unhealthy"]
    BY <1>3 DEF Supervise, Meltdown
  <2> HIDE DEF m, k, times, restarts
  <2>2. m \in Supervised
    BY <1>0, <2>1 DEF Supervised
  <2>3. /\ m.until = k.until /\ m.pc = "stopped" /\ m.health = "unhealthy"
        /\ m.times = times /\ m.restarts = restarts
    BY <1>0, <2>1 DEF Supervised
  <2> QED BY <1>0, <2>2, <2>3 DEF k, m, times, restarts
<1>4. CASE ShouldRestart(c, abnormal) /\ ~(Cardinality(times) > MaxRestarts)
  <2> DEFINE health == IF Cardinality(times) > 1 THEN "degraded" ELSE k.health
  <2>0. health \in {"ok", "degraded", "unhealthy"}
    BY <1>0 DEF Supervised
  <2>1. m = [k EXCEPT !.pc = "waiting", !.times = times, !.restarts = restarts,
                      !.until = until, !.health = health]
    BY <1>4 DEF Supervise, BackOff
  <2>4. health = k.health \/ health = "degraded"
    OBVIOUS
  <2>5. Cardinality(times) <= MaxRestarts
    BY <1>0, <1>4
  <2> HIDE DEF m, k, times, restarts, health, until
  <2>2. m \in Supervised
    BY <1>0, <1>1, <2>0, <2>1 DEF Supervised
  <2>3. /\ m.until = until /\ m.pc = "waiting" /\ m.health = health
        /\ m.times = times /\ m.restarts = restarts
    BY <1>0, <2>1 DEF Supervised
  <2> QED BY <1>1, <2>2, <2>3, <2>4, <2>5 DEF k, m, times, restarts
<1> QED BY <1>2, <1>3, <1>4

-----------------------------------------------------------------------------
(* The steps.                                                               *)

(* A task that does not move stays in order while the clock goes on.        *)
LEMMA ChildFrame ==
    ASSUME SupTypeOK, NEW c \in Child, ChildOK(c), clock' \in Nat, clock <= clock',
           child'[c] = child[c], starts'[c] = starts[c]
    PROVE  ChildOK(c)'
<1>1. /\ clock \in Nat /\ starts[c] \in Seq(0 .. MaxClock) /\ MeltWindow \in Nat
      /\ child[c].times \subseteq Stamp /\ child[c].restarts \in Nat
  BY TaskFields, MeltdownAssumption
<1>2. \A i \in DOMAIN starts[c] : starts[c][i] \in Nat
  BY StartsNat
<1>3. StartsSorted(c)'
  <2> SUFFICES ASSUME NEW i \in DOMAIN starts[c], NEW j \in DOMAIN starts[c], i <= j
               PROVE  starts[c][i] <= starts[c][j] /\ starts[c][j] <= clock'
    BY DEF StartsSorted
  <2> QED BY <1>1, <1>2 DEF ChildOK, StartsSorted
<1>4. StartsCounted(c)' /\ Spread(c)'
  BY DEF ChildOK, StartsCounted, Spread
<1>5. StampsOK(c)'
  <2>1. \A t \in child[c].times : t.at \in Nat
    BY <1>1 DEF Stamp
  <2> QED BY <1>1, <2>1 DEF ChildOK, StampsOK
<1>6. Remembers(c)'
  <2> SUFFICES ASSUME child[c].pc # "stopped", NEW i \in 1 .. child[c].restarts
               PROVE  \/ \E t \in child[c].times : t.nth = i
                      \/ starts[c][i] + MeltWindow < clock'
    BY DEF Remembers
  <2>1. i \in DOMAIN starts[c]
    BY <1>1, TaskFields DEF ChildOK, StartsCounted
  <2>2. (\E t \in child[c].times : t.nth = i) \/ starts[c][i] + MeltWindow < clock
    BY DEF ChildOK, Remembers
  <2> QED BY <1>1, <1>2, <2>1, <2>2
<1> QED BY <1>3, <1>4, <1>5, <1>6 DEF ChildOK

LEMMA StartServiceOK ==
    ASSUME SupInv, NEW c \in Child, StartService(c)
    PROVE  SupInv'
<1> DEFINE m == [child[c] EXCEPT !.pc = "running"]
           n == Len(starts[c])
<1>0. /\ SupTypeOK /\ ChildOK(c) /\ child[c].pc = "waiting" /\ clock' = clock
      /\ policy' = policy /\ cancelled' = cancelled
  BY DEF SupInv, StartService
<1>1. /\ child[c] \in Supervised /\ child[c].times \subseteq Stamp
      /\ child[c].restarts \in Nat /\ clock \in Nat /\ clock <= MaxClock
      /\ MaxClock \in Nat /\ starts[c] \in Seq(0 .. MaxClock)
      /\ MeltWindow \in Nat /\ MaxRestarts \in Nat
  BY <1>0, TaskFields, MeltdownAssumption
<1>2. child' = [child EXCEPT ![c] = m] /\ child \in [Child -> Supervised]
  BY <1>0 DEF StartService, SupTypeOK
<1>3. /\ m \in Supervised /\ m.pc = "running" /\ m.until = child[c].until
      /\ m.times = child[c].times /\ m.restarts = child[c].restarts
      /\ m.health = child[c].health
  BY <1>1 DEF Supervised
<1> HIDE DEF m
<1>4. child'[c] = m /\ \A d \in Child : d # c => child'[d] = child[d]
  BY <1>2
<1>5. starts'[c] = Append(starts[c], clock) /\ \A d \in Child : d # c => starts'[d] = starts[d]
  BY <1>0 DEF StartService, SupTypeOK
<1>6. SupTypeOK'
  <2>1. child' \in [Child -> Supervised]
    BY <1>2, <1>3
  <2>2. \A d \in Child : child'[d].until <= MaxClock
    BY <1>0, <1>3, <1>4 DEF SupTypeOK
  <2>3. starts' \in [Child -> Seq(0 .. MaxClock)]
    <3>1. Append(starts[c], clock) \in Seq(0 .. MaxClock)
      BY <1>1
    <3> QED BY <1>0, <3>1 DEF StartService, SupTypeOK
  <2> QED BY <1>0, <2>1, <2>2, <2>3 DEF SupTypeOK
<1>7. HealthHonest'
  BY <1>0, <1>3, <1>4 DEF SupInv, HealthHonest
<1>8. n = child[c].restarts /\ n \in Nat /\ DOMAIN starts[c] = 1 .. n
  BY <1>0, <1>1 DEF ChildOK, StartsCounted
<1>9. /\ Len(starts'[c]) = n + 1 /\ DOMAIN starts'[c] = 1 .. n + 1
      /\ starts'[c][n + 1] = clock /\ \A i \in 1 .. n : starts'[c][i] = starts[c][i]
  BY <1>1, <1>5, <1>8
<1>10. \A i \in 1 .. n : starts[c][i] \in Nat
  BY <1>1, <1>8
(* A start that still matters has its stamp, and there are not too many.    *)
<1>11. ASSUME NEW i \in 1 .. n, i + MaxRestarts < n + 1
       PROVE  starts[c][i] + MeltWindow < clock
  <2> SUFFICES ASSUME ~(starts[c][i] + MeltWindow < clock) PROVE FALSE
    OBVIOUS
  <2>1. ASSUME NEW k \in i .. n
        PROVE  \E t \in child[c].times : t.nth = k
    <3>1. k \in 1 .. n /\ i <= k
      BY <1>8
    <3>2. starts[c][i] <= starts[c][k]
      BY <1>0, <1>8, <3>1 DEF ChildOK, StartsSorted
    <3>3. ~(starts[c][k] + MeltWindow < clock)
      BY <1>1, <1>10, <3>1, <3>2
    <3> QED BY <1>0, <1>8, <3>1, <3>3 DEF ChildOK, Remembers
  <2> DEFINE S == {t \in child[c].times : t.nth \in i .. n}
             f == [t \in S |-> t.nth]
  <2>2. IsFiniteSet(child[c].times) /\ Cardinality(child[c].times) <= MaxRestarts
    BY <1>0 DEF ChildOK, StampsOK
  <2>3. S \in SUBSET child[c].times
    OBVIOUS
  <2>4. f \in Surjection(S, i .. n)
    BY <2>1 DEF Surjection
  <2> HIDE DEF S, f
  <2>5. /\ IsFiniteSet(S) /\ Cardinality(S) <= Cardinality(child[c].times)
        /\ Cardinality(i .. n) <= Cardinality(S)
    BY <2>2, <2>3, <2>4, FS_Subset, FS_Surjection
  <2>6. Cardinality(i .. n) = n - i + 1
    <3>1. i \in Int /\ n \in Int /\ ~(i > n)
      BY <1>8
    <3> QED BY <3>1, FS_Interval
  <2>7. Cardinality(S) \in Nat /\ Cardinality(child[c].times) \in Nat
    BY <2>2, <2>5, FS_CardinalityType
  <2> QED BY <1>1, <1>8, <1>11, <2>2, <2>5, <2>6, <2>7
<1>12. ChildOK(c)'
  <2>1. StartsSorted(c)'
    <3> SUFFICES ASSUME NEW i \in 1 .. n + 1, NEW j \in 1 .. n + 1, i <= j
                 PROVE  starts'[c][i] <= starts'[c][j] /\ starts'[c][j] <= clock
      BY <1>0, <1>9 DEF StartsSorted
    <3>1. CASE j \in 1 .. n
      <4>1. i \in 1 .. n
        BY <1>8, <3>1
      <4>2. starts[c][i] <= starts[c][j] /\ starts[c][j] <= clock
        BY <1>0, <1>8, <3>1, <4>1 DEF ChildOK, StartsSorted
      <4> QED BY <1>9, <3>1, <4>1, <4>2
    <3>2. CASE j = n + 1
      <4>1. CASE i \in 1 .. n
        <5>1. starts[c][i] <= clock
          BY <1>0, <1>8, <4>1 DEF ChildOK, StartsSorted
        <5> QED BY <1>1, <1>9, <3>2, <4>1, <5>1
      <4>2. CASE i = n + 1
        BY <1>1, <1>9, <3>2, <4>2
      <4> QED BY <1>8, <4>1, <4>2
    <3> QED BY <1>8, <3>1, <3>2
  <2>2. StartsCounted(c)'
    BY <1>3, <1>4, <1>8, <1>9 DEF StartsCounted
  <2>3. StampsOK(c)'
    <3>1. \A t \in child[c].times :
             t.nth \in 1 .. n /\ starts'[c][t.nth] = starts[c][t.nth]
      BY <1>0, <1>8, <1>9 DEF ChildOK, StampsOK
    <3> QED BY <1>0, <1>3, <1>4, <1>8, <1>9, <3>1 DEF ChildOK, StampsOK
  <2>4. Remembers(c)'
    BY <1>0, <1>3, <1>4, <1>8, <1>9 DEF ChildOK, Remembers
  <2>5. Spread(c)'
    <3> SUFFICES ASSUME NEW i \in 1 .. n + 1, NEW j \in 1 .. n + 1, i + MaxRestarts < j
                 PROVE  starts'[c][i] + MeltWindow < starts'[c][j]
      BY <1>9 DEF Spread
    <3>1. i \in 1 .. n
      BY <1>1, <1>8
    <3>2. CASE j \in 1 .. n
      BY <1>0, <1>8, <1>9, <3>1, <3>2 DEF ChildOK, Spread
    <3>3. CASE j = n + 1
      BY <1>9, <1>11, <3>1, <3>3
    <3> QED BY <1>8, <3>2, <3>3
  <2> QED BY <2>1, <2>2, <2>3, <2>4, <2>5 DEF ChildOK
<1>13. ASSUME NEW d \in Child, d # c PROVE ChildOK(d)'
  BY <1>0, <1>1, <1>4, <1>5, <1>13, ChildFrame DEF SupInv
<1> QED BY <1>6, <1>7, <1>12, <1>13 DEF SupInv

(* A stopped task keeps only what the past says of it.                      *)
LEMMA StoppedOK ==
    ASSUME SupInv, NEW c \in Child, cancelled,
           child' = [child EXCEPT ![c].pc = "stopped"],
           UNCHANGED <<clock, policy, cancelled, starts>>
    PROVE  SupInv'
<1> DEFINE m == [child[c] EXCEPT !.pc = "stopped"]
<1>0. SupTypeOK /\ ChildOK(c) /\ child[c] \in Supervised /\ child \in [Child -> Supervised]
      /\ clock \in Nat
  BY TaskFields DEF SupInv, SupTypeOK
<1>1. child' = [child EXCEPT ![c] = m]
  BY <1>0
<1>2. /\ m \in Supervised /\ m.pc = "stopped" /\ m.until = child[c].until
      /\ m.times = child[c].times /\ m.restarts = child[c].restarts
  BY <1>0 DEF Supervised
<1> HIDE DEF m
<1>3. child'[c] = m /\ \A d \in Child : d # c => child'[d] = child[d]
  BY <1>0, <1>1
<1>4. SupTypeOK'
  <2>1. child' \in [Child -> Supervised]
    BY <1>0, <1>1, <1>2
  <2>2. \A d \in Child : child'[d].until <= MaxClock
    BY <1>0, <1>2, <1>3 DEF SupTypeOK
  <2> QED BY <1>0, <2>1, <2>2 DEF SupTypeOK
<1>5. HealthHonest'
  BY <1>2, <1>3 DEF SupInv, HealthHonest
<1>6. ChildOK(c)'
  BY <1>0, <1>2, <1>3 DEF ChildOK, StartsSorted, StartsCounted, StampsOK, Remembers, Spread
<1>7. ASSUME NEW d \in Child, d # c PROVE ChildOK(d)'
  BY <1>0, <1>3, <1>7, ChildFrame DEF SupInv
<1> QED BY <1>4, <1>5, <1>6, <1>7 DEF SupInv

LEMMA ServiceEndsOK ==
    ASSUME SupInv, NEW c \in Child, NEW abnormal \in BOOLEAN, ServiceEnds(c, abnormal)
    PROVE  SupInv'
<1> DEFINE m == Supervise(c, abnormal)
<1>0. /\ SupTypeOK /\ ChildOK(c) /\ child[c].pc = "running" /\ ~cancelled
      /\ clock' = clock /\ policy' = policy /\ cancelled' = cancelled
      /\ starts' = starts /\ child \in [Child -> Supervised]
      /\ clock + MaxDelay <= MaxClock
  BY DEF SupInv, ServiceEnds, SupTypeOK
<1>1. /\ child[c].times \subseteq Stamp /\ child[c].restarts \in Nat /\ clock \in Nat
      /\ starts[c] \in Seq(0 .. MaxClock) /\ MeltWindow \in Nat
      /\ IsFiniteSet(child[c].times)
  BY <1>0, TaskFields, MeltdownAssumption DEF ChildOK, StampsOK
<1>2. child' = [child EXCEPT ![c] = m]
  BY DEF ServiceEnds
<1>3. /\ m \in Supervised /\ m.until <= MaxClock
      /\ \/ /\ m.pc = "stopped" /\ policy[c] # "permanent"
            /\ m.times = child[c].times /\ m.restarts = child[c].restarts
         \/ /\ m.pc = "stopped" /\ m.health = "unhealthy"
            /\ m.times = RecentTimes(c) /\ m.restarts = child[c].restarts + 1
         \/ /\ m.pc = "waiting" /\ Cardinality(RecentTimes(c)) <= MaxRestarts
            /\ m.times = RecentTimes(c) /\ m.restarts = child[c].restarts + 1
            /\ m.health = child[c].health \/ m.health = "degraded"
  BY <1>0, <1>1, SuperviseOK
<1> HIDE DEF m
<1>4. child'[c] = m /\ \A d \in Child : d # c => child'[d] = child[d]
  BY <1>0, <1>2
<1>5. SupTypeOK'
  <2>1. child' \in [Child -> Supervised]
    BY <1>0, <1>2, <1>3
  <2>2. \A d \in Child : child'[d].until <= MaxClock
    BY <1>0, <1>3, <1>4 DEF SupTypeOK
  <2> QED BY <1>0, <2>1, <2>2 DEF SupTypeOK
<1>6. HealthHonest'
  BY <1>0, <1>3, <1>4 DEF SupInv, HealthHonest
<1>7. ChildOK(c)'
  <2>1. StartsSorted(c)' /\ Spread(c)'
    BY <1>0 DEF ChildOK, StartsSorted, Spread
  <2>2. /\ Len(starts[c]) = child[c].restarts + 1
        /\ DOMAIN starts[c] = 1 .. child[c].restarts + 1
    BY <1>0, <1>1 DEF ChildOK, StartsCounted
  <2>3. StartsCounted(c)'
    BY <1>0, <1>3, <1>4, <2>2 DEF StartsCounted
  <2>4. \A i \in DOMAIN starts[c] : starts[c][i] \in Nat /\ starts[c][i] <= clock
    <3>1. \A i \in DOMAIN starts[c] : i <= i
      BY <1>1, <2>2
    <3> QED BY <1>0, <3>1, StartsNat DEF ChildOK, StartsSorted
  <2>5. CASE m.times = child[c].times /\ m.restarts = child[c].restarts /\ m.pc = "stopped"
    BY <1>0, <1>4, <2>1, <2>3, <2>5 DEF ChildOK, StampsOK, Remembers
  <2>6. CASE /\ m.times = RecentTimes(c) /\ m.restarts = child[c].restarts + 1
             /\ m.pc = "stopped" \/ Cardinality(RecentTimes(c)) <= MaxRestarts
    <3> DEFINE new == [nth |-> child[c].restarts + 1, at |-> clock]
    <3>1. \A t \in child[c].times : t.nth \in Nat /\ t.at \in Nat
      BY <1>1 DEF Stamp
    <3>2. RecentTimes(c) =
            {t \in child[c].times \cup {new} : clock - t.at <= MeltWindow}
      BY DEF RecentTimes
    <3>3. new.nth = child[c].restarts + 1 /\ new.at = clock
      OBVIOUS
    <3> HIDE DEF new
    <3>4. StampsOK(c)'
      <4>1. IsFiniteSet(RecentTimes(c))
        BY <1>0, <1>1, RecentOK
      <4>2. ASSUME NEW t \in RecentTimes(c)
            PROVE  /\ t.nth \in DOMAIN starts[c] /\ t.nth <= child[c].restarts + 1
                   /\ starts[c][t.nth] <= t.at /\ t.at <= clock
        <5>1. CASE t \in child[c].times
          BY <1>0, <1>1, <2>2, <3>1, <5>1 DEF ChildOK, StampsOK
        <5>2. CASE t = new
          BY <1>1, <2>2, <2>4, <3>3, <5>2
        <5> QED BY <3>2, <5>1, <5>2
      <4> QED BY <1>0, <1>4, <2>6, <4>1, <4>2 DEF StampsOK
    <3>5. Remembers(c)'
      <4> SUFFICES ASSUME NEW i \in 1 .. child[c].restarts + 1
                   PROVE  \/ \E t \in RecentTimes(c) : t.nth = i
                          \/ starts[c][i] + MeltWindow < clock
        BY <1>0, <1>4, <2>6 DEF Remembers
      <4>1. CASE i = child[c].restarts + 1
        <5>1. new \in RecentTimes(c)
          BY <1>1, <3>2, <3>3
        <5> QED BY <3>3, <4>1, <5>1
      <4>2. CASE i # child[c].restarts + 1
        <5>1. i \in 1 .. child[c].restarts
          BY <1>1, <4>2
        <5>2. CASE \E t \in child[c].times : t.nth = i
          <6>1. PICK t \in child[c].times : t.nth = i
            BY <5>2
          <6>2. CASE clock - t.at <= MeltWindow
            BY <3>2, <6>1, <6>2
          <6>3. CASE ~(clock - t.at <= MeltWindow)
            <7>1. starts[c][i] <= t.at /\ i \in DOMAIN starts[c]
              BY <1>0, <6>1 DEF ChildOK, StampsOK
            <7> QED BY <1>1, <2>4, <3>1, <6>3, <7>1
          <6> QED BY <6>2, <6>3
        <5>3. CASE ~(\E t \in child[c].times : t.nth = i)
          BY <1>0, <5>1, <5>3 DEF ChildOK, Remembers
        <5> QED BY <5>2, <5>3
      <4> QED BY <4>1, <4>2
    <3> QED BY <2>1, <2>3, <3>4, <3>5 DEF ChildOK
  <2> QED BY <1>3, <2>5, <2>6
<1>8. ASSUME NEW d \in Child, d # c PROVE ChildOK(d)'
  BY <1>0, <1>1, <1>4, <1>8, ChildFrame DEF SupInv
<1> QED BY <1>5, <1>6, <1>7, <1>8 DEF SupInv

LEMMA CancelOK ==
    ASSUME SupInv, Cancel
    PROVE  SupInv'
<1>1. SupTypeOK' /\ HealthHonest'
  BY DEF SupInv, SupTypeOK, HealthHonest, Cancel
<1>2. ASSUME NEW c \in Child PROVE ChildOK(c)'
  BY TaskFields, ChildFrame DEF SupInv, Cancel
<1> QED BY <1>1, <1>2 DEF SupInv

LEMMA SupClockOK ==
    ASSUME SupInv, SupClock
    PROVE  SupInv'
<1>1. clock \in Nat /\ clock' = clock + 1 /\ clock' \in 0 .. MaxClock /\ clock' \in Nat
  BY MaxClockAssumption DEF SupInv, SupTypeOK, SupClock
<1>2. SupTypeOK' /\ HealthHonest'
  BY <1>1 DEF SupInv, SupTypeOK, HealthHonest, SupClock
<1>3. ASSUME NEW c \in Child PROVE ChildOK(c)'
  BY <1>1, ChildFrame DEF SupInv, SupClock
<1> QED BY <1>2, <1>3 DEF SupInv

LEMMA SupStep == SupInv /\ [SupNext]_supVars => SupInv'
<1> SUFFICES ASSUME SupInv, [SupNext]_supVars PROVE SupInv'
  OBVIOUS
<1>1. ASSUME NEW c \in Child, StartService(c) PROVE SupInv'
  BY <1>1, StartServiceOK
<1>2. ASSUME NEW c \in Child, StopWaiting(c) PROVE SupInv'
  BY <1>2, StoppedOK DEF StopWaiting
<1>3. ASSUME NEW c \in Child, StopService(c) PROVE SupInv'
  BY <1>3, StoppedOK DEF StopService
<1>4. ASSUME NEW c \in Child, NEW abnormal \in BOOLEAN, ServiceEnds(c, abnormal)
      PROVE  SupInv'
  BY <1>4, ServiceEndsOK
<1>5. CASE UNCHANGED supVars
  BY <1>5 DEF SupInv, SupTypeOK, HealthHonest, ChildOK, StartsSorted, StartsCounted,
              StampsOK, Remembers, Spread, supVars
<1> QED BY <1>1, <1>2, <1>3, <1>4, <1>5, CancelOK, SupClockOK, Zenon DEF SupNext

LEMMA SupStart == SupInit => SupInv
<1> SUFFICES ASSUME SupInit PROVE SupInv
  OBVIOUS
<1> DEFINE m == [pc |-> "waiting", until |-> 0, times |-> {}, restarts |-> 0,
                 health |-> "ok"]
<1>1. m \in Supervised /\ m.until = 0 /\ m.times = {} /\ m.restarts = 0 /\ m.health = "ok"
      /\ m.pc = "waiting"
  BY DEF Supervised
<1>2. child = [c \in Child |-> m] /\ clock = 0 /\ starts = [c \in Child |-> <<>>]
      /\ policy \in [Child -> Policies] /\ cancelled = FALSE
  BY DEF SupInit
<1> HIDE DEF m
<1>3. \A c \in Child : child[c] = m /\ starts[c] = <<>>
  BY <1>2
<1>4. SupTypeOK
  <2>1. child \in [Child -> Supervised]
    BY <1>1, <1>2
  <2>2. \A c \in Child : child[c].until <= MaxClock
    BY <1>1, <1>3, MaxClockAssumption
  <2>3. starts \in [Child -> Seq(0 .. MaxClock)]
    BY <1>2
  <2>4. clock \in 0 .. MaxClock
    BY <1>2, MaxClockAssumption
  <2> QED BY <1>2, <2>1, <2>2, <2>3, <2>4 DEF SupTypeOK
<1>5. HealthHonest
  BY <1>1, <1>3 DEF HealthHonest
<1>6. ASSUME NEW c \in Child PROVE ChildOK(c)
  <2>1. DOMAIN starts[c] = {} /\ Len(starts[c]) = 0
    BY <1>3
  <2>2. IsFiniteSet(child[c].times) /\ Cardinality(child[c].times) <= MaxRestarts
    <3>1. child[c].times = {} /\ MaxRestarts \in Nat
      BY <1>1, <1>3, MeltdownAssumption
    <3> QED BY <3>1, FS_EmptySet
  <2>3. StartsSorted(c) /\ Spread(c)
    BY <2>1 DEF StartsSorted, Spread
  <2>4. StartsCounted(c)
    BY <1>1, <1>3, <2>1 DEF StartsCounted
  <2>5. StampsOK(c) /\ Remembers(c)
    BY <1>1, <1>3, <2>2 DEF StampsOK, Remembers
  <2> QED BY <2>3, <2>4, <2>5 DEF ChildOK
<1> QED BY <1>4, <1>5, <1>6 DEF SupInv

LEMMA SupInductive == SupSpec => []SupInv
BY SupStart, SupStep, PTL DEF SupSpec

-----------------------------------------------------------------------------
(* Tasks, delays and the health map keep their types, and no sleep outlasts *)
(* the capped backoff, however often a child restarts.                      *)
THEOREM SupTypeCorrect == SupSpec => []SupTypeOK
<1>1. SupInv => SupTypeOK
  BY DEF SupInv
<1> QED BY <1>1, SupInductive, PTL

(* A permanent service that is down while the host runs is reported         *)
(* unhealthy, and only services that are down are.                          *)
THEOREM HealthStaysHonest == SupSpec => []HealthHonest
<1>1. SupInv => HealthHonest
  BY DEF SupInv
<1> QED BY <1>1, SupInductive, PTL

(* No restart storm, for any thresholds: a child is started at most         *)
(* max_restarts + 1 times in any interval of the meltdown window's length.  *)
THEOREM RestartsStayBounded == SupSpec => []RestartsBounded
<1>1. ASSUME SupInv PROVE RestartsBounded
  <2> SUFFICES ASSUME NEW c \in Child, NEW from \in 0 .. MaxClock
               PROVE  Cardinality(StartsIn(c, from)) <= MaxRestarts + 1
    BY DEF RestartsBounded
  <2> DEFINE S == StartsIn(c, from)
  <2>0. /\ SupTypeOK /\ Spread(c) /\ from \in Nat /\ MeltWindow \in Nat
        /\ MaxRestarts \in Nat
    BY <1>1, MaxClockAssumption, MeltdownAssumption DEF SupInv, ChildOK
  <2>1. S \subseteq DOMAIN starts[c] /\ S \in SUBSET Nat
    BY <2>0, StartsNat DEF StartsIn
  <2>2. \A i \in S : starts[c][i] \in from .. from + MeltWindow
    BY DEF StartsIn
  <2> HIDE DEF S
  <2>3. CASE S = {}
    BY <2>0, <2>3, FS_EmptySet DEF S
  <2>4. CASE S # {}
    <3>1. PICK i \in S : \A j \in S : i <= j
      BY <2>1, <2>4, LeastElement
    <3>2. ASSUME NEW j \in S PROVE j \in i .. i + MaxRestarts
      <4>1. ~(starts[c][i] + MeltWindow < starts[c][j])
        BY <2>0, <2>2
      <4>2. ~(i + MaxRestarts < j)
        BY <2>0, <2>1, <4>1 DEF Spread
      <4> QED BY <2>0, <2>1, <3>1, <4>2
    <3>3. S \in SUBSET (i .. i + MaxRestarts)
      BY <3>2
    <3>4. i \in Int /\ i + MaxRestarts \in Int /\ ~(i > i + MaxRestarts)
      BY <2>0, <2>1
    <3>5. /\ IsFiniteSet(i .. i + MaxRestarts)
          /\ Cardinality(i .. i + MaxRestarts) = (i + MaxRestarts) - i + 1
      BY <3>4, FS_Interval
    <3>6. Cardinality(S) <= Cardinality(i .. i + MaxRestarts)
      BY <3>3, <3>5, FS_Subset
    <3> QED BY <2>0, <2>1, <3>5, <3>6 DEF S
  <2> QED BY <2>3, <2>4
<1> QED BY <1>1, SupInductive, PTL
=============================================================================
