-------------------------- MODULE ActivationProofs --------------------------
(***************************************************************************)
(* Proofs about Activation, for every set of sessions and processes and    *)
(* every bound: type correctness first, then the inductive invariant of    *)
(* leases, claims and cursors.                                             *)
(***************************************************************************)
EXTENDS Activation, StoreProofs, WellFoundedInduction

(* A non-empty bounded set of numbers has a largest element, and Max is it. *)
LEMMA MaxOfBounded ==
    ASSUME NEW n \in Nat, NEW S \in SUBSET (0 .. n), S # {}
    PROVE  Max(S) \in S /\ \A y \in S : y <= Max(S)
<1> DEFINE T == {n - x : x \in S}
           R == {p \in Nat \X Nat : p[1] < p[2]}
<1>r. IsWellFoundedOn(R, Nat)
  BY NatLessThanWellFounded DEF OpToRel
<1>0. \A x \in S : x \in Nat /\ x <= n
  OBVIOUS
<1>a. \A x \in S : n - x \in Nat
  BY <1>0
<1>1. T \in SUBSET Nat /\ T # {}
  BY <1>a
<1> HIDE DEF T
<1>2. PICK t \in T : \A u \in T : ~(<<u, t>> \in R)
  BY <1>r, <1>1, WFMin
<1>b. ASSUME NEW u \in T PROVE t <= u
  <2>1. u \in Nat /\ t \in Nat
    BY <1>1
  <2>2. u < t => <<u, t>> \in R
    BY <2>1
  <2> HIDE DEF R
  <2> QED
    BY <1>2, <2>1, <2>2
<1>3. PICK x \in S : t = n - x
  BY <1>2 DEF T
<1>4. \A y \in S : n - x <= n - y
  BY <1>b, <1>3 DEF T
<1>5. \A y \in S : x >= y
  BY <1>0, <1>4
<1> QED
  BY <1>3, <1>5 DEF Max

-----------------------------------------------------------------------------
(* Type correctness.                                                        *)

(* Replacing one slot of the directory keeps it well-typed. *)
LEMMA SlotType ==
    ASSUME cycle \in [Manager -> [Session -> Cycle]], NEW m \in Manager,
           NEW s \in Session, NEW cy \in Cycle
    PROVE  [cycle EXCEPT ![m][s] = cy] \in [Manager -> [Session -> Cycle]]
OBVIOUS

LEMMA CallerSlotType ==
    ASSUME caller \in [Manager -> [Caller -> CallerState]], NEW m \in Manager,
           NEW c \in Caller, NEW x \in CallerState
    PROVE  [caller EXCEPT ![m][c] = x] \in [Manager -> [Caller -> CallerState]]
OBVIOUS

LEMMA VacantType == Vacant \in Cycle
BY DEF Vacant, Cycle, CyclePc, FreshSnapshot, Snapshot

LEMMA ExitingType ==
    ASSUME NEW cy \in Cycle
    PROVE  Exiting(cy) \in Cycle
BY VacantType DEF Exiting, Cycle, CyclePc

(* Releasing a waiting caller keeps the callers well-typed. *)
LEMMA ReleaseType ==
    ASSUME caller \in [Manager -> [Caller -> CallerState]], NEW m \in Manager,
           NEW w \in Caller \cup {None}
    PROVE  Release(m, w) \in [Manager -> [Caller -> CallerState]]
<1>1. CASE w = None
  BY <1>1 DEF Release
<1>2. CASE w # None
  <2>1. caller[m][w] \in CallerState
    BY <1>2
  <2>2. [caller[m][w] EXCEPT !.pc = "idle", !.s = None] \in CallerState
    BY <2>1 DEF CallerState
  <2>3. Release(m, w) = [caller EXCEPT ![m][w] =
                            [caller[m][w] EXCEPT !.pc = "idle", !.s = None]]
    BY <1>2, <2>1 DEF Release, CallerState
  <2> QED
    BY <1>2, <2>2, <2>3
<1> QED
  BY <1>1, <1>2

LEMMA SetCallerType ==
    ASSUME caller \in [Manager -> [Caller -> CallerState]], NEW m \in Manager,
           NEW c \in Caller, NEW s \in Session \cup {None},
           NEW pc \in {"idle", "status", "reserve", "await"}
    PROVE  SetCaller(m, c, pc, s) \in [Manager -> [Caller -> CallerState]]
<1>1. caller[m][c] \in CallerState
  OBVIOUS
<1>2. [caller[m][c] EXCEPT !.pc = pc, !.s = s] \in CallerState
  BY <1>1 DEF CallerState
<1>3. SetCaller(m, c, pc, s) = [caller EXCEPT ![m][c] =
                                  [caller[m][c] EXCEPT !.pc = pc, !.s = s]]
  BY <1>1 DEF SetCaller, CallerState
<1> QED
  BY <1>2, <1>3

LEMMA SpendType ==
    ASSUME budget \in [EnvEvent -> Nat], NEW e \in EnvEvent, Spend(e)
    PROVE  budget' \in [EnvEvent -> Nat]
BY DEF Spend

(* Hydrating folds the fresh splices into a snapshot. *)
LEMMA FoldedType ==
    ASSUME StoreTypeOK, NEW s \in Session, NEW base \in Snapshot, NEW f \in Nat
    PROVE  Folded(base, Fresh(inbox[s], base, f), f) \in Snapshot
<1> DEFINE fresh == Fresh(inbox[s], base, f)
           n     == lastSeq[s] + base.cursor
<1>1. ClaimSplices(inbox[s], f) \in [1 .. lastSeq[s] -> Row] /\ lastSeq[s] \in Nat
  BY RowsType DEF StoreTypeOK
<1>2. fresh \subseteq 1 .. lastSeq[s]
  BY <1>1 DEF Fresh, HeldBy
<1>3. base.cursor \in Nat
  BY DEF Snapshot
<1>4. n \in Nat /\ fresh \cup {base.cursor} \in SUBSET (0 .. n)
  BY <1>1, <1>2, <1>3
<1>5. Max(fresh \cup {base.cursor}) \in Nat
  <2> HIDE DEF fresh, n
  <2>1. fresh \cup {base.cursor} # {}
    OBVIOUS
  <2>2. Max(fresh \cup {base.cursor}) \in fresh \cup {base.cursor}
    BY <1>4, <2>1, MaxOfBounded
  <2> QED
    BY <1>4, <2>2
<1>6. base.conv \cup {<<i, f>> : i \in fresh} \in SUBSET (Nat \X Nat)
  BY <1>1, <1>2 DEF Snapshot
<1> QED
  BY <1>5, <1>6 DEF Folded, Snapshot

(* The producers keep every variable well-typed. *)
LEMMA ProducerType ==
    ASSUME TypeOK, NEW s \in Session, Producer(s)
    PROVE  TypeOK'
<1>1. CASE Create(s)
  BY <1>1, CreateType DEF Create, TypeOK, managerVars
<1>2. CASE Edit(s)
  <2>1. budget' \in [EnvEvent -> Nat]
    BY <1>2, SpendType DEF Edit, TypeOK, EnvEvent
  <2> QED
    BY <1>2, <2>1, SwapType DEF Edit, TypeOK
<1>3. CASE Prune(s)
  <2>1. PICK i \in 1 .. lastSeq[s] : PruneConsumedSplices(s, i)
    BY <1>3 DEF Prune
  <2>2. i \in Nat
    BY DEF TypeOK, StoreTypeOK
  <2> QED
    BY <1>3, <2>1, <2>2, PruneType DEF Prune, TypeOK, managerVars
<1>4. CASE LeaseElsewhere(s)
  <2>1. StoreTypeOK'
    BY <1>4, FlipType DEF LeaseElsewhere, TypeOK
  <2>2. fence'[s] \in Nat
    BY <2>1 DEF StoreTypeOK
  <2>3. budget' \in [EnvEvent -> Nat]
    BY <1>4, SpendType DEF LeaseElsewhere, TypeOK, EnvEvent
  <2> QED
    BY <1>4, <2>1, <2>2, <2>3 DEF LeaseElsewhere, TypeOK
<1>5. ASSUME NEW j \in parked[s], Answer(s, j) PROVE TypeOK'
  <2>1. j \in JobId
    BY DEF TypeOK, StoreTypeOK
  <2> QED
    BY <1>5, <2>1, CompletionType DEF Answer, TypeOK, managerVars
<1> QED
  BY <1>1, <1>2, <1>3, <1>4, <1>5 DEF Producer

(* The wake calls keep every variable well-typed. *)
LEMMA WakeType ==
    ASSUME TypeOK, NEW m \in Manager, NEW s \in Session, Wake(m, s)
    PROVE  TypeOK'
<1>1. CASE Assign(m, s)
  <2>1. budget' \in [EnvEvent -> Nat]
    BY <1>1, SpendType DEF Assign, TypeOK, EnvEvent
  <2> QED
    BY <1>1, <2>1, FlipType, SetCallerType DEF Assign, TypeOK, Caller
<1>2. CASE DispatchWake(m, s)
  BY <1>2, FlipType, SetCallerType DEF DispatchWake, TypeOK, Caller
<1>3. CASE ScanNext(m, s)
  <2>1. caller[m]["scanner"] \in CallerState
    BY DEF TypeOK, Caller
  <2> DEFINE c == [caller[m]["scanner"] EXCEPT !.pc = "status", !.s = s, !.todo = @ \ {s}]
  <2>2. c \in CallerState
    BY <2>1 DEF CallerState
  <2>3. caller' = [caller EXCEPT ![m]["scanner"] = c]
    BY <1>3, <2>1 DEF ScanNext, CallerState
  <2>4. caller' \in [Manager -> [Caller -> CallerState]]
    BY <2>2, <2>3 DEF TypeOK, Caller
  <2>5. UNCHANGED storeVars => StoreTypeOK'
    BY DEF TypeOK, StoreTypeOK, storeVars
  <2> QED
    BY <1>3, <2>4, <2>5 DEF ScanNext, TypeOK
<1>4. ASSUME NEW c \in Caller, Reserve(m, c, s) PROVE TypeOK'
  <2> DEFINE cy == [Vacant EXCEPT !.pc = "reserved", !.waiter = c]
  <2>1. cy \in Cycle
    BY VacantType DEF Cycle, CyclePc
  <2>2. cycle' \in [Manager -> [Session -> Cycle]]
    BY <1>4, <2>1, SlotType DEF Reserve, TypeOK
  <2>3. caller' \in [Manager -> [Caller -> CallerState]]
    <3>1. caller[m][c] \in CallerState
      BY DEF TypeOK
    <3>2. [caller[m][c] EXCEPT !.pc = "await"] \in CallerState
      BY <3>1 DEF CallerState
    <3>3. caller' = [caller EXCEPT ![m][c] = [caller[m][c] EXCEPT !.pc = "await"]]
      BY <1>4 DEF Reserve
    <3> QED
      BY <3>2, <3>3 DEF TypeOK
  <2>5. UNCHANGED storeVars => StoreTypeOK'
    BY DEF TypeOK, StoreTypeOK, storeVars
  <2> QED
    BY <1>4, <2>2, <2>3, <2>5 DEF Reserve, TypeOK
<1>5. ASSUME NEW c \in Caller, Absorb(m, c, s) PROVE TypeOK'
  <2>1. cycle[m][s] \in Cycle
    BY DEF TypeOK
  <2> DEFINE cy == [cycle[m][s] EXCEPT !.mail = @ \/ HasMailbox(cycle[m][s])]
  <2>2. cy \in Cycle
    BY <2>1, Zenon DEF Cycle, HasMailbox
  <2>3. cycle' \in [Manager -> [Session -> Cycle]]
    BY <1>5, <2>1, <2>2, SlotType DEF Absorb, TypeOK, Cycle
  <2>5. UNCHANGED storeVars => StoreTypeOK'
    BY DEF TypeOK, StoreTypeOK, storeVars
  <2> QED
    BY <1>5, <2>3, <2>5, SetCallerType DEF Absorb, TypeOK
<1> QED
  BY <1>1, <1>2, <1>3, <1>4, <1>5 DEF Wake

(* run_cycle's exits and its continuation. *)
LEMMA LeaveType ==
    ASSUME TypeOK, NEW m \in Manager, NEW s \in Session, LeaveCycle(m, s)
    PROVE  /\ cycle' \in [Manager -> [Session -> Cycle]]
           /\ caller' \in [Manager -> [Caller -> CallerState]]
<1>1. cycle[m][s] \in Cycle
  BY DEF TypeOK
<1>2. Exiting(cycle[m][s]) \in Cycle
  BY <1>1, ExitingType
<1>3. cycle' = [cycle EXCEPT ![m][s] = Exiting(cycle[m][s])]
  BY DEF LeaveCycle
<1> QED
  BY <1>2, <1>3, SlotType DEF LeaveCycle, TypeOK

LEMMA GoOnType ==
    ASSUME TypeOK, NEW m \in Manager, NEW s \in Session, NEW eng \in Snapshot,
           NEW pend \in SUBSET JobId, NEW next, GoOn(m, s, eng, pend, next)
    PROVE  /\ cycle' \in [Manager -> [Session -> Cycle]]
           /\ caller' \in [Manager -> [Caller -> CallerState]]
<1>1. CASE ~Linger
  BY <1>1, LeaveType DEF GoOn
<1>2. CASE Linger
  <2>1. cycle[m][s] \in Cycle
    BY DEF TypeOK
  <2> DEFINE cy == [cycle[m][s] EXCEPT
                 !.pc       = IF next = "ready" THEN "again" ELSE "register",
                 !.eng      = eng,
                 !.pend     = pend,
                 !.resident = TRUE,
                 !.loaded   = {},
                 !.foldOnly = FALSE,
                 !.waiter   = None]
  <2>2. cy \in Cycle
    BY <2>1 DEF Cycle, CyclePc
  <2>3. cycle' = [cycle EXCEPT ![m][s] = cy]
    BY <1>2 DEF GoOn
  <2>4. cycle[m][s].waiter \in Caller \cup {None}
    BY <2>1 DEF Cycle
  <2>5. caller' = Release(m, cycle[m][s].waiter)
    BY <1>2 DEF GoOn
  <2> HIDE DEF cy
  <2> QED
    BY <2>2, <2>3, <2>4, <2>5, SlotType, ReleaseType DEF TypeOK
<1> QED
  BY <1>1, <1>2, LingerAssumption

(* Each way a turn commits keeps store and tasks well-typed. *)
LEMMA EndTurnType ==
    ASSUME TypeOK, NEW m \in Manager, NEW s \in Session, NEW eng \in Snapshot,
           NEW pend \in SUBSET JobId, EndTurn(m, s, eng, pend)
    PROVE  /\ StoreTypeOK'
           /\ cycle' \in [Manager -> [Session -> Cycle]]
           /\ caller' \in [Manager -> [Caller -> CallerState]]
<1>1. cycle[m][s] \in Cycle
  BY DEF TypeOK
<1>2. /\ cycle[m][s].fence \in Nat
      /\ cycle[m][s].turn \in Nat
      /\ cycle[m][s].loaded \in SUBSET JobId
  BY <1>1 DEF Cycle
<1>3. StoreTypeOK'
  BY <1>2, CommitType DEF EndTurn, TypeOK
<1> QED
  BY <1>3, GoOnType DEF EndTurn

LEMMA FinishType ==
    ASSUME TypeOK, NEW m \in Manager, NEW s \in Session, NEW eng \in Snapshot,
           NEW pend \in SUBSET JobId, Finish(m, s, eng, pend)
    PROVE  /\ StoreTypeOK'
           /\ cycle' \in [Manager -> [Session -> Cycle]]
           /\ caller' \in [Manager -> [Caller -> CallerState]]
<1>1. CASE s \in Interactive
  BY <1>1, EndTurnType DEF Finish
<1>2. CASE s \notin Interactive
  <2>1. cycle[m][s].fence \in Nat
    BY DEF TypeOK, Cycle
  <2> QED
    BY <1>2, <2>1, CompletedType, LeaveType DEF Finish, TypeOK
<1> QED
  BY <1>1, <1>2

LEMMA SuspendType ==
    ASSUME TypeOK, NEW m \in Manager, NEW s \in Session, NEW eng \in Snapshot,
           eng.waiting # {}, Suspend(m, s, eng)
    PROVE  /\ StoreTypeOK'
           /\ cycle' \in [Manager -> [Session -> Cycle]]
           /\ caller' \in [Manager -> [Caller -> CallerState]]
<1> DEFINE j == CHOOSE x \in eng.waiting : TRUE
           f == cycle[m][s].fence
<1>1. f \in Nat
  BY DEF TypeOK, Cycle
<1>2. eng.waiting \in SUBSET JobId
  BY DEF Snapshot
<1>3. j \in eng.waiting
  OBVIOUS
<1>4. j \in JobId
  BY <1>2, <1>3
<1>5. \/ CheckpointAndEnqueue(s, f, eng, j)
      \/ ParkApproval(s, f, eng, eng.waiting)
  BY DEF Suspend
<1>6. LeaveCycle(m, s)
  BY DEF Suspend
<1> HIDE DEF j, f
<1>7. StoreTypeOK'
  BY <1>1, <1>2, <1>4, <1>5, CheckpointType, ParkType DEF TypeOK
<1> QED
  BY <1>6, <1>7, LeaveType

LEMMA StoreUnchangedType ==
    ASSUME TypeOK, UNCHANGED storeVars
    PROVE  StoreTypeOK'
BY DEF TypeOK, StoreTypeOK, storeVars

(* Changing what a snapshot waits for, with or without a new epoch. *)
LEMMA WaitingType ==
    ASSUME NEW e \in Snapshot, NEW w \in SUBSET JobId
    PROVE  /\ [e EXCEPT !.waiting = w, !.epoch = @] \in Snapshot
           /\ [e EXCEPT !.waiting = w, !.epoch = @ + 1] \in Snapshot
<1>1. e.epoch \in Nat
  BY DEF Snapshot
<1>2. e.epoch + 1 \in Nat
  BY <1>1
<1>3. \A n \in Nat : [e EXCEPT !.waiting = w, !.epoch = n] \in Snapshot
  BY DEF Snapshot
<1> QED
  BY <1>1, <1>2, <1>3

(* Leasing and hydrating. *)
LEMMA LeaseStepType ==
    ASSUME TypeOK, NEW m \in Manager, NEW s \in Session, Lease(m, s)
    PROVE  TypeOK'
<1>1. StoreTypeOK'
  BY FlipType DEF Lease, TypeOK
<1>2. cycle[m][s] \in Cycle /\ fence'[s] \in Nat
  BY <1>1 DEF TypeOK, StoreTypeOK
<1>3. [cycle[m][s] EXCEPT !.pc = "leased", !.fence = fence'[s]] \in Cycle
  BY <1>2 DEF Cycle, CyclePc
<1>4. cycle' = [cycle EXCEPT ![m][s] =
                  [cycle[m][s] EXCEPT !.pc = "leased", !.fence = fence'[s]]]
  BY <1>2 DEF Lease, Cycle
<1>5. cycle' \in [Manager -> [Session -> Cycle]]
  BY <1>3, <1>4, SlotType DEF TypeOK
<1> QED
  BY <1>1, <1>5 DEF Lease, TypeOK

LEMMA ActivateType ==
    ASSUME TypeOK, NEW m \in Manager, NEW s \in Session, Activate(m, s)
    PROVE  TypeOK'
<1>1. StoreTypeOK'
  BY StoreUnchangedType DEF Activate
<1>2. [Vacant EXCEPT !.pc = "leased", !.fence = cut[s]] \in Cycle
  BY VacantType DEF TypeOK, Cycle, CyclePc
<1>3. cycle' \in [Manager -> [Session -> Cycle]]
  BY <1>2, SlotType DEF Activate, TypeOK
<1>4. cut' \in [Session -> Nat]
  BY DEF Activate, TypeOK
<1> QED
  BY <1>1, <1>3, <1>4 DEF Activate, TypeOK

LEMMA LoadStepType ==
    ASSUME TypeOK, NEW m \in Manager, NEW s \in Session, Load(m, s)
    PROVE  TypeOK'
<1> DEFINE cy    == cycle[m][s]
           base  == IF KeepsEngine(cy, s) THEN cy.eng ELSE snap[s]
           stash == IF KeepsEngine(cy, s) THEN cy.pend ELSE {}
           fresh == Fresh(inbox[s], base, cy.fence)
           opens == completions[s] # {} \/ \E i \in fresh : inbox[s][i].op \notin Observe
           only  == fresh # {} /\ ~opens /\ base.waiting = {}
           eng   == Folded(base, fresh, cy.fence)
           pend  == stash \cup (completions[s] \cap base.waiting)
<1>1. /\ cy \in Cycle
      /\ completions[s] \in SUBSET JobId
      /\ turnSeq[s] \in Nat
      /\ snap[s] \in Snapshot
  BY DEF TypeOK, StoreTypeOK
<1>2. cy.fence \in Nat /\ cy.eng \in Snapshot /\ cy.pend \in SUBSET JobId
  BY <1>1 DEF Cycle
<1>3. StoreTypeOK'
  BY <1>2, LoadType DEF Load, TypeOK
<1>4. base \in Snapshot /\ stash \in SUBSET JobId
  BY <1>1, <1>2
<1>5. cycle' = [cycle EXCEPT ![m][s] = [cy EXCEPT
                  !.pc = "running", !.turn = turnSeq[s], !.eng = eng, !.pend = pend,
                  !.loaded = completions[s], !.foldOnly = only]]
  BY DEF Load
<1>6. only \in BOOLEAN
  OBVIOUS
<1> HIDE DEF base, stash, only
<1>7. eng \in Snapshot
  BY <1>2, <1>4, FoldedType DEF TypeOK
<1>8. pend \in SUBSET JobId
  BY <1>1, <1>4
<1> HIDE DEF cy, eng, pend
<1>9. [cy EXCEPT !.pc = "running", !.turn = turnSeq[s], !.eng = eng, !.pend = pend,
                 !.loaded = completions[s], !.foldOnly = only] \in Cycle
  BY <1>1, <1>6, <1>7, <1>8 DEF Cycle, CyclePc
<1>10. cycle' \in [Manager -> [Session -> Cycle]]
  BY <1>5, <1>9, SlotType DEF TypeOK
<1> QED
  BY <1>3, <1>10 DEF Load, TypeOK

(* The ends of a turn. *)
LEMMA TurnEndType ==
    ASSUME TypeOK, NEW m \in Manager, NEW s \in Session,
           \/ FoldOnly(m, s) \/ Interrupt(m, s) \/ Resuspend(m, s) \/ RunToEnd(m, s)
           \/ RunToSuspension(m, s) \/ Fenced(m, s) \/ Fail(m, s) \/ DropSlot(m, s)
    PROVE  TypeOK'
<1> DEFINE cy == cycle[m][s]
<1>0. cy \in Cycle
  BY DEF TypeOK
<1>a. /\ cy.eng \in Snapshot
      /\ cy.pend \in SUBSET JobId
      /\ cy.waiter \in Caller \cup {None}
  BY <1>0 DEF Cycle
<1>b. Resumed(cy) \in Snapshot
  <2> DEFINE e == cy.eng
  <2>1. e \in Snapshot
    BY <1>a
  <2>2. \/ Resumed(cy) = [e EXCEPT !.waiting = {}, !.epoch = @]
        \/ Resumed(cy) = [e EXCEPT !.waiting = {}, !.epoch = @ + 1]
    BY DEF Resumed
  <2> HIDE DEF e
  <2> QED
    BY <2>1, <2>2, WaitingType
<1>1. CASE FoldOnly(m, s)
  BY <1>1, <1>a, EndTurnType DEF FoldOnly, TypeOK
<1>2. CASE Interrupt(m, s)
  <2>1. budget' \in [EnvEvent -> Nat]
    BY <1>2, SpendType DEF Interrupt, TypeOK, EnvEvent
  <2> QED
    BY <1>2, <1>a, <2>1, FinishType DEF Interrupt, TypeOK
<1>3. CASE Resuspend(m, s)
  <2> DEFINE eng == [cy.eng EXCEPT !.waiting = StillWaiting(cy)]
  <2>1. StillWaiting(cy) \in SUBSET JobId
    BY <1>a DEF StillWaiting, Snapshot
  <2>2. eng \in Snapshot /\ eng.waiting = StillWaiting(cy)
    BY <1>a, <2>1 DEF Snapshot
  <2>3. StillWaiting(cy) # {} /\ Suspend(m, s, eng)
    BY <1>3 DEF Resuspend
  <2> HIDE DEF eng
  <2> QED
    BY <1>3, <2>2, <2>3, SuspendType DEF Resuspend, TypeOK
<1>4. CASE RunToEnd(m, s)
  <2>1. {} \in SUBSET JobId
    OBVIOUS
  <2> QED
    BY <1>4, <1>b, <2>1, FinishType DEF RunToEnd, TypeOK
<1>5. CASE RunToSuspension(m, s)
  <2>1. PICK ks \in {{0}} \cup {1 .. n : n \in 1 .. MaxApprovals} :
          Suspend(m, s, [Resumed(cy) EXCEPT
              !.waiting = {[epoch |-> cy.eng.epoch + 1, k |-> k] : k \in ks},
              !.epoch   = @ + 1])
    BY <1>5 DEF RunToSuspension
  <2> DEFINE w   == {[epoch |-> cy.eng.epoch + 1, k |-> k] : k \in ks}
             eng == [Resumed(cy) EXCEPT !.waiting = w, !.epoch = @ + 1]
  <2>2. \A k \in ks : k \in 0 .. MaxApprovals
    BY ApprovalAssumption
  <2>3. ks # {}
    <3>1. CASE ks = {0}
      BY <3>1
    <3>2. ASSUME NEW n \in 1 .. MaxApprovals, ks = 1 .. n PROVE ks # {}
      <4>1. 1 \in 1 .. n
        BY ApprovalAssumption
      <4> QED
        BY <3>2, <4>1
    <3> QED
      BY <3>1, <3>2
  <2>a. cy.eng.epoch \in Nat
    BY <1>a DEF Snapshot
  <2>4. cy.eng.epoch + 1 \in Nat
    BY <2>a
  <2>5. w \in SUBSET JobId
    BY <2>2, <2>4 DEF JobId
  <2>6. w # {}
    BY <2>3
  <2> HIDE DEF w
  <2>7. eng \in Snapshot /\ eng.waiting = w
    <3> DEFINE r == Resumed(cy)
    <3>1. r \in Snapshot
      BY <1>b
    <3> HIDE DEF r
    <3>2. [r EXCEPT !.waiting = w, !.epoch = @ + 1] \in Snapshot
      BY <2>5, <3>1, WaitingType
    <3>3. [r EXCEPT !.waiting = w, !.epoch = @ + 1].waiting = w
      BY <3>1 DEF Snapshot
    <3> QED
      BY <3>2, <3>3 DEF r
  <2>8. Suspend(m, s, eng)
    BY <2>1 DEF w
  <2> HIDE DEF eng
  <2> QED
    BY <1>5, <2>6, <2>7, <2>8, SuspendType DEF RunToSuspension, TypeOK
<1>6. CASE Fenced(m, s)
  BY <1>6, LeaveType, StoreUnchangedType DEF Fenced, TypeOK
<1>7. CASE Fail(m, s)
  <2>1. budget' \in [EnvEvent -> Nat]
    BY <1>7, SpendType DEF Fail, TypeOK, EnvEvent
  <2>2. Exiting(cy) \in Cycle /\ cycle' = [cycle EXCEPT ![m][s] = Exiting(cy)]
    BY <1>7, <1>0, ExitingType DEF Fail
  <2>3. caller' \in [Manager -> [Caller -> CallerState]]
    <3>1. caller[m]["scanner"] \in CallerState
      BY DEF TypeOK, Caller
    <3> DEFINE x == [caller[m]["scanner"] EXCEPT !.todo = {}]
    <3>2. x \in CallerState
      BY <3>1 DEF CallerState
    <3>3. caller' = caller \/ caller' = [caller EXCEPT ![m]["scanner"] = x]
      BY <1>7 DEF Fail
    <3> HIDE DEF x
    <3>4. caller \in [Manager -> [Caller -> CallerState]] /\ "scanner" \in Caller
      BY DEF TypeOK, Caller
    <3> QED
      BY <3>2, <3>3, <3>4, CallerSlotType
  <2> QED
    BY <1>7, <2>1, <2>2, <2>3, SlotType, StoreUnchangedType DEF Fail, TypeOK
<1>8. CASE DropSlot(m, s)
  BY <1>8, <1>a, VacantType, SlotType, ReleaseType, StoreUnchangedType DEF DropSlot, TypeOK
<1> QED
  BY <1>1, <1>2, <1>3, <1>4, <1>5, <1>6, <1>7, <1>8

(* A crash leaves the tasks of the lost process in their initial states. *)
LEMMA CrashType ==
    ASSUME TypeOK, NEW m \in Manager, LoseProcess(m), StoreTypeOK'
    PROVE  TypeOK'
<1>1. budget' \in [EnvEvent -> Nat]
  BY SpendType DEF LoseProcess, TypeOK, EnvEvent
<1>2. cycle' \in [Manager -> [Session -> Cycle]]
  BY VacantType DEF LoseProcess, TypeOK
<1>3. caller' \in [Manager -> [Caller -> CallerState]]
  BY DEF LoseProcess, TypeOK, IdleCaller, CallerState
<1>4. client' \in [Manager -> ClientState]
  BY DEF LoseProcess, TypeOK, IdleClient, ClientState
<1>5. worker' \in [Manager -> WorkerState]
  BY ApprovalAssumption DEF LoseProcess, TypeOK, IdleWorker, WorkerState, NoJob, JobId
<1> QED
  BY <1>1, <1>2, <1>3, <1>4, <1>5 DEF LoseProcess, TypeOK

(* linger_wait keeps every variable well-typed. *)
LEMMA LingerType ==
    ASSUME TypeOK, NEW m \in Manager, NEW s \in Session, LingerStep(m, s)
    PROVE  TypeOK'
<1> DEFINE cy == cycle[m][s]
<1>0. cy \in Cycle
  BY DEF TypeOK
<1>a. \A pc \in CyclePc : /\ [cy EXCEPT !.pc = pc] \in Cycle
                          /\ [cy EXCEPT !.pc = pc, !.mail = FALSE] \in Cycle
  BY <1>0 DEF Cycle
<1>b. Exiting(cy) \in Cycle
  BY <1>0, ExitingType
<1>c. {"check", "linger", "recheck", "again"} \subseteq CyclePc
  BY DEF CyclePc
<1>1. CASE LingerTimeout(m, s)
  BY <1>1, LeaveType, StoreUnchangedType DEF LingerTimeout, TypeOK
<1>2. CASE LingerRegister(m, s) \/ LingerCheck(m, s) \/ LingerNotified(m, s)
            \/ LingerRecheck(m, s)
  <2>1. \/ \E pc \in {"check", "linger", "recheck", "again"} :
             \/ cycle' = [cycle EXCEPT ![m][s] = [cy EXCEPT !.pc = pc]]
             \/ cycle' = [cycle EXCEPT ![m][s] = [cy EXCEPT !.pc = pc, !.mail = FALSE]]
        \/ cycle' = [cycle EXCEPT ![m][s] = Exiting(cy)]
    <3>1. CASE LingerRegister(m, s)
      BY <3>1 DEF LingerRegister
    <3>2. CASE LingerCheck(m, s)
      <4>1. CASE status[s] = "ready"
        <5>1. cycle' = [cycle EXCEPT ![m][s] = [cy EXCEPT !.pc = "recheck", !.mail = FALSE]]
          BY <3>2, <4>1, <1>0 DEF LingerCheck, Cycle
        <5> QED
          BY <5>1
      <4>2. CASE status[s] # "ready"
        <5>1. cycle' = [cycle EXCEPT ![m][s] = [cy EXCEPT !.pc = "linger"]]
          BY <3>2, <4>2 DEF LingerCheck
        <5> QED
          BY <5>1
      <4> QED
        BY <4>1, <4>2
    <3>3. CASE LingerNotified(m, s)
      BY <3>3, <1>0 DEF LingerNotified, Cycle
    <3>4. CASE LingerRecheck(m, s)
      BY <3>4 DEF LingerRecheck
    <3> QED
      BY <1>2, <3>1, <3>2, <3>3, <3>4
  <2> HIDE DEF cy
  <2>2. \E x \in Cycle : cycle' = [cycle EXCEPT ![m][s] = x]
    BY <1>a, <1>b, <1>c, <2>1
  <2>4. cycle' \in [Manager -> [Session -> Cycle]]
    BY <2>2, SlotType DEF TypeOK
  <2>3. UNCHANGED <<storeVars, caller, client, worker, cut, budget>>
    BY <1>2 DEF LingerRegister, LingerCheck, LingerNotified, LingerRecheck
  <2> QED
    BY <2>3, <2>4, StoreUnchangedType DEF TypeOK
<1> QED
  BY <1>1, <1>2 DEF LingerStep

(* Inputs and jobs keep every variable well-typed. *)
LEMMA WorkType ==
    ASSUME TypeOK, NEW m \in Manager, NEW s \in Session, Work(m, s)
    PROVE  TypeOK'
<1>a. client[m] \in ClientState /\ worker[m] \in WorkerState
  BY DEF TypeOK
<1>b. IdleClient \in ClientState /\ IdleWorker \in WorkerState
  BY ApprovalAssumption DEF IdleClient, ClientState, IdleWorker, WorkerState, NoJob, JobId
<1>1. ASSUME NEW op \in Op, Submit(m, s, op)
      PROVE  /\ StoreTypeOK'
             /\ client' \in [Manager -> ClientState]
             /\ UNCHANGED <<cycle, caller, worker, cut>>
  <2>1. StoreTypeOK'
    BY <1>1, AppendSpliceType DEF Submit, TypeOK
  <2>2. \E pc \in {"reopen", "wake"} : client' = [client EXCEPT ![m] = [pc |-> pc, s |-> s]]
    BY <1>1 DEF Submit
  <2>3. \A pc \in {"reopen", "wake"} : [pc |-> pc, s |-> s] \in ClientState
    BY DEF ClientState
  <2>4. client' \in [Manager -> ClientState]
    BY <2>2, <2>3 DEF TypeOK
  <2> QED
    BY <1>1, <2>1, <2>4 DEF Submit
<1>2. CASE SubmitAppend(m, s)
  BY <1>2, <1>1 DEF SubmitAppend, TypeOK
<1>3. CASE SubmitRetry(m, s)
  <2>1. budget' \in [EnvEvent -> Nat]
    BY <1>3, SpendType DEF SubmitRetry, TypeOK, EnvEvent
  <2> QED
    BY <1>3, <1>1, <2>1 DEF SubmitRetry, TypeOK
<1>4. CASE SubmitReopen(m, s)
  <2>1. [client[m] EXCEPT !.pc = "wake"] \in ClientState
    BY <1>a DEF ClientState
  <2>2. client' \in [Manager -> ClientState]
    BY <1>4, <2>1 DEF SubmitReopen, TypeOK
  <2> QED
    BY <1>4, <2>2, FlipType DEF SubmitReopen, TypeOK
<1>5. CASE SubmitWake(m, s)
  BY <1>5, <1>b, FlipType DEF SubmitWake, TypeOK
<1>6. ASSUME NEW j \in {p[2] : p \in jobOutbox}, WorkerPop(m, s, j) PROVE TypeOK'
  <2>1. j \in JobId
    BY DEF TypeOK, StoreTypeOK
  <2>2. [pc |-> "record", s |-> s, j |-> j] \in WorkerState
    BY <2>1 DEF WorkerState
  <2>3. StoreTypeOK'
    BY <1>6, <2>1, CompletionType DEF WorkerPop, TypeOK
  <2> QED
    BY <1>6, <2>2, <2>3 DEF WorkerPop, TypeOK
<1>c. worker[m].j \in JobId
  BY <1>a DEF WorkerState
<1>7. CASE WorkerRecord(m, s)
  <2>1. [worker[m] EXCEPT !.pc = "publish"] \in WorkerState
    BY <1>a DEF WorkerState
  <2>2. worker' \in [Manager -> WorkerState]
    BY <1>7, <2>1 DEF WorkerRecord, TypeOK
  <2>3. StoreTypeOK'
    BY <1>7, <1>c, CompletionType DEF WorkerRecord, TypeOK
  <2> QED
    BY <1>7, <2>2, <2>3 DEF WorkerRecord, TypeOK
<1>8. CASE WorkerPublish(m, s)
  BY <1>8, <1>b, FlipType DEF WorkerPublish, TypeOK
<1>9. CASE CrashInRecord(m, s)
  <2>1. StoreTypeOK'
    BY <1>9, <1>c, CompletionType DEF CrashInRecord, TypeOK
  <2>2. LoseProcess(m)
    BY <1>9 DEF CrashInRecord
  <2> QED
    BY <2>1, <2>2, CrashType
<1> QED
  BY <1>2, <1>3, <1>4, <1>5, <1>6, <1>7, <1>8, <1>9 DEF Work

LEMMA InitType == Init => TypeOK
<1> SUFFICES ASSUME Init PROVE TypeOK
  OBVIOUS
<1>1. StoreTypeOK
  BY DEF Init, StoreInit, StoreTypeOK, Statuses, FreshSnapshot, Snapshot, Row
<1>2. /\ cycle \in [Manager -> [Session -> Cycle]]
      /\ cut \in [Session -> Nat]
      /\ budget \in [EnvEvent -> Nat]
  BY VacantType, BudgetAssumption DEF Init
<1>3. /\ caller \in [Manager -> [Caller -> CallerState]]
      /\ client \in [Manager -> ClientState]
  BY DEF Init, IdleCaller, CallerState, IdleClient, ClientState
<1>4. worker \in [Manager -> WorkerState]
  BY ApprovalAssumption DEF Init, IdleWorker, WorkerState, NoJob, JobId
<1> QED
  BY <1>1, <1>2, <1>3, <1>4 DEF TypeOK

LEMMA NextType == TypeOK /\ [Next]_vars => TypeOK'
<1> SUFFICES ASSUME TypeOK, [Next]_vars PROVE TypeOK'
  OBVIOUS
<1>1. CASE UNCHANGED vars
  BY <1>1, StoreUnchangedType DEF vars, managerVars, TypeOK
<1>2. ASSUME NEW s \in Session, Producer(s) PROVE TypeOK'
  BY <1>2, ProducerType
<1>3. ASSUME NEW m \in Manager, NEW s \in Session,
             Wake(m, s) \/ Turn(m, s) \/ LingerStep(m, s) \/ Work(m, s)
      PROVE  TypeOK'
  BY <1>3, WakeType, LeaseStepType, ActivateType, LoadStepType, TurnEndType,
     LingerType, WorkType DEF Turn
<1>4. ASSUME NEW m \in Manager, Crash(m) PROVE TypeOK'
  BY <1>4, CrashType, StoreUnchangedType DEF Crash
<1>5. ASSUME NEW m \in Manager, ScanResumable(m) PROVE TypeOK'
  <2>1. "scanner" \in Caller /\ caller \in [Manager -> [Caller -> CallerState]]
    BY DEF TypeOK, Caller
  <2> DEFINE R == {s \in Session : Resumable(s)}
             x == [caller[m]["scanner"] EXCEPT !.todo = R]
  <2>a. R \in SUBSET Session
    OBVIOUS
  <2>3. caller' = [caller EXCEPT ![m]["scanner"] = x]
    BY <1>5 DEF ScanResumable
  <2> HIDE DEF R
  <2>2. x \in CallerState
    BY <2>1, <2>a DEF CallerState
  <2> HIDE DEF x
  <2>4. caller' \in [Manager -> [Caller -> CallerState]]
    BY <2>1, <2>2, <2>3, CallerSlotType
  <2> QED
    BY <1>5, <2>4, StoreUnchangedType DEF ScanResumable, TypeOK
<1>6. ASSUME NEW m \in Manager, NEW c \in Caller, CheckStatus(m, c) PROVE TypeOK'
  <2>1. caller[m][c] \in CallerState /\ caller \in [Manager -> [Caller -> CallerState]]
    BY DEF TypeOK
  <2> DEFINE x == [caller[m][c] EXCEPT !.pc = "reserve"]
  <2>2. x \in CallerState
    BY <2>1 DEF CallerState
  <2>3. \/ caller' = [caller EXCEPT ![m][c] = x]
        \/ caller' = SetCaller(m, c, "idle", None)
    BY <1>6 DEF CheckStatus
  <2> HIDE DEF x
  <2>4. caller' \in [Manager -> [Caller -> CallerState]]
    <3>1. CASE caller' = [caller EXCEPT ![m][c] = x]
      BY <3>1, <2>1, <2>2, CallerSlotType
    <3>2. CASE caller' = SetCaller(m, c, "idle", None)
      <4>1. SetCaller(m, c, "idle", None) \in [Manager -> [Caller -> CallerState]]
        BY <2>1, SetCallerType
      <4> QED
        BY <3>2, <4>1
    <3> QED
      BY <2>3, <3>1, <3>2
  <2> QED
    BY <1>6, <2>4, StoreUnchangedType DEF CheckStatus, TypeOK
<1> QED
  BY <1>1, <1>2, <1>3, <1>4, <1>5, <1>6 DEF Next

(* Every reachable state of every instance is well-typed. *)
THEOREM TypeCorrect == Spec => []TypeOK
<1>1. Init => TypeOK
  BY InitType
<1>2. TypeOK /\ [Next]_vars => TypeOK'
  BY NextType
<1> QED
  BY <1>1, <1>2, PTL DEF Spec
=============================================================================
