--------------------------- MODULE VhcCoordinator ---------------------------
(***************************************************************************)
(* The VHC coordinator: a pure function tick(state, input) that leads a    *)
(* training run through WaitingForMembers, Warmup, rounds of training and  *)
(* witnessing, Cooldown and Finished.  Its inputs are clock readings,      *)
(* signed messages of the peers in any order, duplicated, delayed or lost, *)
(* and the operator's Pause and Resume.                                    *)
(*                                                                         *)
(* The handlers are operators from a state to the set of states tick may   *)
(* return: a singleton, but for the seeded choice of a witness committee.  *)
(* Left out, because tick never reads them back: digests and their desync  *)
(* flag, the checkpoint-attestation ledger, last_seen_round and            *)
(* max_reported_round, epoch and joined_epoch, paused_from.  rounds_done   *)
(* equals round.  Frames reach the handlers authenticated and of the run's *)
(* version; refused ones only stamp their signer.                          *)
(***************************************************************************)
EXTENDS Integers, FiniteSets

CONSTANTS
    Peer, Payload,
    MinPeers, MaxPeers,                      \* roster floor and ceiling
    WarmupS, TrainS, WitnessS, CooldownS,    \* phase timeouts
    EpochRounds, StallRounds, KAbsences, WitnessTarget,
    BatchStart, BatchEnd, BatchRamp,         \* [data].global_batch
    StopRounds,                              \* [data].stop = { rounds }
    NumStored,                               \* NUM_STORED_ROUNDS
    Timely,         \* peers that announce themselves and are heard within the window
    MaxStep,        \* bound: the largest step of the clock
    VhcBudgets      \* bounds: how often each kind of input may arrive

VhcEvent == {"pause", "attest", "receipt", "straggle", "ready"}

ASSUME PeerAssumption  == IsFiniteSet(Peer) /\ Timely \subseteq Peer
ASSUME FloorAssumption == MinPeers \in Nat \ {0} /\ MaxPeers \in Nat /\ MinPeers <= MaxPeers
ASSUME ScheduleAssumption ==
    /\ {WarmupS, TrainS, WitnessS, CooldownS, EpochRounds, StallRounds, KAbsences,
        WitnessTarget, BatchStart, BatchEnd, BatchRamp, StopRounds, MaxStep} \subseteq Nat
    /\ NumStored \in Nat \ {0, 1}
    /\ VhcBudgets \subseteq [VhcEvent -> Nat]

VARIABLES
    coord,          \* CoordinatorState
    opened,         \* history: the round opens published, by round and window
    recorded,       \* history: the records published, replays included
    readied,        \* history: who signalled readiness in this warmup
    vhcBudget       \* inputs still allowed

vhcVars == <<coord, opened, recorded, readied, vhcBudget>>

-----------------------------------------------------------------------------
(* The state.  kept are the records the ring still holds.                   *)
Phase == {"waiting", "warmup", "train", "witness", "cooldown", "finished", "paused"}

Halted(ph)      == ph \in {"finished", "paused"}
RoundActive(ph) == ph \in {"train", "witness"}

(* straggle is last_straggle_round, -1 for none; quiet is now_s -           *)
(* max(last_seen_s, phase_start_s), which only WaitingForMembers reads.     *)
Member == [state : {"absent", "healthy", "dropped"}, absences : Nat,
           straggle : Int, ready : BOOLEAN, quiet : Nat]

NoMember == [state |-> "absent", absences |-> 0, straggle |-> -1, ready |-> FALSE,
             quiet |-> 0]
Joining  == [NoMember EXCEPT !.state = "healthy"]

Entry  == Peer \X Payload
Window == [start : Nat, end : Nat]
Record == [round : Nat, entries : SUBSET Entry, drops : SUBSET Peer]

(* A witness declares a root, which stands for the set it is the root of,   *)
(* and may give a set of entries inline, which need not be the same one.    *)
Attestation == [root : SUBSET Entry, inline : SUBSET SUBSET Entry]

(* The evidence of the current round.  trainers is the roster its open      *)
(* announced.                                                               *)
Slot == [trainers : SUBSET Peer, witnesses : SUBSET Peer, window : Window,
         commitments : SUBSET Entry, receipts : SUBSET Entry,
         attestations : SUBSET (Peer \X Attestation)]

EmptySlot == [trainers |-> {}, witnesses |-> {}, window |-> [start |-> 0, end |-> 0],
              commitments |-> {}, receipts |-> {}, attestations |-> {}]

CoordinatorState ==
    [phase : Phase, round : Nat, cursor : Nat, roster : [Peer -> Member],
     pending : SUBSET Peer, slot : Slot, kept : SUBSET Record, elapsed : Nat,
     epochStart : Nat]

Healthy(s) == {p \in Peer : s.roster[p].state = "healthy"}

BelowFloor(s) == Cardinality(Healthy(s)) < MinPeers

-----------------------------------------------------------------------------
(* assignment.rs                                                            *)

(* Two thirds of n, rounded up.                                             *)
WitnessQuorum(n) == (2 * n + 2) \div 3

GlobalBatchAt(r) ==
    IF r >= BatchRamp THEN BatchEnd
    ELSE IF BatchEnd >= BatchStart
         THEN BatchStart + ((BatchEnd - BatchStart) * r) \div BatchRamp
         ELSE BatchStart - ((BatchStart - BatchEnd) * r) \div BatchRamp

(* The seed picks the committee; any set of the right size may come out.    *)
SelectCommittee(peers) ==
    {w \in SUBSET peers :
        Cardinality(w) = IF WitnessTarget = 0 \/ WitnessTarget > Cardinality(peers)
                         THEN Cardinality(peers) ELSE WitnessTarget}

-----------------------------------------------------------------------------
(* commit.rs: the commit rule.                                              *)

Covering(slot, entry) ==
    {w \in slot.witnesses : \E wa \in slot.attestations :
                                wa[1] = w /\ entry \in UNION wa[2].inline}

Agreeing(slot, root) ==
    {w \in slot.witnesses : \E wa \in slot.attestations :
                                wa[1] = w /\ wa[2].root = root}

(* A receipt, an inline quorum, or a quorum on a root which some inline set *)
(* opens: the root of that set is recomputed, not the one declared with it. *)
HasEvidence(slot, entry) ==
    LET quorum == WitnessQuorum(Cardinality(slot.witnesses)) IN
    \/ entry \in slot.receipts
    \/ quorum > 0 /\ Cardinality(Covering(slot, entry)) >= quorum
    \/ /\ quorum > 0
       /\ \E wa \in slot.attestations : \E set \in wa[2].inline :
             /\ entry \in set
             /\ Cardinality(Agreeing(slot, set)) >= quorum

Submitted(s) == {e \in s.slot.commitments : e[1] \in Healthy(s)}

CommittedEntries(s) == {e \in Submitted(s) : HasEvidence(s.slot, e)}

AllCommitted(s) ==
    Healthy(s) # {} /\ \A p \in Healthy(s) : \E e \in s.slot.commitments : e[1] = p

AllEvidenced(s) == Submitted(s) # {} /\ CommittedEntries(s) = Submitted(s)

-----------------------------------------------------------------------------
(* The round lifecycle.                                                     *)

StopReached(s) == s.round >= StopRounds

(* Entering a phase restarts its clock and every member's quiet time.       *)
ChangePhase(s, to) ==
    [s EXCEPT !.phase = to, !.elapsed = 0,
              !.roster = [p \in Peer |-> [@[p] EXCEPT !.quiet = 0]]]

(* Mutant: the ring is one slot short.                                      *)
IndexOfShort(r) == r % (NumStored - 1)

IndexOf(r) == r % NumStored

(* A round opens: its slot overwrites the ring's, record and all.           *)
OpenRound(s) ==
    LET peers == Healthy(s)
        batch == [start |-> s.cursor, end |-> s.cursor + GlobalBatchAt(s.round)]
    IN  {[ChangePhase(s, "train") EXCEPT
            !.kept = {r \in @ : IndexOf(r.round) # IndexOf(s.round)},
            !.slot = [EmptySlot EXCEPT !.trainers = peers, !.witnesses = w,
                                       !.window = batch]] :
            w \in SelectCommittee(peers)}

OpenEpochFirstRound(s) == OpenRound([s EXCEPT !.epochStart = s.round])

Straggling(s, p) ==
    /\ s.roster[p].straggle >= 0
    /\ s.round >= s.roster[p].straggle
    /\ s.round - s.roster[p].straggle <= StallRounds

(* Absences of a round whose record holds the peers in present.             *)
Accounted(s, p, present) ==
    LET m == s.roster[p] IN
    IF m.state # "healthy" THEN m
    ELSE IF p \in present THEN [m EXCEPT !.absences = 0]
    ELSE IF Straggling(s, p) THEN m
    ELSE [m EXCEPT !.absences = @ + 1,
                   !.state = IF KAbsences > 0 /\ m.absences + 1 >= KAbsences
                             THEN "dropped" ELSE @]

Present(s) == {e[1] : e \in CommittedEntries(s)}

RosterAfter(s) == LET present == Present(s) IN [p \in Peer |-> Accounted(s, p, present)]

(* Mutant: the record is frozen before the absences are counted.            *)
RecordBefore(s) == [round |-> s.round, entries |-> CommittedEntries(s), drops |-> {}]

RecordOf(s) ==
    LET after == RosterAfter(s) IN
    [round |-> s.round, entries |-> CommittedEntries(s),
     drops |-> {p \in Healthy(s) : after[p].state = "dropped"}]

NextRound(s) == s.round + 1

(* Mutant: the cursor moves by the batch of the round to come.              *)
CursorAhead(s) == s.cursor + GlobalBatchAt(s.round + 1)

NextCursor(s) == s.cursor + GlobalBatchAt(s.round)

(* The state with the record frozen and the cursor moved on; the slot keeps *)
(* evidence nothing reads again, which is dropped here.                     *)
Frozen(s) ==
    [s EXCEPT !.roster = RosterAfter(s), !.round = NextRound(s), !.cursor = NextCursor(s),
              !.kept = @ \cup {RecordOf(s)}, !.slot = EmptySlot]

EpochBoundary(s) == EpochRounds > 0 /\ s.round - s.epochStart >= EpochRounds

Rests(s) == StopReached(s) \/ EpochBoundary(s) \/ BelowFloor(s)

FinalizeRound(s) ==
    LET t == Frozen(s) IN
    IF Rests(t) THEN {ChangePhase(t, "cooldown")} ELSE OpenRound(t)

MaybeFinalize(s) ==
    IF s.phase = "witness" /\ AllEvidenced(s) THEN FinalizeRound(s) ELSE {s}

MaybeAdvance(s) ==
    MaybeFinalize(IF s.phase = "train" /\ AllCommitted(s)
                  THEN ChangePhase(s, "witness") ELSE s)

(* Mutant: readiness of an earlier epoch survives.                          *)
EnterWarmupReady(s) == ChangePhase(s, "warmup")

EnterWarmup(s) ==
    ChangePhase([s EXCEPT !.roster = [p \in Peer |-> [@[p] EXCEPT !.ready = FALSE]]],
                "warmup")

AllWarmupReady(s) == Healthy(s) # {} /\ \A p \in Healthy(s) : s.roster[p].ready

MaybeExitWarmup(s) ==
    IF s.phase = "warmup" /\ ~BelowFloor(s) /\ AllWarmupReady(s)
    THEN OpenEpochFirstRound(s) ELSE {s}

DecayWindow == KAbsences * (TrainS + WitnessS)

DecayStaleMembers(s) ==
    [s EXCEPT !.roster = [p \in Peer |->
        IF @[p].state = "healthy" /\ DecayWindow > 0 /\ @[p].quiet >= DecayWindow
        THEN [@[p] EXCEPT !.state = "dropped"] ELSE @[p]]]

(* Mutant: the epoch ends without seating the staged joins.                 *)
Unseated(s) == s

SeatPending(s) ==
    [s EXCEPT !.pending = {},
              !.roster = [p \in Peer |-> IF p \in s.pending THEN Joining ELSE @[p]]]

(* Mutant: a run that is over falls back to Uninitialized.                  *)
ExitUninitialized(s) ==
    IF StopReached(s) THEN ChangePhase(s, "uninitialized")
    ELSE ChangePhase(SeatPending(s), "waiting")

ExitCooldown(s) ==
    IF StopReached(s) THEN ChangePhase(s, "finished")
    ELSE ChangePhase(SeatPending(s), "waiting")

-----------------------------------------------------------------------------
(* Handlers: the states tick may return.                                    *)

(* Time-driven transitions, e the time spent in the phase.                  *)
DriveTime(s, e) ==
    CASE s.phase = "waiting" ->
           LET t == DecayStaleMembers(s) IN
           {IF BelowFloor(t) THEN t ELSE EnterWarmup(t)}
      [] s.phase = "warmup" ->
           IF BelowFloor(s) THEN {ChangePhase(s, "waiting")}
           ELSE IF AllWarmupReady(s) \/ e >= WarmupS THEN OpenEpochFirstRound(s) ELSE {s}
      [] s.phase = "train" ->
           IF AllCommitted(s) \/ e >= TrainS
           THEN MaybeFinalize(ChangePhase(s, "witness")) ELSE {s}
      [] s.phase = "witness" ->
           IF AllEvidenced(s) \/ e >= WitnessS THEN FinalizeRound(s) ELSE {s}
      [] s.phase = "cooldown" -> {IF e >= CooldownS THEN ExitCooldown(s) ELSE s}
      [] OTHER -> {s}

(* How far the clock of a phase is told apart: up to its timeout.           *)
PhaseLimit(ph) ==
    CASE ph = "warmup" -> WarmupS [] ph = "train" -> TrainS [] ph = "witness" -> WitnessS
      [] ph = "cooldown" -> CooldownS [] OTHER -> 0

Least(a, b) == IF a <= b THEN a ELSE b

OnClock(s, d) ==
    LET e == Least(s.elapsed + d, PhaseLimit(s.phase))
        quieter(m) == IF s.phase # "waiting" \/ m.state = "absent" THEN m
                      ELSE [m EXCEPT !.quiet = Least(@ + d, DecayWindow)]
    IN  DriveTime([s EXCEPT !.elapsed = e,
                            !.roster = [p \in Peer |-> quieter(@[p])]], e)

(* Any authenticated frame stamps its signer.                               *)
Heard(s, p) == [s EXCEPT !.roster[p].quiet = 0]

Occupancy(s) == Cardinality(Healthy(s)) + Cardinality(s.pending)

(* Mutant: staged joins do not count against the ceiling.                   *)
AdmitIgnoringPending(s, p) ==
    /\ p \notin Healthy(s) \cup s.pending
    /\ Cardinality(Healthy(s)) < MaxPeers

Admit(s, p) ==
    /\ p \notin Healthy(s) \cup s.pending
    /\ Occupancy(s) < MaxPeers

(* Mutant: a join is seated at once, whatever the phase.                    *)
FormingAlways(ph) == TRUE

(* The roster forms until the first round of the epoch opens.               *)
Forming(ph) == ph \in {"waiting", "warmup"}

OnJoin(s, p) ==
    IF ~Admit(s, p) THEN s
    ELSE IF Forming(s.phase) THEN [s EXCEPT !.roster[p] = Joining]
    ELSE [s EXCEPT !.pending = @ \cup {p}]

OnCommitment(s, p, r, x) ==
    IF RoundActive(s.phase) /\ r = s.round /\ p \in Healthy(s)
    THEN MaybeAdvance([s EXCEPT !.slot.commitments =
                         {e \in @ : e[1] # p} \cup {<<p, x>>}])
    ELSE {s}

OnAttestation(s, w, r, a) ==
    IF RoundActive(s.phase) /\ r = s.round /\ w \in s.slot.witnesses
    THEN MaybeAdvance([s EXCEPT !.slot.attestations =
                         {wa \in @ : wa[1] # w} \cup {<<w, a>>}])
    ELSE {s}

OnReceipt(s, r, entries) ==
    IF RoundActive(s.phase) /\ r = s.round
    THEN MaybeAdvance([s EXCEPT !.slot.receipts = @ \cup entries])
    ELSE {s}

OnStraggle(s, p, r) ==
    IF s.roster[p].state = "absent" THEN s ELSE [s EXCEPT !.roster[p].straggle = r]

OnHeartbeat(s, p, ready) ==
    MaybeExitWarmup(IF ready /\ s.roster[p].state # "absent"
                    THEN [s EXCEPT !.roster[p].ready = TRUE] ELSE s)

-----------------------------------------------------------------------------
(* The actions: one per input.                                              *)

NewRoster == [p \in Peer |-> NoMember]

VhcInit ==
    /\ coord = [phase |-> "waiting", round |-> 0, cursor |-> 0, roster |-> NewRoster,
                pending |-> {}, slot |-> EmptySlot, kept |-> {}, elapsed |-> 0,
                epochStart |-> 0]
    /\ opened = {}
    /\ recorded = {}
    /\ readied = {}
    /\ vhcBudget \in VhcBudgets

StandingOpen(s) ==
    IF RoundActive(s.phase) THEN {[round |-> s.round, window |-> s.slot.window]} ELSE {}

(* tick returned one of the states in result.  What it publishes, on its    *)
(* own or to a rejoiner (replay_forward), is the standing open and the kept *)
(* records.                                                                 *)
Tick(result, ready) ==
    /\ coord' \in result
    /\ opened' = opened \cup StandingOpen(coord')
    /\ recorded' = recorded \cup coord'.kept
    /\ readied' = IF coord.phase = "warmup" THEN readied \cup ready ELSE {}

VhcSpend(e) ==
    vhcBudget[e] > 0 /\ vhcBudget' = [vhcBudget EXCEPT ![e] = @ - 1]

(* Time passes.  The environment assumption of Timely is here: such a       *)
(* member is heard before its window runs out.                              *)
Clock(d) ==
    /\ \A p \in Timely : coord.phase = "waiting" /\ p \in Healthy(coord) =>
          DecayWindow = 0 \/ coord.roster[p].quiet + d < DecayWindow
    /\ Tick(IF Halted(coord.phase) THEN {coord} ELSE OnClock(coord, d), {})
    /\ UNCHANGED vhcBudget

Join(p) ==
    /\ ~Halted(coord.phase)
    /\ Tick({OnJoin(Heard(coord, p), p)}, {})
    /\ UNCHANGED vhcBudget

(* A frame is about the current round, or it is late: the handlers tell no  *)
(* two earlier rounds apart.                                                *)
FrameRounds == {coord.round, coord.round - 1} \cap Nat

Commitment(p) ==
    /\ ~Halted(coord.phase)
    /\ \E r \in FrameRounds, x \in Payload :
          Tick(OnCommitment(Heard(coord, p), p, r, x), {})
    /\ UNCHANGED vhcBudget

(* A witness attests committed entries by their root, alone or with the set *)
(* inline; or it gives a set that does not open the root it declares.       *)
Attested(entries) ==
    {[root |-> set, inline |-> {}] : set \in SUBSET entries}
      \cup {[root |-> set, inline |-> {set}] : set \in SUBSET entries}
      \cup {[root |-> {}, inline |-> {entries}]}

Attest(w) ==
    /\ ~Halted(coord.phase)
    /\ VhcSpend("attest")
    /\ \E r \in FrameRounds, a \in Attested(coord.slot.commitments) :
          Tick(OnAttestation(Heard(coord, w), w, r, a), {})

(* The storage client verified some committed payloads.                     *)
StorageReceipt(p) ==
    /\ ~Halted(coord.phase)
    /\ VhcSpend("receipt")
    /\ \E r \in FrameRounds, set \in SUBSET coord.slot.commitments :
          Tick(OnReceipt(Heard(coord, p), r, set), {})

Straggle(p) ==
    /\ ~Halted(coord.phase)
    /\ VhcSpend("straggle")
    /\ \E r \in 0 .. coord.round : Tick({OnStraggle(Heard(coord, p), p, r)}, {})

Heartbeat(p) ==
    /\ ~Halted(coord.phase)
    /\ Tick(OnHeartbeat(Heard(coord, p), p, FALSE), {})
    /\ UNCHANGED vhcBudget

ReadyHeartbeat(p) ==
    /\ ~Halted(coord.phase)
    /\ VhcSpend("ready")
    /\ Tick(OnHeartbeat(Heard(coord, p), p, TRUE), {p})

(* The slot of the interrupted round is never read again: the next open     *)
(* overwrites it.                                                           *)
Pause ==
    /\ ~Halted(coord.phase)
    /\ VhcSpend("pause")
    /\ Tick({[ChangePhase(coord, "paused") EXCEPT !.slot = EmptySlot]}, {})

Resume ==
    /\ coord.phase = "paused"
    /\ Tick({ChangePhase(coord, "waiting")}, {})
    /\ UNCHANGED vhcBudget

VhcNext ==
    \/ \E d \in 0 .. MaxStep : Clock(d)
    \/ \E p \in Peer :
          \/ Join(p) \/ Commitment(p) \/ Attest(p) \/ StorageReceipt(p) \/ Straggle(p)
          \/ Heartbeat(p) \/ ReadyHeartbeat(p)
    \/ Pause
    \/ Resume

VhcSpec == VhcInit /\ [][VhcNext]_vhcVars

(* Time goes on, timely peers announce themselves and keep signalling, a    *)
(* paused run is resumed.  Nothing is assumed of training: rounds close on  *)
(* their timeouts.                                                          *)
VhcFairness ==
    /\ WF_vhcVars(\E d \in 1 .. MaxStep : Clock(d))
    /\ \A p \in Timely : WF_vhcVars(Join(p)) /\ WF_vhcVars(Heartbeat(p))
    /\ WF_vhcVars(Resume)

VhcFairSpec == VhcSpec /\ VhcFairness

-----------------------------------------------------------------------------
(* Type correctness of the coordinator state.                               *)
VhcTypeOK ==
    /\ coord \in CoordinatorState
    /\ opened \subseteq [round : Nat, window : Window]
    /\ recorded \subseteq Record
    /\ readied \subseteq Peer
    /\ vhcBudget \in [VhcEvent -> Nat]

(* Seated and staged peers never exceed max_peers, through drops, rejoins,  *)
(* epochs and pauses: admit counts both, exit_cooldown moves one into the   *)
(* other.                                                                   *)
SeatsBounded == Occupancy(coord) <= MaxPeers

(* The roster is frozen while a round runs: the healthy members are exactly *)
(* the trainers the round's open announced, so a record counts nobody whom  *)
(* the peers do not expect, and every open respects the floor.              *)
RosterFrozen ==
    RoundActive(coord.phase) =>
        /\ Healthy(coord) = coord.slot.trainers
        /\ coord.slot.witnesses \subseteq coord.slot.trainers
        /\ Cardinality(coord.slot.trainers) >= MinPeers

(* The windows of the rounds tile the data: a round opened twice (pause and *)
(* resume) has one window, so late commitments of its first opening are     *)
(* about the same data, and each round starts where the previous one ends.  *)
WindowsTile ==
    \A a, b \in opened :
        /\ a.round = b.round => a.window = b.window
        /\ b.round = a.round + 1 => b.window.start = a.window.end

(* One record per round is ever published, whatever is replayed, reopened   *)
(* or paused.                                                               *)
RecordUnique == \A a, b \in recorded : a.round = b.round => a = b

(* A rejoiner never folds across a gap: the records the ring replays are    *)
(* consecutive and end with the last committed round, through wrap-around,  *)
(* rounds given up by a pause and rounds opened twice.                      *)
ReplayGapFree ==
    \A r \in 0 .. coord.round - 1 :
        r = coord.round - 1 \/ (\E k \in coord.kept : k.round <= r)
          => \E k \in coord.kept : k.round = r

(* Warmup is cut short only when every healthy member has signalled         *)
(* readiness in this very warmup.                                           *)
WarmupHonest ==
    [][/\ coord.phase = "warmup"
       /\ coord'.phase = "train"
       /\ coord.elapsed + MaxStep < WarmupS
       => Healthy(coord') \subseteq readied']_vhcVars

(* The run ends: with min_peers timely peers and no pause, however the      *)
(* others come and go and whatever trains, it finishes.                     *)
RunFinishes ==
    [](coord.phase # "paused") => <>(coord.phase = "finished")

(* coordinator/state.rs:272 on pending: "Joins admitted mid-epoch, applied  *)
(* at the next `WaitingForMembers`".                                        *)
PendingApplied == coord.phase = "waiting" => coord.pending = {}

(* swarm-training-spec.md:656, :670: Cooldown leads to "`Finished` when     *)
(* `stop` is reached"; [data].stop "is the `Finished` trigger, evaluated at *)
(* round boundaries": no round opens beyond it.                             *)
StopHeeded == \A o \in opened : o.round < StopRounds

-----------------------------------------------------------------------------
(* What a run promises its peers, and the mapping under which the           *)
(* coordinator implements it.                                               *)
Run == INSTANCE RoundLog WITH
          Floor     <- MinPeers,
          Size      <- GlobalBatchAt,
          round     <- coord.round,
          cursor    <- coord.cursor,
          team      <- IF RoundActive(coord.phase) THEN coord.slot.trainers ELSE {},
          announced <- opened,
          log       <- recorded

(* Every tick opens the next round, closes the open one with one sound      *)
(* record of its own team, opens the next with exactly those who are left,  *)
(* gives the round up, or is invisible to the peers.                        *)
ImplementsRoundLog == Run!Spec
=============================================================================
