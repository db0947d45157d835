----------------------------- MODULE VhcProofs -----------------------------
(***************************************************************************)
(* Proofs about the VHC coordinator, for any peers, any roster limits, any *)
(* schedule and any ring size.                                             *)
(***************************************************************************)
EXTENDS VhcCoordinator, TLAPS, FiniteSetTheorems

-----------------------------------------------------------------------------
(* Arithmetic.                                                              *)

LEMMA DivBound ==
    ASSUME NEW x \in Nat, NEW r \in Nat, NEW n \in Nat \ {0}, r <= n
    PROVE  (x * r) \div n \in 0 .. x
<1> DEFINE q == (x * r) \div n
<1>1. q \in Int /\ n * q <= x * r /\ x * r < n * (q + 1)
  BY Z3
<1>2. x * r <= x * n
  BY Z3
<1> QED BY <1>1, <1>2, Z3

LEMMA NotSameResidue ==
    ASSUME NEW n \in Nat \ {0}, NEW c \in Int, NEW d \in Int, NEW r \in Int,
           n * c + r < n * d + r, n * d + r < n * c + r + n
    PROVE  FALSE
<1>1. CASE d > c
  <2>1. n * d >= n * (c + 1)
    BY <1>1, Z3
  <2>2. n * (c + 1) = n * c + n
    BY Z3
  <2> QED BY <2>1, <2>2, Z3
<1>2. CASE d <= c
  <2>1. n * d <= n * c
    BY <1>2, Z3
  <2> QED BY <2>1, Z3
<1> QED BY <1>1, <1>2

(* Two of n consecutive numbers differ modulo n.                            *)
LEMMA ModDiffers ==
    ASSUME NEW a \in Nat, NEW b \in Nat, NEW n \in Nat \ {0}, a < b, b < a + n
    PROVE  a % n # b % n
<1> SUFFICES ASSUME a % n = b % n PROVE FALSE
  OBVIOUS
<1>1. a = n * (a \div n) + (a % n) /\ b = n * (b \div n) + (b % n)
  BY Z3
<1>2. a \div n \in Int /\ b \div n \in Int /\ a % n \in Int
  BY Z3
<1>3. n * (a \div n) + (a % n) < n * (b \div n) + (a % n)
  BY <1>1, Z3
<1>4. n * (b \div n) + (a % n) < n * (a \div n) + (a % n) + n
  BY <1>1, Z3
<1> QED BY <1>2, <1>3, <1>4, NotSameResidue

(* A number and the one n above it agree modulo n.                          *)
LEMMA ModWraps ==
    ASSUME NEW a \in Nat, NEW n \in Nat \ {0}
    PROVE  (a + n) % n = a % n
<1> DEFINE c == a \div n
           d == (a + n) \div n
<1>1. a = n * c + (a % n) /\ a + n = n * d + ((a + n) % n)
  BY Z3
<1>2. /\ c \in Int /\ d \in Int
      /\ a % n \in 0 .. n - 1 /\ (a + n) % n \in 0 .. n - 1
  BY Z3
<1> HIDE DEF c, d
<1>3. n * (c + 1) = n * c + n
  BY <1>2, Z3
<1>4. CASE d = c + 1
  BY <1>1, <1>2, <1>3, <1>4, Z3
<1>5. CASE d > c + 1
  <2>1. n * d >= n * (c + 2)
    BY <1>2, <1>5, Z3
  <2>2. n * (c + 2) = n * c + n + n
    BY <1>2, Z3
  <2> QED BY <1>1, <1>2, <2>1, <2>2, Z3
<1>6. CASE d < c + 1
  <2>1. n * d <= n * c
    BY <1>2, <1>6, Z3
  <2> QED BY <1>1, <1>2, <2>1, Z3
<1> QED BY <1>2, <1>4, <1>5, <1>6

LEMMA BatchType == \A r \in Nat : GlobalBatchAt(r) \in Nat
<1> SUFFICES ASSUME NEW r \in Nat PROVE GlobalBatchAt(r) \in Nat
  OBVIOUS
<1>1. BatchRamp \in Nat /\ BatchStart \in Nat /\ BatchEnd \in Nat
  BY ScheduleAssumption
<1>2. CASE r >= BatchRamp
  BY <1>1, <1>2 DEF GlobalBatchAt
<1>3. CASE r < BatchRamp /\ BatchEnd >= BatchStart
  <2>1. BatchEnd - BatchStart \in Nat /\ BatchRamp \in Nat \ {0} /\ r <= BatchRamp
    BY <1>1, <1>3
  <2>2. ((BatchEnd - BatchStart) * r) \div BatchRamp \in Nat
    BY <2>1, DivBound
  <2>3. GlobalBatchAt(r) = BatchStart + ((BatchEnd - BatchStart) * r) \div BatchRamp
    BY <1>1, <1>3 DEF GlobalBatchAt
  <2> QED BY <1>1, <2>2, <2>3
<1>4. CASE r < BatchRamp /\ BatchEnd < BatchStart
  <2>1. BatchStart - BatchEnd \in Nat /\ BatchRamp \in Nat \ {0} /\ r <= BatchRamp
    BY <1>1, <1>4
  <2>2. ((BatchStart - BatchEnd) * r) \div BatchRamp \in 0 .. BatchStart - BatchEnd
    BY <2>1, DivBound
  <2>3. GlobalBatchAt(r) = BatchStart - ((BatchStart - BatchEnd) * r) \div BatchRamp
    BY <1>1, <1>4 DEF GlobalBatchAt
  <2> QED BY <1>1, <2>2, <2>3
<1> QED BY <1>1, <1>2, <1>3, <1>4

-----------------------------------------------------------------------------
(* The inductive invariant.                                                 *)

(* The window of the round the state is in.                                 *)
Batch(s) == [start |-> s.cursor, end |-> s.cursor + GlobalBatchAt(s.round)]

(* At most one entry of a peer.                                             *)
OneEach(entries) == \A e, f \in entries : e[1] = f[1] => e = f

(* The slot of the current round holds no record of an earlier one.         *)
SlotFree(s) == \A k \in s.kept : s.round < k.round + NumStored

(* An open round works on its own window, with the roster it announced, in  *)
(* a slot of its own.                                                       *)
RoundOK(s) ==
    RoundActive(s.phase) =>
        /\ Healthy(s) = s.slot.trainers
        /\ s.slot.witnesses \subseteq s.slot.trainers
        /\ Cardinality(s.slot.trainers) >= MinPeers
        /\ s.slot.window = Batch(s)
        /\ OneEach(s.slot.commitments)
        /\ SlotFree(s)

(* The ring holds the records of the last NumStored - 1 rounds, and none    *)
(* older than one round more, which goes when the next round opens.         *)
RingOK(s) ==
    /\ \A r \in 0 .. s.round - 1 :
          r + NumStored > s.round => \E k \in s.kept : k.round = r
    /\ \A k \in s.kept : k.round < s.round /\ s.round <= k.round + NumStored

Good(s) ==
    /\ s \in CoordinatorState
    /\ Occupancy(s) <= MaxPeers
    /\ RoundOK(s)
    /\ RingOK(s)

(* The histories.                                                           *)
RecordsOK ==
    /\ coord.kept \subseteq recorded
    /\ \A k \in recorded : k.round < coord.round
    /\ RecordUnique

OpensOK ==
    /\ WindowsTile
    /\ StandingOpen(coord) \subseteq opened
    /\ \A o \in opened :
          /\ o.round <= coord.round
          /\ o.round = coord.round => o.window = Batch(coord)
          /\ o.round + 1 = coord.round => o.window.end = coord.cursor

ReadyOK ==
    coord.phase = "warmup" =>
        \A p \in Peer : coord.roster[p].ready => p \in readied

VhcInv == VhcTypeOK /\ Good(coord) /\ RecordsOK /\ OpensOK /\ ReadyOK

-----------------------------------------------------------------------------
(* The record k closes the round of s: it holds entries of the team, drops  *)
(* others of it, and those left are the team of the next open.              *)
Closes(s, t, k) ==
    /\ k.round = s.round
    /\ k.entries \subseteq s.slot.trainers \X Payload
    /\ k.drops \subseteq s.slot.trainers
    /\ Run!Sound(k.entries, k.drops)
    /\ RoundActive(t.phase) => t.slot.trainers = s.slot.trainers \ k.drops

(* What one tick does to round, cursor and records: nothing is added, or    *)
(* the open round is closed by a record of its own.                         *)
Keeps(s, t) ==
    /\ t.round = s.round /\ t.cursor = s.cursor /\ t.kept \subseteq s.kept
    /\ RoundActive(s.phase) /\ RoundActive(t.phase) => t.slot.trainers = s.slot.trainers

Moves(s, t) ==
    /\ t.round = s.round + 1
    /\ t.cursor = s.cursor + GlobalBatchAt(s.round)
    /\ RoundActive(s.phase)
    /\ \E k \in Record : Closes(s, t, k) /\ t.kept \subseteq s.kept \cup {k}

Evolves(s, t) == Keeps(s, t) \/ Moves(s, t)

(* What it does to the readiness flags, and when it may leave warmup.       *)
Warms(s, t, ready) ==
    /\ t.phase = "warmup" =>
          \A p \in Peer : t.roster[p].ready =>
              s.phase = "warmup" /\ (s.roster[p].ready \/ p \in ready)
    /\ s.phase = "warmup" /\ t.phase = "train" =>
          \/ s.elapsed + MaxStep >= WarmupS
          \/ \A p \in Healthy(t) : s.roster[p].ready \/ p \in ready

(* How it treats staged joins and the stop: the roster forms with nobody    *)
(* staged unless it formed, or the run was paused, with them; past the stop *)
(* no round is entered but from a state already past it; a pause keeps      *)
(* both.                                                                    *)
Orderly(s, t) ==
    /\ Forming(t.phase) =>
          t.pending = {} \/ (t.pending = s.pending /\ s.phase \in {"waiting", "warmup", "paused"})
    /\ StopReached(t) =>
          \/ t.phase \in {"cooldown", "finished", "paused"}
          \/ StopReached(s) /\ s.phase \notin {"cooldown", "finished"}
    /\ t.phase = "paused" => t.pending = s.pending /\ t.round = s.round

-----------------------------------------------------------------------------
(* Facts about states.                                                      *)

LEMMA Fields ==
    ASSUME NEW s \in CoordinatorState
    PROVE  /\ s.phase \in Phase /\ s.round \in Nat /\ s.cursor \in Nat
           /\ s.roster \in [Peer -> Member] /\ s.pending \subseteq Peer
           /\ s.slot \in Slot /\ s.kept \subseteq Record
           /\ s.elapsed \in Nat /\ s.epochStart \in Nat
BY DEF CoordinatorState

(* Rosters and rings are finite, so that seats can be counted.              *)
LEMMA Finite ==
    ASSUME NEW S \in SUBSET Peer
    PROVE  IsFiniteSet(S) /\ Cardinality(S) \in Nat
<1>1. IsFiniteSet(S)
  BY PeerAssumption, FS_Subset
<1> QED BY <1>1, FS_CardinalityType

LEMMA Fewer ==
    ASSUME NEW S \in SUBSET Peer, NEW T \in SUBSET S
    PROVE  Cardinality(T) <= Cardinality(S)
BY Finite, FS_Subset

LEMMA HealthyType == \A s : Healthy(s) \in SUBSET Peer
BY DEF Healthy

(* A step that seats and stages nobody, opens no round and closes none.     *)
Calm(s, t) ==
    /\ t \in CoordinatorState
    /\ t.round = s.round /\ t.cursor = s.cursor /\ t.kept = s.kept
    /\ t.pending = s.pending
    /\ Healthy(t) \subseteq Healthy(s)
    /\ RoundActive(t.phase) =>
          /\ RoundActive(s.phase)
          /\ Healthy(t) = Healthy(s)
          /\ t.slot.trainers = s.slot.trainers
          /\ t.slot.witnesses = s.slot.witnesses
          /\ t.slot.window = s.slot.window
          /\ OneEach(s.slot.commitments) => OneEach(t.slot.commitments)

LEMMA CalmStep ==
    ASSUME NEW s, NEW t, Good(s), Calm(s, t)
    PROVE  Good(t) /\ Evolves(s, t)
<1>1. Occupancy(t) <= MaxPeers
  <2>1. Cardinality(Healthy(t)) <= Cardinality(Healthy(s))
    BY Fewer, HealthyType DEF Calm
  <2>2. s.pending \in SUBSET Peer /\ t.pending = s.pending
    BY Fields DEF Good, Calm
  <2>3. /\ Cardinality(Healthy(t)) \in Nat
        /\ Cardinality(Healthy(s)) \in Nat
        /\ Cardinality(s.pending) \in Nat
    BY <2>2, Finite, HealthyType
  <2> QED BY <2>1, <2>2, <2>3, FloorAssumption DEF Good, Occupancy
<1>2. RoundOK(t)
  BY DEF Good, Calm, RoundOK, Batch, SlotFree
<1>3. RingOK(t)
  BY DEF Good, Calm, RingOK
<1> QED BY <1>1, <1>2, <1>3 DEF Good, Calm, Evolves, Keeps

(* Calm steps compose with what follows.                                    *)
LEMMA CalmThen ==
    ASSUME NEW s, NEW t, NEW u, Calm(s, t), Evolves(t, u),
           RoundActive(s.phase) => RoundActive(t.phase)
    PROVE  Evolves(s, u)
<1>1. CASE Keeps(t, u)
  BY <1>1 DEF Calm, Evolves, Keeps
<1>2. CASE Moves(t, u)
  <2>1. PICK k \in Record : Closes(t, u, k) /\ u.kept \subseteq t.kept \cup {k}
    BY <1>2 DEF Moves
  <2>2. Closes(s, u, k) /\ u.kept \subseteq s.kept \cup {k}
    BY <1>2, <2>1 DEF Calm, Closes, Moves
  <2> QED BY <1>2, <2>2 DEF Calm, Evolves, Moves
<1> QED BY <1>1, <1>2 DEF Evolves

LEMMA ChangePhaseFields ==
    ASSUME NEW s \in CoordinatorState, NEW to \in Phase
    PROVE  LET t == ChangePhase(s, to) IN
           /\ t \in CoordinatorState
           /\ t.phase = to /\ t.elapsed = 0
           /\ t.round = s.round /\ t.cursor = s.cursor /\ t.kept = s.kept
           /\ t.pending = s.pending /\ t.slot = s.slot /\ t.epochStart = s.epochStart
           /\ Healthy(t) = Healthy(s)
           /\ \A p \in Peer : t.roster[p].ready = s.roster[p].ready
<1> DEFINE roster == [p \in Peer |-> [s.roster[p] EXCEPT !.quiet = 0]]
           t == ChangePhase(s, to)
<1>1. roster \in [Peer -> Member]
  BY Fields DEF Member
<1>2. \A p \in Peer : roster[p].state = s.roster[p].state
                        /\ roster[p].ready = s.roster[p].ready
  BY Fields DEF Member
<1>3. t = [s EXCEPT !.phase = to, !.elapsed = 0, !.roster = roster]
  BY DEF ChangePhase
<1> HIDE DEF roster, t
<1>4. t \in CoordinatorState /\ t.roster = roster
  BY <1>1, <1>3 DEF CoordinatorState
<1>5. Healthy(t) = Healthy(s)
  BY <1>2, <1>4 DEF Healthy
<1> QED BY <1>2, <1>3, <1>4, <1>5 DEF CoordinatorState, t

LEMMA ChangePhaseCalm ==
    ASSUME NEW s \in CoordinatorState, NEW to \in Phase,
           RoundActive(to) => RoundActive(s.phase)
    PROVE  Calm(s, ChangePhase(s, to))
BY ChangePhaseFields DEF Calm

(* A step that rewrites the roster without seating anybody.                 *)
LEMMA RosterCalm ==
    ASSUME NEW s \in CoordinatorState, NEW roster \in [Peer -> Member],
           \A p \in Peer : roster[p].state = "healthy" => s.roster[p].state = "healthy",
           RoundActive(s.phase) =>
               \A p \in Peer : s.roster[p].state = "healthy" => roster[p].state = "healthy"
    PROVE  Calm(s, [s EXCEPT !.roster = roster])
<1> DEFINE t == [s EXCEPT !.roster = roster]
<1>1. t \in CoordinatorState /\ t.roster = roster
  BY DEF CoordinatorState
<1>2. Healthy(t) \subseteq Healthy(s) /\ (RoundActive(s.phase) => Healthy(t) = Healthy(s))
  BY <1>1 DEF Healthy
<1> QED BY <1>1, <1>2 DEF Calm, CoordinatorState

(* New evidence.                                                            *)
LEMMA SlotCalm ==
    ASSUME NEW s \in CoordinatorState, NEW slot \in Slot,
           slot.trainers = s.slot.trainers, slot.witnesses = s.slot.witnesses,
           slot.window = s.slot.window,
           OneEach(s.slot.commitments) => OneEach(slot.commitments)
    PROVE  Calm(s, [s EXCEPT !.slot = slot])
<1> DEFINE t == [s EXCEPT !.slot = slot]
<1>1. t \in CoordinatorState /\ t.slot = slot /\ t.roster = s.roster /\ t.phase = s.phase
  BY DEF CoordinatorState
<1>2. Healthy(t) = Healthy(s)
  BY <1>1 DEF Healthy
<1> QED BY <1>1, <1>2 DEF Calm, CoordinatorState

-----------------------------------------------------------------------------
(* Opening a round.                                                         *)

LEMMA OpenRoundOK ==
    ASSUME NEW s \in CoordinatorState, Occupancy(s) <= MaxPeers, RingOK(s),
           ~BelowFloor(s), NEW t \in OpenRound(s)
    PROVE  /\ Good(t) /\ t.phase = "train" /\ Healthy(t) = Healthy(s)
           /\ t.round = s.round /\ t.cursor = s.cursor /\ t.kept \subseteq s.kept
           /\ t.pending = s.pending
<1> DEFINE peers == Healthy(s)
           batch == Batch(s)
           c == ChangePhase(s, "train")
           kept == {r \in s.kept : IndexOf(r.round) # IndexOf(s.round)}
<1>1. PICK w \in SelectCommittee(peers) :
        t = [c EXCEPT !.kept = {r \in @ : IndexOf(r.round) # IndexOf(s.round)},
                      !.slot = [EmptySlot EXCEPT !.trainers = peers, !.witnesses = w,
                                                 !.window = batch]]
  BY DEF OpenRound, Batch
<1> DEFINE slot == [EmptySlot EXCEPT !.trainers = peers, !.witnesses = w,
                                     !.window = batch]
<1>2. /\ c \in CoordinatorState /\ c.phase = "train" /\ c.round = s.round
      /\ c.cursor = s.cursor /\ c.kept = s.kept /\ c.pending = s.pending
      /\ Healthy(c) = Healthy(s)
  BY ChangePhaseFields DEF Phase
<1>3. batch \in Window /\ w \in SUBSET peers /\ peers \in SUBSET Peer
  BY Fields, BatchType, HealthyType DEF Batch, Window, SelectCommittee
<1>4. /\ slot \in Slot /\ slot.trainers = peers /\ slot.witnesses = w
      /\ slot.window = batch /\ OneEach(slot.commitments)
  BY <1>3 DEF EmptySlot, Slot, OneEach
<1>5. t = [c EXCEPT !.kept = kept, !.slot = slot]
  BY <1>1, <1>2
<1>6. /\ t \in CoordinatorState /\ t.phase = "train" /\ t.round = s.round
      /\ t.cursor = s.cursor /\ t.pending = s.pending /\ t.kept = kept
      /\ t.slot = slot /\ t.roster = c.roster
  BY <1>2, <1>4, <1>5 DEF CoordinatorState
<1>7. Healthy(t) = Healthy(s)
  BY <1>2, <1>6 DEF Healthy
<1>8. RoundOK(t)
  <2>1. Cardinality(peers) >= MinPeers
    BY <1>3, Finite, FloorAssumption DEF BelowFloor
  <2>2. SlotFree(t)
    <3> SUFFICES ASSUME NEW k \in kept PROVE s.round < k.round + NumStored
      BY <1>6 DEF SlotFree
    <3>1. /\ k.round \in Nat /\ s.round \in Nat /\ NumStored \in Nat \ {0}
          /\ s.round <= k.round + NumStored
      BY Fields, ScheduleAssumption DEF RingOK, Record
    <3>2. s.round # k.round + NumStored
      BY <3>1, ModWraps DEF IndexOf
    <3> QED BY <3>1, <3>2
  <2> QED BY <1>3, <1>4, <1>6, <1>7, <2>1, <2>2 DEF RoundOK, Batch
<1>9. RingOK(t)
  <2> SUFFICES ASSUME NEW r \in 0 .. s.round - 1, r + NumStored > s.round
               PROVE  \E k \in kept : k.round = r
    BY <1>6 DEF RingOK
  <2>1. PICK k \in s.kept : k.round = r
    BY DEF RingOK
  <2>2. r \in Nat /\ s.round \in Nat /\ NumStored \in Nat \ {0}
        /\ r < s.round /\ s.round < r + NumStored
    BY Fields, ScheduleAssumption
  <2>3. IndexOf(r) # IndexOf(s.round)
    BY <2>2, ModDiffers DEF IndexOf
  <2> QED BY <2>1, <2>3
<1>10. Occupancy(t) <= MaxPeers
  BY <1>6, <1>7 DEF Occupancy
<1> QED BY <1>6, <1>7, <1>8, <1>9, <1>10 DEF Good
-----------------------------------------------------------------------------
(* Closing a round.                                                         *)

LEMMA RosterAfterOK ==
    ASSUME NEW s \in CoordinatorState
    PROVE  /\ RosterAfter(s) \in [Peer -> Member]
           /\ \A p \in Peer : RosterAfter(s)[p].state = "healthy"
                                => s.roster[p].state = "healthy"
           /\ \A p \in Healthy(s) : RosterAfter(s)[p].state \in {"healthy", "dropped"}
           /\ \A p \in Present(s) : RosterAfter(s)[p].state # "dropped" \/ p \notin Healthy(s)
<1> SUFFICES ASSUME NEW p \in Peer
             PROVE  /\ Accounted(s, p, Present(s)) \in Member
                    /\ Accounted(s, p, Present(s)).state = "healthy"
                         => s.roster[p].state = "healthy"
                    /\ s.roster[p].state = "healthy"
                         => Accounted(s, p, Present(s)).state \in {"healthy", "dropped"}
                    /\ p \in Present(s) /\ s.roster[p].state = "healthy"
                         => Accounted(s, p, Present(s)).state # "dropped"
  BY DEF RosterAfter, Healthy
<1>1. s.roster[p] \in Member
  BY Fields
<1> DEFINE m == s.roster[p]
<1> HIDE DEF m
<1>2. m \in Member /\ m = s.roster[p]
  BY <1>1 DEF m
<1>3. CASE m.state # "healthy"
  BY <1>2, <1>3 DEF Accounted
<1>4. CASE m.state = "healthy"
  <2>1. Accounted(s, p, Present(s)) \in
          {m, [m EXCEPT !.absences = 0],
           [m EXCEPT !.absences = @ + 1, !.state = "dropped"],
           [m EXCEPT !.absences = @ + 1]}
    BY <1>2, <1>4 DEF Accounted, Member
  <2>2. [m EXCEPT !.absences = 0] \in Member
    BY <1>2 DEF Member
  <2>3. [m EXCEPT !.absences = @ + 1] \in Member
    BY <1>2 DEF Member
  <2>4. [m EXCEPT !.absences = @ + 1, !.state = "dropped"] \in Member
    <3>1. m.absences + 1 \in Nat
      BY <1>2 DEF Member
    <3>2. ASSUME NEW n \in Nat
          PROVE  [m EXCEPT !.absences = n, !.state = "dropped"] \in Member
      BY <1>2 DEF Member
    <3> QED BY <3>1, <3>2
  <2>5. Accounted(s, p, Present(s)) \in Member
    BY <1>2, <2>1, <2>2, <2>3, <2>4, Zenon
  <2>6. /\ m.state = "healthy" /\ [m EXCEPT !.absences = 0].state = "healthy"
        /\ [m EXCEPT !.absences = @ + 1].state = "healthy"
        /\ [m EXCEPT !.absences = @ + 1, !.state = "dropped"].state = "dropped"
    BY <1>2, <1>4 DEF Member
  <2>7. Accounted(s, p, Present(s)).state \in {"healthy", "dropped"}
    BY <2>1, <2>6, Zenon
  <2>8. p \in Present(s) => Accounted(s, p, Present(s)) = [m EXCEPT !.absences = 0]
    BY <1>2, <1>4 DEF Accounted
  <2> QED BY <1>2, <1>4, <2>5, <2>6, <2>7, <2>8
<1> QED BY <1>2, <1>3, <1>4

LEMMA RecordOfOK ==
    ASSUME NEW s \in CoordinatorState
    PROVE  /\ RecordOf(s) \in Record /\ RecordOf(s).round = s.round
           /\ RecordOf(s).entries = CommittedEntries(s)
           /\ RecordOf(s).drops = {p \in Healthy(s) : RosterAfter(s)[p].state = "dropped"}
<1>1. CommittedEntries(s) \subseteq Entry
  BY Fields DEF CommittedEntries, Submitted, Slot
<1>2. {p \in Healthy(s) : RosterAfter(s)[p].state = "dropped"} \subseteq Peer
  BY HealthyType
<1> QED BY <1>1, <1>2, Fields DEF RecordOf, Record

LEMMA FrozenOK ==
    ASSUME NEW s \in CoordinatorState, Occupancy(s) <= MaxPeers, RingOK(s), SlotFree(s)
    PROVE  LET t == Frozen(s) IN
           /\ t \in CoordinatorState
           /\ Occupancy(t) <= MaxPeers
           /\ RingOK(t)
           /\ t.round = s.round + 1 /\ t.cursor = s.cursor + GlobalBatchAt(s.round)
           /\ t.kept = s.kept \cup {RecordOf(s)}
           /\ Healthy(t) = Healthy(s) \ RecordOf(s).drops
<1> DEFINE t == Frozen(s)
           record == RecordOf(s)
           roster == RosterAfter(s)
           cursor == s.cursor + GlobalBatchAt(s.round)
<1>1. t = [s EXCEPT !.roster = roster, !.round = s.round + 1, !.cursor = cursor,
                    !.kept = s.kept \cup {record}, !.slot = EmptySlot]
  BY DEF Frozen, NextRound, NextCursor
<1>2. EmptySlot \in Slot
  BY DEF EmptySlot, Slot, Window
<1>3. roster \in [Peer -> Member] /\ record \in Record /\ record.round = s.round
      /\ cursor \in Nat /\ s.round \in Nat
  BY RosterAfterOK, RecordOfOK, Fields, BatchType
<1> DEFINE kept == s.kept \cup {record}
           round == s.round + 1
<1>8. kept \in SUBSET Record /\ round \in Nat
  BY <1>3, Fields
<1>9. t = [s EXCEPT !.roster = roster, !.round = round, !.cursor = cursor,
                    !.kept = kept, !.slot = EmptySlot]
  BY <1>1
<1> HIDE DEF t, record, roster, cursor, kept, round
<1>4. /\ t \in CoordinatorState /\ t.roster = roster /\ t.round = s.round + 1
      /\ t.cursor = cursor /\ t.kept = s.kept \cup {record} /\ t.pending = s.pending
  <2>1. t \in CoordinatorState
    BY <1>2, <1>3, <1>8, <1>9 DEF CoordinatorState
  <2>2. /\ t.roster = roster /\ t.round = round /\ t.cursor = cursor
        /\ t.kept = kept /\ t.pending = s.pending
    BY <1>9 DEF CoordinatorState
  <2> QED BY <2>1, <2>2 DEF kept, round
<1>5. Healthy(t) \subseteq Healthy(s)
  BY <1>4, RosterAfterOK DEF Healthy, roster
<1>6. Occupancy(t) <= MaxPeers
  <2>1. Cardinality(Healthy(t)) <= Cardinality(Healthy(s))
    BY <1>5, Fewer, HealthyType
  <2>2. /\ Cardinality(Healthy(t)) \in Nat
        /\ Cardinality(Healthy(s)) \in Nat
        /\ Cardinality(s.pending) \in Nat
    BY Fields, Finite, HealthyType
  <2> QED BY <1>4, <2>1, <2>2, FloorAssumption DEF Occupancy
<1>7. RingOK(t)
  <2>0. ASSUME NEW k \in s.kept \cup {record}
        PROVE  k.round < s.round + 1 /\ s.round + 1 <= k.round + NumStored
    <3>1. s.round \in Nat /\ NumStored \in Nat \ {0}
            /\ \A j \in s.kept : j.round \in Nat
      BY Fields, ScheduleAssumption DEF Record
    <3> QED BY <1>3, <3>1 DEF RingOK, SlotFree
  <2> SUFFICES ASSUME NEW r \in 0 .. s.round, r + NumStored > s.round + 1
               PROVE  \E k \in s.kept \cup {record} : k.round = r
    BY <1>3, <1>4, <2>0 DEF RingOK
  <2>1. CASE r = s.round
    BY <1>3, <2>1
  <2>2. CASE r # s.round
    <3>1. r \in 0 .. s.round - 1 /\ r + NumStored > s.round
      BY <1>3, <2>2, ScheduleAssumption
    <3> QED BY <3>1 DEF RingOK
  <2> QED BY <2>1, <2>2
<1>10. Healthy(t) = Healthy(s) \ RecordOf(s).drops
  <2>1. \A p \in Healthy(s) : roster[p].state \in {"healthy", "dropped"}
    BY RosterAfterOK DEF roster
  <2>2. RecordOf(s).drops = {p \in Healthy(s) : roster[p].state = "dropped"}
    BY RecordOfOK DEF roster
  <2> QED BY <1>4, <1>5, <2>1, <2>2 DEF Healthy
<1> QED BY <1>4, <1>6, <1>7, <1>10 DEF t, record, cursor

(* The record of a round is one of its team, whatever was heard.            *)
LEMMA RecordSound ==
    ASSUME NEW s, Good(s), RoundActive(s.phase)
    PROVE  LET k == RecordOf(s) IN
           /\ k \in Record /\ k.round = s.round
           /\ k.entries \subseteq s.slot.trainers \X Payload
           /\ k.drops \subseteq s.slot.trainers
           /\ Run!Sound(k.entries, k.drops)
<1> DEFINE k == RecordOf(s)
<1>1. /\ k \in Record /\ k.round = s.round /\ k.entries = CommittedEntries(s)
      /\ k.drops = {p \in Healthy(s) : RosterAfter(s)[p].state = "dropped"}
  BY RecordOfOK DEF Good
<1>2. /\ Healthy(s) = s.slot.trainers /\ OneEach(s.slot.commitments)
      /\ s.slot.commitments \subseteq Peer \X Payload
  BY Fields DEF Good, RoundOK, Slot, Entry
<1>3. \A e \in CommittedEntries(s) : e \in s.slot.commitments /\ e[1] \in Healthy(s)
  BY DEF CommittedEntries, Submitted
<1> HIDE DEF k
<1>4. k.entries \subseteq s.slot.trainers \X Payload
  BY <1>1, <1>2, <1>3
<1>5. \A e, f \in k.entries : e[1] = f[1] => e = f
  BY <1>1, <1>2, <1>3 DEF OneEach
<1>6. k.drops \cap {e[1] : e \in k.entries} = {}
  <2> SUFFICES ASSUME NEW p \in k.drops, p \in Present(s) PROVE FALSE
    BY <1>1 DEF Present
  <2> QED BY <1>1, RosterAfterOK DEF Good
<1> QED BY <1>1, <1>2, <1>4, <1>5, <1>6 DEF k, Run!Sound

(* A round closes into the next one or into a cooldown, and past the stop   *)
(* only into a cooldown.                                                    *)
Closed(u) == u.phase = "cooldown" \/ (u.phase = "train" /\ ~StopReached(u))

LEMMA FinalizeRoundOK ==
    ASSUME NEW s, Good(s), RoundActive(s.phase), NEW u \in FinalizeRound(s)
    PROVE  Good(u) /\ Evolves(s, u) /\ Closed(u)
<1> DEFINE t == Frozen(s)
<1>1. /\ t \in CoordinatorState /\ Occupancy(t) <= MaxPeers /\ RingOK(t)
      /\ t.round = s.round + 1 /\ t.cursor = s.cursor + GlobalBatchAt(s.round)
      /\ t.kept = s.kept \cup {RecordOf(s)}
      /\ Healthy(t) = Healthy(s) \ RecordOf(s).drops
  BY FrozenOK DEF Good, RoundOK
<1> HIDE DEF t
<1>5. Healthy(s) = s.slot.trainers
  BY DEF Good, RoundOK
<1>6. ASSUME u.round = t.round, u.cursor = t.cursor, u.kept \subseteq t.kept,
             RoundActive(u.phase) => u.slot.trainers = Healthy(t)
      PROVE  Evolves(s, u)
  <2>1. RecordOf(s) \in Record /\ Closes(s, u, RecordOf(s))
    BY <1>1, <1>5, <1>6, RecordSound DEF Closes
  <2> QED BY <1>1, <1>6, <2>1 DEF Evolves, Moves
<1>2. CASE u = ChangePhase(t, "cooldown")
  <2>1. /\ u \in CoordinatorState /\ u.phase = "cooldown" /\ u.round = t.round
        /\ u.cursor = t.cursor /\ u.kept = t.kept /\ u.pending = t.pending
        /\ Healthy(u) = Healthy(t)
    BY <1>1, <1>2, ChangePhaseFields DEF Phase
  <2>2. Good(u)
    BY <1>1, <2>1 DEF Good, RoundOK, RoundActive, RingOK, Occupancy
  <2>3. Evolves(s, u)
    BY <1>6, <2>1 DEF RoundActive
  <2> QED BY <2>1, <2>2, <2>3 DEF Closed
<1>3. CASE ~BelowFloor(t) /\ ~StopReached(t) /\ u \in OpenRound(t)
  <2>1. /\ Good(u) /\ u.phase = "train" /\ u.round = t.round /\ Healthy(u) = Healthy(t)
        /\ u.cursor = t.cursor /\ u.kept \subseteq t.kept
    BY <1>1, <1>3, OpenRoundOK
  <2>2. Evolves(s, u)
    BY <1>6, <2>1 DEF Good, RoundOK
  <2> QED BY <1>3, <2>1, <2>2 DEF Closed, StopReached
<1>4. \/ u = ChangePhase(t, "cooldown")
      \/ ~BelowFloor(t) /\ ~StopReached(t) /\ u \in OpenRound(t)
  BY DEF FinalizeRound, Rests, t
<1> QED BY <1>2, <1>3, <1>4

LEMMA MaybeFinalizeOK ==
    ASSUME NEW s, Good(s), NEW u \in MaybeFinalize(s)
    PROVE  /\ Good(u) /\ Evolves(s, u)
           /\ u = s \/ Closed(u)
<1>1. CASE u = s
  BY <1>1 DEF Evolves, Keeps
<1>2. CASE s.phase = "witness" /\ u \in FinalizeRound(s)
  BY <1>2, FinalizeRoundOK DEF RoundActive
<1> QED BY <1>1, <1>2 DEF MaybeFinalize

LEMMA MaybeAdvanceOK ==
    ASSUME NEW s, Good(s), RoundActive(s.phase), NEW u \in MaybeAdvance(s)
    PROVE  Good(u) /\ Evolves(s, u) /\ u.phase # "warmup" /\ Orderly(s, u)
<1> DEFINE t == IF s.phase = "train" /\ AllCommitted(s)
                THEN ChangePhase(s, "witness") ELSE s
<1>1. Good(t) /\ Calm(s, t) /\ RoundActive(t.phase)
  <2>1. CASE t = s
    BY <2>1 DEF Calm, Good
  <2>2. CASE t = ChangePhase(s, "witness")
    <3>1. Calm(s, ChangePhase(s, "witness")) /\ ChangePhase(s, "witness").phase = "witness"
      BY ChangePhaseCalm, ChangePhaseFields DEF Good, Phase
    <3>2. Calm(s, t) /\ t.phase = "witness"
      BY <2>2, <3>1, Zenon
    <3> QED BY <3>2, CalmStep DEF RoundActive
  <2> QED BY <2>1, <2>2
<1>2. u \in MaybeFinalize(t)
  BY DEF MaybeAdvance
<1> HIDE DEF t
<1>3. Good(u) /\ Evolves(t, u) /\ (u = t \/ Closed(u))
  BY <1>1, <1>2, MaybeFinalizeOK
<1>4. Orderly(s, u)
  <2>1. CASE u = t
    BY <1>1, <2>1 DEF RoundActive, Orderly, Forming, StopReached, Calm
  <2>2. CASE Closed(u)
    BY <2>2 DEF Closed, Orderly, Forming
  <2> QED BY <1>3, <2>1, <2>2
<1> QED BY <1>1, <1>3, <1>4, CalmThen DEF RoundActive, Closed
-----------------------------------------------------------------------------
(* Handlers.                                                                *)

(* What a handler owes: a good state, a proper step, honest readiness, the  *)
(* staged joins and the stop respected.                                     *)
Owes(s, t, ready) == Good(t) /\ Evolves(s, t) /\ Warms(s, t, ready) /\ Orderly(s, t)

(* A step that leaves phase, round and staged joins alone.                  *)
LEMMA StillOrderly ==
    ASSUME NEW s, NEW t, t.phase = s.phase, t.round = s.round, t.pending = s.pending
    PROVE  /\ Orderly(s, t)
           /\ \A u : Orderly(t, u) => Orderly(s, u)
BY DEF Orderly, Forming, StopReached

LEMMA NotWarming ==
    ASSUME NEW s, NEW t, NEW ready, s.phase # "warmup", t.phase # "warmup"
    PROVE  Warms(s, t, ready)
BY DEF Warms

(* A frame that only stamps its signer.                                     *)
LEMMA HeardOK ==
    ASSUME NEW s \in CoordinatorState, NEW p \in Peer
    PROVE  LET h == Heard(s, p) IN
           /\ Calm(s, h)
           /\ h.phase = s.phase /\ h.elapsed = s.elapsed /\ h.slot = s.slot
           /\ \A q \in Peer : /\ h.roster[q].ready = s.roster[q].ready
                              /\ h.roster[q].state = s.roster[q].state
<1> DEFINE roster == [s.roster EXCEPT ![p].quiet = 0]
           h == Heard(s, p)
<1>1. roster \in [Peer -> Member]
  BY Fields DEF Member
<1>2. \A q \in Peer : roster[q].ready = s.roster[q].ready
                        /\ roster[q].state = s.roster[q].state
  BY Fields DEF Member
<1>3. h = [s EXCEPT !.roster = roster]
  BY DEF Heard
<1> HIDE DEF roster, h
<1>4. Calm(s, h)
  BY <1>1, <1>2, <1>3, RosterCalm
<1>5. h.phase = s.phase /\ h.elapsed = s.elapsed /\ h.slot = s.slot /\ h.roster = roster
  BY <1>3 DEF CoordinatorState
<1> QED BY <1>2, <1>4, <1>5 DEF h

LEMMA AfterHeard ==
    ASSUME NEW s, NEW p \in Peer, Good(s), NEW t, NEW ready,
           Good(Heard(s, p)) => Owes(Heard(s, p), t, ready)
    PROVE  Owes(s, t, ready)
<1> DEFINE h == Heard(s, p)
<1>1. Calm(s, h) /\ h.phase = s.phase /\ h.elapsed = s.elapsed
      /\ \A q \in Peer : h.roster[q].ready = s.roster[q].ready
  BY HeardOK DEF Good
<1> HIDE DEF h
<1>2. Good(h)
  BY <1>1, CalmStep
<1>3. Owes(h, t, ready)
  BY <1>2 DEF h
<1>4. Evolves(s, t)
  BY <1>1, <1>3, CalmThen DEF Owes
<1>5. Warms(s, t, ready)
  BY <1>1, <1>3, HealthyType DEF Owes, Warms
<1>6. Orderly(s, t)
  BY <1>1, <1>3, StillOrderly DEF Owes, Calm
<1> QED BY <1>3, <1>4, <1>5, <1>6 DEF Owes

LEMMA Unmoved ==
    ASSUME NEW s, NEW ready, Good(s)
    PROVE  Owes(s, s, ready)
BY StillOrderly DEF Owes, Evolves, Keeps, Warms

LEMMA JoiningOK ==
    Joining \in Member /\ Joining.state = "healthy" /\ Joining.ready = FALSE
<1>1. NoMember \in Member /\ NoMember.ready = FALSE
  BY DEF NoMember, Member
<1> QED BY <1>1 DEF Joining, Member

LEMMA OneMore ==
    ASSUME NEW S \in SUBSET Peer, NEW p
    PROVE  Cardinality(S \cup {p}) <= Cardinality(S) + 1
<1>1. IsFiniteSet(S) /\ Cardinality(S) \in Nat
  BY Finite
<1>2. Cardinality(S \cup {p}) = IF p \in S THEN Cardinality(S) ELSE Cardinality(S) + 1
  BY <1>1, FS_AddElement
<1> QED BY <1>1, <1>2

LEMMA OnJoinOK ==
    ASSUME NEW s, NEW p \in Peer, Good(s), ~Halted(s.phase)
    PROVE  Owes(s, OnJoin(s, p), {})
<1> DEFINE t == OnJoin(s, p)
<1>0. /\ s \in CoordinatorState /\ s.roster \in [Peer -> Member]
      /\ s.pending \in SUBSET Peer /\ Healthy(s) \in SUBSET Peer
  BY Fields, HealthyType DEF Good
<1>1. CASE ~Admit(s, p)
  BY <1>1, Unmoved DEF OnJoin
<1>2. CASE Admit(s, p) /\ Forming(s.phase)
  <2> DEFINE roster == [s.roster EXCEPT ![p] = Joining]
  <2>1. /\ roster \in [Peer -> Member]
        /\ \A q \in Peer : roster[q].ready => s.roster[q].ready
    BY <1>0, JoiningOK
  <2>2. \A q \in Peer : roster[q].state = "healthy"
                          <=> q = p \/ s.roster[q].state = "healthy"
    BY <1>0, JoiningOK
  <2>3. t = [s EXCEPT !.roster = roster]
    BY <1>2 DEF OnJoin
  <2> HIDE DEF roster, t
  <2>4. /\ t \in CoordinatorState /\ t.roster = roster /\ t.phase = s.phase
        /\ t.round = s.round /\ t.cursor = s.cursor /\ t.kept = s.kept
        /\ t.pending = s.pending /\ t.elapsed = s.elapsed
    BY <1>0, <2>1, <2>3 DEF CoordinatorState
  <2>5. Healthy(t) = Healthy(s) \cup {p}
    BY <2>2, <2>4 DEF Healthy
  <2>6. Occupancy(t) <= MaxPeers
    <3>1. Cardinality(Healthy(t)) <= Cardinality(Healthy(s)) + 1
      BY <1>0, <2>5, OneMore
    <3>2. /\ Cardinality(Healthy(t)) \in Nat
          /\ Cardinality(Healthy(s)) \in Nat
          /\ Cardinality(s.pending) \in Nat
      BY <1>0, Finite, HealthyType
    <3> QED BY <1>2, <2>4, <3>1, <3>2, FloorAssumption DEF Admit, Occupancy
  <2>7. s.phase \in {"waiting", "warmup"}
    BY <1>2 DEF Forming
  <2>8. Good(t)
    BY <2>4, <2>6, <2>7 DEF Good, RoundOK, RoundActive, RingOK
  <2>9. Evolves(s, t) /\ Warms(s, t, {})
    BY <2>1, <2>4, <2>7 DEF Evolves, Keeps, RoundActive, Warms
  <2> QED BY <2>4, <2>8, <2>9, StillOrderly DEF Owes, t
<1>3. CASE Admit(s, p) /\ ~Forming(s.phase)
  <2>3. t = [s EXCEPT !.pending = s.pending \cup {p}]
    BY <1>3 DEF OnJoin
  <2> HIDE DEF t
  <2>4. /\ t \in CoordinatorState /\ t.roster = s.roster /\ t.phase = s.phase
        /\ t.round = s.round /\ t.cursor = s.cursor /\ t.kept = s.kept
        /\ t.pending = s.pending \cup {p} /\ t.slot = s.slot
    BY <1>0, <2>3 DEF CoordinatorState
  <2>5. Healthy(t) = Healthy(s)
    BY <2>4 DEF Healthy
  <2>6. Occupancy(t) <= MaxPeers
    <3>1. Cardinality(t.pending) <= Cardinality(s.pending) + 1
      BY <1>0, <2>4, OneMore
    <3>2. /\ Cardinality(t.pending) \in Nat
          /\ Cardinality(Healthy(s)) \in Nat
          /\ Cardinality(s.pending) \in Nat
      BY <1>0, <2>4, Finite, HealthyType
    <3> QED BY <1>3, <2>5, <3>1, <3>2, FloorAssumption DEF Admit, Occupancy
  <2>8. Good(t)
    BY <2>4, <2>5, <2>6 DEF Good, RoundOK, Batch, RingOK, SlotFree
  <2>9. Evolves(s, t) /\ Warms(s, t, {})
    BY <1>3, <2>4 DEF Evolves, Keeps, Warms, Forming
  <2>10. Orderly(s, t)
    BY <1>3, <2>4 DEF Orderly, Forming, StopReached, Halted
  <2> QED BY <2>8, <2>9, <2>10 DEF Owes, t
<1> QED BY <1>1, <1>2, <1>3

(* New evidence for the open round, which may end training and the round.   *)
LEMMA EvidenceOK ==
    ASSUME NEW s, Good(s), RoundActive(s.phase), NEW slot \in Slot,
           slot.trainers = s.slot.trainers, slot.witnesses = s.slot.witnesses,
           slot.window = s.slot.window,
           OneEach(s.slot.commitments) => OneEach(slot.commitments),
           NEW u \in MaybeAdvance([s EXCEPT !.slot = slot])
    PROVE  Owes(s, u, {})
<1> DEFINE t == [s EXCEPT !.slot = slot]
<1>1. Calm(s, t) /\ t.phase = s.phase
  BY SlotCalm DEF Good, CoordinatorState
<1>2. u \in MaybeAdvance(t)
  OBVIOUS
<1> HIDE DEF t
<1>3. Good(u) /\ Evolves(t, u) /\ u.phase # "warmup" /\ Orderly(t, u)
  BY <1>1, <1>2, CalmStep, MaybeAdvanceOK
<1>4. Evolves(s, u) /\ Orderly(s, u)
  BY <1>1, <1>3, CalmThen, StillOrderly DEF Calm
<1> QED BY <1>3, <1>4, NotWarming DEF Owes, RoundActive

LEMMA OnCommitmentOK ==
    ASSUME NEW s, NEW p \in Peer, NEW r, NEW x \in Payload, Good(s),
           NEW u \in OnCommitment(s, p, r, x)
    PROVE  Owes(s, u, {})
<1> DEFINE slot == [s.slot EXCEPT !.commitments =
                      {e \in @ : e[1] # p} \cup {<<p, x>>}]
<1>1. CASE u = s
  BY <1>1, Unmoved
<1>2. CASE RoundActive(s.phase) /\ u \in MaybeAdvance([s EXCEPT !.slot = slot])
  <2>1. s.slot \in Slot
    BY Fields DEF Good
  <2> DEFINE es == {e \in s.slot.commitments : e[1] # p} \cup {<<p, x>>}
  <2>2. es \in SUBSET Entry
    BY <2>1 DEF Slot, Entry
  <2>4. OneEach(s.slot.commitments) => OneEach(es)
    BY DEF OneEach
  <2>5. slot = [s.slot EXCEPT !.commitments = es]
    OBVIOUS
  <2> HIDE DEF es
  <2>3. /\ slot \in Slot /\ slot.trainers = s.slot.trainers
        /\ slot.witnesses = s.slot.witnesses /\ slot.window = s.slot.window
        /\ slot.commitments = es
    BY <2>1, <2>2, <2>5 DEF Slot
  <2> HIDE DEF slot
  <2> QED BY <1>2, <2>3, <2>4, EvidenceOK
<1>3. u = s \/ (RoundActive(s.phase) /\ u \in MaybeAdvance([s EXCEPT !.slot = slot]))
  BY DEF OnCommitment
<1> QED BY <1>1, <1>2, <1>3

LEMMA OnAttestationOK ==
    ASSUME NEW s, NEW w \in Peer, NEW r, NEW a \in Attestation, Good(s),
           NEW u \in OnAttestation(s, w, r, a)
    PROVE  Owes(s, u, {})
<1> DEFINE slot == [s.slot EXCEPT !.attestations =
                      {wa \in @ : wa[1] # w} \cup {<<w, a>>}]
<1>1. CASE u = s
  BY <1>1, Unmoved
<1>2. CASE RoundActive(s.phase) /\ u \in MaybeAdvance([s EXCEPT !.slot = slot])
  <2>1. s.slot \in Slot
    BY Fields DEF Good
  <2>2. {wa \in s.slot.attestations : wa[1] # w} \cup {<<w, a>>}
          \in SUBSET (Peer \X Attestation)
    BY <2>1 DEF Slot
  <2>3. /\ slot \in Slot /\ slot.trainers = s.slot.trainers
        /\ slot.witnesses = s.slot.witnesses /\ slot.window = s.slot.window
        /\ slot.commitments = s.slot.commitments
    BY <2>1, <2>2 DEF Slot
  <2> HIDE DEF slot
  <2> QED BY <1>2, <2>3, EvidenceOK
<1>3. u = s \/ (RoundActive(s.phase) /\ u \in MaybeAdvance([s EXCEPT !.slot = slot]))
  BY DEF OnAttestation
<1> QED BY <1>1, <1>2, <1>3

LEMMA OnReceiptOK ==
    ASSUME NEW s, NEW r, NEW entries \in SUBSET Entry, Good(s),
           NEW u \in OnReceipt(s, r, entries)
    PROVE  Owes(s, u, {})
<1> DEFINE slot == [s.slot EXCEPT !.receipts = @ \cup entries]
<1>1. CASE u = s
  BY <1>1, Unmoved
<1>2. CASE RoundActive(s.phase) /\ u \in MaybeAdvance([s EXCEPT !.slot = slot])
  <2>1. s.slot \in Slot
    BY Fields DEF Good
  <2>3. /\ slot \in Slot /\ slot.trainers = s.slot.trainers
        /\ slot.witnesses = s.slot.witnesses /\ slot.window = s.slot.window
        /\ slot.commitments = s.slot.commitments
    BY <2>1 DEF Slot
  <2> HIDE DEF slot
  <2> QED BY <1>2, <2>3, EvidenceOK
<1>3. u = s \/ (RoundActive(s.phase) /\ u \in MaybeAdvance([s EXCEPT !.slot = slot]))
  BY DEF OnReceipt
<1> QED BY <1>1, <1>2, <1>3

LEMMA OnStraggleOK ==
    ASSUME NEW s, NEW p \in Peer, NEW r \in Int, Good(s)
    PROVE  Owes(s, OnStraggle(s, p, r), {})
<1> DEFINE t == OnStraggle(s, p, r)
           roster == [s.roster EXCEPT ![p].straggle = r]
<1>1. CASE s.roster[p].state = "absent"
  BY <1>1, Unmoved DEF OnStraggle
<1>2. CASE s.roster[p].state # "absent"
  <2>1. /\ roster \in [Peer -> Member]
        /\ \A q \in Peer : roster[q].state = s.roster[q].state
                             /\ roster[q].ready = s.roster[q].ready
    BY Fields DEF Good, Member
  <2>2. t = [s EXCEPT !.roster = roster]
    BY <1>2 DEF OnStraggle
  <2> HIDE DEF t, roster
  <2>3. Calm(s, t)
    BY <2>1, <2>2, RosterCalm DEF Good
  <2>4. t.phase = s.phase /\ t.roster = roster
    BY <2>2 DEF Good, CoordinatorState
  <2>5. Good(t) /\ Evolves(s, t) /\ Orderly(s, t)
    BY <2>3, <2>4, CalmStep, StillOrderly DEF Calm
  <2>6. Warms(s, t, {})
    BY <2>1, <2>4 DEF Warms
  <2> QED BY <2>5, <2>6 DEF Owes, t
<1> QED BY <1>1, <1>2

(* The first round of an epoch opens from a good state at the floor.        *)
LEMMA OpenEpochOK ==
    ASSUME NEW s, Good(s), s.phase = "warmup", ~BelowFloor(s),
           NEW u \in OpenEpochFirstRound(s)
    PROVE  /\ Good(u) /\ Evolves(s, u) /\ Orderly(s, u)
           /\ u.phase = "train" /\ Healthy(u) = Healthy(s)
<1> DEFINE t == [s EXCEPT !.epochStart = s.round]
<1>1. /\ t \in CoordinatorState /\ t.roster = s.roster /\ t.pending = s.pending
      /\ t.round = s.round /\ t.cursor = s.cursor /\ t.kept = s.kept
  BY Fields DEF Good, CoordinatorState
<1>2. u \in OpenRound(t)
  BY DEF OpenEpochFirstRound
<1> HIDE DEF t
<1>3. Healthy(t) = Healthy(s)
  BY <1>1 DEF Healthy
<1>4. Occupancy(t) <= MaxPeers /\ RingOK(t) /\ ~BelowFloor(t)
  BY <1>1, <1>3 DEF Good, Occupancy, RingOK, BelowFloor
<1>5. /\ Good(u) /\ u.phase = "train" /\ Healthy(u) = Healthy(t)
      /\ u.round = t.round /\ u.cursor = t.cursor /\ u.kept \subseteq t.kept
  BY <1>1, <1>2, <1>4, OpenRoundOK
<1>6. Evolves(s, u)
  BY <1>1, <1>5 DEF Evolves, Keeps, RoundActive
<1>7. Orderly(s, u)
  BY <1>1, <1>5 DEF Orderly, StopReached, Forming
<1> QED BY <1>3, <1>5, <1>6, <1>7

LEMMA OnHeartbeatOK ==
    ASSUME NEW s, NEW p \in Peer, NEW ready \in BOOLEAN, Good(s),
           NEW u \in OnHeartbeat(s, p, ready)
    PROVE  Owes(s, u, IF ready THEN {p} ELSE {})
<1> DEFINE sig == IF ready THEN {p} ELSE {}
           roster == [s.roster EXCEPT ![p].ready = TRUE]
           t == IF ready /\ s.roster[p].state # "absent"
                THEN [s EXCEPT !.roster[p].ready = TRUE] ELSE s
<1>1. /\ Calm(s, t) /\ t.phase = s.phase
      /\ \A q \in Peer : t.roster[q].ready => s.roster[q].ready \/ q \in sig
  <2>1. CASE t = s
    <3>1. Calm(s, s)
      BY DEF Calm, Good
    <3> QED BY <2>1, <3>1
  <2>2. CASE ready /\ t = [s EXCEPT !.roster = roster]
    <3>1. /\ roster \in [Peer -> Member]
          /\ \A q \in Peer : roster[q].state = s.roster[q].state
                               /\ (roster[q].ready => s.roster[q].ready \/ q = p)
      <4> DEFINE m == [s.roster[p] EXCEPT !.ready = TRUE]
      <4>1. s.roster \in [Peer -> Member]
        BY Fields DEF Good
      <4>2. m \in Member /\ m.state = s.roster[p].state
        BY <4>1 DEF Member
      <4>3. roster = [s.roster EXCEPT ![p] = m]
        OBVIOUS
      <4> HIDE DEF m, roster
      <4>4. roster \in [Peer -> Member]
        BY <4>1, <4>2, <4>3
      <4>5. \A q \in Peer : roster[q] = IF q = p THEN m ELSE s.roster[q]
        BY <4>1, <4>3
      <4> QED BY <4>2, <4>4, <4>5
    <3> HIDE DEF roster, t
    <3>2. Calm(s, t)
      BY <2>2, <3>1, RosterCalm DEF Good
    <3>3. t.phase = s.phase /\ t.roster = roster
      BY <2>2 DEF Good, CoordinatorState
    <3> QED BY <2>2, <3>1, <3>2, <3>3
  <2> QED BY <2>1, <2>2
<1>2. u \in MaybeExitWarmup(t)
  BY DEF OnHeartbeat
<1> HIDE DEF t
<1>3. Good(t) /\ Evolves(s, t)
  BY <1>1, CalmStep
<1>7. Orderly(s, t) /\ \A v : Orderly(t, v) => Orderly(s, v)
  BY <1>1, StillOrderly DEF Calm
<1>4. CASE u = t
  BY <1>1, <1>3, <1>4, <1>7, HealthyType DEF Owes, Warms
<1>5. CASE /\ t.phase = "warmup" /\ ~BelowFloor(t) /\ AllWarmupReady(t)
           /\ u \in OpenEpochFirstRound(t)
  <2>1. /\ Good(u) /\ Evolves(t, u) /\ u.phase = "train" /\ Healthy(u) = Healthy(t)
        /\ Orderly(t, u)
    BY <1>3, <1>5, OpenEpochOK
  <2>2. Evolves(s, u) /\ Orderly(s, u)
    BY <1>1, <1>7, <2>1, CalmThen
  <2>3. Warms(s, u, sig)
    BY <1>1, <1>5, <2>1, HealthyType DEF Warms, AllWarmupReady
  <2> QED BY <2>1, <2>2, <2>3 DEF Owes
<1>6. \/ u = t
      \/ /\ t.phase = "warmup" /\ ~BelowFloor(t) /\ AllWarmupReady(t)
         /\ u \in OpenEpochFirstRound(t)
  BY <1>2 DEF MaybeExitWarmup
<1> QED BY <1>4, <1>5, <1>6

(* Pause and resume.                                                        *)
LEMMA OnPauseOK ==
    ASSUME NEW s, Good(s)
    PROVE  Owes(s, [ChangePhase(s, "paused") EXCEPT !.slot = EmptySlot], {})
<1> DEFINE c == ChangePhase(s, "paused")
           t == [c EXCEPT !.slot = EmptySlot]
<1>1. EmptySlot \in Slot
  BY DEF EmptySlot, Slot, Window
<1>2. /\ c \in CoordinatorState /\ c.phase = "paused" /\ c.round = s.round
      /\ c.cursor = s.cursor /\ c.kept = s.kept /\ c.pending = s.pending
      /\ Healthy(c) = Healthy(s)
  BY ChangePhaseFields DEF Good, Phase
<1> HIDE DEF c
<1>3. /\ t \in CoordinatorState /\ t.phase = "paused" /\ t.round = s.round
      /\ t.cursor = s.cursor /\ t.kept = s.kept /\ t.pending = s.pending
      /\ t.roster = c.roster
  BY <1>1, <1>2 DEF CoordinatorState
<1>4. Healthy(t) = Healthy(s)
  BY <1>2, <1>3 DEF Healthy
<1>5. Calm(s, t)
  BY <1>3, <1>4 DEF Calm, RoundActive
<1>6. Warms(s, t, {})
  BY <1>3 DEF Warms
<1>7. Good(t) /\ Evolves(s, t)
  BY <1>5, CalmStep
<1>8. Orderly(s, t)
  BY <1>3 DEF Orderly, Forming
<1> QED BY <1>6, <1>7, <1>8 DEF Owes, c

LEMMA OnResumeOK ==
    ASSUME NEW s, Good(s), s.phase = "paused"
    PROVE  Owes(s, ChangePhase(s, "waiting"), {})
<1> DEFINE t == ChangePhase(s, "waiting")
<1>1. Calm(s, t) /\ t.phase = "waiting"
  BY ChangePhaseFields, ChangePhaseCalm DEF Good, Phase, RoundActive
<1>2. Good(t) /\ Evolves(s, t)
  BY <1>1, CalmStep
<1>3. Warms(s, t, {}) /\ Orderly(s, t)
  BY <1>1 DEF Warms, Orderly, StopReached, Calm
<1> QED BY <1>2, <1>3 DEF Owes

-----------------------------------------------------------------------------
(* The clock.                                                               *)

LEMMA WindowNat == DecayWindow \in Nat
<1>1. KAbsences \in Nat /\ TrainS + WitnessS \in Nat
  BY ScheduleAssumption
<1>2. \A x, y \in Nat : x * y \in Nat
  BY Z3
<1> QED BY <1>1, <1>2 DEF DecayWindow

LEMMA LeastNat ==
    ASSUME NEW a \in Nat, NEW b \in Nat
    PROVE  Least(a, b) \in Nat /\ Least(a, b) <= a /\ Least(a, b) <= b
BY DEF Least

LEMMA PhaseLimitNat ==
    ASSUME NEW ph \in Phase
    PROVE  PhaseLimit(ph) \in Nat
BY ScheduleAssumption DEF PhaseLimit, Phase

(* Members that were silent too long are dropped while the roster forms.    *)
LEMMA DecayOK ==
    ASSUME NEW s \in CoordinatorState, s.phase = "waiting"
    PROVE  Calm(s, DecayStaleMembers(s)) /\ DecayStaleMembers(s).phase = "waiting"
<1> DEFINE t == DecayStaleMembers(s)
           roster == [p \in Peer |->
               IF s.roster[p].state = "healthy" /\ DecayWindow > 0
                    /\ s.roster[p].quiet >= DecayWindow
               THEN [s.roster[p] EXCEPT !.state = "dropped"] ELSE s.roster[p]]
<1>1. \A p \in Peer : [s.roster[p] EXCEPT !.state = "dropped"] \in Member
                        /\ [s.roster[p] EXCEPT !.state = "dropped"].state = "dropped"
                        /\ s.roster[p] \in Member
  BY Fields DEF Member
<1>2. /\ roster \in [Peer -> Member]
      /\ \A p \in Peer : roster[p].state = "healthy" => s.roster[p].state = "healthy"
  BY <1>1
<1>3. t = [s EXCEPT !.roster = roster]
  BY DEF DecayStaleMembers
<1> HIDE DEF t, roster
<1>4. Calm(s, t)
  BY <1>2, <1>3, RosterCalm DEF RoundActive
<1>5. t.phase = s.phase
  BY <1>3 DEF CoordinatorState
<1> QED BY <1>4, <1>5 DEF t

(* Warmup begins with every readiness flag down.                            *)
LEMMA EnterWarmupOK ==
    ASSUME NEW s \in CoordinatorState, ~RoundActive(s.phase)
    PROVE  LET t == EnterWarmup(s) IN
           Calm(s, t) /\ t.phase = "warmup" /\ \A p \in Peer : ~t.roster[p].ready
<1> DEFINE roster == [p \in Peer |-> [s.roster[p] EXCEPT !.ready = FALSE]]
           r == [s EXCEPT !.roster = roster]
           t == EnterWarmup(s)
<1>1. /\ roster \in [Peer -> Member]
      /\ \A p \in Peer : roster[p].state = s.roster[p].state /\ ~roster[p].ready
  <2>1. s.roster \in [Peer -> Member]
    BY Fields
  <2>2. \A m \in Member : /\ [m EXCEPT !.ready = FALSE] \in Member
                         /\ [m EXCEPT !.ready = FALSE].state = m.state
                         /\ ~[m EXCEPT !.ready = FALSE].ready
    BY DEF Member
  <2> QED BY <2>1, <2>2, Zenon
<1>2. t = ChangePhase(r, "warmup")
  BY DEF EnterWarmup
<1> HIDE DEF roster, t
<1>3. Calm(s, r) /\ r.roster = roster /\ r \in CoordinatorState
  BY <1>1, RosterCalm DEF CoordinatorState
<1> HIDE DEF r
<1>4. /\ t \in CoordinatorState /\ t.phase = "warmup" /\ t.round = r.round
      /\ t.cursor = r.cursor /\ t.kept = r.kept /\ t.pending = r.pending
      /\ Healthy(t) = Healthy(r) /\ \A p \in Peer : t.roster[p].ready = r.roster[p].ready
  BY <1>2, <1>3, ChangePhaseFields DEF Phase
<1>5. Calm(s, t)
  BY <1>3, <1>4 DEF Calm, RoundActive
<1> QED BY <1>1, <1>3, <1>4, <1>5 DEF t

(* Seating the staged joins moves seats, it takes none.                     *)
LEMMA SeatPendingOK ==
    ASSUME NEW s \in CoordinatorState, Occupancy(s) <= MaxPeers
    PROVE  LET t == SeatPending(s) IN
           /\ t \in CoordinatorState /\ Occupancy(t) <= MaxPeers
           /\ t.round = s.round /\ t.cursor = s.cursor /\ t.kept = s.kept
           /\ t.pending = {}
<1> DEFINE roster == [p \in Peer |-> IF p \in s.pending THEN Joining ELSE s.roster[p]]
           t == SeatPending(s)
<1>1. s.roster \in [Peer -> Member] /\ s.pending \in SUBSET Peer
  BY Fields
<1>2. /\ roster \in [Peer -> Member]
      /\ \A p \in Peer : roster[p].state = "healthy"
                           <=> p \in s.pending \/ s.roster[p].state = "healthy"
  BY <1>1, JoiningOK
<1>3. t = [s EXCEPT !.pending = {}, !.roster = roster]
  BY DEF SeatPending
<1> HIDE DEF roster, t
<1>4. /\ t \in CoordinatorState /\ t.roster = roster /\ t.pending = {}
      /\ t.round = s.round /\ t.cursor = s.cursor /\ t.kept = s.kept
  BY <1>2, <1>3 DEF CoordinatorState
<1>5. Healthy(t) = Healthy(s) \cup s.pending
  BY <1>1, <1>2, <1>4 DEF Healthy
<1>6. IsFiniteSet(Healthy(s)) /\ IsFiniteSet(s.pending)
  BY <1>1, Finite, HealthyType
<1>7. Cardinality(Healthy(t)) = Cardinality(Healthy(s)) + Cardinality(s.pending)
                                  - Cardinality(Healthy(s) \cap s.pending)
  BY <1>5, <1>6, FS_Union
<1>8. /\ Cardinality(Healthy(s)) \in Nat /\ Cardinality(s.pending) \in Nat
      /\ Cardinality(Healthy(s) \cap s.pending) \in Nat
      /\ Cardinality(Healthy(t)) \in Nat
  BY <1>1, Finite, HealthyType
<1>9. Occupancy(t) <= MaxPeers
  BY <1>4, <1>7, <1>8, FS_EmptySet, FloorAssumption DEF Occupancy
<1> QED BY <1>4, <1>9 DEF t

LEMMA ExitCooldownOK ==
    ASSUME NEW s, Good(s), s.phase = "cooldown"
    PROVE  Owes(s, ExitCooldown(s), {})
<1> DEFINE t == ExitCooldown(s)
<1>0. s \in CoordinatorState
  BY DEF Good
<1>1. CASE StopReached(s)
  <2>1. t = ChangePhase(s, "finished")
    BY <1>1 DEF ExitCooldown
  <2> HIDE DEF t
  <2>2. Calm(s, t) /\ t.phase = "finished"
    BY <1>0, <2>1, ChangePhaseCalm, ChangePhaseFields DEF Phase, RoundActive
  <2>3. Orderly(s, t)
    BY <2>2 DEF Orderly, Forming
  <2> QED BY <2>2, <2>3, CalmStep, NotWarming DEF Owes, t
<1>2. CASE ~StopReached(s)
  <2> DEFINE q == SeatPending(s)
  <2>1. t = ChangePhase(q, "waiting")
    BY <1>2 DEF ExitCooldown
  <2>2. /\ q \in CoordinatorState /\ Occupancy(q) <= MaxPeers
        /\ q.round = s.round /\ q.cursor = s.cursor /\ q.kept = s.kept
        /\ q.pending = {}
    BY SeatPendingOK DEF Good
  <2> HIDE DEF q, t
  <2>3. /\ t \in CoordinatorState /\ t.phase = "waiting" /\ t.round = q.round
        /\ t.cursor = q.cursor /\ t.kept = q.kept /\ t.pending = q.pending
        /\ Healthy(t) = Healthy(q)
    BY <2>1, <2>2, ChangePhaseFields DEF Phase
  <2>4. Good(t)
    BY <2>2, <2>3 DEF Good, RoundOK, RoundActive, RingOK, Occupancy
  <2>5. Evolves(s, t) /\ Warms(s, t, {})
    BY <2>2, <2>3 DEF Evolves, Keeps, RoundActive, Warms
  <2>6. Orderly(s, t)
    BY <1>2, <2>2, <2>3 DEF Orderly, StopReached
  <2> QED BY <2>4, <2>5, <2>6 DEF Owes, t
<1> QED BY <1>1, <1>2

(* x is the state with its clocks moved on.                                 *)
LEMMA DriveTimeOK ==
    ASSUME NEW x, Good(x), NEW e, e = x.elapsed, NEW u \in DriveTime(x, e)
    PROVE  /\ Good(u) /\ Evolves(x, u) /\ Orderly(x, u)
           /\ u.phase = "warmup" =>
                \A p \in Peer : u.roster[p].ready =>
                    x.phase = "warmup" /\ x.roster[p].ready
           /\ x.phase = "warmup" /\ u.phase = "train" =>
                e >= WarmupS \/ \A p \in Healthy(u) : x.roster[p].ready
<1>0. x \in CoordinatorState /\ x.phase \in Phase
  BY Fields DEF Good
<1>1. CASE u = x
  BY <1>1, StillOrderly DEF Evolves, Keeps
<1>2. CASE x.phase = "waiting"
  <2> DEFINE t == DecayStaleMembers(x)
  <2>1. Calm(x, t) /\ t.phase = "waiting"
    BY <1>0, <1>2, DecayOK
  <2>2. u = t \/ u = EnterWarmup(t)
    BY <1>2 DEF DriveTime
  <2> HIDE DEF t
  <2>3. Good(t) /\ Evolves(x, t) /\ t \in CoordinatorState
    BY <2>1, CalmStep DEF Calm
  <2>4. CASE u = t
    BY <1>2, <2>1, <2>3, <2>4, StillOrderly DEF Calm
  <2>5. CASE u = EnterWarmup(t)
    <3>1. Calm(t, u) /\ u.phase = "warmup" /\ \A p \in Peer : ~u.roster[p].ready
      BY <2>1, <2>3, <2>5, EnterWarmupOK DEF RoundActive
    <3>2. Good(u) /\ Evolves(x, u)
      BY <1>2, <2>1, <2>3, <3>1, CalmStep, CalmThen
    <3>3. Orderly(x, u)
      BY <1>2, <2>1, <3>1 DEF Orderly, StopReached, Calm
    <3> QED BY <1>2, <3>1, <3>2, <3>3
  <2> QED BY <2>2, <2>4, <2>5
<1>3. CASE x.phase = "warmup"
  <2>1. \/ u = x
        \/ u = ChangePhase(x, "waiting")
        \/ /\ ~BelowFloor(x) /\ u \in OpenEpochFirstRound(x)
           /\ AllWarmupReady(x) \/ e >= WarmupS
    BY <1>3 DEF DriveTime
  <2>2. CASE u = ChangePhase(x, "waiting")
    <3>1. Calm(x, u) /\ u.phase = "waiting"
      BY <1>0, <2>2, ChangePhaseCalm, ChangePhaseFields DEF Phase, RoundActive
    <3>2. Orderly(x, u)
      BY <1>3, <3>1 DEF Orderly, StopReached, Calm
    <3> QED BY <3>1, <3>2, CalmStep
  <2>3. CASE /\ ~BelowFloor(x) /\ u \in OpenEpochFirstRound(x)
             /\ AllWarmupReady(x) \/ e >= WarmupS
    <3>1. /\ Good(u) /\ Evolves(x, u) /\ Orderly(x, u)
          /\ u.phase = "train" /\ Healthy(u) = Healthy(x)
      BY <1>3, <2>3, OpenEpochOK
    <3> QED BY <2>3, <3>1 DEF AllWarmupReady
  <2> QED BY <1>1, <2>1, <2>2, <2>3
<1>4. CASE x.phase = "train"
  <2> DEFINE w == ChangePhase(x, "witness")
  <2>1. u = x \/ u \in MaybeFinalize(w)
    BY <1>4 DEF DriveTime
  <2>2. Calm(x, w) /\ w.phase = "witness"
    BY <1>0, <1>4, ChangePhaseCalm, ChangePhaseFields DEF Phase, RoundActive
  <2> HIDE DEF w
  <2>3. CASE u \in MaybeFinalize(w)
    <3>1. Good(u) /\ Evolves(w, u) /\ (u = w \/ Closed(u))
      BY <2>2, <2>3, CalmStep, MaybeFinalizeOK
    <3>2. Evolves(x, u)
      BY <2>2, <3>1, CalmThen DEF RoundActive
    <3>3. Orderly(x, u)
      BY <1>4, <2>2, <3>1 DEF Orderly, Forming, StopReached, Calm, Closed
    <3> QED BY <1>4, <2>2, <3>1, <3>2, <3>3 DEF Closed
  <2> QED BY <1>1, <2>1, <2>3
<1>5. CASE x.phase = "witness"
  <2>1. u = x \/ u \in FinalizeRound(x)
    BY <1>5 DEF DriveTime
  <2>2. CASE u \in FinalizeRound(x)
    <3>1. Good(u) /\ Evolves(x, u) /\ Closed(u)
      BY <1>5, <2>2, FinalizeRoundOK DEF RoundActive
    <3>2. Orderly(x, u)
      BY <3>1 DEF Orderly, Forming, Closed
    <3> QED BY <1>5, <3>1, <3>2 DEF Closed
  <2> QED BY <1>1, <2>1, <2>2
<1>6. CASE x.phase = "cooldown"
  <2>1. u = x \/ u = ExitCooldown(x)
    BY <1>6 DEF DriveTime
  <2>2. CASE u = ExitCooldown(x)
    BY <1>6, <2>2, ExitCooldownOK DEF Owes, Warms
  <2> QED BY <1>1, <2>1, <2>2
<1>7. CASE x.phase \in {"finished", "paused"}
  <2>1. u = x
    BY <1>7 DEF DriveTime
  <2> QED BY <1>1, <2>1
<1> QED BY <1>0, <1>2, <1>3, <1>4, <1>5, <1>6, <1>7 DEF Phase

LEMMA OnClockOK ==
    ASSUME NEW s, Good(s), NEW d \in 0 .. MaxStep, NEW u \in OnClock(s, d)
    PROVE  Owes(s, u, {})
<1> DEFINE e == Least(s.elapsed + d, PhaseLimit(s.phase))
           quieter(m) == IF s.phase # "waiting" \/ m.state = "absent" THEN m
                         ELSE [m EXCEPT !.quiet = Least(@ + d, DecayWindow)]
           roster == [p \in Peer |-> quieter(s.roster[p])]
           x == [s EXCEPT !.elapsed = e, !.roster = roster]
<1>0. /\ s \in CoordinatorState /\ s.elapsed \in Nat /\ s.phase \in Phase
      /\ s.roster \in [Peer -> Member] /\ d \in Nat /\ d <= MaxStep
      /\ MaxStep \in Nat /\ WarmupS \in Nat
  BY Fields, ScheduleAssumption DEF Good
<1>1. e \in Nat /\ e <= s.elapsed + d
  <2>1. s.elapsed + d \in Nat /\ PhaseLimit(s.phase) \in Nat
    BY <1>0, PhaseLimitNat
  <2> QED BY <2>1, LeastNat
<1>2. ASSUME NEW m \in Member
      PROVE  quieter(m) \in Member /\ quieter(m).state = m.state
               /\ quieter(m).ready = m.ready
  <2>1. Least(m.quiet + d, DecayWindow) \in Nat
    <3>1. m.quiet + d \in Nat
      BY <1>0 DEF Member
    <3> QED BY <3>1, LeastNat, WindowNat
  <2>2. ASSUME NEW n \in Nat
        PROVE  /\ [m EXCEPT !.quiet = n] \in Member
               /\ [m EXCEPT !.quiet = n].state = m.state
               /\ [m EXCEPT !.quiet = n].ready = m.ready
    BY DEF Member
  <2>3. quieter(m) = m \/ quieter(m) = [m EXCEPT !.quiet = Least(m.quiet + d, DecayWindow)]
    OBVIOUS
  <2> DEFINE n == Least(m.quiet + d, DecayWindow)
             r == quieter(m)
  <2>4. r = m \/ r = [m EXCEPT !.quiet = n]
    BY <2>3
  <2> HIDE DEF n, r
  <2>5. r \in Member /\ r.state = m.state /\ r.ready = m.ready
    <3>1. n \in Nat
      BY <2>1 DEF n
    <3>2. /\ [m EXCEPT !.quiet = n] \in Member
          /\ [m EXCEPT !.quiet = n].state = m.state
          /\ [m EXCEPT !.quiet = n].ready = m.ready
      BY <3>1, <2>2
    <3> QED BY <2>4, <3>2, Zenon
  <2> QED BY <2>5 DEF r
<1>3. u \in DriveTime(x, e)
  BY DEF OnClock
<1> HIDE DEF e, quieter
<1>4. /\ roster \in [Peer -> Member]
      /\ \A p \in Peer : roster[p].state = s.roster[p].state
                           /\ roster[p].ready = s.roster[p].ready
  BY <1>0, <1>2
<1> HIDE DEF roster
<1>5. /\ x \in CoordinatorState /\ x.elapsed = e /\ x.roster = roster
      /\ x.phase = s.phase /\ x.round = s.round /\ x.cursor = s.cursor
      /\ x.kept = s.kept /\ x.pending = s.pending /\ x.slot = s.slot
  BY <1>0, <1>1, <1>4 DEF CoordinatorState
<1> HIDE DEF x
<1>6. Healthy(x) = Healthy(s)
  BY <1>4, <1>5 DEF Healthy
<1>7. Calm(s, x)
  BY <1>5, <1>6 DEF Calm
<1>8. Good(x)
  BY <1>7, CalmStep
<1>9. /\ Good(u) /\ Evolves(x, u) /\ Orderly(x, u)
      /\ u.phase = "warmup" =>
           \A p \in Peer : u.roster[p].ready => x.phase = "warmup" /\ x.roster[p].ready
      /\ x.phase = "warmup" /\ u.phase = "train" =>
           e >= WarmupS \/ \A p \in Healthy(u) : x.roster[p].ready
  BY <1>3, <1>5, <1>8, DriveTimeOK
<1>10. Evolves(s, u) /\ Orderly(s, u)
  BY <1>5, <1>7, <1>9, CalmThen, StillOrderly
<1>11. Warms(s, u, {})
  <2>1. e >= WarmupS => s.elapsed + MaxStep >= WarmupS
    BY <1>0, <1>1
  <2> QED BY <1>4, <1>5, <1>9, <2>1, HealthyType DEF Warms
<1> QED BY <1>9, <1>10, <1>11 DEF Owes

-----------------------------------------------------------------------------
(* One tick and the histories.                                              *)

(* What WarmupHonest says of a step.                                        *)
HonestStep ==
    /\ coord.phase = "warmup"
    /\ coord'.phase = "train"
    /\ coord.elapsed + MaxStep < WarmupS
    => Healthy(coord') \subseteq readied'

(* What the run promises of a step, and all a tick owes together.           *)
LogStep == [Run!Next]_(Run!logVars)

TickStep == HonestStep /\ Orderly(coord, coord') /\ LogStep

LEMMA RecordsStep ==
    ASSUME VhcInv, Good(coord'), Evolves(coord, coord'),
           recorded' = recorded \cup coord'.kept
    PROVE  RecordsOK'
<1>1. coord.round \in Nat /\ coord.kept \subseteq recorded /\ recorded \subseteq Record
      /\ (\A k \in recorded : k.round < coord.round) /\ RecordUnique
  BY Fields DEF VhcInv, VhcTypeOK, RecordsOK
<1>2. CASE Keeps(coord, coord')
  <2>1. recorded' = recorded
    BY <1>1, <1>2 DEF Keeps
  <2> QED BY <1>1, <1>2, <2>1 DEF RecordsOK, RecordUnique, Keeps
<1>3. CASE Moves(coord, coord')
  <2>1. PICK k \in Record : k.round = coord.round /\ coord'.kept \subseteq coord.kept \cup {k}
    BY <1>3 DEF Moves, Closes
  <2>2. \A r \in recorded' : r \in recorded \/ r = k
    BY <1>1, <2>1
  <2>3. \A r \in recorded : r.round \in Nat /\ r.round # k.round
    BY <1>1, <2>1 DEF Record
  <2>4. \A r \in recorded' : r.round < coord'.round
    <3> SUFFICES ASSUME NEW r \in recorded' PROVE r.round < coord.round + 1
      BY <1>3 DEF Moves
    <3>1. CASE r \in recorded
      BY <1>1, <2>3, <3>1
    <3>2. CASE r = k
      BY <1>1, <2>1, <3>2
    <3> QED BY <2>2, <3>1, <3>2
  <2>5. RecordUnique'
    BY <1>1, <2>2, <2>3, Zenon DEF RecordUnique
  <2>6. (coord.kept \subseteq recorded)'
    OBVIOUS
  <2> QED BY <2>4, <2>5, <2>6 DEF RecordsOK
<1> QED BY <1>2, <1>3 DEF Evolves

LEMMA OpensStep ==
    ASSUME VhcInv, Good(coord'), Evolves(coord, coord'),
           opened' = opened \cup StandingOpen(coord')
    PROVE  OpensOK'
<1> DEFINE o == [round |-> coord'.round, window |-> Batch(coord')]
<1>1. /\ coord.round \in Nat /\ coord.cursor \in Nat
      /\ coord'.round \in Nat /\ coord'.cursor \in Nat
      /\ opened \subseteq [round : Nat, window : Window]
      /\ GlobalBatchAt(coord.round) \in Nat
  BY Fields, BatchType DEF VhcInv, VhcTypeOK, Good
<1>2. \A a \in opened' : a \in opened \/ a = o
  BY DEF StandingOpen, Good, RoundOK
<1>3. /\ WindowsTile
      /\ \A a \in opened : /\ a.round <= coord.round
                           /\ a.round = coord.round => a.window = Batch(coord)
                           /\ a.round + 1 = coord.round => a.window.end = coord.cursor
  BY DEF VhcInv, OpensOK
<1>4. \A a \in opened : a.round \in Nat
  BY <1>1
(* The old opens, seen from the new state.                                  *)
<1>5. ASSUME NEW a \in opened
      PROVE  /\ a.round <= coord'.round
             /\ a.round = coord'.round => a.window = Batch(coord')
             /\ a.round + 1 = coord'.round => a.window.end = coord'.cursor
  <2>1. CASE coord'.round = coord.round /\ coord'.cursor = coord.cursor
    BY <1>3, <2>1 DEF Batch
  <2>2. CASE /\ coord'.round = coord.round + 1
             /\ coord'.cursor = coord.cursor + GlobalBatchAt(coord.round)
    <3>1. a.round <= coord.round
      BY <1>3
    <3>2. a.round + 1 = coord'.round => a.window.end = coord'.cursor
      <4> SUFFICES ASSUME a.round = coord.round PROVE a.window.end = coord'.cursor
        BY <1>1, <1>4, <2>2
      <4> QED BY <1>3, <2>2 DEF Batch
    <3> QED BY <1>1, <1>4, <2>2, <3>1, <3>2
  <2> QED BY <2>1, <2>2 DEF Evolves, Keeps, Moves
<1>6. o.round = coord'.round /\ o.window = Batch(coord') /\ o.window.start = coord'.cursor
  BY DEF Batch
<1> HIDE DEF o
<1>7. WindowsTile'
  <2> SUFFICES ASSUME NEW a \in opened', NEW b \in opened'
               PROVE  /\ a.round = b.round => a.window = b.window
                      /\ b.round = a.round + 1 => b.window.start = a.window.end
    BY DEF WindowsTile
  <2>1. CASE a \in opened /\ b \in opened
    BY <1>3, <2>1 DEF WindowsTile
  <2>2. CASE a \in opened /\ b = o
    BY <1>5, <1>6, <2>2
  <2>3. CASE a = o /\ b \in opened
    <3>1. b.round <= coord'.round /\ (b.round = coord'.round => b.window = Batch(coord'))
      BY <1>5, <2>3
    <3> QED BY <1>1, <1>4, <1>6, <2>3, <3>1
  <2>4. CASE a = o /\ b = o
    BY <1>1, <1>6, <2>4
  <2> QED BY <1>2, <2>1, <2>2, <2>3, <2>4
<1>8. ASSUME NEW a \in opened'
      PROVE  /\ a.round <= coord'.round
             /\ a.round = coord'.round => a.window = Batch(coord')
             /\ a.round + 1 = coord'.round => a.window.end = coord'.cursor
  <2>1. CASE a \in opened
    BY <1>5, <2>1
  <2>2. CASE a = o
    BY <1>1, <1>6, <2>2
  <2> QED BY <1>2, <2>1, <2>2
<1>9. Batch(coord') = Batch(coord)'
  BY DEF Batch, GlobalBatchAt
<1>10. (StandingOpen(coord) \subseteq opened)'
  BY DEF StandingOpen
<1> QED BY <1>7, <1>8, <1>9, <1>10 DEF OpensOK

(* The promise counts teams the way the coordinator does.                   *)
LEMMA SameCount == \A S : Run!Cardinality(S) = Cardinality(S)
BY DEF Run!Cardinality, Cardinality, Run!IsFiniteSet, IsFiniteSet

(* A tick that keeps the round opens it, gives it up, or shows nothing.     *)
LEMMA KeepsLogged ==
    ASSUME VhcInv, Good(coord'), Keeps(coord, coord'),
           opened' = opened \cup StandingOpen(coord'),
           recorded' = recorded \cup coord'.kept
    PROVE  LogStep
<1>1. recorded' = recorded /\ coord'.round = coord.round /\ coord'.cursor = coord.cursor
  BY DEF Keeps, VhcInv, RecordsOK
<1>2. CASE ~RoundActive(coord'.phase)
  <2>1. opened' = opened
    BY <1>2 DEF StandingOpen
  <2>2. Run!GiveUp
    BY <1>1, <1>2, <2>1 DEF Run!GiveUp
  <2> QED BY <2>2 DEF LogStep, Run!Next
<1>3. CASE RoundActive(coord'.phase) /\ RoundActive(coord.phase)
  <2>1. coord'.slot.trainers = coord.slot.trainers
    BY <1>3 DEF Keeps
  <2>2. coord'.slot.window = coord.slot.window
    BY <1>1, <1>3 DEF VhcInv, Good, RoundOK, Batch
  <2>3. opened' = opened
    BY <1>1, <1>3, <2>2 DEF StandingOpen, VhcInv, OpensOK
  <2> QED BY <1>1, <1>3, <2>1, <2>3 DEF LogStep, Run!logVars
<1>4. CASE RoundActive(coord'.phase) /\ ~RoundActive(coord.phase)
  <2> DEFINE team == coord'.slot.trainers
  <2>1. /\ Cardinality(team) >= MinPeers /\ team \in SUBSET Peer
        /\ coord'.slot.window = [start |-> coord.cursor,
                                 end |-> coord.cursor + GlobalBatchAt(coord.round)]
    BY <1>1, <1>4, HealthyType DEF Good, RoundOK, Batch
  <2>2. opened' = opened \cup
          {[round |-> coord.round,
            window |-> [start |-> coord.cursor,
                        end |-> coord.cursor + GlobalBatchAt(coord.round)]]}
    BY <1>1, <1>4, <2>1 DEF StandingOpen
  <2>3. Run!Open(team)
    BY <1>1, <1>4, <2>1, <2>2, SameCount DEF Run!Open, Run!Announce
  <2> QED BY <2>1, <2>3 DEF LogStep, Run!Next
<1> QED BY <1>2, <1>3, <1>4

(* A tick that moves on closes the round with the record it publishes.      *)
LEMMA MovesLogged ==
    ASSUME VhcInv, Good(coord'), Moves(coord, coord'),
           opened' = opened \cup StandingOpen(coord'),
           recorded' = recorded \cup coord'.kept
    PROVE  LogStep
<1>1. /\ coord'.round = coord.round + 1
      /\ coord'.cursor = coord.cursor + GlobalBatchAt(coord.round)
      /\ RoundActive(coord.phase)
  BY DEF Moves
<1>2. PICK k \in Record : /\ Closes(coord, coord', k)
                          /\ coord'.kept \subseteq coord.kept \cup {k}
  BY DEF Moves
<1>3. coord.round \in Nat /\ coord'.round \in Nat /\ NumStored \in Nat \ {0, 1}
  BY Fields, ScheduleAssumption DEF VhcInv, Good
<1>4. k \in coord'.kept
  <2>1. coord.round \in 0 .. coord'.round - 1 /\ coord.round + NumStored > coord'.round
    BY <1>1, <1>3
  <2>2. PICK j \in coord'.kept : j.round = coord.round
    BY <2>1 DEF Good, RingOK
  <2>3. j \notin coord.kept
    BY <1>3, <2>2 DEF VhcInv, RecordsOK
  <2> QED BY <1>2, <2>2, <2>3
<1>5. recorded' = recorded \cup {[round |-> coord.round, entries |-> k.entries,
                                 drops |-> k.drops]}
  <2>1. k = [round |-> coord.round, entries |-> k.entries, drops |-> k.drops]
    BY <1>2 DEF Record, Closes
  <2>2. coord.kept \subseteq recorded
    BY DEF VhcInv, RecordsOK
  <2>3. recorded' = recorded \cup {k}
    BY <1>2, <1>4, <2>2
  <2> QED BY <2>1, <2>3
<1> DEFINE team == coord.slot.trainers
<1>6. team # {} /\ team \in SUBSET Peer
  <2>1. Cardinality(team) >= MinPeers /\ team \in SUBSET Peer
    BY <1>1, HealthyType DEF VhcInv, Good, RoundOK
  <2> QED BY <2>1, FS_EmptySet, FloorAssumption
<1>7. \/ ~RoundActive(coord'.phase) /\ opened' = opened
      \/ /\ RoundActive(coord'.phase)
         /\ coord'.slot.trainers = team \ k.drops
         /\ Cardinality(team \ k.drops) >= MinPeers
         /\ opened' = opened \cup
               {[round |-> coord.round + 1,
                 window |-> [start |-> coord.cursor + GlobalBatchAt(coord.round),
                             end |-> coord.cursor + GlobalBatchAt(coord.round)
                                       + GlobalBatchAt(coord.round + 1)]]}
  <2>1. CASE ~RoundActive(coord'.phase)
    BY <2>1 DEF StandingOpen
  <2>2. CASE RoundActive(coord'.phase)
    <3>1. coord'.slot.trainers = team \ k.drops
      BY <1>2, <2>2 DEF Closes
    <3>2. Cardinality(coord'.slot.trainers) >= MinPeers /\ coord'.slot.window = Batch(coord')
      BY <2>2 DEF Good, RoundOK
    <3> QED BY <1>1, <2>2, <3>1, <3>2 DEF StandingOpen, Batch
  <2> QED BY <2>1, <2>2
<1>8. k.entries \in SUBSET (team \X Payload) /\ k.drops \in SUBSET team
      /\ Run!Sound(k.entries, k.drops)
  BY <1>2 DEF Closes
<1> DEFINE entries == k.entries
           drops == k.drops
<1>9. Run!Close(entries, drops)
  <2> HIDE DEF entries, drops
  <2>1. (IF RoundActive(coord.phase) THEN coord.slot.trainers ELSE {}) = team
    BY <1>1
  <2>2. \/ (IF RoundActive(coord.phase) THEN coord.slot.trainers ELSE {})' = {}
              /\ UNCHANGED opened
        \/ Run!Announce(coord.round + 1, coord.cursor + GlobalBatchAt(coord.round),
                        team \ drops)
    BY <1>7, SameCount DEF Run!Announce, drops
  <2>3. /\ Run!Sound(entries, drops)
        /\ recorded' = recorded \cup {[round |-> coord.round, entries |-> entries,
                                        drops |-> drops]}
    BY <1>5, <1>8 DEF entries, drops
  <2> HIDE DEF team
  <2> QED BY <1>1, <1>6, <2>1, <2>2, <2>3 DEF Run!Close
<1>10. /\ entries \in SUBSET ((IF RoundActive(coord.phase) THEN team ELSE {}) \X Payload)
       /\ drops \in SUBSET (IF RoundActive(coord.phase) THEN team ELSE {})
  BY <1>1, <1>8
<1> HIDE DEF entries, drops
<1> QED BY <1>9, <1>10 DEF LogStep, Run!Next

LEMMA TickOK ==
    ASSUME VhcInv, NEW result, NEW ready \in SUBSET Peer, Tick(result, ready),
           \A t \in result : Owes(coord, t, ready),
           vhcBudget' \in [VhcEvent -> Nat]
    PROVE  VhcInv' /\ TickStep
<1>1. Good(coord') /\ Evolves(coord, coord') /\ Warms(coord, coord', ready)
  BY DEF Tick, Owes
<1>2. coord' \in CoordinatorState
  BY <1>1 DEF Good
<1>3. RecordsOK' /\ OpensOK'
  BY <1>1, RecordsStep, OpensStep DEF Tick
<1>4. Good(coord)'
  BY <1>1 DEF Good, Occupancy, RoundOK, RingOK, SlotFree, Healthy, Batch, GlobalBatchAt, OneEach
<1>5. readied \in SUBSET Peer /\ readied' \in SUBSET Peer
  BY DEF Tick, VhcInv, VhcTypeOK
<1>6. VhcTypeOK'
  <2>1. coord'.kept \subseteq Record /\ recorded \subseteq Record
    BY <1>2, Fields DEF VhcInv, VhcTypeOK
  <2>2. StandingOpen(coord') \subseteq [round : Nat, window : Window]
    BY <1>2, Fields DEF StandingOpen, Slot
  <2>3. opened \subseteq [round : Nat, window : Window]
    BY DEF VhcInv, VhcTypeOK
  <2> QED BY <1>2, <1>5, <2>1, <2>2, <2>3 DEF VhcTypeOK, Tick
<1>7. \A p \in Peer : coord.phase = "warmup" =>
        /\ coord.roster[p].ready => p \in readied'
        /\ p \in ready => p \in readied'
  BY DEF VhcInv, ReadyOK, Tick
<1>8. ReadyOK'
  BY <1>1, <1>7 DEF ReadyOK, Warms
<1>9. HonestStep
  <2> SUFFICES ASSUME coord.phase = "warmup", coord'.phase = "train",
                      coord.elapsed + MaxStep < WarmupS,
                      NEW p \in Healthy(coord')
               PROVE  p \in readied'
    BY DEF HonestStep
  <2>1. ~(coord.elapsed + MaxStep >= WarmupS)
    BY Fields, ScheduleAssumption DEF VhcInv, Good
  <2>2. coord.roster[p].ready \/ p \in ready
    BY <1>1, <2>1 DEF Warms
  <2> QED BY <1>7, <2>2, HealthyType
<1>10. LogStep
  BY <1>1, KeepsLogged, MovesLogged DEF Tick, Evolves
<1>11. Orderly(coord, coord')
  BY DEF Tick, Owes
<1> QED BY <1>3, <1>4, <1>6, <1>8, <1>9, <1>10, <1>11 DEF VhcInv, TickStep

LEMMA SpendType ==
    ASSUME VhcTypeOK, NEW e \in VhcEvent, VhcSpend(e)
    PROVE  vhcBudget' \in [VhcEvent -> Nat]
BY DEF VhcTypeOK, VhcSpend

LEMMA VhcStep ==
    ASSUME VhcInv, VhcNext
    PROVE  VhcInv' /\ TickStep
<1>0. Good(coord) /\ coord \in CoordinatorState /\ VhcTypeOK
      /\ vhcBudget \in [VhcEvent -> Nat]
  BY DEF VhcInv, Good, VhcTypeOK
<1>1. ASSUME NEW d \in 0 .. MaxStep, Clock(d)
      PROVE  VhcInv' /\ TickStep
  <2>1. \A t \in (IF Halted(coord.phase) THEN {coord} ELSE OnClock(coord, d)) :
           Owes(coord, t, {})
    BY <1>0, OnClockOK, Unmoved
  <2> QED BY <1>0, <1>1, <2>1, TickOK DEF Clock
<1>2. ASSUME NEW p \in Peer, Join(p)
      PROVE  VhcInv' /\ TickStep
  <2>1. Owes(coord, OnJoin(Heard(coord, p), p), {})
    <3>1. Heard(coord, p).phase = coord.phase /\ ~Halted(coord.phase)
      BY <1>0, <1>2, HeardOK DEF Join
    <3> QED BY <1>0, <3>1, OnJoinOK, AfterHeard
  <2> QED BY <1>0, <1>2, <2>1, TickOK DEF Join
<1>3. ASSUME NEW p \in Peer, Commitment(p)
      PROVE  VhcInv' /\ TickStep
  <2>1. PICK r \in FrameRounds, x \in Payload :
           Tick(OnCommitment(Heard(coord, p), p, r, x), {})
    BY <1>3 DEF Commitment
  <2>2. ASSUME NEW t \in OnCommitment(Heard(coord, p), p, r, x)
        PROVE  Owes(coord, t, {})
    BY <1>0, OnCommitmentOK, AfterHeard
  <2> QED BY <1>0, <1>3, <2>1, <2>2, TickOK DEF Commitment
<1>4. ASSUME NEW w \in Peer, Attest(w)
      PROVE  VhcInv' /\ TickStep
  <2>1. PICK r \in FrameRounds, a \in Attested(coord.slot.commitments) :
           Tick(OnAttestation(Heard(coord, w), w, r, a), {})
    BY <1>4 DEF Attest
  <2>2. a \in Attestation
    BY <1>0, Fields DEF Attestation, Attested, Slot
  <2>3. ASSUME NEW t \in OnAttestation(Heard(coord, w), w, r, a)
        PROVE  Owes(coord, t, {})
    BY <1>0, <2>2, OnAttestationOK, AfterHeard
  <2>4. vhcBudget' \in [VhcEvent -> Nat]
    BY <1>0, <1>4, SpendType DEF Attest, VhcEvent
  <2> QED BY <1>0, <2>1, <2>3, <2>4, TickOK
<1>5. ASSUME NEW p \in Peer, StorageReceipt(p)
      PROVE  VhcInv' /\ TickStep
  <2>1. PICK r \in FrameRounds, set \in SUBSET coord.slot.commitments :
           Tick(OnReceipt(Heard(coord, p), r, set), {})
    BY <1>5 DEF StorageReceipt
  <2>2. set \in SUBSET Entry
    BY <1>0, Fields DEF Slot
  <2>3. ASSUME NEW t \in OnReceipt(Heard(coord, p), r, set)
        PROVE  Owes(coord, t, {})
    BY <1>0, <2>2, OnReceiptOK, AfterHeard
  <2>4. vhcBudget' \in [VhcEvent -> Nat]
    BY <1>0, <1>5, SpendType DEF StorageReceipt, VhcEvent
  <2> QED BY <2>1, <2>3, <2>4, TickOK
<1>6. ASSUME NEW p \in Peer, Straggle(p)
      PROVE  VhcInv' /\ TickStep
  <2>1. PICK r \in 0 .. coord.round : Tick({OnStraggle(Heard(coord, p), p, r)}, {})
    BY <1>6 DEF Straggle
  <2>2. Owes(coord, OnStraggle(Heard(coord, p), p, r), {})
    BY <1>0, OnStraggleOK, AfterHeard
  <2>3. vhcBudget' \in [VhcEvent -> Nat]
    BY <1>0, <1>6, SpendType DEF Straggle, VhcEvent
  <2> QED BY <2>1, <2>2, <2>3, TickOK
<1>7. ASSUME NEW p \in Peer, Heartbeat(p)
      PROVE  VhcInv' /\ TickStep
  <2>1. ASSUME NEW t \in OnHeartbeat(Heard(coord, p), p, FALSE)
        PROVE  Owes(coord, t, {})
    <3>1. Good(Heard(coord, p)) => Owes(Heard(coord, p), t, {})
      BY OnHeartbeatOK
    <3> QED BY <1>0, <3>1, AfterHeard
  <2> DEFINE result == OnHeartbeat(Heard(coord, p), p, FALSE)
  <2>2. \A t \in result : Owes(coord, t, {})
    BY <2>1
  <2>3. Tick(result, {}) /\ vhcBudget' = vhcBudget
    BY <1>7 DEF Heartbeat
  <2> HIDE DEF result
  <2> QED BY <1>0, <2>2, <2>3, TickOK
<1>8. ASSUME NEW p \in Peer, ReadyHeartbeat(p)
      PROVE  VhcInv' /\ TickStep
  <2>1. ASSUME NEW t \in OnHeartbeat(Heard(coord, p), p, TRUE)
        PROVE  Owes(coord, t, {p})
    <3>1. Good(Heard(coord, p)) => Owes(Heard(coord, p), t, {p})
      BY OnHeartbeatOK
    <3> QED BY <1>0, <3>1, AfterHeard
  <2>2. vhcBudget' \in [VhcEvent -> Nat]
    BY <1>0, <1>8, SpendType DEF ReadyHeartbeat, VhcEvent
  <2> DEFINE result == OnHeartbeat(Heard(coord, p), p, TRUE)
  <2>3. \A t \in result : Owes(coord, t, {p})
    BY <2>1
  <2>4. Tick(result, {p})
    BY <1>8 DEF ReadyHeartbeat
  <2> HIDE DEF result
  <2> QED BY <2>2, <2>3, <2>4, TickOK
<1>9. ASSUME Pause
      PROVE  VhcInv' /\ TickStep
  <2>1. Owes(coord, [ChangePhase(coord, "paused") EXCEPT !.slot = EmptySlot], {})
    BY <1>0, OnPauseOK
  <2>2. vhcBudget' \in [VhcEvent -> Nat]
    BY <1>0, <1>9, SpendType DEF Pause, VhcEvent
  <2> QED BY <1>9, <2>1, <2>2, TickOK DEF Pause
<1>10. ASSUME Resume
       PROVE  VhcInv' /\ TickStep
  <2>1. Owes(coord, ChangePhase(coord, "waiting"), {})
    BY <1>0, <1>10, OnResumeOK DEF Resume
  <2> QED BY <1>0, <1>10, <2>1, TickOK DEF Resume
<1> QED
  BY <1>1, <1>2, <1>3, <1>4, <1>5, <1>6, <1>7, <1>8, <1>9, <1>10, Zenon DEF VhcNext

LEMMA VhcStutter ==
    ASSUME VhcInv, UNCHANGED vhcVars
    PROVE  VhcInv'
BY DEF VhcInv, VhcTypeOK, Good, Occupancy, Healthy, RoundOK, RingOK, SlotFree, Batch, GlobalBatchAt,
       OneEach, StandingOpen, RecordsOK, RecordUnique, OpensOK, WindowsTile, ReadyOK,
       vhcVars

LEMMA VhcStart == VhcInit => VhcInv
<1> SUFFICES ASSUME VhcInit PROVE VhcInv
  OBVIOUS
<1>1. EmptySlot \in Slot /\ NewRoster \in [Peer -> Member]
  BY DEF EmptySlot, Slot, Window, NewRoster, NoMember, Member
<1>2. coord \in CoordinatorState /\ coord.phase = "waiting" /\ coord.round = 0
      /\ coord.roster = NewRoster /\ coord.pending = {} /\ coord.kept = {}
  BY <1>1 DEF VhcInit, CoordinatorState, Phase
<1>3. Healthy(coord) = {}
  BY <1>2 DEF Healthy, NewRoster, NoMember
<1>4. Occupancy(coord) <= MaxPeers
  BY <1>2, <1>3, FS_EmptySet, FloorAssumption DEF Occupancy
<1>5. Good(coord)
  BY <1>2, <1>4 DEF Good, RoundOK, RoundActive, RingOK
<1>6. VhcTypeOK
  BY <1>2, ScheduleAssumption DEF VhcInit, VhcTypeOK
<1> QED BY <1>2, <1>5, <1>6
        DEF VhcInit, VhcInv, RecordsOK, RecordUnique, OpensOK, WindowsTile, ReadyOK,
            StandingOpen, RoundActive

LEMMA VhcInductive == VhcSpec => []VhcInv
<1>1. VhcInv /\ [VhcNext]_vhcVars => VhcInv'
  BY VhcStep, VhcStutter
<1> QED BY <1>1, VhcStart, PTL DEF VhcSpec

-----------------------------------------------------------------------------
(* The coordinator state keeps its type through every input.                *)
THEOREM VhcTypeCorrect == VhcSpec => []VhcTypeOK
<1>1. VhcInv => VhcTypeOK
  BY DEF VhcInv
<1> QED BY <1>1, VhcInductive, PTL

(* Seated and staged peers never exceed max_peers: admit counts both, and   *)
(* exit_cooldown moves seats from one to the other.                         *)
THEOREM SeatsStayBounded == VhcSpec => []SeatsBounded
<1>1. VhcInv => SeatsBounded
  BY DEF VhcInv, Good, SeatsBounded
<1> QED BY <1>1, VhcInductive, PTL

(* While a round runs its healthy members are exactly the trainers it       *)
(* announced, at the floor or above, and the witnesses are among them.      *)
THEOREM RosterStaysFrozen == VhcSpec => []RosterFrozen
<1>1. VhcInv => RosterFrozen
  BY DEF VhcInv, Good, RoundOK, RosterFrozen
<1> QED BY <1>1, VhcInductive, PTL

(* A round has one window however often it is opened, and starts where the  *)
(* previous one ends.                                                       *)
THEOREM WindowsAlwaysTile == VhcSpec => []WindowsTile
<1>1. VhcInv => WindowsTile
  BY DEF VhcInv, OpensOK
<1> QED BY <1>1, VhcInductive, PTL

(* One record per round is ever published.                                  *)
THEOREM RecordsUnique == VhcSpec => []RecordUnique
<1>1. VhcInv => RecordUnique
  BY DEF VhcInv, RecordsOK
<1> QED BY <1>1, VhcInductive, PTL

(* A ring of any size at least two replays consecutive records that end     *)
(* with the last committed round, so a rejoiner never folds across a gap.   *)
THEOREM ReplayStaysGapFree == VhcSpec => []ReplayGapFree
<1>1. VhcInv => ReplayGapFree
  <2> SUFFICES ASSUME VhcInv, NEW r \in 0 .. coord.round - 1,
                      r = coord.round - 1 \/ (\E k \in coord.kept : k.round <= r)
               PROVE  \E k \in coord.kept : k.round = r
    BY DEF ReplayGapFree
  <2>1. /\ coord.round \in Nat /\ NumStored \in Nat \ {0, 1} /\ RingOK(coord)
        /\ \A k \in coord.kept : k.round \in Nat
    BY Fields, ScheduleAssumption DEF VhcInv, Good, Record
  <2>2. CASE r + NumStored > coord.round
    BY <2>1, <2>2 DEF RingOK
  <2>3. CASE r + NumStored <= coord.round
    <3>1. PICK k \in coord.kept : k.round <= r
      BY <2>1, <2>3
    <3>2. coord.round <= k.round + NumStored
      BY <2>1 DEF RingOK
    <3> QED BY <2>1, <2>3, <3>1, <3>2
  <2> QED BY <2>1, <2>2, <2>3
<1> QED BY <1>1, VhcInductive, PTL

(* Warmup is cut short only when every healthy member signalled readiness   *)
(* in this very warmup.                                                     *)
THEOREM WarmupStaysHonest == VhcSpec => WarmupHonest
<1>1. VhcInv /\ [VhcNext]_vhcVars => [HonestStep]_vhcVars
  BY VhcStep DEF TickStep
<1>2. VhcSpec => [][HonestStep]_vhcVars
  BY <1>1, VhcInductive, PTL DEF VhcSpec
<1> QED BY <1>2 DEF WarmupHonest, HonestStep

-----------------------------------------------------------------------------
(* The coordinator implements the promise of a run: under the mapping every *)
(* tick opens the next round, closes the open one with a sound record of    *)
(* its own team, gives it up, or is invisible.                              *)
THEOREM RunImplemented == VhcSpec => ImplementsRoundLog
<1>1. VhcInit => Run!Init
  BY DEF VhcInit, Run!Init, RoundActive
<1>2. VhcInv /\ [VhcNext]_vhcVars => [Run!Next]_(Run!logVars)
  <2>1. ASSUME VhcInv, VhcNext
        PROVE  [Run!Next]_(Run!logVars)
    BY <2>1, VhcStep DEF TickStep, LogStep
  <2>2. UNCHANGED vhcVars => UNCHANGED Run!logVars
    BY DEF vhcVars, Run!logVars
  <2> QED BY <2>1, <2>2
<1> QED BY <1>1, <1>2, VhcInductive, PTL DEF VhcSpec, ImplementsRoundLog, Run!Spec

-----------------------------------------------------------------------------
(* Two promises the coordinator keeps but for a pause at the wrong moment.  *)

(* A pause leaves no join staged behind it.                                 *)
PausesUnstaged == coord.phase # "paused" /\ coord'.phase = "paused" => coord.pending = {}

(* No pause comes once the stop is reached.                                 *)
PausesEarly == coord.phase # "paused" /\ coord'.phase = "paused" => ~StopReached(coord)

NobodyStaged == coord.phase \in {"waiting", "warmup", "paused"} => coord.pending = {}

(* Only a pause with joins staged breaks "applied at the next               *)
(* WaitingForMembers": in every run without one, no join is staged while    *)
(* the coordinator waits for members.                                       *)
THEOREM PendingAppliedUnlessPaused ==
    VhcSpec /\ [][PausesUnstaged]_vhcVars => []PendingApplied
<1>1. VhcInit => NobodyStaged
  BY DEF VhcInit, NobodyStaged
<1>2. VhcInv /\ NobodyStaged /\ [VhcNext]_vhcVars /\ [PausesUnstaged]_vhcVars => NobodyStaged'
  <2>1. ASSUME VhcInv, NobodyStaged, VhcNext, PausesUnstaged
        PROVE  NobodyStaged'
    <3>1. Orderly(coord, coord')
      BY <2>1, VhcStep DEF TickStep
    <3> QED BY <2>1, <3>1 DEF Orderly, NobodyStaged, PausesUnstaged, Forming
  <2>2. NobodyStaged /\ UNCHANGED vhcVars => NobodyStaged'
    BY DEF NobodyStaged, vhcVars
  <2> QED BY <2>1, <2>2
<1>3. NobodyStaged => PendingApplied
  BY DEF NobodyStaged, PendingApplied
<1> QED BY <1>1, <1>2, <1>3, VhcInductive, PTL DEF VhcSpec

OverAtStop ==
    /\ StopReached(coord) => coord.phase \in {"cooldown", "finished"}
    /\ StopHeeded

(* Only a pause after the last round breaks the stop: in every run of at    *)
(* least one round without such a pause, no round opens beyond it.          *)
THEOREM StopHeededUnlessPaused ==
    ASSUME StopRounds # 0
    PROVE  VhcSpec /\ [][PausesEarly]_vhcVars => []StopHeeded
<1>0. StopRounds \in Nat \ {0}
  BY ScheduleAssumption
<1>1. VhcInit => OverAtStop
  BY <1>0 DEF VhcInit, OverAtStop, StopReached, StopHeeded
<1>2. VhcInv /\ OverAtStop /\ [VhcNext]_vhcVars /\ [PausesEarly]_vhcVars => OverAtStop'
  <2>1. ASSUME VhcInv, OverAtStop, VhcNext, PausesEarly
        PROVE  OverAtStop'
    <3>1. Orderly(coord, coord') /\ VhcInv'
      BY <2>1, VhcStep DEF TickStep
    <3>2. StopReached(coord') => coord'.phase \in {"cooldown", "finished"}
      BY <2>1, <3>1 DEF Orderly, OverAtStop, PausesEarly, StopReached
    <3>3. opened' = opened \cup StandingOpen(coord')
      BY <2>1 DEF VhcNext, Clock, Join, Commitment, Attest, StorageReceipt, Straggle,
                  Heartbeat, ReadyHeartbeat, Pause, Resume, Tick
    <3>4. coord'.round \in Nat
      BY <3>1 DEF VhcInv, VhcTypeOK, CoordinatorState
    <3>5. \A o \in StandingOpen(coord') : o.round < StopRounds
      BY <1>0, <3>2, <3>4 DEF StandingOpen, RoundActive, StopReached
    <3> QED BY <2>1, <3>2, <3>3, <3>5 DEF OverAtStop, StopHeeded, StopReached
  <2>2. OverAtStop /\ UNCHANGED vhcVars => OverAtStop'
    BY DEF OverAtStop, StopHeeded, StopReached, vhcVars
  <2> QED BY <2>1, <2>2
<1>3. OverAtStop => StopHeeded
  BY DEF OverAtStop
<1> QED BY <1>1, <1>2, <1>3, VhcInductive, PTL DEF VhcSpec
=============================================================================
