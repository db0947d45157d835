---------------------------- MODULE StoreProofs ----------------------------
(***************************************************************************)
(* Lemmas about the transactions of SessionStore: each keeps the rows      *)
(* well-typed, and what claiming, consuming and appending do to a table of *)
(* splice rows.                                                            *)
(***************************************************************************)
EXTENDS SessionStore, TLAPS

(* The rows of a session, as a table of n splices. *)
LEMMA RowsType ==
    ASSUME NEW n \in Nat, NEW rows \in [1 .. n -> Row], NEW f \in Nat, NEW k \in Nat
    PROVE  /\ ClaimSplices(rows, f) \in [1 .. n -> Row]
           /\ ConsumeSplices(rows, k, f) \in [1 .. n -> Row]
           /\ PruneRows(rows, k) \in [1 .. n -> Row]
BY DEF ClaimSplices, ConsumeSplices, PruneRows, Row

(* Appending a row extends the table by one and keeps the others. *)
LEMMA AppendRowType ==
    ASSUME NEW n \in Nat, NEW rows \in [1 .. n -> Row], NEW r \in Row
    PROVE  /\ AppendRow(rows, n, r) \in [1 .. n + 1 -> Row]
           /\ \A i \in 1 .. n : AppendRow(rows, n, r)[i] = rows[i]
           /\ AppendRow(rows, n, r)[n + 1] = r
BY DEF AppendRow

(* insert_splice keeps the splice table well-typed. *)
LEMMA InsertSpliceType ==
    ASSUME StoreTypeOK, NEW s \in Session, NEW op \in Op \cup {FirstInput},
           InsertSplice(s, op)
    PROVE  /\ lastSeq' \in [Session -> Nat]
           /\ DOMAIN inbox' = Session
           /\ \A t \in Session : inbox'[t] \in [1 .. lastSeq'[t] -> Row]
<1>1. NewRow(op) \in Row
  BY DEF NewRow, Row
<1>2. AppendRow(inbox[s], lastSeq[s], NewRow(op)) \in [1 .. lastSeq[s] + 1 -> Row]
  BY <1>1, AppendRowType DEF StoreTypeOK
<1> QED
  BY <1>2 DEF InsertSplice, StoreTypeOK

(* append_splice keeps the store well-typed. *)
LEMMA AppendSpliceType ==
    ASSUME StoreTypeOK, NEW s \in Session, NEW op \in Op, AppendSplice(s, op)
    PROVE  StoreTypeOK'
<1>1. /\ lastSeq' \in [Session -> Nat]
      /\ DOMAIN inbox' = Session
      /\ \A t \in Session : inbox'[t] \in [1 .. lastSeq'[t] -> Row]
  BY InsertSpliceType DEF AppendSplice, StoreTypeOK
<1>2. status' \in [Session -> Statuses]
  BY DEF AppendSplice, StoreTypeOK, Statuses
<1> QED
  BY <1>1, <1>2 DEF AppendSplice, StoreTypeOK

(* prune_consumed_splices keeps the store well-typed. *)
LEMMA PruneType ==
    ASSUME StoreTypeOK, NEW s \in Session, NEW k \in Nat, PruneConsumedSplices(s, k)
    PROVE  StoreTypeOK'
<1>1. PruneRows(inbox[s], k) \in [1 .. lastSeq[s] -> Row]
  BY RowsType DEF StoreTypeOK
<1> QED
  BY <1>1 DEF PruneConsumedSplices, StoreTypeOK

(* The two creations keep the store well-typed. *)
LEMMA CreateType ==
    ASSUME StoreTypeOK, NEW s \in Session, NEW b \in BOOLEAN,
           CreateIdle(s) \/ CreateRunnable(s, b)
    PROVE  StoreTypeOK'
<1>1. CASE CreateIdle(s)
  BY <1>1 DEF CreateIdle, StoreTypeOK, Statuses
<1>2. CASE CreateRunnable(s, b)
  <2>1. /\ lastSeq' \in [Session -> Nat]
        /\ DOMAIN inbox' = Session
        /\ \A t \in Session : inbox'[t] \in [1 .. lastSeq'[t] -> Row]
    BY <1>2, InsertSpliceType DEF CreateRunnable, StoreTypeOK
  <2>2. status' \in [Session -> Statuses]
    BY <1>2 DEF CreateRunnable, StoreTypeOK, Statuses
  <2> QED
    BY <1>2, <2>1, <2>2 DEF CreateRunnable, StoreTypeOK
<1> QED
  BY <1>1, <1>2

(* The status flips of the API and the outbox operations keep it too. *)
LEMMA FlipType ==
    ASSUME StoreTypeOK, NEW s \in Session,
           \/ ReopenIfSettled(s) \/ MarkReadyIfIdle(s) \/ AcquireActivationLease(s)
           \/ EnqueueWake(s) \/ DequeueWake(s)
    PROVE  StoreTypeOK'
<1>1. CASE ReopenIfSettled(s)
  BY <1>1 DEF ReopenIfSettled, StoreTypeOK, Statuses
<1>2. CASE MarkReadyIfIdle(s)
  BY <1>2 DEF MarkReadyIfIdle, StoreTypeOK, Statuses
<1>3. CASE AcquireActivationLease(s)
  <2>1. fence' \in [Session -> Nat] /\ status' \in [Session -> Statuses]
    BY <1>3 DEF AcquireActivationLease, StoreTypeOK, Statuses
  <2> QED
    BY <1>3, <2>1 DEF AcquireActivationLease, StoreTypeOK
<1>4. CASE EnqueueWake(s)
  <2>1. wakes' \in [Session -> Nat]
    BY <1>4 DEF EnqueueWake, StoreTypeOK
  <2> QED
    BY <1>4, <2>1 DEF EnqueueWake, StoreTypeOK
<1>5. CASE DequeueWake(s)
  <2>1. wakes' \in [Session -> Nat]
    BY <1>5 DEF DequeueWake, StoreTypeOK
  <2> QED
    BY <1>5, <2>1 DEF DequeueWake, StoreTypeOK
<1> QED
  BY <1>1, <1>2, <1>3, <1>4, <1>5

(* swap_snapshot_if_dormant keeps the store well-typed. *)
LEMMA SwapType ==
    ASSUME StoreTypeOK, NEW s \in Session, SwapSnapshotIfDormant(s)
    PROVE  StoreTypeOK'
<1>0. snap[s] \in Snapshot
  BY DEF StoreTypeOK
<1>1. [snap[s] EXCEPT !.edits = @ + 1] \in Snapshot
  BY <1>0 DEF Snapshot
<1>2. snap' = [snap EXCEPT ![s] = [snap[s] EXCEPT !.edits = @ + 1]]
  BY DEF SwapSnapshotIfDormant
<1> QED
  BY <1>1, <1>2 DEF SwapSnapshotIfDormant, StoreTypeOK

(* load_for_activation keeps the store well-typed. *)
LEMMA LoadType ==
    ASSUME StoreTypeOK, NEW s \in Session, NEW f \in Nat, LoadForActivation(s, f)
    PROVE  StoreTypeOK'
<1>1. ClaimSplices(inbox[s], f) \in [1 .. lastSeq[s] -> Row]
  BY RowsType DEF StoreTypeOK
<1> QED
  BY <1>1 DEF LoadForActivation, StoreTypeOK

(* The four fenced commits keep the store well-typed. *)
LEMMA CheckpointType ==
    ASSUME StoreTypeOK, NEW s \in Session, NEW f \in Nat, NEW sn \in Snapshot,
           NEW j \in JobId, CheckpointAndEnqueue(s, f, sn, j)
    PROVE  StoreTypeOK'
<1>1. ConsumeSplices(inbox[s], sn.cursor, turnSeq[s]) \in [1 .. lastSeq[s] -> Row]
  BY RowsType DEF StoreTypeOK, Snapshot
<1>2. inbox' = [inbox EXCEPT ![s] = ConsumeSplices(inbox[s], sn.cursor, turnSeq[s])]
  BY DEF CheckpointAndEnqueue
<1> QED
  BY <1>1, <1>2 DEF CheckpointAndEnqueue, StoreTypeOK, Statuses

LEMMA ParkType ==
    ASSUME StoreTypeOK, NEW s \in Session, NEW f \in Nat, NEW sn \in Snapshot,
           NEW js \in SUBSET JobId, ParkApproval(s, f, sn, js)
    PROVE  StoreTypeOK'
<1>1. ConsumeSplices(inbox[s], sn.cursor, turnSeq[s]) \in [1 .. lastSeq[s] -> Row]
  BY RowsType DEF StoreTypeOK, Snapshot
<1>2. inbox' = [inbox EXCEPT ![s] = ConsumeSplices(inbox[s], sn.cursor, turnSeq[s])]
  BY DEF ParkApproval
<1> QED
  BY <1>1, <1>2 DEF ParkApproval, StoreTypeOK, Statuses

LEMMA CommitType ==
    ASSUME StoreTypeOK, NEW s \in Session, NEW f \in Nat, NEW sn \in Snapshot,
           NEW t \in Nat, NEW js \in SUBSET JobId, CommitTurn(s, f, sn, t, js)
    PROVE  StoreTypeOK'
<1>1. ConsumeSplices(inbox[s], sn.cursor, turnSeq[s]) \in [1 .. lastSeq[s] -> Row]
  BY RowsType DEF StoreTypeOK, Snapshot
<1>2. inbox' = [inbox EXCEPT ![s] = ConsumeSplices(inbox[s], sn.cursor, turnSeq[s])]
  BY DEF CommitTurn
<1>3. /\ status' \in [Session -> Statuses]
      /\ wakes' \in [Session -> Nat]
      /\ completions' \in [Session -> SUBSET JobId]
  BY DEF CommitTurn, TurnStatus, StoreTypeOK, Statuses
<1> QED
  BY <1>1, <1>2, <1>3 DEF CommitTurn, StoreTypeOK

LEMMA CompletedType ==
    ASSUME StoreTypeOK, NEW s \in Session, NEW f \in Nat, NEW sn \in Snapshot,
           MarkCompleted(s, f, sn)
    PROVE  StoreTypeOK'
<1>1. ConsumeSplices(inbox[s], sn.cursor, turnSeq[s]) \in [1 .. lastSeq[s] -> Row]
  BY RowsType DEF StoreTypeOK, Snapshot
<1>2. inbox' = [inbox EXCEPT ![s] = ConsumeSplices(inbox[s], sn.cursor, turnSeq[s])]
  BY DEF MarkCompleted
<1> QED
  BY <1>1, <1>2 DEF MarkCompleted, StoreTypeOK, Statuses

(* Completions, answers and the job outbox. *)
LEMMA CompletionType ==
    ASSUME StoreTypeOK, NEW s \in Session, NEW j \in JobId,
           \/ AnswerApproval(s, j) \/ RecordCompletion(s, j)
           \/ RecordCompletionOnly(s, j) \/ DequeueJob(s, j)
    PROVE  StoreTypeOK'
<1>1. CASE AnswerApproval(s, j)
  <2>0. wakes' = wakes \/ wakes' = [wakes EXCEPT ![s] = @ + 1]
    BY <1>1 DEF AnswerApproval
  <2>a. wakes \in [Session -> Nat]
    BY DEF StoreTypeOK
  <2>1. wakes' \in [Session -> Nat]
    BY <2>0, <2>a
  <2>2. status' \in [Session -> Statuses]
    BY <1>1 DEF AnswerApproval, StoreTypeOK, Statuses
  <2> QED
    BY <1>1, <2>1, <2>2 DEF AnswerApproval, StoreTypeOK
<1>2. CASE RecordCompletion(s, j)
  BY <1>2 DEF RecordCompletion, StoreTypeOK, Statuses
<1>3. CASE RecordCompletionOnly(s, j)
  BY <1>3 DEF RecordCompletionOnly, StoreTypeOK
<1>4. CASE DequeueJob(s, j)
  BY <1>4 DEF DequeueJob, StoreTypeOK
<1> QED
  BY <1>1, <1>2, <1>3, <1>4
=============================================================================
