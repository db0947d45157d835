---------------------------- MODULE SessionStore ----------------------------
(***************************************************************************)
(* The durable session tables of daemon-store, with the semantics of the   *)
(* SQLite backend.  Every operator named after a method of the             *)
(* SessionStore trait is one transaction of that method: the guard is the  *)
(* condition under which the method takes effect, the primed variables are *)
(* the rows it writes.  Payloads are abstracted away; what is kept is the  *)
(* status, the fence, the turn counter, the claim state of every inbox     *)
(* row, the completion and approval rows and the two outboxes.             *)
(***************************************************************************)
EXTENDS Integers, FiniteSets

CONSTANTS
    Session,        \* durable session ids
    Interactive,    \* the sessions whose persisted policy is interactive-root
    Op,             \* origin_op values a producer may stamp on a splice
    Observe,        \* the ops of context-only inputs, which open no model turn
    MaxApprovals    \* the most approvals one turn parks on

ASSUME SessionAssumption  == Interactive \subseteq Session
ASSUME OpAssumption       == Observe \subseteq Op
ASSUME ApprovalAssumption == MaxApprovals \in Nat

VARIABLES
    status,         \* session_record.status_kind ("absent": no row)
    fence,          \* session_record.fence, the newest activation lease
    turnSeq,        \* session_record.turn_seq, the turn in flight
    snap,           \* session_record.snapshot, decoded
    lastSeq,        \* splice_seq.n, the last splice sequence handed out
    inbox,          \* inbox_splice rows, by sequence number
    completions,    \* completion_inbox rows, by job
    parked,         \* pending_approvals rows
    answered,       \* pending_approvals rows with a decision
    jobOutbox,      \* job_outbox rows
    enqueued,       \* enqueued_jobs rows (the re-enqueue dedupe key)
    wakes           \* how many wake_outbox rows name the session

storeVars == <<status, fence, turnSeq, snap, lastSeq, inbox, completions,
               parked, answered, jobOutbox, enqueued, wakes>>

-----------------------------------------------------------------------------
Statuses == {"absent", "idle", "ready", "active", "suspended", "completed"}

(* A job id is minted from the epoch of the turn that suspends on it; k = 0  *)
(* is the delegated job, k > 0 numbers the approvals of the turn.            *)
JobId == [epoch : Nat, k : 0 .. MaxApprovals]

(* What the model keeps of an engine snapshot: the inbox cursor, which      *)
(* splice was folded by which incarnation, the awaited jobs, the epoch and  *)
(* the number of operator edits it carries.                                 *)
Snapshot == [cursor  : Nat, conv  : SUBSET (Nat \X Nat),
             waiting : SUBSET JobId, epoch : Nat, edits : Nat]

FreshSnapshot == [cursor |-> 0, conv |-> {}, waiting |-> {}, epoch |-> 0, edits |-> 0]

FirstInput == "first-input"

(* by is the claiming fence of a claimed row, the committing turn of a      *)
(* consumed one.  "pruned" stands for a deleted row: its number is spent.   *)
Row == [op    : Op \cup {FirstInput},
        claim : {"pending", "claimed", "consumed", "pruned"}, by : Nat]

NewRow(op) == [op |-> op, claim |-> "pending", by |-> 0]

StoreTypeOK ==
    /\ status      \in [Session -> Statuses]
    /\ fence       \in [Session -> Nat]
    /\ turnSeq     \in [Session -> Nat]
    /\ snap        \in [Session -> Snapshot]
    /\ lastSeq     \in [Session -> Nat]
    /\ DOMAIN inbox = Session
    /\ \A s \in Session : inbox[s] \in [1 .. lastSeq[s] -> Row]
    /\ completions \in [Session -> SUBSET JobId]
    /\ parked      \in [Session -> SUBSET JobId]
    /\ answered    \in [Session -> SUBSET JobId]
    /\ jobOutbox   \subseteq Session \X JobId
    /\ enqueued    \subseteq Session \X JobId
    /\ wakes       \in [Session -> Nat]

StoreInit ==
    /\ status      = [s \in Session |-> "absent"]
    /\ fence       = [s \in Session |-> 0]
    /\ turnSeq     = [s \in Session |-> 0]
    /\ snap        = [s \in Session |-> FreshSnapshot]
    /\ lastSeq     = [s \in Session |-> 0]
    /\ inbox       = [s \in Session |-> [i \in 1 .. 0 |-> NewRow(FirstInput)]]
    /\ completions = [s \in Session |-> {}]
    /\ parked      = [s \in Session |-> {}]
    /\ answered    = [s \in Session |-> {}]
    /\ jobOutbox   = {}
    /\ enqueued    = {}
    /\ wakes       = [s \in Session |-> 0]

-----------------------------------------------------------------------------
(* The splice table.                                                        *)

Settled(row) == row.claim \in {"consumed", "pruned"}

Unconsumed(rows) == {i \in DOMAIN rows : rows[i].claim \in {"pending", "claimed"}}

(* Mutant: rows a superseded incarnation claimed are never claimed again.   *)
ClaimablePendingOnly(row, f) == row.claim = "pending"

(* The splices a load under fence f claims: pending rows, and rows an older *)
(* fence claimed.                                                           *)
Claimable(row, f) ==
    \/ row.claim = "pending"
    \/ row.claim = "claimed" /\ row.by < f

ClaimSplices(rows, f) ==
    [i \in DOMAIN rows |->
        IF Claimable(rows[i], f)
        THEN [rows[i] EXCEPT !.claim = "claimed", !.by = f]
        ELSE rows[i]]

HeldBy(rows, f) == {i \in DOMAIN rows : rows[i].claim = "claimed" /\ rows[i].by = f}

(* Mutant: the prefix stops one row short.                                  *)
ConsumeSplicesBelow(rows, upTo, turn) ==
    [i \in DOMAIN rows |->
        IF i < upTo /\ rows[i].claim \in {"pending", "claimed"}
        THEN [rows[i] EXCEPT !.claim = "consumed", !.by = turn]
        ELSE rows[i]]

(* consume_splices_conn: the folded prefix, whoever claimed it.             *)
ConsumeSplices(rows, upTo, turn) ==
    [i \in DOMAIN rows |->
        IF i <= upTo /\ rows[i].claim \in {"pending", "claimed"}
        THEN [rows[i] EXCEPT !.claim = "consumed", !.by = turn]
        ELSE rows[i]]

AppendRow(rows, n, row) == [i \in 1 .. n + 1 |-> IF i \in 1 .. n THEN rows[i] ELSE row]

InsertSplice(s, op) ==
    /\ lastSeq' = [lastSeq EXCEPT ![s] = @ + 1]
    /\ inbox'   = [inbox EXCEPT ![s] = AppendRow(inbox[s], lastSeq[s], NewRow(op))]

(* append_splice: append, or return the row that already carries this op.   *)
(* Only an Idle session is flipped Ready; the wake is the caller's.         *)
HasOp(s, op) == \E i \in 1 .. lastSeq[s] :
                    inbox[s][i].op = op /\ inbox[s][i].claim # "pruned"

AppendSplice(s, op) ==
    /\ status[s] # "absent"
    /\ \/ HasOp(s, op) /\ UNCHANGED <<lastSeq, inbox, status>>
       \/ /\ ~HasOp(s, op)
          /\ InsertSplice(s, op)
          /\ status' = [status EXCEPT ![s] = IF @ = "idle" THEN "ready" ELSE @]
    /\ UNCHANGED <<fence, turnSeq, snap, completions, parked, answered,
                   jobOutbox, enqueued, wakes>>

(* prune_consumed_splices: received_at_ms follows the sequence, so the rows *)
(* older than the cutoff are the ones up to some number.                    *)
PruneRows(rows, upTo) ==
    [i \in DOMAIN rows |->
        IF i <= upTo /\ rows[i].claim = "consumed"
        THEN [rows[i] EXCEPT !.claim = "pruned"]
        ELSE rows[i]]

PruneConsumedSplices(s, upTo) ==
    /\ inbox' = [inbox EXCEPT ![s] = PruneRows(@, upTo)]
    /\ UNCHANGED <<status, fence, turnSeq, snap, lastSeq, completions, parked,
                   answered, jobOutbox, enqueued, wakes>>

-----------------------------------------------------------------------------
(* Creation and the status flips of the API.                                *)

CreateIdle(s) ==
    /\ status[s] = "absent"
    /\ s \in Interactive
    /\ status' = [status EXCEPT ![s] = "idle"]
    /\ UNCHANGED <<fence, turnSeq, snap, lastSeq, inbox, completions, parked,
                   answered, jobOutbox, enqueued, wakes>>

(* create_runnable without a parent edge (cron and background producers),   *)
(* and create_session, which is the same without a first input.             *)
CreateRunnable(s, withInput) ==
    /\ status[s] = "absent"
    /\ s \notin Interactive
    /\ status' = [status EXCEPT ![s] = "ready"]
    /\ IF withInput THEN InsertSplice(s, FirstInput)
                    ELSE UNCHANGED <<lastSeq, inbox>>
    /\ UNCHANGED <<fence, turnSeq, snap, completions, parked, answered,
                   jobOutbox, enqueued, wakes>>

ReopenIfSettled(s) ==
    /\ status' = [status EXCEPT ![s] = IF @ = "completed" THEN "ready" ELSE @]
    /\ UNCHANGED <<fence, turnSeq, snap, lastSeq, inbox, completions, parked,
                   answered, jobOutbox, enqueued, wakes>>

MarkReadyIfIdle(s) ==
    /\ status' = [status EXCEPT ![s] = IF @ = "idle" THEN "ready" ELSE @]
    /\ UNCHANGED <<fence, turnSeq, snap, lastSeq, inbox, completions, parked,
                   answered, jobOutbox, enqueued, wakes>>

(* swap_snapshot_if_dormant after the caller's peek: the compare part makes *)
(* a swap that succeeds equal to an edit of the stored snapshot in place.   *)
SwapSnapshotIfDormant(s) ==
    /\ status[s] \notin {"absent", "active"}
    /\ snap' = [snap EXCEPT ![s].edits = @ + 1]
    /\ UNCHANGED <<status, fence, turnSeq, lastSeq, inbox, completions, parked,
                   answered, jobOutbox, enqueued, wakes>>

-----------------------------------------------------------------------------
(* The activation lease and the four fenced commits.                        *)

(* Mutant: the lease does not supersede the one before.                     *)
AcquireSameLease(s) ==
    /\ fence'  = [fence  EXCEPT ![s] = IF @ = 0 THEN 1 ELSE @]
    /\ status' = [status EXCEPT ![s] = "active"]
    /\ UNCHANGED <<turnSeq, snap, lastSeq, inbox, completions, parked, answered,
                   jobOutbox, enqueued, wakes>>

AcquireActivationLease(s) ==
    /\ fence'  = [fence  EXCEPT ![s] = @ + 1]
    /\ status' = [status EXCEPT ![s] = "active"]
    /\ UNCHANGED <<turnSeq, snap, lastSeq, inbox, completions, parked, answered,
                   jobOutbox, enqueued, wakes>>

(* load_for_activation reads without comparing the fence; it only claims.   *)
LoadForActivation(s, f) ==
    /\ inbox' = [inbox EXCEPT ![s] = ClaimSplices(@, f)]
    /\ UNCHANGED <<status, fence, turnSeq, snap, lastSeq, completions, parked,
                   answered, jobOutbox, enqueued, wakes>>

(* Mutant: no commit is refused.                                            *)
CheckNoFence(s, f) == TRUE

(* A commit under fence f is refused when a newer lease was taken.          *)
CheckFence(s, f) == ~(f < fence[s])

(* checkpoint_and_enqueue: the snapshot suspends on job j, mid-turn.        *)
CheckpointAndEnqueue(s, f, sn, j) ==
    /\ CheckFence(s, f)
    /\ snap'   = [snap EXCEPT ![s] = sn]
    /\ status' = [status EXCEPT ![s] = "suspended"]
    /\ inbox'  = [inbox EXCEPT ![s] = ConsumeSplices(@, sn.cursor, turnSeq[s])]
    /\ enqueued'  = enqueued \cup {<<s, j>>}
    /\ jobOutbox' = IF <<s, j>> \in enqueued THEN jobOutbox ELSE jobOutbox \cup {<<s, j>>}
    /\ UNCHANGED <<fence, turnSeq, lastSeq, completions, parked, answered, wakes>>

(* Mutant: parking deletes the completions, as a turn commit does.          *)
ParkApprovalConsuming(s, f, sn, approvals) ==
    /\ CheckFence(s, f)
    /\ snap'   = [snap EXCEPT ![s] = sn]
    /\ status' = [status EXCEPT ![s] = "suspended"]
    /\ inbox'  = [inbox EXCEPT ![s] = ConsumeSplices(@, sn.cursor, turnSeq[s])]
    /\ parked' = [parked EXCEPT ![s] = @ \cup approvals]
    /\ completions' = [completions EXCEPT ![s] = {}]
    /\ UNCHANGED <<fence, turnSeq, lastSeq, answered, jobOutbox, enqueued, wakes>>

(* park_approval: as above, with approval rows for the operator and no job. *)
ParkApproval(s, f, sn, approvals) ==
    /\ CheckFence(s, f)
    /\ snap'   = [snap EXCEPT ![s] = sn]
    /\ status' = [status EXCEPT ![s] = "suspended"]
    /\ inbox'  = [inbox EXCEPT ![s] = ConsumeSplices(@, sn.cursor, turnSeq[s])]
    /\ parked' = [parked EXCEPT ![s] = @ \cup approvals]
    /\ UNCHANGED <<fence, turnSeq, lastSeq, completions, answered, jobOutbox,
                   enqueued, wakes>>

(* Mutant: the commit is always quiescent.                                  *)
TurnStatusIdle(rows, comps) == "idle"

(* The status commit_turn selects inside its transaction.                   *)
TurnStatus(rows, comps) ==
    IF Unconsumed(rows) # {} \/ comps # {} THEN "ready" ELSE "idle"

(* commit_turn: the non-terminal boundary.  turn is the segment the journal *)
(* seal was computed for; applied are the completions the load delivered.   *)
CommitTurn(s, f, sn, turn, applied) ==
    LET rows  == ConsumeSplices(inbox[s], sn.cursor, turnSeq[s])
        comps == completions[s] \ applied
        next  == TurnStatus(rows, comps)
    IN  /\ CheckFence(s, f)
        /\ turn = turnSeq[s]
        /\ snap'        = [snap EXCEPT ![s] = sn]
        /\ turnSeq'     = [turnSeq EXCEPT ![s] = @ + 1]
        /\ inbox'       = [inbox EXCEPT ![s] = rows]
        /\ completions' = [completions EXCEPT ![s] = comps]
        /\ status'      = [status EXCEPT ![s] = next]
        /\ wakes'       = [wakes EXCEPT ![s] = IF next = "ready" THEN @ + 1 ELSE @]
        /\ UNCHANGED <<fence, lastSeq, parked, answered, jobOutbox, enqueued>>

(* mark_completed: the terminal boundary of a session without parent edge.  *)
MarkCompleted(s, f, sn) ==
    /\ CheckFence(s, f)
    /\ snap'    = [snap EXCEPT ![s] = sn]
    /\ turnSeq' = [turnSeq EXCEPT ![s] = @ + 1]
    /\ inbox'   = [inbox EXCEPT ![s] = ConsumeSplices(@, sn.cursor, turnSeq[s])]
    /\ status'  = [status EXCEPT ![s] = "completed"]
    /\ UNCHANGED <<fence, lastSeq, completions, parked, answered, jobOutbox,
                   enqueued, wakes>>

-----------------------------------------------------------------------------
(* Completions, approvals and the outboxes.                                 *)

(* answer_approval: one transaction; a repeated answer changes nothing.     *)
AnswerApproval(s, j) ==
    /\ j \in parked[s] \ answered[s]
    /\ answered'    = [answered EXCEPT ![s] = @ \cup {j}]
    /\ completions' = [completions EXCEPT ![s] = @ \cup {j}]
    /\ IF j \in completions[s]
       THEN UNCHANGED <<status, wakes>>
       ELSE /\ status' = [status EXCEPT ![s] = "ready"]
            /\ wakes'  = [wakes EXCEPT ![s] = @ + 1]
    /\ UNCHANGED <<fence, turnSeq, snap, lastSeq, inbox, parked, jobOutbox, enqueued>>

(* record_completion_and_wake up to the wake: the INSERT OR IGNORE and the  *)
(* status UPDATE, two statements under one hold of the connection lock.     *)
RecordCompletion(s, j) ==
    /\ j \notin completions[s]
    /\ completions' = [completions EXCEPT ![s] = @ \cup {j}]
    /\ status'      = [status EXCEPT ![s] = "ready"]
    /\ UNCHANGED <<fence, turnSeq, snap, lastSeq, inbox, parked, answered,
                   jobOutbox, enqueued, wakes>>

(* The same, killed between the two statements, each its own transaction.   *)
RecordCompletionOnly(s, j) ==
    /\ j \notin completions[s]
    /\ completions' = [completions EXCEPT ![s] = @ \cup {j}]
    /\ UNCHANGED <<status, fence, turnSeq, snap, lastSeq, inbox, parked, answered,
                   jobOutbox, enqueued, wakes>>

EnqueueWake(s) ==
    /\ wakes' = [wakes EXCEPT ![s] = @ + 1]
    /\ UNCHANGED <<status, fence, turnSeq, snap, lastSeq, inbox, completions,
                   parked, answered, jobOutbox, enqueued>>

(* Mutant: a wake is taken from an empty outbox.                            *)
DequeueAnyWake(s) ==
    /\ wakes' = [wakes EXCEPT ![s] = @ - 1]
    /\ UNCHANGED <<status, fence, turnSeq, snap, lastSeq, inbox, completions,
                   parked, answered, jobOutbox, enqueued>>

DequeueWake(s) ==
    /\ wakes[s] > 0
    /\ wakes' = [wakes EXCEPT ![s] = @ - 1]
    /\ UNCHANGED <<status, fence, turnSeq, snap, lastSeq, inbox, completions,
                   parked, answered, jobOutbox, enqueued>>

DequeueJob(s, j) ==
    /\ <<s, j>> \in jobOutbox
    /\ jobOutbox' = jobOutbox \ {<<s, j>>}
    /\ UNCHANGED <<status, fence, turnSeq, snap, lastSeq, inbox, completions,
                   parked, answered, enqueued, wakes>>

(* Mutants: the scanner forgets Suspended sessions, or trusts Active ones.  *)
ResumableRunnable(s) == status[s] \in {"ready", "active"}

ResumableDormant(s) ==
    \/ status[s] = "ready"
    \/ status[s] = "suspended" /\ completions[s] # {}

(* scan_resumable: what the recovery scanner selects.                       *)
Resumable(s) ==
    \/ status[s] \in {"ready", "active"}
    \/ status[s] = "suspended" /\ completions[s] # {}
=============================================================================
