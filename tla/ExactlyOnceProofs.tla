------------------------- MODULE ExactlyOnceProofs -------------------------
(***************************************************************************)
(* The inductive invariant IInv of Activation, and what follows from it:   *)
(* leases are unique, only a fresh incarnation can commit, every splice is *)
(* folded exactly once, and nothing is stranded in an Idle session.  Three *)
(* more results say under what condition no process fences itself, an      *)
(* approval stays accounted for, and an edit of the snapshot survives.     *)
(***************************************************************************)
EXTENDS ActivationProofs

-----------------------------------------------------------------------------
(* Facts about the rows, the cursor and the log of one session.             *)

(* A status that is neither idle nor absent asks nothing of the rows. *)
LEMMA RowsStatus ==
    ASSUME NEW st, NEW st2, NEW fe \in Nat, NEW sn \in Snapshot, NEW n \in Nat, NEW rows,
           RowsOK(st, fe, sn, n, rows), st2 \notin {"idle", "absent"}
    PROVE  RowsOK(st2, fe, sn, n, rows)
BY DEF RowsOK

(* A newer lease leaves the claims of older ones behind. *)
LEMMA RowsFence ==
    ASSUME NEW st, NEW fe \in Nat, NEW sn \in Snapshot, NEW n \in Nat,
           NEW rows \in [1 .. n -> Row], RowsOK(st, fe, sn, n, rows)
    PROVE  RowsOK(st, fe + 1, sn, n, rows)
<1>1. \A i \in 1 .. n : rows[i].by \in Nat
  BY DEF Row
<1>2. \A i \in 1 .. n : rows[i].claim = "claimed" => rows[i].by <= fe + 1
  BY <1>1 DEF RowsOK
<1> QED
  BY <1>2 DEF RowsOK

(* An appended splice is pending, above the cursor. *)
LEMMA RowsAppend ==
    ASSUME NEW st, NEW st2, NEW fe \in Nat, NEW sn \in Snapshot, NEW n \in Nat,
           NEW rows \in [1 .. n -> Row], NEW op \in Op \cup {FirstInput},
           RowsOK(st, fe, sn, n, rows), st2 \notin {"idle", "absent"}
    PROVE  RowsOK(st2, fe, sn, n + 1, AppendRow(rows, n, NewRow(op)))
<1> DEFINE r == AppendRow(rows, n, NewRow(op))
<1>0. NewRow(op) \in Row /\ NewRow(op).claim = "pending"
  BY DEF NewRow, Row
<1>1. /\ \A i \in 1 .. n : r[i] = rows[i]
      /\ r[n + 1] = NewRow(op)
  BY <1>0, AppendRowType
<1>2. sn.cursor \in Nat /\ sn.cursor <= n
  BY DEF RowsOK, Snapshot
<1> HIDE DEF r
<1>3. \A i \in 1 .. n + 1 : i \in 1 .. n \/ i = n + 1
  OBVIOUS
<1>4. \A i \in 1 .. n + 1 : Settled(r[i]) <=> i <= sn.cursor
  <2> SUFFICES ASSUME NEW i \in 1 .. n + 1
               PROVE  Settled(r[i]) <=> i <= sn.cursor
    OBVIOUS
  <2>1. CASE i \in 1 .. n
    BY <2>1, <1>1 DEF RowsOK
  <2>2. CASE i = n + 1
    BY <2>2, <1>0, <1>1, <1>2 DEF Settled
  <2> QED
    BY <1>3, <2>1, <2>2
<1>5. \A i \in 1 .. n + 1 : r[i].claim = "claimed" => r[i].by <= fe
  BY <1>0, <1>1, <1>3 DEF RowsOK
<1> QED
  BY <1>2, <1>4, <1>5 DEF RowsOK, r

(* Claiming settles and unsettles nothing. *)
LEMMA RowsClaim ==
    ASSUME NEW st, NEW fe \in Nat, NEW sn \in Snapshot, NEW n \in Nat,
           NEW rows \in [1 .. n -> Row], NEW f \in Nat, f <= fe,
           RowsOK(st, fe, sn, n, rows)
    PROVE  RowsOK(st, fe, sn, n, ClaimSplices(rows, f))
<1> DEFINE r == ClaimSplices(rows, f)
<1>1. \A i \in 1 .. n :
         \/ r[i] = rows[i]
         \/ /\ rows[i].claim \in {"pending", "claimed"}
            /\ r[i].claim = "claimed" /\ r[i].by = f
  BY DEF ClaimSplices, Claimable, Row
<1> HIDE DEF r
<1>2. \A i \in 1 .. n : Settled(r[i]) <=> Settled(rows[i])
  BY <1>1 DEF Settled
<1>3. \A i \in 1 .. n : r[i].claim = "claimed" => r[i].by <= fe
  BY <1>1 DEF RowsOK
<1> QED
  BY <1>2, <1>3 DEF RowsOK, r

(* Pruning only turns consumed rows into pruned ones. *)
LEMMA RowsPrune ==
    ASSUME NEW st, NEW fe \in Nat, NEW sn \in Snapshot, NEW n \in Nat,
           NEW rows \in [1 .. n -> Row], NEW k \in Nat, RowsOK(st, fe, sn, n, rows)
    PROVE  RowsOK(st, fe, sn, n, PruneRows(rows, k))
<1> DEFINE r == PruneRows(rows, k)
<1>1. \A i \in 1 .. n :
         r[i] = rows[i] \/ (rows[i].claim = "consumed" /\ r[i].claim = "pruned")
  BY DEF PruneRows, Row
<1> HIDE DEF r
<1>2. \A i \in 1 .. n : Settled(r[i]) <=> Settled(rows[i])
  BY <1>1 DEF Settled
<1>3. \A i \in 1 .. n : r[i].claim = "claimed" => r[i].by <= fe
  BY <1>1 DEF RowsOK
<1> QED
  BY <1>2, <1>3 DEF RowsOK, r

(* Folding the splices above the cursor extends an exact log to an exact one. *)
LEMMA ExtendedExact ==
    ASSUME NEW sn \in Snapshot, NEW c \in Nat, NEW f \in Nat, sn.cursor <= c,
           ExactLog(sn.conv, sn.cursor)
    PROVE  ExactLog(Extended(sn, c, f), c)
<1> DEFINE new == {<<i, f>> : i \in sn.cursor + 1 .. c}
           conv == sn.conv
           k == sn.cursor
<1>1. k \in Nat /\ conv \subseteq Nat \X Nat /\ {p[1] : p \in conv} = 1 .. k /\ k <= c
  BY DEF Snapshot, ExactLog
<1>2. \A p \in conv : p[1] \in 1 .. k
  BY <1>1
<1>3. \A p \in new : p[1] \in k + 1 .. c /\ p = <<p[1], f>>
  OBVIOUS
<1>4. Extended(sn, c, f) = conv \cup new
  BY DEF Extended
<1>5. \A i \in 1 .. c : \E p \in conv \cup new : p[1] = i
  <2> SUFFICES ASSUME NEW i \in 1 .. c PROVE \E p \in conv \cup new : p[1] = i
    OBVIOUS
  <2>1. CASE i \in 1 .. k
    BY <1>1, <2>1
  <2>2. CASE i \in k + 1 .. c
    <3>1. <<i, f>> \in new /\ <<i, f>>[1] = i
      BY <2>2
    <3> QED
      BY <3>1
  <2> QED
    BY <1>1, <2>1, <2>2
<1>6. \A p \in conv \cup new : p[1] \in 1 .. c
  BY <1>1, <1>2, <1>3
<1>7. \A p, q \in conv \cup new : p[1] = q[1] => p = q
  <2>1. \A p \in conv, q \in new : p[1] # q[1]
    BY <1>1, <1>2, <1>3
  <2>2. \A p, q \in new : p[1] = q[1] => p = q
    BY <1>3
  <2>3. \A p, q \in conv : p[1] = q[1] => p = q
    BY DEF ExactLog
  <2> HIDE DEF new, conv
  <2> QED
    BY <2>1, <2>2, <2>3
<1> HIDE DEF new, conv, k
<1>8. {p[1] : p \in conv \cup new} = 1 .. c
  BY <1>5, <1>6
<1> QED
  BY <1>4, <1>7, <1>8 DEF ExactLog

(* A commit settles exactly the prefix its snapshot folded. *)
LEMMA RowsCommit ==
    ASSUME NEW st, NEW st2, NEW fe \in Nat, NEW sn \in Snapshot, NEW sn2 \in Snapshot,
           NEW n \in Nat, NEW rows \in [1 .. n -> Row], NEW t \in Nat,
           RowsOK(st, fe, sn, n, rows),
           sn2.cursor \in sn.cursor .. n, ExactLog(sn2.conv, sn2.cursor),
           st2 # "absent",
           st2 = "idle" => Unconsumed(ConsumeSplices(rows, sn2.cursor, t)) = {}
    PROVE  RowsOK(st2, fe, sn2, n, ConsumeSplices(rows, sn2.cursor, t))
<1> DEFINE r == ConsumeSplices(rows, sn2.cursor, t)
<1>0. r \in [1 .. n -> Row] /\ sn.cursor \in Nat /\ sn2.cursor \in Nat
  BY RowsType DEF Snapshot
<1>1. \A i \in 1 .. n :
         \/ r[i] = rows[i] /\ (i > sn2.cursor \/ Settled(rows[i]))
         \/ i <= sn2.cursor /\ r[i].claim = "consumed"
  <2> SUFFICES ASSUME NEW i \in 1 .. n
               PROVE  \/ r[i] = rows[i] /\ (i > sn2.cursor \/ Settled(rows[i]))
                      \/ i <= sn2.cursor /\ r[i].claim = "consumed"
    OBVIOUS
  <2>1. rows[i] \in Row /\ DOMAIN rows = 1 .. n
    OBVIOUS
  <2>2. r[i] = IF i <= sn2.cursor /\ rows[i].claim \in {"pending", "claimed"}
               THEN [rows[i] EXCEPT !.claim = "consumed", !.by = t]
               ELSE rows[i]
    BY <2>1 DEF ConsumeSplices
  <2>3. [rows[i] EXCEPT !.claim = "consumed", !.by = t].claim = "consumed"
    BY <2>1 DEF Row
  <2>4. rows[i].claim \in {"pending", "claimed"} \/ Settled(rows[i])
    BY <2>1 DEF Row, Settled
  <2>5. i > sn2.cursor \/ i <= sn2.cursor
    BY <1>0
  <2> HIDE DEF r
  <2> QED
    BY <2>2, <2>3, <2>4, <2>5
<1>2. st2 = "idle" => Unconsumed(r) = {}
  OBVIOUS
<1> HIDE DEF r
<1>3. \A i \in 1 .. n : Settled(r[i]) <=> i <= sn2.cursor
  <2> SUFFICES ASSUME NEW i \in 1 .. n PROVE Settled(r[i]) <=> i <= sn2.cursor
    OBVIOUS
  <2>1. CASE i <= sn2.cursor
    BY <1>0, <1>1, <2>1 DEF Settled
  <2>2. CASE ~(i <= sn2.cursor)
    <3>1. r[i] = rows[i] /\ ~(i <= sn.cursor)
      BY <1>0, <1>1, <2>2
    <3> QED
      BY <2>2, <3>1 DEF RowsOK
  <2> QED
    BY <2>1, <2>2
<1>4. \A i \in 1 .. n : r[i].claim = "claimed" => r[i].by <= fe
  BY <1>1 DEF RowsOK
<1>5. st2 = "idle" => sn2.cursor = n
  <2> SUFFICES ASSUME st2 = "idle", sn2.cursor # n PROVE FALSE
    OBVIOUS
  <2>1. n \in 1 .. n /\ ~(n <= sn2.cursor)
    BY <1>0
  <2>2. ~Settled(r[n]) /\ r[n] \in Row
    BY <1>0, <1>3, <2>1
  <2>3. n \in Unconsumed(r)
    BY <1>0, <2>1, <2>2 DEF Unconsumed, Settled, Row
  <2> QED
    BY <1>2, <2>3
<1> QED
  BY <1>0, <1>3, <1>4, <1>5 DEF RowsOK, r

(* A load under the newest lease holds every splice above the cursor. *)
LEMMA LoadedFresh ==
    ASSUME NEW st, NEW fe \in Nat, NEW sn \in Snapshot, NEW n \in Nat,
           NEW rows \in [1 .. n -> Row], RowsOK(st, fe, sn, n, rows)
    PROVE  Fresh(rows, sn, fe) = sn.cursor + 1 .. n
<1> DEFINE r == ClaimSplices(rows, fe)
<1>0. r \in [1 .. n -> Row] /\ sn.cursor \in Nat
  BY RowsType DEF Snapshot
<1>1. ASSUME NEW i \in 1 .. n, i > sn.cursor
      PROVE  r[i].claim = "claimed" /\ r[i].by = fe
  <2>1. rows[i] \in Row /\ DOMAIN rows = 1 .. n
    OBVIOUS
  <2>2. ~Settled(rows[i])
    BY <1>0, <1>1 DEF RowsOK
  <2>3. rows[i].claim \in {"pending", "claimed"}
    BY <2>1, <2>2 DEF Settled, Row
  <2>4. rows[i].claim = "claimed" => rows[i].by <= fe
    BY DEF RowsOK
  <2>5. r[i] = IF Claimable(rows[i], fe)
               THEN [rows[i] EXCEPT !.claim = "claimed", !.by = fe]
               ELSE rows[i]
    BY <2>1 DEF ClaimSplices
  <2>6. CASE Claimable(rows[i], fe)
    BY <2>1, <2>5, <2>6 DEF Row
  <2>7. CASE ~Claimable(rows[i], fe)
    <3>1. rows[i].claim = "claimed" /\ ~(rows[i].by < fe)
      BY <2>3, <2>7 DEF Claimable
    <3>2. rows[i].by = fe
      BY <2>1, <2>4, <3>1 DEF Row
    <3> QED
      BY <2>5, <2>7, <3>1, <3>2
  <2> QED
    BY <2>6, <2>7
<1>2. HeldBy(r, fe) = {i \in 1 .. n : r[i].claim = "claimed" /\ r[i].by = fe}
  BY <1>0 DEF HeldBy
<1> HIDE DEF r
<1>3. \A i \in sn.cursor + 1 .. n : i \in 1 .. n /\ i > sn.cursor
  BY <1>0
<1>4. \A i \in 1 .. n : i > sn.cursor => i \in sn.cursor + 1 .. n
  BY <1>0
<1> QED
  BY <1>1, <1>2, <1>3, <1>4 DEF Fresh, r

(* The engine a hydrate builds from them extends the stored snapshot. *)
LEMMA FoldedExtends ==
    ASSUME NEW sn \in Snapshot, NEW n \in Nat, NEW f \in Nat, sn.cursor <= n
    PROVE  LET e == Folded(sn, sn.cursor + 1 .. n, f) IN
           /\ e.cursor = n
           /\ e.conv = Extended(sn, n, f)
           /\ e.waiting = sn.waiting
           /\ e.epoch = sn.epoch
<1> DEFINE k == sn.cursor
           S == (k + 1 .. n) \cup {k}
<1>1. k \in Nat /\ k <= n
  BY DEF Snapshot
<1>2. S = k .. n
  BY <1>1
<1>3. S # {} /\ S \in SUBSET (0 .. n) /\ n \in S
  BY <1>1
<1> HIDE DEF S, k
<1>4. Max(S) \in S /\ \A x \in S : x <= Max(S)
  BY <1>3, MaxOfBounded
<1>5. Max(S) = n
  BY <1>1, <1>2, <1>3, <1>4
<1>6. Max((sn.cursor + 1 .. n) \cup {sn.cursor}) = n
  BY <1>5 DEF S, k
<1> DEFINE c == Max((sn.cursor + 1 .. n) \cup {sn.cursor})
<1>7. c = n
  BY <1>6
<1> HIDE DEF c
<1>8. Folded(sn, sn.cursor + 1 .. n, f) =
        [sn EXCEPT !.cursor = c, !.conv = Extended(sn, n, f)]
  BY DEF Folded, Extended, c
<1>9. [sn EXCEPT !.cursor = c, !.conv = Extended(sn, n, f)].cursor = n
  BY <1>7 DEF Snapshot
<1>10. LET e == [sn EXCEPT !.cursor = c, !.conv = Extended(sn, n, f)] IN
       e.conv = Extended(sn, n, f) /\ e.waiting = sn.waiting /\ e.epoch = sn.epoch
  BY DEF Snapshot
<1> QED
  BY <1>8, <1>9, <1>10

-----------------------------------------------------------------------------
(* The kinds of steps.  Most leave every live incarnation and the rows as   *)
(* they are; the rest are leases, loads and commits.                        *)

(* A slot that no longer can commit, or that would commit what it would     *)
(* have committed before.                                                   *)
Calm(new, old) ==
    \/ new.pc \notin {"leased", "running"}
    \/ /\ new.pc = old.pc
       /\ new.fence = old.fence
       /\ new.turn = old.turn
       /\ new.eng = old.eng
       /\ new.pend = old.pend
       /\ new.loaded = old.loaded
       /\ new.foldOnly = old.foldOnly

(* Only the slot of one session in one directory changed. *)
OneSlot(m, s) ==
    \A n \in Manager, t \in Session :
        ~(n = m /\ t = s) => cycle'[n][t] = cycle[n][t]

LEMMA SlotUpdate ==
    ASSUME cycle \in [Manager -> [Session -> Cycle]], NEW m \in Manager, NEW s \in Session,
           NEW cy, cycle' = [cycle EXCEPT ![m][s] = cy]
    PROVE  cycle'[m][s] = cy /\ OneSlot(m, s)
BY DEF OneSlot

(* The values an invariant part speaks of are well-typed. *)
LEMMA SessionType ==
    ASSUME TypeOK, NEW s \in Session
    PROVE  /\ fence[s] \in Nat /\ turnSeq[s] \in Nat /\ lastSeq[s] \in Nat /\ cut[s] \in Nat
           /\ snap[s] \in Snapshot
           /\ inbox[s] \in [1 .. lastSeq[s] -> Row]
           /\ status[s] \in Statuses
BY DEF TypeOK, StoreTypeOK

LEMMA CycleFields ==
    ASSUME TypeOK, NEW m \in Manager, NEW s \in Session
    PROVE  /\ cycle[m][s] \in Cycle
           /\ cycle[m][s].fence \in Nat /\ cycle[m][s].turn \in Nat
           /\ cycle[m][s].eng \in Snapshot
BY DEF TypeOK, Cycle

(* A step that takes no lease, keeps the live incarnations and the stored   *)
(* snapshots up to their edits, and keeps rows and cursors in agreement.    *)
LEMMA CalmStep ==
    ASSUME IInv, TypeOK', UNCHANGED <<fence, turnSeq, cut>>,
           \A m \in Manager, s \in Session : Calm(cycle'[m][s], cycle[m][s]),
           \A s \in Session :
              /\ lastSeq[s] <= lastSeq'[s]
              /\ snap'[s].cursor = snap[s].cursor
              /\ snap'[s].conv = snap[s].conv
              /\ snap'[s].waiting = snap[s].waiting
              /\ snap'[s].epoch = snap[s].epoch
              /\ RowsOK(status'[s], fence[s], snap'[s], lastSeq'[s], inbox'[s])
    PROVE  IInv'
<1>1. LeaseUnique'
  BY DEF IInv, LeaseUnique, Live, Calm
<1>2. \A s \in Session :
          /\ cut'[s] <= fence'[s]
          /\ fence'[s] <= MaxFence
          /\ RowsOK(status'[s], fence'[s], snap'[s], lastSeq'[s], inbox'[s])
  BY DEF IInv
<1>3. ASSUME NEW m \in Manager, NEW s \in Session
      PROVE  /\ HeldOK(cycle'[m][s], fence'[s])
             /\ EngOK(cycle'[m][s], fence'[s], turnSeq'[s], snap'[s], lastSeq'[s])
  <2> DEFINE old == cycle[m][s]
             new == cycle'[m][s]
  <2>1. /\ HeldOK(old, fence[s])
        /\ EngOK(old, fence[s], turnSeq[s], snap[s], lastSeq[s])
        /\ Calm(new, old)
    BY DEF IInv
  <2>2. /\ old.eng.cursor \in Nat /\ snap[s].cursor \in Nat
        /\ lastSeq[s] \in Nat /\ lastSeq'[s] \in Nat
    <3>1. old.eng \in Snapshot /\ snap[s] \in Snapshot
      BY CycleFields, SessionType DEF IInv
    <3> QED
      BY <3>1, SessionType DEF IInv, Snapshot, TypeOK, StoreTypeOK
  <2>3. HeldOK(new, fence'[s])
    BY <2>1 DEF HeldOK, Calm
  <2>4. EngOK(new, fence'[s], turnSeq'[s], snap'[s], lastSeq'[s])
    <3> SUFFICES ASSUME new.pc = "running", new.fence = fence[s]
                 PROVE  EngOK(new, fence'[s], turnSeq'[s], snap'[s], lastSeq'[s])
      BY DEF EngOK
    <3>1. /\ new.turn = old.turn /\ new.eng = old.eng
          /\ old.pc = "running" /\ old.fence = fence[s]
      BY <2>1 DEF Calm
    <3> HIDE DEF old, new
    <3>2. /\ old.turn = turnSeq[s]
          /\ old.eng.waiting = snap[s].waiting
          /\ old.eng.epoch = snap[s].epoch
          /\ old.eng.cursor \in snap[s].cursor .. lastSeq[s]
          /\ old.eng.conv = Extended(snap[s], old.eng.cursor, fence[s])
      BY <2>1, <3>1 DEF EngOK
    <3>3. old.eng.cursor \in snap'[s].cursor .. lastSeq'[s]
      BY <2>2, <3>2
    <3>4. Extended(snap'[s], old.eng.cursor, fence[s]) = Extended(snap[s], old.eng.cursor, fence[s])
      BY DEF Extended
    <3> QED
      BY <3>1, <3>2, <3>3, <3>4 DEF EngOK
  <2> QED
    BY <2>3, <2>4
<1> QED
  BY <1>1, <1>2, <1>3 DEF IInv

(* A new lease supersedes every incarnation there is. *)
LEMMA LeaseKeeps ==
    ASSUME IInv, TypeOK', NEW s \in Session, fence[s] < MaxFence,
           AcquireActivationLease(s),
           \/ UNCHANGED cycle /\ cut' = [cut EXCEPT ![s] = fence'[s]]
           \/ /\ UNCHANGED cut
              /\ \E m \in Manager : OneSlot(m, s) /\ cycle'[m][s].fence = fence'[s]
                                    /\ cycle'[m][s].pc = "leased"
    PROVE  IInv'
<1>0. \A t \in Session : fence[t] \in Nat /\ cut[t] \in Nat /\ cut[t] <= fence[t]
  BY SessionType DEF IInv
<1>1. /\ fence'[s] = fence[s] + 1
      /\ \A t \in Session : t # s => fence'[t] = fence[t]
      /\ \A t \in Session : status'[t] = status[t] \/ status'[t] = "active"
      /\ UNCHANGED <<snap, lastSeq, inbox, turnSeq>>
  BY DEF AcquireActivationLease, IInv, TypeOK, StoreTypeOK
<1>2. \A n \in Manager : Live(n, s) => cycle[n][s].fence \in 1 .. fence[s]
  BY DEF IInv, HeldOK, Live
<1>3. MaxFence \in Nat
  BY BoundAssumption
<1>4. \A t \in Session : RowsOK(status'[t], fence'[t], snap'[t], lastSeq'[t], inbox'[t])
  <2> SUFFICES ASSUME NEW t \in Session
               PROVE  RowsOK(status'[t], fence'[t], snap[t], lastSeq[t], inbox[t])
    BY <1>1
  <2>1. RowsOK(status[t], fence[t], snap[t], lastSeq[t], inbox[t])
    BY DEF IInv
  <2>t. /\ fence[t] \in Nat /\ snap[t] \in Snapshot /\ lastSeq[t] \in Nat
        /\ inbox[t] \in [1 .. lastSeq[t] -> Row]
    BY SessionType DEF IInv
  <2>2. RowsOK(status'[t], fence[t], snap[t], lastSeq[t], inbox[t])
    BY <1>1, <2>1, <2>t, RowsStatus
  <2>3. CASE t # s
    BY <1>1, <2>2, <2>3
  <2>4. CASE t = s
    BY <1>1, <2>2, <2>4, <2>t, RowsFence
  <2> QED
    BY <2>3, <2>4
<1>5. CASE UNCHANGED cycle /\ cut' = [cut EXCEPT ![s] = fence'[s]]
  <2>1. cut'[s] = fence[s] + 1 /\ \A t \in Session : t # s => cut'[t] = cut[t]
    BY <1>1, <1>5 DEF IInv, TypeOK
  <2>2. LeaseUnique'
    <3>1. \A t \in Session : \A m, n \in Manager :
             Live(m, t)' /\ Live(n, t)' /\ m # n => cycle'[m][t].fence # cycle'[n][t].fence
      BY <1>5 DEF IInv, LeaseUnique, Live
    <3>2. ASSUME NEW t \in Session, NEW m \in Manager, Live(m, t)', cut'[t] # 0
          PROVE  cycle'[m][t].fence # cut'[t]
      <4>1. Live(m, t)
        BY <1>5, <3>2 DEF Live
      <4>2. CASE t # s
        BY <1>5, <2>1, <3>2, <4>1, <4>2 DEF IInv, LeaseUnique
      <4>3. CASE t = s
        <5>1. cycle[m][s].fence \in 1 .. fence[s]
          BY <1>2, <4>1, <4>3
        <5> QED
          BY <1>0, <1>5, <2>1, <4>3, <5>1
      <4> QED
        BY <4>2, <4>3
    <3> QED
      BY <3>1, <3>2 DEF LeaseUnique
  <2>3. \A t \in Session : cut'[t] <= fence'[t] /\ fence'[t] <= MaxFence
    <3> SUFFICES ASSUME NEW t \in Session PROVE cut'[t] <= fence'[t] /\ fence'[t] <= MaxFence
      OBVIOUS
    <3>1. CASE t = s
      BY <1>0, <1>1, <1>3, <2>1, <3>1
    <3>2. CASE t # s
      BY <1>0, <1>1, <2>1, <3>2 DEF IInv
    <3> QED
      BY <3>1, <3>2
  <2>4. \A n \in Manager, t \in Session :
           /\ HeldOK(cycle'[n][t], fence'[t])
           /\ EngOK(cycle'[n][t], fence'[t], turnSeq'[t], snap'[t], lastSeq'[t])
    <3> SUFFICES ASSUME NEW n \in Manager, NEW t \in Session
                 PROVE  /\ HeldOK(cycle[n][t], fence'[t])
                        /\ EngOK(cycle[n][t], fence'[t], turnSeq[t], snap[t], lastSeq[t])
      BY <1>1, <1>5
    <3>1. CASE t = s
      BY <1>0, <1>1, <1>2, <3>1 DEF HeldOK, EngOK, Live
    <3>2. CASE t # s
      BY <1>1, <3>2 DEF IInv
    <3> QED
      BY <3>1, <3>2
  <2> QED
    BY <1>4, <2>2, <2>3, <2>4 DEF IInv
<1>6. ASSUME NEW m \in Manager, UNCHANGED cut, OneSlot(m, s),
             cycle'[m][s].fence = fence'[s], cycle'[m][s].pc = "leased"
      PROVE  IInv'
  <2>1. \A n \in Manager, t \in Session : ~(n = m /\ t = s) => cycle'[n][t] = cycle[n][t]
    BY <1>6 DEF OneSlot
  <2>2. LeaseUnique'
    <3>1. ASSUME NEW t \in Session, NEW a \in Manager, NEW b \in Manager,
                 Live(a, t)', Live(b, t)', a # b
          PROVE  cycle'[a][t].fence # cycle'[b][t].fence
      <4>1. CASE t = s /\ a = m
        <5>1. cycle[b][s].fence \in 1 .. fence[s] /\ cycle'[b][s] = cycle[b][s]
          BY <1>2, <2>1, <3>1, <4>1 DEF Live
        <5> QED
          BY <1>0, <1>1, <1>6, <4>1, <5>1
      <4>2. CASE t = s /\ b = m
        <5>1. cycle[a][s].fence \in 1 .. fence[s] /\ cycle'[a][s] = cycle[a][s]
          BY <1>2, <2>1, <3>1, <4>2 DEF Live
        <5> QED
          BY <1>0, <1>1, <1>6, <4>2, <5>1
      <4>3. CASE ~(t = s /\ a = m) /\ ~(t = s /\ b = m)
        BY <2>1, <3>1, <4>3 DEF IInv, LeaseUnique, Live
      <4> QED
        BY <4>1, <4>2, <4>3
    <3>2. ASSUME NEW t \in Session, NEW n \in Manager, Live(n, t)', cut'[t] # 0
          PROVE  cycle'[n][t].fence # cut'[t]
      <4>1. CASE n = m /\ t = s
        BY <1>0, <1>1, <1>6, <4>1
      <4>2. CASE ~(n = m /\ t = s)
        BY <1>6, <2>1, <3>2, <4>2 DEF IInv, LeaseUnique, Live
      <4> QED
        BY <4>1, <4>2
    <3> QED
      BY <3>1, <3>2 DEF LeaseUnique
  <2>3. \A t \in Session : cut'[t] <= fence'[t] /\ fence'[t] <= MaxFence
    <3> SUFFICES ASSUME NEW t \in Session PROVE cut'[t] <= fence'[t] /\ fence'[t] <= MaxFence
      OBVIOUS
    <3>1. CASE t = s
      BY <1>0, <1>1, <1>3, <1>6, <3>1
    <3>2. CASE t # s
      BY <1>0, <1>1, <1>6, <3>2 DEF IInv
    <3> QED
      BY <3>1, <3>2
  <2>4. \A n \in Manager, t \in Session :
           /\ HeldOK(cycle'[n][t], fence'[t])
           /\ EngOK(cycle'[n][t], fence'[t], turnSeq'[t], snap'[t], lastSeq'[t])
    <3> SUFFICES ASSUME NEW n \in Manager, NEW t \in Session
                 PROVE  /\ HeldOK(cycle'[n][t], fence'[t])
                        /\ EngOK(cycle'[n][t], fence'[t], turnSeq[t], snap[t], lastSeq[t])
      BY <1>1
    <3>1. CASE n = m /\ t = s
      BY <1>0, <1>1, <1>6, <3>1 DEF HeldOK, EngOK
    <3>2. CASE n # m /\ t = s
      BY <1>0, <1>1, <1>2, <2>1, <3>2 DEF HeldOK, EngOK, Live
    <3>3. CASE t # s
      BY <1>1, <2>1, <3>3 DEF IInv
    <3> QED
      BY <3>1, <3>2, <3>3
  <2> QED
    BY <1>4, <2>2, <2>3, <2>4 DEF IInv
<1> QED
  BY <1>5, <1>6

(* Handing over the lease taken elsewhere gives it to one incarnation. *)
LEMMA ActivateKeeps ==
    ASSUME IInv, TypeOK', NEW m \in Manager, NEW s \in Session, Activate(m, s)
    PROVE  IInv'
<1>0. cut[s] \in Nat /\ cut[s] # 0 /\ fence[s] \in Nat /\ cut[s] <= fence[s]
  BY SessionType DEF IInv, Activate
<1>1. /\ cut'[s] = 0
      /\ \A t \in Session : t # s => cut'[t] = cut[t]
      /\ UNCHANGED <<status, fence, turnSeq, snap, lastSeq, inbox>>
  BY DEF Activate, IInv, TypeOK, storeVars
<1>2. \A t \in Session :
          /\ cut'[t] <= fence'[t]
          /\ fence'[t] <= MaxFence
          /\ RowsOK(status'[t], fence'[t], snap'[t], lastSeq'[t], inbox'[t])
  <2> SUFFICES ASSUME NEW t \in Session
               PROVE  /\ cut'[t] <= fence[t]
                      /\ fence[t] <= MaxFence
                      /\ RowsOK(status[t], fence[t], snap[t], lastSeq[t], inbox[t])
    BY <1>1
  <2>1. CASE t = s
    BY <1>0, <1>1, <2>1 DEF IInv
  <2>2. CASE t # s
    BY <1>1, <2>2 DEF IInv
  <2> QED
    BY <2>1, <2>2
<1>3. CASE UNCHANGED cycle
  <2>1. LeaseUnique'
    BY <1>1, <1>3 DEF IInv, LeaseUnique, Live
  <2> QED
    BY <1>1, <1>2, <1>3, <2>1 DEF IInv
<1>4. CASE cycle' # cycle
  <2> DEFINE cy == [Vacant EXCEPT !.pc = "leased", !.fence = cut[s]]
  <2>1. cycle' = [cycle EXCEPT ![m][s] = cy]
    BY <1>4 DEF Activate
  <2>2. cy.pc = "leased" /\ cy.fence = cut[s]
    BY VacantType DEF Vacant
  <2> HIDE DEF cy
  <2>3. cycle'[m][s] = cy /\ OneSlot(m, s)
    BY <2>1, SlotUpdate DEF IInv, TypeOK
  <2>4. \A n \in Manager, t \in Session : ~(n = m /\ t = s) => cycle'[n][t] = cycle[n][t]
    BY <2>3 DEF OneSlot
  <2>5. LeaseUnique'
    <3>1. ASSUME NEW t \in Session, NEW a \in Manager, NEW b \in Manager,
                 Live(a, t)', Live(b, t)', a # b
          PROVE  cycle'[a][t].fence # cycle'[b][t].fence
      <4>1. CASE t = s /\ a = m
        BY <1>0, <2>2, <2>3, <2>4, <3>1, <4>1 DEF IInv, LeaseUnique, Live
      <4>2. CASE t = s /\ b = m
        BY <1>0, <2>2, <2>3, <2>4, <3>1, <4>2 DEF IInv, LeaseUnique, Live
      <4>3. CASE ~(t = s /\ a = m) /\ ~(t = s /\ b = m)
        BY <2>4, <3>1, <4>3 DEF IInv, LeaseUnique, Live
      <4> QED
        BY <4>1, <4>2, <4>3
    <3>2. ASSUME NEW t \in Session, NEW n \in Manager, Live(n, t)', cut'[t] # 0
          PROVE  cycle'[n][t].fence # cut'[t]
      BY <1>1, <2>4, <3>2 DEF IInv, LeaseUnique, Live
    <3> QED
      BY <3>1, <3>2 DEF LeaseUnique
  <2>6. \A n \in Manager, t \in Session :
           /\ HeldOK(cycle'[n][t], fence'[t])
           /\ EngOK(cycle'[n][t], fence'[t], turnSeq'[t], snap'[t], lastSeq'[t])
    <3> SUFFICES ASSUME NEW n \in Manager, NEW t \in Session
                 PROVE  /\ HeldOK(cycle'[n][t], fence[t])
                        /\ EngOK(cycle'[n][t], fence[t], turnSeq[t], snap[t], lastSeq[t])
      BY <1>1
    <3>1. CASE n = m /\ t = s
      BY <1>0, <2>2, <2>3, <3>1 DEF HeldOK, EngOK
    <3>2. CASE ~(n = m /\ t = s)
      BY <2>4, <3>2 DEF IInv
    <3> QED
      BY <3>1, <3>2
  <2> QED
    BY <1>2, <2>5, <2>6 DEF IInv
<1> QED
  BY <1>3, <1>4

(* A load claims rows for a lease that was handed out, and an incarnation   *)
(* hydrated under the newest one holds all that is unfolded.                *)
LEMMA LoadKeeps ==
    ASSUME IInv, TypeOK', NEW m \in Manager, NEW s \in Session, Load(m, s)
    PROVE  IInv'
<1> DEFINE cy    == cycle[m][s]
           base  == IF KeepsEngine(cy, s) THEN cy.eng ELSE snap[s]
           fresh == Fresh(inbox[s], base, cy.fence)
           eng   == Folded(base, fresh, cy.fence)
           new   == cycle'[m][s]
<1>0. /\ cy \in Cycle /\ cy.fence \in Nat /\ cy.pc = "leased" /\ cy.eng \in Snapshot
      /\ fence[s] \in Nat /\ snap[s] \in Snapshot /\ lastSeq[s] \in Nat
      /\ inbox[s] \in [1 .. lastSeq[s] -> Row] /\ turnSeq[s] \in Nat
  BY SessionType, CycleFields DEF IInv, Load
<1>1. base = snap[s]
  BY DEF KeepsEngine
<1>2. \E pend, loaded, only :
         cycle' = [cycle EXCEPT ![m][s] = [cy EXCEPT
            !.pc = "running", !.turn = turnSeq[s], !.eng = eng, !.pend = pend,
            !.loaded = loaded, !.foldOnly = only]]
  BY DEF Load
<1>3. /\ UNCHANGED <<status, fence, turnSeq, snap, lastSeq, cut>>
      /\ inbox'[s] = ClaimSplices(inbox[s], cy.fence)
      /\ \A t \in Session : t # s => inbox'[t] = inbox[t]
  BY DEF Load, LoadForActivation, IInv, TypeOK, StoreTypeOK
<1> HIDE DEF eng
<1>4. /\ new.pc = "running" /\ new.turn = turnSeq[s] /\ new.eng = eng
      /\ new.fence = cy.fence
      /\ OneSlot(m, s)
  <2>1. PICK pend, loaded, only :
         cycle' = [cycle EXCEPT ![m][s] = [cy EXCEPT
            !.pc = "running", !.turn = turnSeq[s], !.eng = eng, !.pend = pend,
            !.loaded = loaded, !.foldOnly = only]]
    BY <1>2
  <2> DEFINE c2 == [cy EXCEPT
            !.pc = "running", !.turn = turnSeq[s], !.eng = eng, !.pend = pend,
            !.loaded = loaded, !.foldOnly = only]
  <2>2. c2.pc = "running" /\ c2.turn = turnSeq[s] /\ c2.eng = eng /\ c2.fence = cy.fence
    BY <1>0 DEF Cycle
  <2>3. cycle' = [cycle EXCEPT ![m][s] = c2]
    BY <2>1
  <2> HIDE DEF c2
  <2>4. new = c2 /\ OneSlot(m, s)
    BY <2>3, SlotUpdate DEF IInv, TypeOK
  <2> QED
    BY <2>2, <2>4
<1>5. \A n \in Manager, t \in Session : ~(n = m /\ t = s) => cycle'[n][t] = cycle[n][t]
  BY <1>4 DEF OneSlot
<1> HIDE DEF new
<1>6. cy.fence \in 1 .. fence[s]
  BY <1>0 DEF IInv, HeldOK
<1>7. LeaseUnique'
  <2>1. \A n \in Manager, t \in Session :
           (Live(n, t)' <=> Live(n, t)) /\ (Live(n, t) => cycle'[n][t].fence = cycle[n][t].fence)
    BY <1>0, <1>4, <1>5 DEF Live, new
  <2> QED
    BY <1>3, <2>1 DEF IInv, LeaseUnique
<1>8. \A t \in Session : RowsOK(status'[t], fence'[t], snap'[t], lastSeq'[t], inbox'[t])
  <2> SUFFICES ASSUME NEW t \in Session
               PROVE  RowsOK(status[t], fence[t], snap[t], lastSeq[t], inbox'[t])
    BY <1>3
  <2>1. RowsOK(status[t], fence[t], snap[t], lastSeq[t], inbox[t])
    BY DEF IInv
  <2>2. CASE t = s
    <3>1. cy.fence <= fence[s]
      BY <1>0, <1>6
    <3> HIDE DEF cy
    <3> QED
      BY <1>0, <1>3, <2>1, <2>2, <3>1, RowsClaim
  <2>3. CASE t # s
    BY <1>3, <2>1, <2>3
  <2> QED
    BY <2>2, <2>3
<1>9. EngOK(new, fence[s], turnSeq[s], snap[s], lastSeq[s])
  <2> SUFFICES ASSUME cy.fence = fence[s]
               PROVE  EngOK(new, fence[s], turnSeq[s], snap[s], lastSeq[s])
    BY <1>4 DEF EngOK
  <2>1. RowsOK(status[s], fence[s], snap[s], lastSeq[s], inbox[s])
    BY DEF IInv
  <2>2. snap[s].cursor <= lastSeq[s] /\ snap[s].cursor \in Nat
    BY <1>0, <2>1 DEF RowsOK, Snapshot
  <2>3. fresh = snap[s].cursor + 1 .. lastSeq[s]
    <3>1. fresh = Fresh(inbox[s], snap[s], fence[s])
      BY <1>1
    <3>2. Fresh(inbox[s], snap[s], fence[s]) = snap[s].cursor + 1 .. lastSeq[s]
      BY <1>0, <2>1, LoadedFresh
    <3> QED
      BY <3>1, <3>2
  <2>4. eng = Folded(snap[s], snap[s].cursor + 1 .. lastSeq[s], fence[s])
    BY <1>1, <2>3 DEF eng
  <2>5. /\ eng.cursor = lastSeq[s]
        /\ eng.conv = Extended(snap[s], lastSeq[s], fence[s])
        /\ eng.waiting = snap[s].waiting
        /\ eng.epoch = snap[s].epoch
    BY <1>0, <2>2, <2>4, FoldedExtends
  <2>6. lastSeq[s] \in snap[s].cursor .. lastSeq[s]
    BY <1>0, <2>2
  <2> QED
    BY <1>4, <2>5, <2>6 DEF EngOK
<1>10. \A n \in Manager, t \in Session :
           /\ HeldOK(cycle'[n][t], fence'[t])
           /\ EngOK(cycle'[n][t], fence'[t], turnSeq'[t], snap'[t], lastSeq'[t])
  <2> SUFFICES ASSUME NEW n \in Manager, NEW t \in Session
               PROVE  /\ HeldOK(cycle'[n][t], fence[t])
                      /\ EngOK(cycle'[n][t], fence[t], turnSeq[t], snap[t], lastSeq[t])
    BY <1>3
  <2>1. CASE n = m /\ t = s
    BY <1>4, <1>6, <1>9, <2>1 DEF HeldOK, new
  <2>2. CASE ~(n = m /\ t = s)
    BY <1>5, <2>2 DEF IInv
  <2> QED
    BY <2>1, <2>2
<1> QED
  BY <1>3, <1>7, <1>8, <1>10 DEF IInv

(* An accepted commit comes from the one incarnation under the newest       *)
(* lease; the prefix it settles is the one its log names exactly once.      *)
LEMMA CommitKeeps ==
    ASSUME IInv, TypeOK', NEW m \in Manager, NEW s \in Session, NEW sn \in Snapshot,
           NEW st,
           cycle[m][s].pc = "running",
           CheckFence(s, cycle[m][s].fence),
           sn.cursor = cycle[m][s].eng.cursor,
           sn.conv = cycle[m][s].eng.conv,
           snap' = [snap EXCEPT ![s] = sn],
           inbox' = [inbox EXCEPT ![s] = ConsumeSplices(@, sn.cursor, turnSeq[s])],
           status' = [status EXCEPT ![s] = st],
           st # "absent",
           st = "idle" => Unconsumed(ConsumeSplices(inbox[s], sn.cursor, turnSeq[s])) = {},
           \A t \in Session : t # s => turnSeq'[t] = turnSeq[t],
           UNCHANGED <<fence, lastSeq, cut>>,
           OneSlot(m, s),
           cycle'[m][s].pc \notin {"leased", "running"}
    PROVE  IInv'
<1> DEFINE cy == cycle[m][s]
<1>0. /\ cy.fence \in Nat /\ cy.eng \in Snapshot
      /\ fence[s] \in Nat /\ snap[s] \in Snapshot /\ lastSeq[s] \in Nat
      /\ inbox[s] \in [1 .. lastSeq[s] -> Row] /\ turnSeq[s] \in Nat
  BY SessionType, CycleFields DEF IInv
<1>1. cy.fence = fence[s]
  <2>1. cy.fence \in 1 .. fence[s]
    BY DEF IInv, HeldOK
  <2> QED
    BY <1>0, <2>1 DEF CheckFence
<1>2. /\ cy.eng.cursor \in snap[s].cursor .. lastSeq[s]
      /\ cy.eng.conv = Extended(snap[s], cy.eng.cursor, fence[s])
  BY <1>1 DEF IInv, EngOK
<1>3. RowsOK(status[s], fence[s], snap[s], lastSeq[s], inbox[s])
  BY DEF IInv
<1>4. ExactLog(sn.conv, sn.cursor)
  <2>1. snap[s].cursor \in Nat /\ cy.eng.cursor \in Nat
    BY <1>0 DEF Snapshot
  <2>2. snap[s].cursor <= cy.eng.cursor
    BY <1>0, <1>2, <2>1
  <2>3. ExactLog(snap[s].conv, snap[s].cursor)
    BY <1>3 DEF RowsOK
  <2>4. ExactLog(Extended(snap[s], cy.eng.cursor, fence[s]), cy.eng.cursor)
    BY <1>0, <2>1, <2>2, <2>3, ExtendedExact
  <2> QED
    BY <1>2, <2>4
<1>5. RowsOK(st, fence[s], sn, lastSeq[s], ConsumeSplices(inbox[s], sn.cursor, turnSeq[s]))
  BY <1>0, <1>2, <1>3, <1>4, RowsCommit
<1>6. /\ snap'[s] = sn /\ status'[s] = st
      /\ inbox'[s] = ConsumeSplices(inbox[s], sn.cursor, turnSeq[s])
      /\ \A t \in Session : t # s =>
            snap'[t] = snap[t] /\ status'[t] = status[t] /\ inbox'[t] = inbox[t]
  BY DEF IInv, TypeOK, StoreTypeOK
<1>7. \A n \in Manager, t \in Session : ~(n = m /\ t = s) => cycle'[n][t] = cycle[n][t]
  BY DEF OneSlot
<1>8. \A t \in Session :
          /\ cut'[t] <= fence'[t]
          /\ fence'[t] <= MaxFence
          /\ RowsOK(status'[t], fence'[t], snap'[t], lastSeq'[t], inbox'[t])
  <2> SUFFICES ASSUME NEW t \in Session
               PROVE  /\ cut[t] <= fence[t]
                      /\ fence[t] <= MaxFence
                      /\ RowsOK(status'[t], fence[t], snap'[t], lastSeq[t], inbox'[t])
    OBVIOUS
  <2>1. CASE t = s
    BY <1>5, <1>6, <2>1 DEF IInv
  <2>2. CASE t # s
    BY <1>6, <2>2 DEF IInv
  <2> QED
    BY <2>1, <2>2
<1>9. LeaseUnique'
  <2>1. ~Live(m, s)'
    BY DEF Live
  <2>2. \A n \in Manager, t \in Session :
           Live(n, t)' => Live(n, t) /\ cycle'[n][t].fence = cycle[n][t].fence
    BY <1>7, <2>1 DEF Live
  <2> QED
    BY <2>2 DEF IInv, LeaseUnique
<1>10. \A n \in Manager, t \in Session :
           /\ HeldOK(cycle'[n][t], fence'[t])
           /\ EngOK(cycle'[n][t], fence'[t], turnSeq'[t], snap'[t], lastSeq'[t])
  <2> SUFFICES ASSUME NEW n \in Manager, NEW t \in Session
               PROVE  /\ HeldOK(cycle'[n][t], fence[t])
                      /\ EngOK(cycle'[n][t], fence[t], turnSeq'[t], snap'[t], lastSeq[t])
    OBVIOUS
  <2>1. CASE n = m /\ t = s
    BY <2>1 DEF HeldOK, EngOK
  <2>2. CASE n # m /\ t = s
    <3>1. HeldOK(cycle[n][s], fence[s])
      BY DEF IInv
    <3>2. Live(n, s) => cycle[n][s].fence # fence[s]
      BY <1>1, <2>2 DEF IInv, LeaseUnique, Live
    <3> QED
      BY <1>7, <2>2, <3>1, <3>2 DEF EngOK, Live
  <2>3. CASE t # s
    BY <1>6, <1>7, <2>3 DEF IInv
  <2> QED
    BY <2>1, <2>2, <2>3
<1> QED
  BY <1>8, <1>9, <1>10 DEF IInv

-----------------------------------------------------------------------------
(* What every step does: it keeps the invariant, and under the mapping of   *)
(* Activation it is a step of DurableInbox or invisible to it.              *)

StepOK == IInv' /\ [Inbox!Next]_(Inbox!inboxVars)

(* A step that accepts nothing and moves no cursor and no log. *)
LEMMA Invisible ==
    ASSUME UNCHANGED lastSeq,
           \A t \in Session : snap'[t].cursor = snap[t].cursor /\ snap'[t].conv = snap[t].conv
    PROVE  [Inbox!Next]_(Inbox!inboxVars)
<1>1. /\ [t \in Session |-> snap'[t].cursor] = [t \in Session |-> snap[t].cursor]
      /\ [t \in Session |-> snap'[t].conv] = [t \in Session |-> snap[t].conv]
  OBVIOUS
<1> QED
  BY <1>1 DEF Inbox!inboxVars

(* An appended row is an accepted input. *)
LEMMA Accepts ==
    ASSUME NEW s \in Session, UNCHANGED snap, lastSeq' = [lastSeq EXCEPT ![s] = @ + 1]
    PROVE  [Inbox!Next]_(Inbox!inboxVars)
<1>1. Inbox!Accept(s)
  BY DEF Inbox!Accept
<1> QED
  BY <1>1 DEF Inbox!Next

(* An accepted commit folds the next inputs of one session, or none. *)
LEMMA CommitFolds ==
    ASSUME IInv, NEW m \in Manager, NEW s \in Session, NEW sn \in Snapshot,
           cycle[m][s].pc = "running",
           CheckFence(s, cycle[m][s].fence),
           sn.cursor = cycle[m][s].eng.cursor,
           sn.conv = cycle[m][s].eng.conv,
           snap' = [snap EXCEPT ![s] = sn],
           UNCHANGED lastSeq
    PROVE  [Inbox!Next]_(Inbox!inboxVars)
<1> DEFINE cy == cycle[m][s]
           k  == snap[s].cursor
           c  == sn.cursor
<1>0. /\ cy.fence \in Nat /\ fence[s] \in Nat /\ snap[s] \in Snapshot /\ lastSeq[s] \in Nat
      /\ k \in Nat /\ c \in Nat /\ fence[s] <= MaxFence /\ MaxFence \in Nat
  BY SessionType, CycleFields, BoundAssumption DEF IInv, Snapshot
<1>1. cy.fence \in 1 .. fence[s]
  BY DEF IInv, HeldOK
<1>a. cy.fence = fence[s] /\ fence[s] \in 1 .. MaxFence
  BY <1>0, <1>1 DEF CheckFence
<1>2. PICK f \in 1 .. MaxFence : f = fence[s]
  BY <1>a
<1>3. c \in k .. lastSeq[s] /\ sn.conv = Extended(snap[s], c, f)
  BY <1>a, <1>2 DEF IInv, EngOK
<1>4. snap'[s] = sn /\ \A t \in Session : t # s => snap'[t] = snap[t]
  BY DEF IInv, TypeOK, StoreTypeOK
<1>5. CASE c = k
  <2>1. k + 1 .. k = {}
    BY <1>0
  <2>2. sn.conv = snap[s].conv
    BY <1>3, <1>5, <2>1 DEF Extended
  <2> QED
    BY <1>4, <1>5, <2>2, Invisible
<1>6. CASE c # k
  <2>1. k < c /\ c <= lastSeq[s] /\ c \in k + 1 .. lastSeq[s]
    BY <1>0, <1>3, <1>6
  <2> DEFINE cur  == [t \in Session |-> snap[t].cursor]
             logs == [t \in Session |-> snap[t].conv]
  <2>2. [t \in Session |-> snap'[t].cursor] = [cur EXCEPT ![s] = c]
    <3>1. \A t \in Session : snap'[t].cursor = IF t = s THEN sn.cursor ELSE snap[t].cursor
      BY <1>4
    <3>2. [cur EXCEPT ![s] = c] =
             [t \in Session |-> IF t = s THEN sn.cursor ELSE snap[t].cursor]
      OBVIOUS
    <3> QED
      BY <3>1, <3>2, Zenon
  <2> DEFINE new == snap[s].conv \cup {<<i, f>> : i \in k + 1 .. c}
  <2>3. [t \in Session |-> snap'[t].conv] = [logs EXCEPT ![s] = new]
    <3>1. sn.conv = new
      BY <1>3 DEF Extended
    <3> HIDE DEF new
    <3>2. \A t \in Session : snap'[t].conv = IF t = s THEN new ELSE snap[t].conv
      BY <1>4, <3>1
    <3>3. [logs EXCEPT ![s] = new] =
             [t \in Session |-> IF t = s THEN new ELSE snap[t].conv]
      OBVIOUS
    <3> QED
      BY <3>2, <3>3, Zenon
  <2>4. cur[s] = k /\ logs[s] = snap[s].conv
    OBVIOUS
  <2>5. [logs EXCEPT ![s] = new] =
           [logs EXCEPT ![s] = @ \cup {<<i, f>> : i \in cur[s] + 1 .. c}]
    BY <2>4
  <2>6. Inbox!Fold(s, c, f)
    BY <2>1, <2>2, <2>3, <2>4, <2>5 DEF Inbox!Fold
  <2>7. c \in cur[s] + 1 .. lastSeq[s]
    BY <2>1, <2>4
  <2>8. Inbox!Next
    <3>1. \E x \in [t \in Session |-> snap[t].cursor][s] + 1 .. lastSeq[s] : Inbox!Fold(s, x, f)
      BY <2>6, <2>7, Zenon
    <3>2. \E y \in 1 .. MaxFence :
             \E x \in [t \in Session |-> snap[t].cursor][s] + 1 .. lastSeq[s] : Inbox!Fold(s, x, y)
      BY <3>1, Zenon
    <3> QED
      BY <3>2, Zenon DEF Inbox!Next
  <2> QED
    BY <2>8
<1> QED
  BY <1>5, <1>6

-----------------------------------------------------------------------------
(* Every action is a step of one of these kinds.                            *)

(* The slots a task change leaves calm. *)
LEMMA CalmUpdate ==
    ASSUME TypeOK, NEW m \in Manager, NEW s \in Session, NEW cy,
           cycle' = [cycle EXCEPT ![m][s] = cy], Calm(cy, cycle[m][s])
    PROVE  \A n \in Manager, t \in Session : Calm(cycle'[n][t], cycle[n][t])
<1>1. cycle'[m][s] = cy /\ OneSlot(m, s)
  BY SlotUpdate DEF TypeOK
<1>2. \A n \in Manager, t \in Session : ~(n = m /\ t = s) => cycle'[n][t] = cycle[n][t]
  BY <1>1 DEF OneSlot
<1>3. \A n \in Manager, t \in Session :
         cycle'[n][t] = cycle[n][t] => Calm(cycle'[n][t], cycle[n][t])
  BY DEF Calm
<1> QED
  BY <1>1, <1>2, <1>3

LEMMA CalmSame ==
    ASSUME UNCHANGED cycle
    PROVE  \A n \in Manager, t \in Session : Calm(cycle'[n][t], cycle[n][t])
BY DEF Calm

(* A step that changes no row, no snapshot and no lease. *)
LEMMA QuietStep ==
    ASSUME IInv, TypeOK', UNCHANGED <<fence, turnSeq, snap, lastSeq, inbox, cut>>,
           \A n \in Manager, t \in Session : Calm(cycle'[n][t], cycle[n][t]),
           \A t \in Session :
              status'[t] = status[t] \/ status'[t] \notin {"idle", "absent"}
    PROVE  StepOK
<1>1. ASSUME NEW t \in Session
      PROVE  /\ lastSeq[t] <= lastSeq'[t]
             /\ RowsOK(status'[t], fence[t], snap'[t], lastSeq'[t], inbox'[t])
  <2>1. /\ fence[t] \in Nat /\ snap[t] \in Snapshot /\ lastSeq[t] \in Nat
        /\ RowsOK(status[t], fence[t], snap[t], lastSeq[t], inbox[t])
    BY SessionType DEF IInv
  <2>2. RowsOK(status'[t], fence[t], snap[t], lastSeq[t], inbox[t])
    BY <2>1, RowsStatus
  <2> QED
    BY <2>1, <2>2
<1>2. IInv'
  BY <1>1, CalmStep
<1> QED
  BY <1>2, Invisible DEF StepOK

(* One session's rows change, by an append, a prune or an edit. *)
LEMMA RowsStep ==
    ASSUME IInv, TypeOK', UNCHANGED <<fence, turnSeq, cut, cycle>>, NEW s \in Session,
           \A t \in Session : t # s =>
              /\ status'[t] = status[t] /\ snap'[t] = snap[t]
              /\ lastSeq'[t] = lastSeq[t] /\ inbox'[t] = inbox[t],
           lastSeq[s] <= lastSeq'[s],
           snap'[s].cursor = snap[s].cursor,
           snap'[s].conv = snap[s].conv,
           snap'[s].waiting = snap[s].waiting,
           snap'[s].epoch = snap[s].epoch,
           RowsOK(status'[s], fence[s], snap'[s], lastSeq'[s], inbox'[s])
    PROVE  IInv'
<1>1. ASSUME NEW t \in Session, t # s
      PROVE  /\ lastSeq[t] <= lastSeq'[t]
             /\ RowsOK(status'[t], fence[t], snap'[t], lastSeq'[t], inbox'[t])
  BY <1>1, SessionType DEF IInv
<1>2. \A n \in Manager, t \in Session : Calm(cycle'[n][t], cycle[n][t])
  BY CalmSame
<1> QED
  BY <1>1, <1>2, CalmStep

LEMMA InsertKeeps ==
    ASSUME IInv, TypeOK', UNCHANGED <<fence, turnSeq, snap, cut, cycle>>,
           NEW s \in Session, NEW op \in Op \cup {FirstInput}, NEW st,
           InsertSplice(s, op), st \notin {"idle", "absent"},
           status' = [status EXCEPT ![s] = st]
    PROVE  StepOK
<1>1. /\ fence[s] \in Nat /\ snap[s] \in Snapshot /\ lastSeq[s] \in Nat
      /\ inbox[s] \in [1 .. lastSeq[s] -> Row]
      /\ RowsOK(status[s], fence[s], snap[s], lastSeq[s], inbox[s])
  BY SessionType DEF IInv
<1>2. RowsOK(st, fence[s], snap[s], lastSeq[s] + 1, AppendRow(inbox[s], lastSeq[s], NewRow(op)))
  BY <1>1, RowsAppend
<1>3. /\ status'[s] = st
      /\ lastSeq'[s] = lastSeq[s] + 1
      /\ inbox'[s] = AppendRow(inbox[s], lastSeq[s], NewRow(op))
      /\ \A t \in Session : t # s =>
            status'[t] = status[t] /\ lastSeq'[t] = lastSeq[t] /\ inbox'[t] = inbox[t]
  BY DEF InsertSplice, IInv, TypeOK, StoreTypeOK
<1>4. IInv'
  BY <1>1, <1>2, <1>3, RowsStep
<1>5. [Inbox!Next]_(Inbox!inboxVars)
  BY Accepts DEF InsertSplice
<1> QED
  BY <1>4, <1>5 DEF StepOK

LEMMA ProducerKeeps ==
    ASSUME IInv, TypeOK', NEW s \in Session, Producer(s)
    PROVE  StepOK
<1>0. /\ TypeOK
      /\ fence[s] \in Nat /\ snap[s] \in Snapshot /\ lastSeq[s] \in Nat
      /\ inbox[s] \in [1 .. lastSeq[s] -> Row]
      /\ RowsOK(status[s], fence[s], snap[s], lastSeq[s], inbox[s])
  BY SessionType DEF IInv
<1>1. ASSUME CreateIdle(s), UNCHANGED managerVars PROVE StepOK
  <2>1. /\ status'[s] = "idle"
        /\ \A t \in Session : t # s => status'[t] = status[t]
        /\ UNCHANGED <<fence, turnSeq, snap, lastSeq, inbox, cut, cycle>>
    BY <1>1, <1>0 DEF CreateIdle, managerVars, TypeOK, StoreTypeOK
  <2>2. lastSeq[s] = 0 /\ snap[s].cursor = 0
    <3>1. lastSeq[s] = 0 /\ snap[s].cursor <= lastSeq[s]
      BY <1>0, <1>1 DEF CreateIdle, RowsOK
    <3>2. snap[s].cursor \in Nat
      BY <1>0 DEF Snapshot
    <3> QED
      BY <3>1, <3>2
  <2>3. RowsOK("idle", fence[s], snap[s], lastSeq[s], inbox[s])
    BY <1>0, <2>2 DEF RowsOK
  <2>4. IInv'
    BY <1>0, <2>1, <2>3, RowsStep
  <2> QED
    BY <2>1, <2>4, Invisible DEF StepOK
<1>2. ASSUME NEW withInput \in BOOLEAN, CreateRunnable(s, withInput), UNCHANGED managerVars
      PROVE  StepOK
  <2>1. UNCHANGED <<fence, turnSeq, snap, cut, cycle>> /\ status' = [status EXCEPT ![s] = "ready"]
    BY <1>2 DEF CreateRunnable, managerVars
  <2>2. CASE withInput
    <3>1. InsertSplice(s, FirstInput)
      BY <1>2, <2>2 DEF CreateRunnable
    <3> QED
      BY <2>1, <3>1, InsertKeeps
  <2>3. CASE ~withInput
    <3>1. UNCHANGED <<lastSeq, inbox>>
      BY <1>2, <2>3 DEF CreateRunnable
    <3>2. \A t \in Session : status'[t] = status[t] \/ status'[t] = "ready"
      BY <1>0, <2>1 DEF TypeOK, StoreTypeOK
    <3> QED
      BY <2>1, <3>1, <3>2, CalmSame, QuietStep
  <2> QED
    BY <2>2, <2>3
<1>3. CASE Edit(s)
  <2>1. /\ snap' = [snap EXCEPT ![s] = [snap[s] EXCEPT !.edits = snap[s].edits + 1]]
        /\ UNCHANGED <<status, fence, turnSeq, lastSeq, inbox, cut, cycle>>
    BY <1>3 DEF Edit, SwapSnapshotIfDormant
  <2> DEFINE sn == [snap[s] EXCEPT !.edits = snap[s].edits + 1]
  <2>2. /\ sn.cursor = snap[s].cursor /\ sn.conv = snap[s].conv
        /\ sn.waiting = snap[s].waiting /\ sn.epoch = snap[s].epoch
    BY <1>0 DEF Snapshot
  <2> HIDE DEF sn
  <2>3. snap'[s] = sn /\ \A t \in Session : t # s => snap'[t] = snap[t]
    BY <1>0, <2>1 DEF TypeOK, StoreTypeOK, sn
  <2>4. RowsOK(status[s], fence[s], sn, lastSeq[s], inbox[s])
    BY <1>0, <2>2 DEF RowsOK
  <2>5. IInv'
    BY <1>0, <2>1, <2>2, <2>3, <2>4, RowsStep
  <2>6. \A t \in Session : snap'[t].cursor = snap[t].cursor /\ snap'[t].conv = snap[t].conv
    BY <2>2, <2>3
  <2> QED
    BY <2>1, <2>5, <2>6, Invisible DEF StepOK
<1>4. CASE Prune(s)
  <2>1. PICK k \in 1 .. lastSeq[s] : PruneConsumedSplices(s, k)
    BY <1>4 DEF Prune
  <2>2. /\ inbox'[s] = PruneRows(inbox[s], k)
        /\ \A t \in Session : t # s => inbox'[t] = inbox[t]
        /\ UNCHANGED <<status, fence, turnSeq, snap, lastSeq, cut, cycle>>
    BY <1>0, <1>4, <2>1 DEF Prune, PruneConsumedSplices, managerVars, TypeOK, StoreTypeOK
  <2>3. k \in Nat
    BY <1>0
  <2>4. RowsOK(status[s], fence[s], snap[s], lastSeq[s], PruneRows(inbox[s], k))
    BY <1>0, <2>3, RowsPrune
  <2>5. IInv'
    BY <1>0, <2>2, <2>4, RowsStep
  <2> QED
    BY <2>2, <2>5, Invisible DEF StepOK
<1>5. CASE LeaseElsewhere(s)
  <2>1. IInv'
    BY <1>5, LeaseKeeps DEF LeaseElsewhere
  <2>2. UNCHANGED <<lastSeq, snap>>
    BY <1>5 DEF LeaseElsewhere, AcquireActivationLease
  <2> QED
    BY <2>1, <2>2, Invisible DEF StepOK
<1>6. ASSUME NEW j \in parked[s], Answer(s, j) PROVE StepOK
  <2>1. /\ UNCHANGED <<fence, turnSeq, snap, lastSeq, inbox, cut, cycle>>
        /\ status' = status \/ status' = [status EXCEPT ![s] = "ready"]
    BY <1>6 DEF Answer, AnswerApproval, managerVars
  <2>2. \A t \in Session : status'[t] = status[t] \/ status'[t] = "ready"
    BY <1>0, <2>1 DEF TypeOK, StoreTypeOK
  <2> QED
    BY <2>1, <2>2, CalmSame, QuietStep
<1> QED
  BY <1>1, <1>2, <1>3, <1>4, <1>5, <1>6 DEF Producer, Create

(* The steps of a waking caller. *)
LEMMA WakeKeeps ==
    ASSUME IInv, TypeOK', NEW m \in Manager, NEW s \in Session, Wake(m, s)
    PROVE  StepOK
<1>0. TypeOK /\ cycle[m][s] \in Cycle
  BY CycleFields DEF IInv
<1>1. CASE Assign(m, s)
  <2>1. /\ UNCHANGED <<fence, turnSeq, snap, lastSeq, inbox, cut, cycle>>
        /\ status' = [status EXCEPT ![s] = IF @ = "idle" THEN "ready" ELSE @]
    BY <1>1 DEF Assign, MarkReadyIfIdle
  <2>2. \A t \in Session : status'[t] = status[t] \/ status'[t] = "ready"
    BY <1>0, <2>1 DEF TypeOK, StoreTypeOK
  <2> QED
    BY <2>1, <2>2, CalmSame, QuietStep
<1>2. CASE DispatchWake(m, s)
  <2>1. UNCHANGED <<status, fence, turnSeq, snap, lastSeq, inbox, cut, cycle>>
    BY <1>2 DEF DispatchWake, DequeueWake
  <2> QED
    BY <2>1, CalmSame, QuietStep
<1>3. CASE ScanNext(m, s)
  <2>1. UNCHANGED <<status, fence, turnSeq, snap, lastSeq, inbox, cut, cycle>>
    BY <1>3 DEF ScanNext, storeVars
  <2> QED
    BY <2>1, CalmSame, QuietStep
<1>4. ASSUME NEW c \in Caller, Reserve(m, c, s) PROVE StepOK
  <2> DEFINE cy == [Vacant EXCEPT !.pc = "reserved", !.waiter = c]
  <2>1. UNCHANGED <<status, fence, turnSeq, snap, lastSeq, inbox, cut>>
    BY <1>4 DEF Reserve, storeVars
  <2>2. cy.pc = "reserved"
    BY DEF Vacant
  <2>3. cycle' = [cycle EXCEPT ![m][s] = cy]
    BY <1>4 DEF Reserve
  <2> HIDE DEF cy
  <2>4. Calm(cy, cycle[m][s])
    BY <2>2 DEF Calm
  <2> QED
    BY <1>0, <2>1, <2>3, <2>4, CalmUpdate, QuietStep
<1>5. ASSUME NEW c \in Caller, Absorb(m, c, s) PROVE StepOK
  <2> DEFINE cy == [cycle[m][s] EXCEPT !.mail = @ \/ HasMailbox(cycle[m][s])]
  <2>1. UNCHANGED <<status, fence, turnSeq, snap, lastSeq, inbox, cut>>
    BY <1>5 DEF Absorb, storeVars
  <2>2. Calm(cy, cycle[m][s])
    BY <1>0 DEF Calm, Cycle
  <2>3. cycle' = [cycle EXCEPT ![m][s] = cy]
    BY <1>5 DEF Absorb
  <2> HIDE DEF cy
  <2> QED
    BY <1>0, <2>1, <2>2, <2>3, CalmUpdate, QuietStep
<1> QED
  BY <1>1, <1>2, <1>3, <1>4, <1>5 DEF Wake

(* After a commit the slot cannot commit again before another lease. *)
LEMMA LeaveSlot ==
    ASSUME TypeOK, NEW m \in Manager, NEW s \in Session, LeaveCycle(m, s)
    PROVE  OneSlot(m, s) /\ cycle'[m][s].pc = "exiting"
<1>1. cycle' = [cycle EXCEPT ![m][s] = Exiting(cycle[m][s])]
  BY DEF LeaveCycle
<1>2. Exiting(cycle[m][s]).pc = "exiting"
  BY DEF Exiting, Vacant
<1> QED
  BY <1>1, <1>2, SlotUpdate DEF TypeOK

LEMMA GoOnSlot ==
    ASSUME TypeOK, NEW m \in Manager, NEW s \in Session, NEW eng, NEW pend, NEW next,
           GoOn(m, s, eng, pend, next)
    PROVE  OneSlot(m, s) /\ cycle'[m][s].pc \notin {"leased", "running"}
<1>1. CASE ~Linger
  BY <1>1, LeaveSlot DEF GoOn
<1>2. CASE Linger
  <2> DEFINE cy == [cycle[m][s] EXCEPT
                 !.pc       = IF next = "ready" THEN "again" ELSE "register",
                 !.eng      = eng,
                 !.pend     = pend,
                 !.resident = TRUE,
                 !.loaded   = {},
                 !.foldOnly = FALSE,
                 !.waiter   = None]
  <2>1. cycle[m][s] \in Cycle
    BY CycleFields
  <2>2. cy.pc \in {"again", "register"}
    BY <2>1 DEF Cycle
  <2>3. cycle' = [cycle EXCEPT ![m][s] = cy]
    BY <1>2 DEF GoOn
  <2> HIDE DEF cy
  <2> QED
    BY <2>2, <2>3, SlotUpdate DEF TypeOK
<1> QED
  BY <1>1, <1>2

LEMMA EndTurnKeeps ==
    ASSUME IInv, TypeOK', NEW m \in Manager, NEW s \in Session,
           NEW eng \in Snapshot, NEW pend, UNCHANGED cut,
           cycle[m][s].pc = "running",
           eng.cursor = cycle[m][s].eng.cursor, eng.conv = cycle[m][s].eng.conv,
           EndTurn(m, s, eng, pend)
    PROVE  StepOK
<1> DEFINE rows == ConsumeSplices(inbox[s], eng.cursor, turnSeq[s])
           comps == completions[s] \ cycle[m][s].loaded
           st == TurnStatus(rows, comps)
<1>1. OneSlot(m, s) /\ cycle'[m][s].pc \notin {"leased", "running"}
  BY GoOnSlot DEF EndTurn, IInv
<1>2. /\ CheckFence(s, cycle[m][s].fence)
      /\ snap' = [snap EXCEPT ![s] = eng]
      /\ inbox' = [inbox EXCEPT ![s] = rows]
      /\ status' = [status EXCEPT ![s] = st]
      /\ turnSeq' = [turnSeq EXCEPT ![s] = @ + 1]
      /\ UNCHANGED <<fence, lastSeq>>
  BY DEF EndTurn, CommitTurn
<1>3. st # "absent" /\ (st = "idle" => Unconsumed(rows) = {})
  BY DEF TurnStatus
<1>4. \A t \in Session : t # s => turnSeq'[t] = turnSeq[t]
  BY <1>2 DEF IInv, TypeOK, StoreTypeOK
<1> HIDE DEF st
<1>5. IInv'
  BY <1>1, <1>2, <1>3, <1>4, CommitKeeps
<1>6. [Inbox!Next]_(Inbox!inboxVars)
  BY <1>2, CommitFolds
<1> QED
  BY <1>5, <1>6 DEF StepOK

LEMMA FinishKeeps ==
    ASSUME IInv, TypeOK', NEW m \in Manager, NEW s \in Session,
           NEW eng \in Snapshot, NEW pend, UNCHANGED cut,
           cycle[m][s].pc = "running",
           eng.cursor = cycle[m][s].eng.cursor, eng.conv = cycle[m][s].eng.conv,
           Finish(m, s, eng, pend)
    PROVE  StepOK
<1>1. CASE s \in Interactive
  BY <1>1, EndTurnKeeps DEF Finish
<1>2. CASE s \notin Interactive
  <2>1. OneSlot(m, s) /\ cycle'[m][s].pc = "exiting"
    BY <1>2, LeaveSlot DEF Finish, IInv
  <2>2. /\ CheckFence(s, cycle[m][s].fence)
        /\ snap' = [snap EXCEPT ![s] = eng]
        /\ inbox' = [inbox EXCEPT ![s] = ConsumeSplices(@, eng.cursor, turnSeq[s])]
        /\ status' = [status EXCEPT ![s] = "completed"]
        /\ turnSeq' = [turnSeq EXCEPT ![s] = @ + 1]
        /\ UNCHANGED <<fence, lastSeq>>
    BY <1>2 DEF Finish, MarkCompleted
  <2>3. \A t \in Session : t # s => turnSeq'[t] = turnSeq[t]
    BY <2>2 DEF IInv, TypeOK, StoreTypeOK
  <2>4. IInv'
    BY <2>1, <2>2, <2>3, CommitKeeps
  <2>5. [Inbox!Next]_(Inbox!inboxVars)
    BY <2>2, CommitFolds
  <2> QED
    BY <2>4, <2>5 DEF StepOK
<1> QED
  BY <1>1, <1>2

LEMMA SuspendKeeps ==
    ASSUME IInv, TypeOK', NEW m \in Manager, NEW s \in Session,
           NEW eng \in Snapshot, UNCHANGED cut,
           cycle[m][s].pc = "running",
           eng.cursor = cycle[m][s].eng.cursor, eng.conv = cycle[m][s].eng.conv,
           Suspend(m, s, eng)
    PROVE  StepOK
<1>1. OneSlot(m, s) /\ cycle'[m][s].pc = "exiting"
  BY LeaveSlot DEF Suspend, IInv
<1>2. /\ CheckFence(s, cycle[m][s].fence)
      /\ snap' = [snap EXCEPT ![s] = eng]
      /\ inbox' = [inbox EXCEPT ![s] = ConsumeSplices(@, eng.cursor, turnSeq[s])]
      /\ status' = [status EXCEPT ![s] = "suspended"]
      /\ UNCHANGED <<fence, lastSeq, turnSeq>>
  BY DEF Suspend, CheckpointAndEnqueue, ParkApproval
<1>3. IInv'
  BY <1>1, <1>2, CommitKeeps
<1>4. [Inbox!Next]_(Inbox!inboxVars)
  BY <1>2, CommitFolds
<1> QED
  BY <1>3, <1>4 DEF StepOK

(* The steps of a turn.  A commit adds neither to the cursor nor to the log *)
(* of the loaded engine. *)
LEMMA TurnKeeps ==
    ASSUME IInv, TypeOK', NEW m \in Manager, NEW s \in Session, Turn(m, s)
    PROVE  StepOK
<1> DEFINE cy == cycle[m][s]
           e  == cy.eng
<1>0. /\ TypeOK /\ cy \in Cycle /\ e \in Snapshot
      /\ cy.pend \in SUBSET JobId /\ e.epoch \in Nat /\ e.waiting \in SUBSET JobId
  BY CycleFields DEF IInv, Cycle, Snapshot
<1>r. \E n \in Nat : Resumed(cy) = [e EXCEPT !.waiting = {}, !.epoch = n]
  <2>1. \/ Resumed(cy) = [e EXCEPT !.waiting = {}, !.epoch = e.epoch]
        \/ Resumed(cy) = [e EXCEPT !.waiting = {}, !.epoch = e.epoch + 1]
    BY DEF Resumed
  <2>2. e.epoch \in Nat /\ e.epoch + 1 \in Nat
    BY <1>0
  <2> HIDE DEF e
  <2> QED
    BY <2>1, <2>2
<1>s. /\ Resumed(cy) \in Snapshot
      /\ Resumed(cy).cursor = e.cursor /\ Resumed(cy).conv = e.conv
      /\ Resumed(cy).epoch \in Nat
  <2>1. {} \in SUBSET JobId
    OBVIOUS
  <2>2. PICK n \in Nat : Resumed(cy) = [e EXCEPT !.waiting = {}, !.epoch = n]
    BY <1>r
  <2> DEFINE x == Resumed(cy)
  <2>3. x = [e EXCEPT !.waiting = {}, !.epoch = n]
    BY <2>2
  <2> HIDE DEF e, cy, x
  <2>4. x \in Snapshot /\ x.cursor = e.cursor /\ x.conv = e.conv /\ x.epoch = n
    BY <1>0, <2>1, <2>3 DEF Snapshot
  <2> QED
    BY <2>4 DEF x
<1>1. CASE Lease(m, s)
  <2> DEFINE new == [cycle[m][s] EXCEPT !.pc = "leased", !.fence = fence'[s]]
  <2>1. cycle' = [cycle EXCEPT ![m][s] = new]
    BY <1>1, <1>0 DEF Lease, Cycle
  <2>2. new.pc = "leased" /\ new.fence = fence'[s]
    BY <1>0 DEF Cycle
  <2> HIDE DEF new
  <2>3. OneSlot(m, s) /\ cycle'[m][s] = new
    BY <1>0, <2>1, SlotUpdate DEF TypeOK
  <2>4. IInv'
    BY <1>1, <2>2, <2>3, LeaseKeeps DEF Lease
  <2>5. UNCHANGED <<lastSeq, snap>>
    BY <1>1 DEF Lease, AcquireActivationLease
  <2> QED
    BY <2>4, <2>5, Invisible DEF StepOK
<1>2. CASE Activate(m, s)
  <2>1. IInv'
    BY <1>2, ActivateKeeps
  <2>2. UNCHANGED <<lastSeq, snap>>
    BY <1>2 DEF Activate, storeVars
  <2> QED
    BY <2>1, <2>2, Invisible DEF StepOK
<1>3. CASE Load(m, s)
  <2>1. IInv'
    BY <1>3, LoadKeeps
  <2>2. UNCHANGED <<lastSeq, snap>>
    BY <1>3 DEF Load, LoadForActivation
  <2> QED
    BY <2>1, <2>2, Invisible DEF StepOK
<1>4. CASE FoldOnly(m, s)
  BY <1>4, <1>0, EndTurnKeeps DEF FoldOnly
<1>5. CASE Interrupt(m, s)
  BY <1>5, <1>0, FinishKeeps DEF Interrupt
<1>6. CASE Resuspend(m, s)
  <2> DEFINE eng == [e EXCEPT !.waiting = StillWaiting(cy)]
  <2>1. StillWaiting(cy) \in SUBSET JobId
    BY <1>0 DEF StillWaiting
  <2>2. eng \in Snapshot /\ eng.cursor = e.cursor /\ eng.conv = e.conv
    BY <1>0, <2>1 DEF Snapshot
  <2>3. Suspend(m, s, eng) /\ cy.pc = "running" /\ UNCHANGED cut
    BY <1>6 DEF Resuspend
  <2> HIDE DEF eng
  <2> QED
    BY <2>2, <2>3, SuspendKeeps
<1>7. CASE RunToEnd(m, s)
  BY <1>7, <1>s, FinishKeeps DEF RunToEnd, RunsModel
<1>8. CASE RunToSuspension(m, s)
  <2>1. PICK ks \in {{0}} \cup {1 .. n : n \in 1 .. MaxApprovals} :
          Suspend(m, s, [Resumed(cy) EXCEPT
              !.waiting = {[epoch |-> cy.eng.epoch + 1, k |-> k] : k \in ks},
              !.epoch   = @ + 1])
    BY <1>8 DEF RunToSuspension
  <2> DEFINE w   == {[epoch |-> cy.eng.epoch + 1, k |-> k] : k \in ks}
             r   == Resumed(cy)
             eng == [r EXCEPT !.waiting = w, !.epoch = r.epoch + 1]
  <2>2. \A k \in ks : k \in 0 .. MaxApprovals
    BY ApprovalAssumption
  <2>3. cy.eng.epoch + 1 \in Nat
    BY <1>0
  <2>4. w \in SUBSET JobId
    BY <2>2, <2>3 DEF JobId
  <2>5. r \in Snapshot /\ r.epoch + 1 \in Nat
    BY <1>s
  <2>6. Suspend(m, s, eng)
    BY <2>1
  <2> HIDE DEF w, r
  <2>a. eng = [r EXCEPT !.waiting = w, !.epoch = r.epoch + 1]
    OBVIOUS
  <2> HIDE DEF eng
  <2>7. eng \in Snapshot /\ eng.cursor = r.cursor /\ eng.conv = r.conv
    BY <2>4, <2>5, <2>a DEF Snapshot
  <2>8. cy.pc = "running" /\ UNCHANGED cut
    BY <1>8 DEF RunToSuspension, RunsModel
  <2> QED
    BY <1>s, <2>6, <2>7, <2>8, SuspendKeeps DEF r
<1>9. CASE Fenced(m, s) \/ Fail(m, s) \/ DropSlot(m, s)
  <2>1. UNCHANGED <<status, fence, turnSeq, snap, lastSeq, inbox, cut>>
    BY <1>9 DEF Fenced, Fail, DropSlot, storeVars
  <2>2. \/ cycle' = [cycle EXCEPT ![m][s] = Exiting(cycle[m][s])]
        \/ cycle' = [cycle EXCEPT ![m][s] = Vacant]
    BY <1>9 DEF Fenced, Fail, DropSlot, LeaveCycle
  <2>3. Calm(Exiting(cycle[m][s]), cycle[m][s]) /\ Calm(Vacant, cycle[m][s])
    BY DEF Calm, Exiting, Vacant
  <2> QED
    BY <1>0, <2>1, <2>2, <2>3, CalmUpdate, QuietStep
<1> QED
  BY <1>1, <1>2, <1>3, <1>4, <1>5, <1>6, <1>7, <1>8, <1>9 DEF Turn

LEMMA LingerKeeps ==
    ASSUME IInv, TypeOK', NEW m \in Manager, NEW s \in Session, LingerStep(m, s)
    PROVE  StepOK
<1> DEFINE cy == cycle[m][s]
<1>0. TypeOK /\ cy \in Cycle
  BY CycleFields DEF IInv
<1>1. UNCHANGED <<status, fence, turnSeq, snap, lastSeq, inbox, cut>>
  BY DEF LingerStep, LingerRegister, LingerCheck, LingerNotified, LingerTimeout,
         LingerRecheck, storeVars
<1>2. \/ \E pc \in {"check", "linger", "again"} :
            cycle' = [cycle EXCEPT ![m][s] = [cy EXCEPT !.pc = pc]]
      \/ cycle' = [cycle EXCEPT ![m][s] = [cy EXCEPT !.pc = "recheck", !.mail = FALSE]]
      \/ cycle' = [cycle EXCEPT ![m][s] = Exiting(cy)]
  <2>1. CASE LingerRegister(m, s)
    BY <2>1 DEF LingerRegister
  <2>2. CASE LingerCheck(m, s)
    BY <2>2, <1>0 DEF LingerCheck, Cycle
  <2>3. CASE LingerNotified(m, s)
    BY <2>3, <1>0 DEF LingerNotified, Cycle
  <2>4. CASE LingerTimeout(m, s)
    BY <2>4 DEF LingerTimeout, LeaveCycle
  <2>5. CASE LingerRecheck(m, s)
    BY <2>5 DEF LingerRecheck
  <2> QED
    BY <2>1, <2>2, <2>3, <2>4, <2>5 DEF LingerStep
<1>3. ASSUME NEW pc \in {"check", "linger", "again"} PROVE Calm([cy EXCEPT !.pc = pc], cy)
  BY <1>0 DEF Calm, Cycle
<1>4. Calm([cy EXCEPT !.pc = "recheck", !.mail = FALSE], cy)
  BY <1>0 DEF Calm, Cycle
<1>5. Calm(Exiting(cy), cy)
  BY DEF Calm, Exiting, Vacant
<1>6. \A n \in Manager, t \in Session : Calm(cycle'[n][t], cycle[n][t])
  BY <1>0, <1>2, <1>3, <1>4, <1>5, CalmUpdate
<1> QED
  BY <1>1, <1>6, QuietStep

(* The slots of a lost process are vacant. *)
LEMMA CrashCalm ==
    ASSUME TypeOK, NEW m \in Manager, LoseProcess(m)
    PROVE  \A n \in Manager, t \in Session : Calm(cycle'[n][t], cycle[n][t])
<1>1. \A n \in Manager, t \in Session :
         cycle'[n][t] = cycle[n][t] \/ cycle'[n][t] = Vacant
  BY DEF LoseProcess, TypeOK
<1>2. Vacant.pc = "none"
  BY DEF Vacant
<1> QED
  BY <1>1, <1>2 DEF Calm

LEMMA SubmitKeeps ==
    ASSUME IInv, TypeOK', NEW m \in Manager, NEW s \in Session, NEW op \in Op,
           Submit(m, s, op)
    PROVE  StepOK
<1>1. UNCHANGED <<fence, turnSeq, snap, cut, cycle>>
  BY DEF Submit, AppendSplice
<1>2. CASE UNCHANGED <<lastSeq, inbox, status>>
  BY <1>1, <1>2, CalmSame, QuietStep
<1>3. CASE /\ InsertSplice(s, op)
           /\ status' = [status EXCEPT ![s] = IF @ = "idle" THEN "ready" ELSE @]
  <2> DEFINE st == IF status[s] = "idle" THEN "ready" ELSE status[s]
  <2>1. st \notin {"idle", "absent"}
    BY DEF Submit, AppendSplice
  <2>2. status' = [status EXCEPT ![s] = st]
    BY <1>3
  <2> HIDE DEF st
  <2> QED
    BY <1>1, <1>3, <2>1, <2>2, InsertKeeps
<1> QED
  BY <1>2, <1>3 DEF Submit, AppendSplice

LEMMA WorkKeeps ==
    ASSUME IInv, TypeOK', NEW m \in Manager, NEW s \in Session, Work(m, s)
    PROVE  StepOK
<1>0. TypeOK
  BY DEF IInv
<1>1. CASE SubmitAppend(m, s) \/ SubmitRetry(m, s)
  BY <1>1, SubmitKeeps DEF SubmitAppend, SubmitRetry
<1>2. CASE SubmitReopen(m, s)
  <2>1. /\ UNCHANGED <<fence, turnSeq, snap, lastSeq, inbox, cut, cycle>>
        /\ status' = [status EXCEPT ![s] = IF @ = "completed" THEN "ready" ELSE @]
    BY <1>2 DEF SubmitReopen, ReopenIfSettled
  <2>2. \A t \in Session : status'[t] = status[t] \/ status'[t] = "ready"
    BY <1>0, <2>1 DEF TypeOK, StoreTypeOK
  <2> QED
    BY <2>1, <2>2, CalmSame, QuietStep
<1>3. CASE SubmitWake(m, s) \/ WorkerPublish(m, s)
  <2>1. UNCHANGED <<status, fence, turnSeq, snap, lastSeq, inbox, cut, cycle>>
    BY <1>3 DEF SubmitWake, WorkerPublish, EnqueueWake
  <2> QED
    BY <2>1, CalmSame, QuietStep
<1>4. ASSUME NEW j, WorkerPop(m, s, j) PROVE StepOK
  <2>1. UNCHANGED <<status, fence, turnSeq, snap, lastSeq, inbox, cut, cycle>>
    BY <1>4 DEF WorkerPop, DequeueJob
  <2> QED
    BY <2>1, CalmSame, QuietStep
<1>5. CASE WorkerRecord(m, s)
  <2>1. /\ UNCHANGED <<fence, turnSeq, snap, lastSeq, inbox, cut, cycle>>
        /\ status' = [status EXCEPT ![s] = "ready"]
    BY <1>5 DEF WorkerRecord, RecordCompletion
  <2>2. \A t \in Session : status'[t] = status[t] \/ status'[t] = "ready"
    BY <1>0, <2>1 DEF TypeOK, StoreTypeOK
  <2> QED
    BY <2>1, <2>2, CalmSame, QuietStep
<1>6. CASE CrashInRecord(m, s)
  <2>1. UNCHANGED <<status, fence, turnSeq, snap, lastSeq, inbox, cut>>
    BY <1>6 DEF CrashInRecord, RecordCompletionOnly, LoseProcess
  <2>2. \A n \in Manager, t \in Session : Calm(cycle'[n][t], cycle[n][t])
    BY <1>0, <1>6, CrashCalm DEF CrashInRecord
  <2> QED
    BY <2>1, <2>2, QuietStep
<1> QED
  BY <1>1, <1>2, <1>3, <1>4, <1>5, <1>6 DEF Work

LEMMA InitIInv == Init => IInv
<1> SUFFICES ASSUME Init PROVE IInv
  OBVIOUS
<1>1. TypeOK
  BY InitType
<1>2. Vacant.pc = "none"
  BY DEF Vacant
<1>3. \A m \in Manager, s \in Session : cycle[m][s].pc = "none"
  BY <1>2 DEF Init
<1>4. LeaseUnique
  BY <1>3 DEF LeaseUnique, Live
<1>5. \A s \in Session :
          /\ status[s] = "absent" /\ fence[s] = 0 /\ cut[s] = 0 /\ lastSeq[s] = 0
          /\ snap[s].cursor = 0 /\ snap[s].conv = {}
  BY DEF Init, StoreInit, FreshSnapshot
<1>6. ExactLog({}, 0)
  BY DEF ExactLog
<1>7. \A s \in Session : RowsOK(status[s], fence[s], snap[s], lastSeq[s], inbox[s])
  BY <1>5, <1>6 DEF RowsOK
<1> QED
  BY <1>1, <1>3, <1>4, <1>5, <1>7, BoundAssumption DEF IInv, HeldOK, EngOK

LEMMA NextIInv == IInv /\ [Next]_vars => StepOK
<1> SUFFICES ASSUME IInv, [Next]_vars PROVE StepOK
  OBVIOUS
<1>0. TypeOK /\ TypeOK'
  BY NextType DEF IInv
<1>1. ASSUME NEW s \in Session, Producer(s) PROVE StepOK
  BY <1>0, <1>1, ProducerKeeps
<1>2. ASSUME NEW m \in Manager, NEW s \in Session,
             Wake(m, s) \/ Turn(m, s) \/ LingerStep(m, s) \/ Work(m, s)
      PROVE  StepOK
  BY <1>0, <1>2, WakeKeeps, TurnKeeps, LingerKeeps, WorkKeeps
<1>3. ASSUME NEW m \in Manager, Crash(m) PROVE StepOK
  <2>1. UNCHANGED <<status, fence, turnSeq, snap, lastSeq, inbox, cut>>
    BY <1>3 DEF Crash, LoseProcess, storeVars
  <2>2. \A n \in Manager, t \in Session : Calm(cycle'[n][t], cycle[n][t])
    BY <1>0, <1>3, CrashCalm DEF Crash
  <2> QED
    BY <1>0, <2>1, <2>2, QuietStep
<1>4. ASSUME NEW m \in Manager, ScanResumable(m) \/ \E c \in Caller : CheckStatus(m, c)
      PROVE  StepOK
  <2>1. UNCHANGED <<status, fence, turnSeq, snap, lastSeq, inbox, cut, cycle>>
    BY <1>4 DEF ScanResumable, CheckStatus, storeVars
  <2> QED
    BY <1>0, <2>1, CalmSame, QuietStep
<1>5. CASE UNCHANGED vars
  <2>1. UNCHANGED <<status, fence, turnSeq, snap, lastSeq, inbox, cut, cycle>>
    BY <1>5 DEF vars, storeVars, managerVars
  <2> QED
    BY <1>0, <2>1, CalmSame, QuietStep
<1> QED
  BY <1>1, <1>2, <1>3, <1>4, <1>5 DEF Next

(* The inductive invariant holds in every reachable state, for any number   *)
(* of processes, sessions, leases and splices.                              *)
THEOREM Inductive == Spec => []IInv
<1>1. Init => IInv
  BY InitIInv
<1>2. IInv /\ [Next]_vars => IInv'
  BY NextIInv DEF StepOK
<1> QED
  BY <1>1, <1>2, PTL DEF Spec

(* No two live incarnations hold the same activation lease: the mutual      *)
(* exclusion that every fenced commit relies on (acquire_activation_lease). *)
THEOREM LeasesUnique == Spec => []LeaseUnique
<1>1. IInv => LeaseUnique
  BY DEF IInv
<1> QED
  BY <1>1, Inductive, PTL

(* Whatever check_fence accepts comes from an incarnation hydrated from the *)
(* very row the commit replaces, in the turn the row is in.                 *)
THEOREM OnlyFreshCommits == Spec => []CommitsFresh
<1>1. IInv => CommitsFresh
  <2> SUFFICES ASSUME IInv, NEW m \in Manager, NEW s \in Session,
                      cycle[m][s].pc = "running", cycle[m][s].fence = fence[s]
               PROVE  /\ cycle[m][s].turn = turnSeq[s]
                      /\ cycle[m][s].eng.waiting = snap[s].waiting
                      /\ cycle[m][s].eng.epoch = snap[s].epoch
                      /\ cycle[m][s].eng.cursor >= snap[s].cursor
                      /\ snap[s].conv \subseteq cycle[m][s].eng.conv
    BY DEF CommitsFresh
  <2>1. EngOK(cycle[m][s], fence[s], turnSeq[s], snap[s], lastSeq[s])
    BY DEF IInv
  <2>2. snap[s].cursor \in Nat /\ lastSeq[s] \in Nat
    BY SessionType DEF IInv, Snapshot
  <2>3. cycle[m][s].eng.cursor >= snap[s].cursor
    BY <2>1, <2>2 DEF EngOK
  <2>4. snap[s].conv \subseteq cycle[m][s].eng.conv
    BY <2>1 DEF EngOK, Extended
  <2> QED
    BY <2>1, <2>3, <2>4 DEF EngOK
<1> QED
  BY <1>1, Inductive, PTL

(* Every accepted splice up to the cursor is in the stored conversation     *)
(* exactly once, and the consumed rows are exactly that prefix, however     *)
(* incarnations are fenced, crashed and re-claimed.                         *)
THEOREM FoldedExactlyOnce == Spec => []ExactlyOnce
<1>1. IInv => ExactlyOnce
  BY DEF IInv, RowsOK, ExactlyOnce
<1> QED
  BY <1>1, Inductive, PTL

(* Nothing is left behind in an Idle session, which no service looks at:    *)
(* commit_turn's Ready-or-Idle choice and append_splice's flip leave no gap. *)
THEOREM NothingStrandedIdle == Spec => []NoStrandedIdle
<1>1. IInv => NoStrandedIdle
  <2> SUFFICES ASSUME IInv, NEW s \in Session, status[s] = "idle"
               PROVE  Unconsumed(inbox[s]) = {}
    BY DEF NoStrandedIdle
  <2>1. /\ RowsOK(status[s], fence[s], snap[s], lastSeq[s], inbox[s])
        /\ inbox[s] \in [1 .. lastSeq[s] -> Row] /\ lastSeq[s] \in Nat
    BY SessionType DEF IInv
  <2>2. \A i \in 1 .. lastSeq[s] : Settled(inbox[s][i])
    BY <2>1 DEF RowsOK
  <2>3. \A i \in DOMAIN inbox[s] : inbox[s][i].claim \notin {"pending", "claimed"}
    BY <2>1, <2>2 DEF Settled
  <2> QED
    BY <2>3 DEF Unconsumed
<1> QED
  BY <1>1, Inductive, PTL

(* The substrate implements the durable inbox: to a producer, leases,       *)
(* claims, crashes, retries and pruning are invisible, and all that is ever *)
(* seen is inputs accepted in order and folded in order by one incarnation. *)
THEOREM InboxImplemented == Spec => ImplementsInbox
<1>1. Init => Inbox!Init
  BY DEF Init, StoreInit, FreshSnapshot, Inbox!Init
<1>2. IInv /\ [Next]_vars => [Inbox!Next]_(Inbox!inboxVars)
  BY NextIInv DEF StepOK
<1> QED
  BY <1>1, <1>2, Inductive, PTL DEF Spec, ImplementsInbox, Inbox!Spec

-----------------------------------------------------------------------------
(* What a step does beyond the rows: to the fields of a snapshot that rows   *)
(* do not tell, to completions and approvals, and to the status.            *)

(* The session's snapshot is at most edited, while nobody runs it, and a    *)
(* completion is all that can take it out of Active.                        *)
Milder(t) ==
    /\ snap'[t].waiting = snap[t].waiting /\ snap'[t].epoch = snap[t].epoch
    /\ \/ snap'[t].edits = snap[t].edits
       \/ snap'[t].edits = snap[t].edits + 1 /\ status[t] # "active"
    /\ completions[t] \subseteq completions'[t]
    /\ answered'[t] \subseteq answered[t] \cup (completions'[t] \cap parked[t])
    /\ status[t] = "active" =>
          status'[t] = "active" \/ ~(completions'[t] \subseteq completions[t])

NoCut == budget["cut"] = 0 => budget'["cut"] = 0

(* A step that takes no lease, loads nothing and commits nothing.           *)
Tame ==
    /\ UNCHANGED <<fence, cut, parked>>
    /\ \A n \in Manager, t \in Session : Calm(cycle'[n][t], cycle[n][t])
    /\ NoCut
    /\ \A t \in Session : Milder(t)

LEMMA SpendOther ==
    ASSUME TypeOK, NEW e \in EnvEvent \ {"cut"}, Spend(e)
    PROVE  NoCut
BY DEF Spend, NoCut, TypeOK, EnvEvent

LEMMA MildSame ==
    ASSUME UNCHANGED <<snap, completions, answered>>,
           \A t \in Session : status[t] = "active" => status'[t] = "active"
    PROVE  \A t \in Session : Milder(t)
BY DEF Milder

LEMMA ProducerTame ==
    ASSUME TypeOK, NEW s \in Session, Producer(s)
    PROVE  LeaseElsewhere(s) \/ Tame
<1>1. CASE Create(s)
  <2>1. /\ UNCHANGED <<fence, cut, parked, cycle, budget, snap, completions, answered>>
        /\ status[s] = "absent" /\ \E st : status' = [status EXCEPT ![s] = st]
    BY <1>1 DEF Create, CreateIdle, CreateRunnable, managerVars
  <2>2. \A t \in Session : status[t] = "active" => status'[t] = "active"
    BY <2>1 DEF TypeOK, StoreTypeOK
  <2> QED BY <2>1, <2>2, CalmSame, MildSame DEF Tame, NoCut
<1>2. CASE Edit(s)
  <2>1. /\ UNCHANGED <<fence, cut, parked, cycle, status, completions, answered>>
        /\ status[s] # "active" /\ Spend("edit")
        /\ snap' = [snap EXCEPT ![s] = [snap[s] EXCEPT !.edits = snap[s].edits + 1]]
    BY <1>2 DEF Edit, SwapSnapshotIfDormant
  <2> DEFINE sn == [snap[s] EXCEPT !.edits = snap[s].edits + 1]
  <2>2. snap[s] \in Snapshot
    BY SessionType
  <2>3. /\ sn.waiting = snap[s].waiting /\ sn.epoch = snap[s].epoch
        /\ sn.edits = snap[s].edits + 1
    BY <2>2 DEF Snapshot
  <2>4. snap'[s] = sn /\ \A t \in Session : t # s => snap'[t] = snap[t]
    BY <2>1 DEF TypeOK, StoreTypeOK
  <2> HIDE DEF sn
  <2>5. \A t \in Session : Milder(t)
    BY <2>1, <2>3, <2>4 DEF Milder
  <2>6. NoCut
    BY <2>1, SpendOther DEF EnvEvent
  <2> QED BY <2>1, <2>5, <2>6, CalmSame DEF Tame
<1>3. CASE Prune(s)
  <2>1. UNCHANGED <<fence, cut, parked, cycle, budget, snap, completions, answered, status>>
    BY <1>3 DEF Prune, PruneConsumedSplices, managerVars
  <2> QED BY <2>1, CalmSame, MildSame DEF Tame, NoCut
<1>4. ASSUME NEW j \in parked[s], Answer(s, j) PROVE Tame
  <2>1. /\ UNCHANGED <<fence, cut, parked, cycle, budget, snap>>
        /\ answered' = [answered EXCEPT ![s] = @ \cup {j}]
        /\ completions' = [completions EXCEPT ![s] = @ \cup {j}]
        /\ \/ status' = status
           \/ j \notin completions[s] /\ status' = [status EXCEPT ![s] = "ready"]
    BY <1>4 DEF Answer, AnswerApproval, managerVars
  <2>2. /\ completions'[s] = completions[s] \cup {j} /\ answered'[s] = answered[s] \cup {j}
        /\ status'[s] = status[s] \/ j \notin completions[s]
        /\ \A t \in Session : t # s =>
              /\ completions'[t] = completions[t] /\ answered'[t] = answered[t]
              /\ status'[t] = status[t]
    BY <2>1 DEF TypeOK, StoreTypeOK
  <2>3. Milder(s)
    BY <2>1, <2>2 DEF Milder
  <2>4. \A t \in Session : t # s => Milder(t)
    BY <2>1, <2>2 DEF Milder
  <2> QED BY <2>1, <2>3, <2>4, CalmSame DEF Tame, NoCut
<1> QED BY <1>1, <1>2, <1>3, <1>4 DEF Producer

LEMMA WakeTame ==
    ASSUME TypeOK, NEW m \in Manager, NEW s \in Session, Wake(m, s)
    PROVE  Tame
<1>0. cycle[m][s] \in Cycle
  BY CycleFields
<1>1. /\ UNCHANGED <<fence, cut, parked, snap, completions, answered>>
      /\ \A t \in Session : status[t] = "active" => status'[t] = "active"
      /\ NoCut
  <2>1. CASE Assign(m, s)
    <3>1. /\ UNCHANGED <<fence, cut, parked, snap, completions, answered>>
          /\ status' = [status EXCEPT ![s] = IF @ = "idle" THEN "ready" ELSE @]
          /\ Spend("assign")
      BY <2>1 DEF Assign, MarkReadyIfIdle
    <3>2. NoCut
      BY <3>1, SpendOther DEF EnvEvent
    <3>3. \A t \in Session : status[t] = "active" => status'[t] = "active"
      BY <3>1 DEF TypeOK, StoreTypeOK
    <3> QED BY <3>1, <3>2, <3>3
  <2>2. CASE DispatchWake(m, s)
    BY <2>2 DEF DispatchWake, DequeueWake, NoCut
  <2>3. CASE ScanNext(m, s)
    BY <2>3 DEF ScanNext, storeVars, NoCut
  <2>4. ASSUME NEW c \in Caller, Reserve(m, c, s) \/ Absorb(m, c, s)
        PROVE  UNCHANGED <<storeVars, cut, budget>>
    BY <2>4 DEF Reserve, Absorb
  <2>5. UNCHANGED <<storeVars, cut, budget>> =>
            /\ UNCHANGED <<fence, cut, parked, snap, completions, answered, status>>
            /\ NoCut
    BY DEF storeVars, NoCut
  <2> QED BY <2>1, <2>2, <2>3, <2>4, <2>5 DEF Wake
<1>2. \A n \in Manager, t \in Session : Calm(cycle'[n][t], cycle[n][t])
  <2>1. CASE Assign(m, s) \/ DispatchWake(m, s) \/ ScanNext(m, s)
    BY <2>1, CalmSame DEF Assign, DispatchWake, ScanNext
  <2>2. ASSUME NEW c \in Caller, Reserve(m, c, s)
        PROVE  \A n \in Manager, t \in Session : Calm(cycle'[n][t], cycle[n][t])
    <3> DEFINE cy == [Vacant EXCEPT !.pc = "reserved", !.waiter = c]
    <3>1. cy.pc = "reserved" /\ cycle' = [cycle EXCEPT ![m][s] = cy]
      BY <2>2 DEF Reserve, Vacant
    <3> HIDE DEF cy
    <3>2. Calm(cy, cycle[m][s])
      BY <3>1 DEF Calm
    <3> QED BY <3>1, <3>2, CalmUpdate
  <2>3. ASSUME NEW c \in Caller, Absorb(m, c, s)
        PROVE  \A n \in Manager, t \in Session : Calm(cycle'[n][t], cycle[n][t])
    <3> DEFINE cy == [cycle[m][s] EXCEPT !.mail = @ \/ HasMailbox(cycle[m][s])]
    <3>1. Calm(cy, cycle[m][s]) /\ cycle' = [cycle EXCEPT ![m][s] = cy]
      BY <1>0, <2>3 DEF Calm, Cycle, Absorb
    <3> HIDE DEF cy
    <3> QED BY <3>1, CalmUpdate
  <2> QED BY <2>1, <2>2, <2>3 DEF Wake
<1> QED BY <1>1, <1>2, MildSame DEF Tame

LEMMA LingerTame ==
    ASSUME TypeOK, NEW m \in Manager, NEW s \in Session, LingerStep(m, s)
    PROVE  Tame
<1> DEFINE cy == cycle[m][s]
<1>0. cy \in Cycle
  BY CycleFields
<1>1. UNCHANGED <<storeVars, cut, budget>>
  BY DEF LingerStep, LingerRegister, LingerCheck, LingerNotified, LingerTimeout, LingerRecheck
<1>2. \E new \in Cycle : new.pc \notin {"leased", "running"}
                         /\ cycle' = [cycle EXCEPT ![m][s] = new]
  <2>1. ASSUME NEW pc \in {"check", "linger", "again"}
        PROVE  [cy EXCEPT !.pc = pc] \in Cycle /\ [cy EXCEPT !.pc = pc].pc = pc
    BY <1>0 DEF Cycle, CyclePc
  <2>2. [cy EXCEPT !.pc = "recheck", !.mail = FALSE] \in Cycle
        /\ [cy EXCEPT !.pc = "recheck", !.mail = FALSE].pc = "recheck"
    BY <1>0 DEF Cycle, CyclePc
  <2>3. Exiting(cy) \in Cycle /\ Exiting(cy).pc = "exiting"
    BY <1>0, ExitingType DEF Exiting, Vacant
  <2>4. CASE LingerRegister(m, s)
    <3>1. cycle' = [cycle EXCEPT ![m][s] = [cy EXCEPT !.pc = "check"]]
      BY <2>4 DEF LingerRegister
    <3> HIDE DEF cy
    <3> QED BY <3>1, <2>1
  <2>5. CASE LingerCheck(m, s)
    <3>1. \/ cycle' = [cycle EXCEPT ![m][s] = [cy EXCEPT !.pc = "linger"]]
          \/ cycle' = [cycle EXCEPT ![m][s] = [cy EXCEPT !.pc = "recheck", !.mail = FALSE]]
      BY <1>0, <2>5 DEF LingerCheck, Cycle
    <3> HIDE DEF cy
    <3> QED BY <3>1, <2>1, <2>2
  <2>6. CASE LingerNotified(m, s)
    <3>1. cycle' = [cycle EXCEPT ![m][s] = [cy EXCEPT !.pc = "recheck", !.mail = FALSE]]
      BY <1>0, <2>6 DEF LingerNotified, Cycle
    <3> HIDE DEF cy
    <3> QED BY <3>1, <2>2
  <2>7. CASE LingerTimeout(m, s)
    <3>1. cycle' = [cycle EXCEPT ![m][s] = Exiting(cy)]
      BY <2>7 DEF LingerTimeout, LeaveCycle
    <3> HIDE DEF cy
    <3> QED BY <3>1, <2>3
  <2>8. CASE LingerRecheck(m, s)
    <3>1. \/ cycle' = [cycle EXCEPT ![m][s] = [cy EXCEPT !.pc = "again"]]
          \/ cycle' = [cycle EXCEPT ![m][s] = Exiting(cy)]
      BY <2>8 DEF LingerRecheck
    <3> HIDE DEF cy
    <3> QED BY <3>1, <2>1, <2>3
  <2> QED BY <2>4, <2>5, <2>6, <2>7, <2>8 DEF LingerStep
<1>3. PICK new \in Cycle : new.pc \notin {"leased", "running"}
                           /\ cycle' = [cycle EXCEPT ![m][s] = new]
  BY <1>2
<1>4. Calm(new, cycle[m][s])
  BY <1>3 DEF Calm
<1>5. \A n \in Manager, t \in Session : Calm(cycle'[n][t], cycle[n][t])
  BY <1>3, <1>4, CalmUpdate
<1>6. UNCHANGED <<fence, parked, snap, completions, answered, status>>
  BY <1>1 DEF storeVars
<1> QED BY <1>1, <1>5, <1>6, MildSame DEF Tame, NoCut

LEMMA RecordMild ==
    ASSUME TypeOK, NEW s \in Session, NEW j, j \notin completions[s],
           completions' = [completions EXCEPT ![s] = @ \cup {j}],
           \/ status' = status
           \/ status' = [status EXCEPT ![s] = "ready"],
           UNCHANGED <<snap, answered>>
    PROVE  \A t \in Session : Milder(t)
<1>1. /\ completions'[s] = completions[s] \cup {j}
      /\ \A t \in Session : t # s => completions'[t] = completions[t] /\ status'[t] = status[t]
  BY DEF TypeOK, StoreTypeOK
<1>2. Milder(s)
  BY <1>1 DEF Milder
<1>3. \A t \in Session : t # s => Milder(t)
  BY <1>1 DEF Milder
<1> QED BY <1>2, <1>3

LEMMA WorkTame ==
    ASSUME TypeOK, NEW m \in Manager, NEW s \in Session, Work(m, s)
    PROVE  Tame
<1>1. ASSUME NEW op \in Op, Submit(m, s, op), NoCut PROVE Tame
  <2>1. /\ UNCHANGED <<fence, cut, parked, cycle, snap, completions, answered>>
        /\ \/ status' = status
           \/ status' = [status EXCEPT ![s] = IF @ = "idle" THEN "ready" ELSE @]
    BY <1>1 DEF Submit, AppendSplice
  <2>2. \A t \in Session : status[t] = "active" => status'[t] = "active"
    BY <2>1 DEF TypeOK, StoreTypeOK
  <2> QED BY <1>1, <2>1, <2>2, CalmSame, MildSame DEF Tame
<1>2. CASE SubmitAppend(m, s)
  BY <1>1, <1>2 DEF SubmitAppend, NoCut
<1>3. CASE SubmitRetry(m, s)
  <2>1. NoCut
    BY <1>3, SpendOther DEF SubmitRetry, EnvEvent
  <2> QED BY <1>1, <1>3, <2>1 DEF SubmitRetry
<1>4. CASE SubmitReopen(m, s)
  <2>1. /\ UNCHANGED <<fence, cut, parked, cycle, snap, completions, answered, budget>>
        /\ status' = [status EXCEPT ![s] = IF @ = "completed" THEN "ready" ELSE @]
    BY <1>4 DEF SubmitReopen, ReopenIfSettled
  <2>2. \A t \in Session : status[t] = "active" => status'[t] = "active"
    BY <2>1 DEF TypeOK, StoreTypeOK
  <2> QED BY <2>1, <2>2, CalmSame, MildSame DEF Tame, NoCut
<1>5. ASSUME UNCHANGED <<fence, cut, parked, cycle, snap, completions, answered, budget, status>>
      PROVE  Tame
  BY <1>5, CalmSame, MildSame DEF Tame, NoCut
<1>6. CASE SubmitWake(m, s) \/ WorkerPublish(m, s)
  BY <1>5, <1>6 DEF SubmitWake, WorkerPublish, EnqueueWake
<1>7. ASSUME NEW j, WorkerPop(m, s, j) PROVE Tame
  BY <1>5, <1>7 DEF WorkerPop, DequeueJob
<1>8. CASE WorkerRecord(m, s)
  <2>1. /\ UNCHANGED <<fence, cut, parked, cycle, snap, answered, budget>>
        /\ worker[m].j \notin completions[s]
        /\ completions' = [completions EXCEPT ![s] = @ \cup {worker[m].j}]
        /\ status' = [status EXCEPT ![s] = "ready"]
    BY <1>8 DEF WorkerRecord, RecordCompletion
  <2>2. \A t \in Session : Milder(t)
    BY <2>1, RecordMild
  <2> QED BY <2>1, <2>2, CalmSame DEF Tame, NoCut
<1>9. CASE CrashInRecord(m, s)
  <2>1. /\ UNCHANGED <<fence, cut, parked, snap, answered, status>>
        /\ worker[m].j \notin completions[s]
        /\ completions' = [completions EXCEPT ![s] = @ \cup {worker[m].j}]
        /\ LoseProcess(m) /\ Spend("crash")
    BY <1>9 DEF CrashInRecord, RecordCompletionOnly, LoseProcess
  <2>2. \A t \in Session : Milder(t)
    BY <2>1, RecordMild
  <2>3. NoCut
    BY <2>1, SpendOther DEF EnvEvent
  <2> QED BY <2>1, <2>2, <2>3, CrashCalm DEF Tame
<1> QED BY <1>2, <1>3, <1>4, <1>6, <1>7, <1>8, <1>9 DEF Work

(* A commit replaces the snapshot of one session by one of the incarnation  *)
(* that holds its newest lease.                                             *)
Writes(m, s, sn) ==
    /\ cycle[m][s].fence = fence[s]
    /\ UNCHANGED <<fence, answered>>
    /\ OneSlot(m, s) /\ cycle'[m][s].pc \notin {"leased", "running"}
    /\ snap'[s] = sn
    /\ \A t \in Session : t # s =>
          /\ snap'[t] = snap[t] /\ completions'[t] = completions[t]
          /\ parked'[t] = parked[t] /\ status'[t] = status[t]

(* What becomes of the jobs awaited: none is left; or some of those before  *)
(* are, and no completion is deleted; or an interrupt deletes the           *)
(* completions loaded and leaves the wait as it was; or they are new.       *)
Awaits(m, s, sn) ==
    /\ parked[s] \subseteq parked'[s] /\ parked'[s] \subseteq parked[s] \cup sn.waiting
    /\ \/ sn.waiting = {}
       \/ completions'[s] = completions[s] /\ sn.waiting \subseteq cycle[m][s].eng.waiting
       \/ /\ Interrupt(m, s)
          /\ completions[s] \ cycle[m][s].loaded \subseteq completions'[s]
          /\ sn.waiting = cycle[m][s].eng.waiting
       \/ /\ sn.epoch >= cycle[m][s].eng.epoch + 1
          /\ \A j \in sn.waiting : j.epoch = cycle[m][s].eng.epoch + 1
                                   /\ (j.k > 0 => j \in parked'[s])

Commits(m, s, sn) ==
    /\ cycle[m][s].pc = "running"
    /\ Writes(m, s, sn)
    /\ UNCHANGED cut /\ NoCut
    /\ sn \in Snapshot /\ sn.edits = cycle[m][s].eng.edits
    /\ sn.epoch >= cycle[m][s].eng.epoch
    /\ (cycle[m][s].foldOnly => cycle[m][s].eng.waiting = {}) => Awaits(m, s, sn)

LEMMA Accepted ==
    ASSUME IInv, NEW m \in Manager, NEW s \in Session, cycle[m][s].pc = "running",
           CheckFence(s, cycle[m][s].fence)
    PROVE  cycle[m][s].fence = fence[s]
<1>1. cycle[m][s].fence \in Nat /\ fence[s] \in Nat
  BY CycleFields, SessionType DEF IInv
<1>2. cycle[m][s].fence \in 1 .. fence[s]
  BY DEF IInv, HeldOK
<1> QED BY <1>1, <1>2 DEF CheckFence

LEMMA EndTurnWrites ==
    ASSUME IInv, NEW m \in Manager, NEW s \in Session, NEW sn, NEW pend,
           cycle[m][s].pc = "running", EndTurn(m, s, sn, pend)
    PROVE  /\ Writes(m, s, sn) /\ parked'[s] = parked[s]
           /\ completions[s] \ cycle[m][s].loaded \subseteq completions'[s]
<1> DEFINE comps == completions[s] \ cycle[m][s].loaded
<1>1. OneSlot(m, s) /\ cycle'[m][s].pc \notin {"leased", "running"}
  BY GoOnSlot DEF EndTurn, IInv
<1>2. /\ CheckFence(s, cycle[m][s].fence)
      /\ snap' = [snap EXCEPT ![s] = sn]
      /\ completions' = [completions EXCEPT ![s] = comps]
      /\ \E st : status' = [status EXCEPT ![s] = st]
      /\ UNCHANGED <<fence, parked, answered>>
  BY DEF EndTurn, CommitTurn
<1>3. cycle[m][s].fence = fence[s]
  BY <1>2, Accepted
<1> HIDE DEF comps
<1>4. /\ snap'[s] = sn /\ completions'[s] = comps
      /\ \A t \in Session : t # s =>
            snap'[t] = snap[t] /\ completions'[t] = completions[t] /\ status'[t] = status[t]
  BY <1>2 DEF IInv, TypeOK, StoreTypeOK
<1> QED BY <1>1, <1>2, <1>3, <1>4 DEF Writes, comps

LEMMA FinishWrites ==
    ASSUME IInv, NEW m \in Manager, NEW s \in Session, NEW sn, NEW pend,
           cycle[m][s].pc = "running", Finish(m, s, sn, pend)
    PROVE  /\ Writes(m, s, sn) /\ parked'[s] = parked[s]
           /\ completions[s] \ cycle[m][s].loaded \subseteq completions'[s]
<1>1. CASE s \in Interactive
  BY <1>1, EndTurnWrites DEF Finish
<1>2. CASE s \notin Interactive
  <2>1. OneSlot(m, s) /\ cycle'[m][s].pc = "exiting"
    BY <1>2, LeaveSlot DEF Finish, IInv
  <2>2. /\ CheckFence(s, cycle[m][s].fence)
        /\ snap' = [snap EXCEPT ![s] = sn]
        /\ status' = [status EXCEPT ![s] = "completed"]
        /\ UNCHANGED <<fence, parked, answered, completions>>
    BY <1>2 DEF Finish, MarkCompleted
  <2>3. cycle[m][s].fence = fence[s]
    BY <2>2, Accepted
  <2>4. snap'[s] = sn /\ \A t \in Session : t # s => snap'[t] = snap[t] /\ status'[t] = status[t]
    BY <2>2 DEF IInv, TypeOK, StoreTypeOK
  <2> QED BY <2>1, <2>2, <2>3, <2>4 DEF Writes
<1> QED BY <1>1, <1>2

LEMMA SuspendWrites ==
    ASSUME IInv, NEW m \in Manager, NEW s \in Session, NEW sn, sn.waiting # {},
           cycle[m][s].pc = "running", Suspend(m, s, sn)
    PROVE  /\ Writes(m, s, sn) /\ completions' = completions
           /\ parked[s] \subseteq parked'[s] /\ parked'[s] \subseteq parked[s] \cup sn.waiting
           /\ (\E j \in sn.waiting : j.k = 0) \/ sn.waiting \subseteq parked'[s]
<1> DEFINE j == CHOOSE x \in sn.waiting : TRUE
<1>1. OneSlot(m, s) /\ cycle'[m][s].pc = "exiting"
  BY LeaveSlot DEF Suspend, IInv
<1>2. j \in sn.waiting
  OBVIOUS
<1>3. \/ j.k = 0 /\ CheckpointAndEnqueue(s, cycle[m][s].fence, sn, j)
      \/ ParkApproval(s, cycle[m][s].fence, sn, sn.waiting)
  BY DEF Suspend
<1> HIDE DEF j
<1>4. /\ CheckFence(s, cycle[m][s].fence)
      /\ snap' = [snap EXCEPT ![s] = sn]
      /\ status' = [status EXCEPT ![s] = "suspended"]
      /\ UNCHANGED <<fence, answered, completions>>
      /\ \/ j.k = 0 /\ parked' = parked
         \/ parked' = [parked EXCEPT ![s] = parked[s] \cup sn.waiting]
  BY <1>3 DEF CheckpointAndEnqueue, ParkApproval
<1>5. cycle[m][s].fence = fence[s]
  BY <1>4, Accepted
<1>6. snap'[s] = sn /\ \A t \in Session : t # s => snap'[t] = snap[t] /\ status'[t] = status[t]
  BY <1>4 DEF IInv, TypeOK, StoreTypeOK
<1>7. \A t \in Session : t # s => parked'[t] = parked[t]
  BY <1>4 DEF IInv, TypeOK, StoreTypeOK
<1>8. (j.k = 0 /\ parked'[s] = parked[s]) \/ parked'[s] = parked[s] \cup sn.waiting
  BY <1>4 DEF IInv, TypeOK, StoreTypeOK
<1> QED BY <1>1, <1>2, <1>4, <1>5, <1>6, <1>7, <1>8 DEF Writes

LEMMA ResumedEngine ==
    ASSUME NEW cy \in Cycle
    PROVE  /\ Resumed(cy) \in Snapshot /\ Resumed(cy).waiting = {}
           /\ Resumed(cy).edits = cy.eng.edits
           /\ Resumed(cy).epoch \in Nat /\ cy.eng.epoch \in Nat
           /\ Resumed(cy).epoch >= cy.eng.epoch
<1> DEFINE e == cy.eng
           n == IF cy.pend = {} THEN e.epoch ELSE e.epoch + 1
           x == Resumed(cy)
<1>1. e \in Snapshot /\ e.epoch \in Nat
  BY DEF Cycle, Snapshot
<1>2. x = [e EXCEPT !.waiting = {}, !.epoch = n]
  BY DEF Resumed
<1>3. n \in Nat /\ n >= e.epoch
  BY <1>1
<1> HIDE DEF e, n, x
<1>4. {} \in SUBSET JobId
  OBVIOUS
<1>5. x \in Snapshot /\ x.waiting = {} /\ x.edits = e.edits /\ x.epoch = n
  BY <1>1, <1>2, <1>3, <1>4 DEF Snapshot
<1> QED BY <1>1, <1>3, <1>5 DEF e, x

LEMMA TurnCommits ==
    ASSUME IInv, NEW m \in Manager, NEW s \in Session,
           \/ FoldOnly(m, s) \/ Interrupt(m, s) \/ Resuspend(m, s)
           \/ RunToEnd(m, s) \/ RunToSuspension(m, s)
    PROVE  \E sn : Commits(m, s, sn)
<1> DEFINE cy == cycle[m][s]
           e  == cy.eng
<1>0. /\ TypeOK /\ cy \in Cycle /\ e \in Snapshot
      /\ cy.pend \in SUBSET JobId /\ e.epoch \in Nat /\ e.waiting \in SUBSET JobId
  BY CycleFields DEF IInv, Cycle, Snapshot
<1>1. CASE FoldOnly(m, s)
  <2>1. EndTurn(m, s, e, cy.pend) /\ cy.pc = "running" /\ cy.foldOnly /\ UNCHANGED <<cut, budget>>
    BY <1>1 DEF FoldOnly
  <2>2. /\ Writes(m, s, e) /\ parked'[s] = parked[s]
        /\ completions[s] \ cycle[m][s].loaded \subseteq completions'[s]
    BY <2>1, EndTurnWrites
  <2>3. Commits(m, s, e)
    BY <1>0, <2>1, <2>2 DEF Commits, Awaits, NoCut
  <2> QED BY <2>3
<1>2. CASE Interrupt(m, s)
  <2>1. Finish(m, s, e, cy.pend) /\ cy.pc = "running" /\ UNCHANGED cut /\ Spend("interrupt")
    BY <1>2 DEF Interrupt
  <2>2. /\ Writes(m, s, e) /\ parked'[s] = parked[s]
        /\ completions[s] \ cycle[m][s].loaded \subseteq completions'[s]
    BY <2>1, FinishWrites
  <2>3. NoCut
    BY <1>0, <2>1, SpendOther DEF EnvEvent
  <2>4. Awaits(m, s, e)
    BY <1>2, <2>2 DEF Awaits
  <2>5. Commits(m, s, e)
    BY <1>0, <2>1, <2>2, <2>3, <2>4 DEF Commits
  <2> QED BY <2>5
<1>3. CASE Resuspend(m, s)
  <2> DEFINE sn == [e EXCEPT !.waiting = StillWaiting(cy)]
  <2>1. StillWaiting(cy) \in SUBSET JobId /\ StillWaiting(cy) \subseteq e.waiting
    BY <1>0 DEF StillWaiting
  <2>2. /\ sn \in Snapshot /\ sn.waiting = StillWaiting(cy) /\ sn.epoch = e.epoch
        /\ sn.edits = e.edits
    BY <1>0, <2>1 DEF Snapshot
  <2>3. /\ Suspend(m, s, sn) /\ cy.pc = "running" /\ UNCHANGED <<cut, budget>>
        /\ StillWaiting(cy) # {}
    BY <1>3 DEF Resuspend
  <2> HIDE DEF sn
  <2>4. /\ Writes(m, s, sn) /\ completions' = completions
        /\ parked[s] \subseteq parked'[s] /\ parked'[s] \subseteq parked[s] \cup sn.waiting
    BY <2>2, <2>3, SuspendWrites
  <2>5. Awaits(m, s, sn)
    BY <2>1, <2>2, <2>4 DEF Awaits
  <2>6. sn.epoch >= e.epoch
    BY <1>0, <2>2
  <2>7. Commits(m, s, sn)
    BY <2>2, <2>3, <2>4, <2>5, <2>6 DEF Commits, NoCut
  <2> QED BY <2>7
<1>4. CASE RunToEnd(m, s)
  <2> DEFINE sn == Resumed(cy)
  <2>1. Finish(m, s, sn, {}) /\ cy.pc = "running" /\ UNCHANGED <<cut, budget>>
    BY <1>4 DEF RunToEnd, RunsModel
  <2>2. /\ sn \in Snapshot /\ sn.waiting = {} /\ sn.edits = e.edits /\ sn.epoch >= e.epoch
    BY <1>0, ResumedEngine
  <2> HIDE DEF sn
  <2>3. Writes(m, s, sn) /\ parked'[s] = parked[s]
    BY <2>1, FinishWrites
  <2>4. Commits(m, s, sn)
    BY <2>1, <2>2, <2>3 DEF Commits, Awaits, NoCut
  <2> QED BY <2>4
<1>5. CASE RunToSuspension(m, s)
  <2>1. PICK ks \in {{0}} \cup {1 .. n : n \in 1 .. MaxApprovals} :
          Suspend(m, s, [Resumed(cy) EXCEPT
              !.waiting = {[epoch |-> cy.eng.epoch + 1, k |-> k] : k \in ks},
              !.epoch   = @ + 1])
    BY <1>5 DEF RunToSuspension
  <2> DEFINE w  == {[epoch |-> cy.eng.epoch + 1, k |-> k] : k \in ks}
             r  == Resumed(cy)
             sn == [r EXCEPT !.waiting = w, !.epoch = r.epoch + 1]
  <2>2. \A k \in ks : k \in 0 .. MaxApprovals
    BY ApprovalAssumption
  <2>3. cy.eng.epoch + 1 \in Nat
    BY <1>0
  <2>4. w \in SUBSET JobId
    BY <2>2, <2>3 DEF JobId
  <2>5. \A j \in w : j.epoch = e.epoch + 1 /\ j.k \in ks
    OBVIOUS
  <2>6. ks # {} /\ (0 \in ks => ks = {0})
    <3>1. CASE ks = {0}
      BY <3>1
    <3>2. ASSUME NEW n \in 1 .. MaxApprovals, ks = 1 .. n
          PROVE  1 \in ks /\ 0 \notin ks
      BY <3>2, ApprovalAssumption
    <3> QED BY <3>1, <3>2
  <2>7. w # {}
    BY <2>6
  <2>8. r \in Snapshot /\ r.edits = e.edits /\ r.epoch \in Nat /\ r.epoch >= e.epoch
    BY <1>0, ResumedEngine
  <2>9. Suspend(m, s, sn)
    BY <2>1
  <2>10. cy.pc = "running" /\ UNCHANGED <<cut, budget>>
    BY <1>5 DEF RunToSuspension, RunsModel
  <2> HIDE DEF w, r
  <2>11. sn = [r EXCEPT !.waiting = w, !.epoch = r.epoch + 1]
    OBVIOUS
  <2> HIDE DEF sn
  <2>12. r.epoch + 1 \in Nat
    BY <2>8
  <2>13. /\ sn \in Snapshot /\ sn.waiting = w /\ sn.edits = r.edits /\ sn.epoch = r.epoch + 1
    BY <2>4, <2>8, <2>11, <2>12 DEF Snapshot
  <2>14. sn.epoch >= e.epoch + 1 /\ sn.epoch >= e.epoch
    BY <1>0, <2>8, <2>13
  <2>15. /\ Writes(m, s, sn)
         /\ parked[s] \subseteq parked'[s] /\ parked'[s] \subseteq parked[s] \cup sn.waiting
         /\ (\E j \in sn.waiting : j.k = 0) \/ sn.waiting \subseteq parked'[s]
    BY <2>7, <2>9, <2>10, <2>13, SuspendWrites
  <2>16. \A j \in sn.waiting : j.epoch = e.epoch + 1 /\ (j.k > 0 => j \in parked'[s])
    <3>1. CASE sn.waiting \subseteq parked'[s]
      BY <3>1, <2>5, <2>13
    <3>2. CASE \E j \in sn.waiting : j.k = 0
      <4>1. ks = {0}
        BY <3>2, <2>5, <2>6, <2>13
      <4>2. \A j \in sn.waiting : j.k = 0
        BY <4>1, <2>5, <2>13
      <4> QED BY <4>2, <2>5, <2>13
    <3> QED BY <2>15, <3>1, <3>2
  <2>17. Awaits(m, s, sn)
    BY <2>14, <2>15, <2>16 DEF Awaits
  <2>18. Commits(m, s, sn)
    BY <2>8, <2>10, <2>13, <2>14, <2>15, <2>17 DEF Commits, NoCut
  <2> QED BY <2>18
<1> QED BY <1>1, <1>2, <1>3, <1>4, <1>5

(* A turn's other steps.                                                    *)
LEMMA TurnTame ==
    ASSUME TypeOK, NEW m \in Manager, NEW s \in Session,
           Fenced(m, s) \/ Fail(m, s) \/ DropSlot(m, s)
    PROVE  Tame
<1>1. UNCHANGED <<storeVars, cut>> /\ NoCut
  <2>1. CASE Fail(m, s)
    BY <2>1, SpendOther DEF Fail, EnvEvent
  <2>2. CASE Fenced(m, s) \/ DropSlot(m, s)
    BY <2>2 DEF Fenced, DropSlot, NoCut
  <2> QED BY <2>1, <2>2
<1>2. UNCHANGED <<fence, parked, snap, completions, answered, status>>
  BY <1>1 DEF storeVars
<1>3. \/ cycle' = [cycle EXCEPT ![m][s] = Exiting(cycle[m][s])]
      \/ cycle' = [cycle EXCEPT ![m][s] = Vacant]
  BY DEF Fenced, Fail, DropSlot, LeaveCycle
<1>4. Calm(Exiting(cycle[m][s]), cycle[m][s]) /\ Calm(Vacant, cycle[m][s])
  BY DEF Calm, Exiting, Vacant
<1>5. \A n \in Manager, t \in Session : Calm(cycle'[n][t], cycle[n][t])
  BY <1>3, <1>4, CalmUpdate
<1> QED BY <1>1, <1>2, <1>5, MildSame DEF Tame

(* Every step is tame, takes or passes on a lease, loads, or commits.       *)
LEMMA StepKinds ==
    ASSUME IInv, [Next]_vars
    PROVE  \/ Tame
           \/ \E s \in Session : LeaseElsewhere(s)
           \/ \E m \in Manager, s \in Session :
                 Lease(m, s) \/ Activate(m, s) \/ Load(m, s) \/ \E sn : Commits(m, s, sn)
<1>0. TypeOK
  BY DEF IInv
<1>1. ASSUME NEW s \in Session, Producer(s) PROVE LeaseElsewhere(s) \/ Tame
  BY <1>0, <1>1, ProducerTame
<1>2. ASSUME NEW m \in Manager, NEW s \in Session, Wake(m, s) \/ LingerStep(m, s) \/ Work(m, s)
      PROVE  Tame
  BY <1>0, <1>2, WakeTame, LingerTame, WorkTame
<1>3. ASSUME NEW m \in Manager, NEW s \in Session, Turn(m, s)
      PROVE  \/ Tame
             \/ Lease(m, s) \/ Activate(m, s) \/ Load(m, s) \/ \E sn : Commits(m, s, sn)
  BY <1>0, <1>3, TurnTame, TurnCommits DEF Turn
<1>4. ASSUME NEW m \in Manager, Crash(m) PROVE Tame
  <2>1. LoseProcess(m) /\ Spend("crash") /\ UNCHANGED <<storeVars, cut>>
    BY <1>4 DEF Crash, LoseProcess
  <2>2. UNCHANGED <<fence, parked, snap, completions, answered, status>>
    BY <2>1 DEF storeVars
  <2>3. NoCut
    BY <1>0, <2>1, SpendOther DEF EnvEvent
  <2> QED BY <1>0, <2>1, <2>2, <2>3, CrashCalm, MildSame DEF Tame
<1>5. ASSUME UNCHANGED <<storeVars, cycle, cut, budget>> PROVE Tame
  <2>1. UNCHANGED <<fence, parked, snap, completions, answered, status>>
    BY <1>5 DEF storeVars
  <2> QED BY <1>5, <2>1, CalmSame, MildSame DEF Tame, NoCut
<1>6. ASSUME NEW m \in Manager, ScanResumable(m) \/ \E c \in Caller : CheckStatus(m, c)
      PROVE  Tame
  BY <1>5, <1>6 DEF ScanResumable, CheckStatus
<1>7. CASE UNCHANGED vars
  BY <1>5, <1>7 DEF vars, managerVars
<1> QED BY <1>1, <1>2, <1>3, <1>4, <1>6, <1>7 DEF Next

LEMMA LeaseTakes ==
    ASSUME TypeOK, NEW m \in Manager, NEW s \in Session, Lease(m, s)
    PROVE  /\ UNCHANGED <<snap, completions, parked, answered, cut, budget>>
           /\ fence'[s] = fence[s] + 1 /\ status'[s] = "active"
           /\ \A t \in Session : t # s => fence'[t] = fence[t] /\ status'[t] = status[t]
           /\ OneSlot(m, s) /\ cycle'[m][s].pc = "leased" /\ cycle'[m][s].fence = fence'[s]
           /\ ~Live(m, s)
<1> DEFINE new == [cycle[m][s] EXCEPT !.pc = "leased", !.fence = fence'[s]]
<1>0. cycle[m][s] \in Cycle
  BY CycleFields
<1>1. cycle' = [cycle EXCEPT ![m][s] = new]
  BY <1>0 DEF Lease, Cycle
<1>2. new.pc = "leased" /\ new.fence = fence'[s]
  BY <1>0 DEF Cycle
<1> HIDE DEF new
<1>3. OneSlot(m, s) /\ cycle'[m][s] = new
  BY <1>1, SlotUpdate DEF TypeOK
<1>4. /\ fence' = [fence EXCEPT ![s] = @ + 1] /\ status' = [status EXCEPT ![s] = "active"]
      /\ UNCHANGED <<snap, completions, parked, answered, cut, budget>>
  BY DEF Lease, AcquireActivationLease
<1>5. ~Live(m, s)
  BY DEF Lease, Live
<1> QED BY <1>2, <1>3, <1>4, <1>5 DEF TypeOK, StoreTypeOK

LEMMA ElsewhereTakes ==
    ASSUME TypeOK, NEW s \in Session, LeaseElsewhere(s)
    PROVE  /\ UNCHANGED <<snap, completions, parked, answered, cycle>>
           /\ fence'[s] = fence[s] + 1 /\ status'[s] = "active" /\ cut'[s] = fence'[s]
           /\ \A t \in Session : t # s =>
                 fence'[t] = fence[t] /\ status'[t] = status[t] /\ cut'[t] = cut[t]
           /\ budget["cut"] > 0
BY DEF LeaseElsewhere, AcquireActivationLease, Spend, TypeOK, StoreTypeOK

LEMMA ActivateTakes ==
    ASSUME TypeOK, NEW m \in Manager, NEW s \in Session, Activate(m, s)
    PROVE  /\ UNCHANGED <<snap, completions, parked, answered, fence, status, budget>>
           /\ cut[s] # 0 /\ cut'[s] = 0 /\ \A t \in Session : t # s => cut'[t] = cut[t]
           /\ OneSlot(m, s)
           /\ \/ cycle'[m][s] = cycle[m][s]
              \/ cycle'[m][s].pc = "leased" /\ cycle'[m][s].fence = cut[s]
<1> DEFINE new == [Vacant EXCEPT !.pc = "leased", !.fence = cut[s]]
<1>1. cycle' = cycle \/ cycle' = [cycle EXCEPT ![m][s] = new]
  BY DEF Activate
<1>2. new.pc = "leased" /\ new.fence = cut[s]
  BY DEF Vacant
<1> HIDE DEF new
<1>3. OneSlot(m, s) /\ (cycle'[m][s] = cycle[m][s] \/ cycle'[m][s] = new)
  <2>1. CASE cycle' = cycle
    BY <2>1 DEF OneSlot
  <2>2. CASE cycle' = [cycle EXCEPT ![m][s] = new]
    BY <2>2, SlotUpdate DEF TypeOK
  <2> QED BY <1>1, <2>1, <2>2
<1>4. /\ UNCHANGED <<storeVars, budget>> /\ cut[s] # 0 /\ cut' = [cut EXCEPT ![s] = 0]
  BY DEF Activate
<1>5. cut'[s] = 0 /\ \A t \in Session : t # s => cut'[t] = cut[t]
  BY <1>4 DEF TypeOK
<1>6. UNCHANGED <<snap, completions, parked, answered, fence, status, budget>>
  BY <1>4 DEF storeVars
<1> QED BY <1>2, <1>3, <1>4, <1>5, <1>6

(* The hydrated engine waits for what the stored snapshot waits for, and    *)
(* holds the completions of that.                                           *)
LEMMA LoadTakes ==
    ASSUME TypeOK, NEW m \in Manager, NEW s \in Session, Load(m, s)
    PROVE  /\ UNCHANGED <<snap, completions, parked, answered, fence, status, cut, budget>>
           /\ OneSlot(m, s) /\ Live(m, s)
           /\ cycle'[m][s].pc = "running" /\ cycle'[m][s].fence = cycle[m][s].fence
           /\ cycle'[m][s].eng.waiting = snap[s].waiting
           /\ cycle'[m][s].eng.edits = snap[s].edits
           /\ cycle'[m][s].foldOnly => snap[s].waiting = {}
           /\ cycle'[m][s].loaded \cap snap[s].waiting \subseteq cycle'[m][s].pend
<1> DEFINE cy    == cycle[m][s]
           base  == IF KeepsEngine(cy, s) THEN cy.eng ELSE snap[s]
           stash == IF KeepsEngine(cy, s) THEN cy.pend ELSE {}
           fresh == Fresh(inbox[s], base, cy.fence)
           opens == completions[s] # {} \/ \E i \in fresh : inbox[s][i].op \notin Observe
           eng   == Folded(base, fresh, cy.fence)
           pend  == stash \cup (completions[s] \cap base.waiting)
           only  == fresh # {} /\ ~opens /\ base.waiting = {}
<1>0. cy \in Cycle /\ cy.pc = "leased" /\ snap[s] \in Snapshot
  BY CycleFields, SessionType DEF Load
<1>1. base = snap[s]
  BY DEF KeepsEngine
<1>2. cycle' = [cycle EXCEPT ![m][s] = [cy EXCEPT
            !.pc = "running", !.turn = turnSeq[s], !.eng = eng, !.pend = pend,
            !.loaded = completions[s], !.foldOnly = only]]
  BY DEF Load
<1>3. UNCHANGED <<snap, completions, parked, answered, fence, status, cut, budget>>
  BY DEF Load, LoadForActivation
<1>4. completions[s] \cap snap[s].waiting \subseteq pend /\ (only => snap[s].waiting = {})
  BY <1>1
<1>5. eng.waiting = snap[s].waiting /\ eng.edits = snap[s].edits
  <2> DEFINE c == Max(fresh \cup {base.cursor})
             v == base.conv \cup {<<i, cy.fence>> : i \in fresh}
  <2>1. eng = [base EXCEPT !.cursor = c, !.conv = v]
    BY DEF Folded
  <2> HIDE DEF c, v, eng
  <2>2. eng = [snap[s] EXCEPT !.cursor = c, !.conv = v]
    BY <1>1, <2>1
  <2> QED BY <1>0, <2>2 DEF Snapshot
<1> HIDE DEF eng, pend, only
<1> DEFINE new == [cy EXCEPT
            !.pc = "running", !.turn = turnSeq[s], !.eng = eng, !.pend = pend,
            !.loaded = completions[s], !.foldOnly = only]
<1>6. /\ new.pc = "running" /\ new.fence = cy.fence /\ new.eng = eng
      /\ new.pend = pend /\ new.loaded = completions[s] /\ new.foldOnly = only
  BY <1>0 DEF Cycle
<1>7. cycle' = [cycle EXCEPT ![m][s] = new]
  BY <1>2
<1> HIDE DEF new
<1>8. cycle'[m][s] = new /\ OneSlot(m, s)
  BY <1>7, SlotUpdate DEF TypeOK
<1>9. Live(m, s)
  BY <1>0 DEF Live
<1> QED BY <1>3, <1>4, <1>5, <1>6, <1>8, <1>9

-----------------------------------------------------------------------------
(* One process and no lease taken elsewhere: nobody but the slot's own      *)
(* cycle takes a lease, and a live cycle takes none.                        *)
Alone == (\A m, n \in Manager : m = n) /\ Budget["cut"] = 0

SelfInv ==
    /\ Alone /\ IInv /\ NoSelfFencing
    /\ budget["cut"] = 0
    /\ \A s \in Session : cut[s] = 0

LEMMA SelfStart == Alone /\ Init => SelfInv
<1> SUFFICES ASSUME Alone, Init PROVE SelfInv
  OBVIOUS
<1>1. \A m \in Manager, s \in Session : cycle[m][s].pc = "none"
  BY DEF Init, Vacant
<1>2. NoSelfFencing
  BY <1>1 DEF NoSelfFencing, Live
<1> QED BY <1>2, InitIInv DEF SelfInv, Alone, Init

LEMMA SelfStep == SelfInv /\ [Next]_vars => SelfInv'
<1> SUFFICES ASSUME SelfInv, [Next]_vars PROVE SelfInv'
  OBVIOUS
<1>0. /\ TypeOK /\ IInv' /\ Alone'
      /\ \A m \in Manager, s \in Session :
            Live(m, s) => cycle[m][s].fence = fence[s]
  BY NextIInv DEF SelfInv, IInv, StepOK, NoSelfFencing, Alone
<1> SUFFICES /\ NoSelfFencing' /\ budget'["cut"] = 0 /\ \A s \in Session : cut'[s] = 0
  BY <1>0 DEF SelfInv
<1>1. CASE Tame
  <2>1. \A m \in Manager, s \in Session : Live(m, s)' =>
            Live(m, s) /\ cycle'[m][s].fence = cycle[m][s].fence
    BY <1>1 DEF Tame, Calm, Live
  <2> QED BY <1>0, <1>1, <2>1 DEF Tame, NoCut, SelfInv, NoSelfFencing
<1>2. ASSUME NEW s \in Session, LeaseElsewhere(s) PROVE FALSE
  BY <1>0, <1>2, ElsewhereTakes DEF SelfInv
<1>3. ASSUME NEW m \in Manager, NEW s \in Session, Activate(m, s) PROVE FALSE
  BY <1>0, <1>3, ActivateTakes DEF SelfInv
<1>4. ASSUME NEW m \in Manager, NEW s \in Session,
             UNCHANGED <<cut>>, NoCut, OneSlot(m, s),
             Live(m, s)' => cycle'[m][s].fence = fence'[s],
             \A t \in Session : t # s => fence'[t] = fence[t]
      PROVE  /\ NoSelfFencing' /\ budget'["cut"] = 0 /\ \A t \in Session : cut'[t] = 0
  <2>1. \A n \in Manager : n = m
    BY DEF SelfInv, Alone
  <2>2. \A n \in Manager, t \in Session : t # s => cycle'[n][t] = cycle[n][t]
    BY <1>4 DEF OneSlot
  <2>3. ASSUME NEW n \in Manager, NEW t \in Session, Live(n, t)'
        PROVE  cycle'[n][t].fence = fence'[t]
    <3>1. CASE t = s
      BY <1>4, <2>1, <2>3, <3>1
    <3>2. CASE t # s
      BY <1>0, <1>4, <2>2, <2>3, <3>2 DEF Live
    <3> QED BY <3>1, <3>2
  <2> QED BY <1>4, <2>3 DEF SelfInv, NoSelfFencing, NoCut
<1>5. ASSUME NEW m \in Manager, NEW s \in Session, Lease(m, s)
      PROVE  /\ NoSelfFencing' /\ budget'["cut"] = 0 /\ \A t \in Session : cut'[t] = 0
  <2>1. /\ UNCHANGED <<cut, budget>> /\ OneSlot(m, s) /\ cycle'[m][s].fence = fence'[s]
        /\ \A t \in Session : t # s => fence'[t] = fence[t]
    BY <1>0, <1>5, LeaseTakes
  <2> QED BY <1>4, <2>1 DEF NoCut
<1>6. ASSUME NEW m \in Manager, NEW s \in Session, Load(m, s)
      PROVE  /\ NoSelfFencing' /\ budget'["cut"] = 0 /\ \A t \in Session : cut'[t] = 0
  <2>1. /\ UNCHANGED <<cut, budget, fence>> /\ OneSlot(m, s) /\ Live(m, s)
        /\ cycle'[m][s].fence = cycle[m][s].fence
    BY <1>0, <1>6, LoadTakes
  <2> QED BY <1>0, <1>4, <2>1 DEF NoCut
<1>7. ASSUME NEW m \in Manager, NEW s \in Session, NEW sn, Commits(m, s, sn)
      PROVE  /\ NoSelfFencing' /\ budget'["cut"] = 0 /\ \A t \in Session : cut'[t] = 0
  <2>1. UNCHANGED <<cut, fence>> /\ NoCut /\ OneSlot(m, s) /\ ~Live(m, s)'
    BY <1>7 DEF Commits, Writes, Live
  <2> QED BY <1>4, <2>1
<1> QED BY <1>1, <1>2, <1>3, <1>5, <1>6, <1>7, StepKinds DEF SelfInv

(* Reserving the slot before the lease works: a process that has its        *)
(* sessions to itself never supersedes its own incarnation, however many    *)
(* wakes of dispatcher, scanner and API race, through crashes and linger.   *)
THEOREM NeverFencesItself == Alone => (Spec => []NoSelfFencing)
<1>1. SelfInv => NoSelfFencing
  BY DEF SelfInv
<1> QED BY <1>1, SelfStart, SelfStep, PTL DEF Spec

-----------------------------------------------------------------------------
(* Every interrupt meets a turn that resumed on no completion.              *)
CleanInterrupts ==
    \A m \in Manager, s \in Session : Interrupt(m, s) => cycle[m][s].pend = {}

(* Approvals are named after the epoch of the snapshot that parks on them,  *)
(* so those of a new turn were never asked or answered before.              *)
AwaitOK(sn, comps, pk, an) ==
    /\ \A j \in sn.waiting : j.epoch <= sn.epoch /\ (j.k > 0 => j \in (pk \ an) \cup comps)
    /\ an \subseteq pk
    /\ \A j \in pk : j.epoch <= sn.epoch

(* A fold-only wake waits for nothing; every completion loaded that the     *)
(* engine waits for is stashed.                                             *)
HydratedOK(cy) ==
    cy.pc = "running" =>
        /\ cy.foldOnly => cy.eng.waiting = {}
        /\ cy.loaded \cap cy.eng.waiting \subseteq cy.pend

AwaitInv ==
    /\ \A s \in Session : AwaitOK(snap[s], completions[s], parked[s], answered[s])
    /\ \A m \in Manager, s \in Session : HydratedOK(cycle[m][s])

LEMMA AwaitStart == Init => AwaitInv
<1> SUFFICES ASSUME Init PROVE AwaitInv
  OBVIOUS
<1>1. \A m \in Manager, s \in Session : cycle[m][s].pc = "none"
  BY DEF Init, Vacant
<1>2. \A s \in Session : snap[s].waiting = {} /\ parked[s] = {} /\ answered[s] = {}
  BY DEF Init, StoreInit, FreshSnapshot
<1> QED BY <1>1, <1>2 DEF AwaitInv, AwaitOK, HydratedOK

(* A slot that a step does not touch, or tames.                             *)
LEMMA OthersHydrated ==
    ASSUME AwaitInv, NEW m \in Manager, NEW s \in Session, OneSlot(m, s),
           HydratedOK(cycle'[m][s])
    PROVE  \A n \in Manager, t \in Session : HydratedOK(cycle'[n][t])
BY DEF OneSlot, AwaitInv

LEMMA CommitAwaits ==
    ASSUME IInv, AwaitInv, NEW m \in Manager, NEW s \in Session, NEW sn,
           Commits(m, s, sn), Interrupt(m, s) => cycle[m][s].pend = {}
    PROVE  AwaitOK(sn, completions'[s], parked'[s], answered'[s])
<1> DEFINE cy == cycle[m][s]
<1>1. /\ cy.fence = fence[s] /\ cy.pc = "running" /\ answered' = answered
      /\ sn \in Snapshot /\ sn.epoch >= cy.eng.epoch
  BY DEF Commits, Writes
<1>2. cy.eng.waiting = snap[s].waiting /\ cy.eng.epoch = snap[s].epoch
  BY <1>1 DEF IInv, EngOK
<1>3. /\ AwaitOK(snap[s], completions[s], parked[s], answered[s])
      /\ (cy.foldOnly => cy.eng.waiting = {})
      /\ cy.loaded \cap cy.eng.waiting \subseteq cy.pend
  BY <1>1 DEF AwaitInv, HydratedOK
<1>4. Awaits(m, s, sn)
  BY <1>3 DEF Commits
<1>5. /\ sn.epoch \in Nat /\ snap[s].epoch \in Nat /\ snap[s].waiting \subseteq JobId
      /\ parked[s] \subseteq JobId /\ sn.waiting \subseteq JobId
  BY <1>1, SessionType DEF IInv, Snapshot, TypeOK, StoreTypeOK
<1>6. \A j \in JobId : j.epoch \in Nat
  BY DEF JobId
<1>7. \A j \in parked[s] \cup snap[s].waiting : j.epoch <= snap[s].epoch /\ j.epoch <= sn.epoch
  BY <1>1, <1>2, <1>3, <1>5, <1>6 DEF AwaitOK
<1>8. answered[s] \subseteq parked'[s]
  BY <1>3, <1>4 DEF AwaitOK, Awaits
<1>9. \A j \in parked'[s] : j \in parked[s] \/ j \in sn.waiting
  BY <1>4 DEF Awaits
<1> SUFFICES \A j \in sn.waiting :
                /\ j.epoch <= sn.epoch
                /\ j.k > 0 => j \in (parked'[s] \ answered[s]) \cup completions'[s]
  BY <1>1, <1>7, <1>8, <1>9 DEF AwaitOK
<1>10. CASE sn.waiting = {}
  BY <1>10
<1>11. ASSUME sn.waiting \subseteq snap[s].waiting,
              completions[s] \cap sn.waiting \subseteq completions'[s]
       PROVE  \A j \in sn.waiting :
                /\ j.epoch <= sn.epoch
                /\ j.k > 0 => j \in (parked'[s] \ answered[s]) \cup completions'[s]
  <2>1. parked[s] \subseteq parked'[s]
    BY <1>4 DEF Awaits
  <2>2. \A j \in sn.waiting : j.k > 0 => j \in (parked[s] \ answered[s]) \cup completions[s]
    BY <1>3, <1>11 DEF AwaitOK
  <2> QED BY <1>7, <1>11, <2>1, <2>2
<1>12. CASE completions'[s] = completions[s] /\ sn.waiting \subseteq cy.eng.waiting
  BY <1>2, <1>11, <1>12
<1>13. CASE /\ Interrupt(m, s)
            /\ completions[s] \ cy.loaded \subseteq completions'[s]
            /\ sn.waiting = cy.eng.waiting
  <2>1. cy.loaded \cap sn.waiting = {}
    BY <1>3, <1>13
  <2> QED BY <1>2, <1>11, <1>13, <2>1
<1>14. CASE /\ sn.epoch >= cy.eng.epoch + 1
            /\ \A j \in sn.waiting : j.epoch = cy.eng.epoch + 1
                                     /\ (j.k > 0 => j \in parked'[s])
  <2>1. \A j \in sn.waiting : j.epoch <= sn.epoch
    BY <1>2, <1>5, <1>14
  <2>2. \A j \in sn.waiting : j \notin parked[s]
    BY <1>2, <1>5, <1>7, <1>14
  <2>3. \A j \in sn.waiting : j \notin answered[s]
    BY <1>3, <2>2 DEF AwaitOK
  <2> QED BY <1>14, <2>1, <2>3
<1> QED BY <1>4, <1>10, <1>12, <1>13, <1>14 DEF Awaits

LEMMA AwaitStep == IInv /\ AwaitInv /\ [Next]_vars /\ [CleanInterrupts]_vars => AwaitInv'
<1> SUFFICES ASSUME IInv, AwaitInv, [Next]_vars, [CleanInterrupts]_vars PROVE AwaitInv'
  OBVIOUS
<1>0. TypeOK
  BY DEF IInv
<1>1. CASE Tame
  <2>1. \A n \in Manager, t \in Session : HydratedOK(cycle'[n][t])
    BY <1>1 DEF Tame, Calm, AwaitInv, HydratedOK
  <2>2. ASSUME NEW t \in Session
        PROVE  AwaitOK(snap'[t], completions'[t], parked'[t], answered'[t])
    <3>1. /\ AwaitOK(snap[t], completions[t], parked[t], answered[t])
          /\ Milder(t) /\ parked'[t] = parked[t]
      BY <1>1 DEF AwaitInv, Tame
    <3> QED BY <3>1 DEF AwaitOK, Milder
  <2> QED BY <2>1, <2>2 DEF AwaitInv
<1>2. ASSUME NEW s \in Session, LeaseElsewhere(s) PROVE AwaitInv'
  BY <1>0, <1>2, ElsewhereTakes DEF AwaitInv
<1>3. ASSUME NEW m \in Manager, NEW s \in Session, Lease(m, s) PROVE AwaitInv'
  <2>1. /\ UNCHANGED <<snap, completions, parked, answered>>
        /\ OneSlot(m, s) /\ cycle'[m][s].pc = "leased"
    BY <1>0, <1>3, LeaseTakes
  <2>2. HydratedOK(cycle'[m][s])
    BY <2>1 DEF HydratedOK
  <2> QED BY <2>1, <2>2, OthersHydrated DEF AwaitInv
<1>4. ASSUME NEW m \in Manager, NEW s \in Session, Activate(m, s) PROVE AwaitInv'
  <2>1. /\ UNCHANGED <<snap, completions, parked, answered>> /\ OneSlot(m, s)
        /\ cycle'[m][s] = cycle[m][s] \/ cycle'[m][s].pc = "leased"
    BY <1>0, <1>4, ActivateTakes
  <2>2. HydratedOK(cycle'[m][s])
    BY <2>1 DEF HydratedOK, AwaitInv
  <2> QED BY <2>1, <2>2, OthersHydrated DEF AwaitInv
<1>5. ASSUME NEW m \in Manager, NEW s \in Session, Load(m, s) PROVE AwaitInv'
  <2>1. /\ UNCHANGED <<snap, completions, parked, answered>> /\ OneSlot(m, s)
        /\ HydratedOK(cycle'[m][s])
    BY <1>0, <1>5, LoadTakes DEF HydratedOK
  <2> QED BY <2>1, OthersHydrated DEF AwaitInv
<1>6. ASSUME NEW m \in Manager, NEW s \in Session, NEW sn, Commits(m, s, sn) PROVE AwaitInv'
  <2>1. CASE UNCHANGED vars
    BY <2>1 DEF AwaitInv, vars, storeVars, managerVars
  <2>2. CASE CleanInterrupts
    <3>1. AwaitOK(sn, completions'[s], parked'[s], answered'[s])
      BY <1>6, <2>2, CommitAwaits DEF CleanInterrupts
    <3>2. /\ OneSlot(m, s) /\ HydratedOK(cycle'[m][s]) /\ snap'[s] = sn /\ answered' = answered
          /\ \A t \in Session : t # s => snap'[t] = snap[t]
                 /\ completions'[t] = completions[t] /\ parked'[t] = parked[t]
      BY <1>6 DEF Commits, Writes, HydratedOK
    <3>3. \A t \in Session : AwaitOK(snap'[t], completions'[t], parked'[t], answered'[t])
      BY <3>1, <3>2 DEF AwaitInv
    <3> QED BY <3>2, <3>3, OthersHydrated DEF AwaitInv
  <2> QED BY <2>1, <2>2
<1> QED BY <1>1, <1>2, <1>3, <1>4, <1>5, <1>6, StepKinds

(* An approval the snapshot waits for stays answerable or answered, for any *)
(* number of processes, crashes and turns, as long as no interrupt ends a   *)
(* turn that holds a completion: that interrupt, which the run              *)
(* lost_completion exhibits, is the only way commit_turn loses one.         *)
THEOREM ApprovalsStayAccounted ==
    Spec /\ [][CleanInterrupts]_vars => []AwaitedApprovalAccounted
<1>1. AwaitInv => AwaitedApprovalAccounted
  BY DEF AwaitInv, AwaitOK, AwaitedApprovalAccounted
<1> QED BY <1>1, AwaitStart, AwaitStep, Inductive, PTL DEF Spec

-----------------------------------------------------------------------------
(* No completion is recorded for a session that is being run.               *)
Undisturbed ==
    \A s \in Session : status[s] = "active" => completions'[s] \subseteq completions[s]

(* The holder of the newest lease runs an Active session, and its engine    *)
(* has seen every edit.                                                     *)
EditInv ==
    \A s \in Session :
        /\ cut[s] # 0 /\ cut[s] = fence[s] => status[s] = "active"
        /\ \A m \in Manager : Live(m, s) /\ cycle[m][s].fence = fence[s] =>
              /\ status[s] = "active"
              /\ cycle[m][s].pc = "running" => cycle[m][s].eng.edits = snap[s].edits

KeepsEdits == \A s \in Session : snap'[s].edits >= snap[s].edits

LEMMA EditStart == Init => EditInv
<1> SUFFICES ASSUME Init PROVE EditInv
  OBVIOUS
<1>1. \A m \in Manager, s \in Session : cycle[m][s].pc = "none"
  BY DEF Init, Vacant
<1> QED BY <1>1 DEF EditInv, Init, Live

LEMMA EditStep ==
    IInv /\ EditInv /\ [Next]_vars /\ [Undisturbed]_vars => EditInv' /\ [KeepsEdits]_vars
<1> SUFFICES ASSUME IInv, EditInv, [Next]_vars, [Undisturbed]_vars, ~UNCHANGED vars
             PROVE  EditInv' /\ KeepsEdits
  <2>1. UNCHANGED vars => UNCHANGED <<cut, fence, status, cycle, snap>>
    BY DEF vars, storeVars, managerVars
  <2>2. UNCHANGED <<cut, fence, status, cycle, snap>> /\ EditInv => EditInv'
    BY DEF EditInv, Live
  <2> QED BY <2>1, <2>2
<1>0. /\ TypeOK /\ Undisturbed
      /\ \A s \in Session : /\ fence[s] \in Nat /\ cut[s] \in Nat /\ snap[s].edits \in Nat
                            /\ cut[s] <= fence[s]
      /\ \A m \in Manager, s \in Session :
            Live(m, s) => cycle[m][s].fence \in 1 .. fence[s]
  BY SessionType DEF IInv, Snapshot, HeldOK, Live
<1>1. CASE Tame
  <2>1. \A t \in Session : Milder(t) /\ (status[t] = "active" => completions'[t] \subseteq completions[t])
    BY <1>0, <1>1 DEF Tame, Undisturbed
  <2>2. \A t \in Session : status[t] = "active" =>
            status'[t] = "active" /\ snap'[t].edits = snap[t].edits
    BY <2>1 DEF Milder
  <2>3. KeepsEdits
    BY <1>0, <2>1 DEF KeepsEdits, Milder
  <2>4. \A m \in Manager, t \in Session : Live(m, t)' =>
            /\ Live(m, t) /\ cycle'[m][t].fence = cycle[m][t].fence
            /\ cycle'[m][t].pc = cycle[m][t].pc /\ cycle'[m][t].eng = cycle[m][t].eng
    BY <1>1 DEF Tame, Calm, Live
  <2>5. UNCHANGED <<fence, cut>>
    BY <1>1 DEF Tame
  <2>6. EditInv'
    BY <2>2, <2>4, <2>5 DEF EditInv
  <2> QED BY <2>3, <2>6
<1>2. ASSUME UNCHANGED snap PROVE KeepsEdits
  BY <1>0, <1>2 DEF KeepsEdits
<1>3. ASSUME NEW s \in Session, LeaseElsewhere(s) PROVE EditInv' /\ KeepsEdits
  <2>1. /\ UNCHANGED <<snap, cycle>>
        /\ fence'[s] = fence[s] + 1 /\ status'[s] = "active"
        /\ \A t \in Session : t # s =>
              fence'[t] = fence[t] /\ status'[t] = status[t] /\ cut'[t] = cut[t]
    BY <1>0, <1>3, ElsewhereTakes
  <2>2. \A m \in Manager : Live(m, s) => cycle[m][s].fence # fence'[s]
    BY <1>0, <2>1
  <2> QED BY <1>2, <2>1, <2>2 DEF EditInv, Live
<1>4. ASSUME NEW m \in Manager, NEW s \in Session, Lease(m, s) PROVE EditInv' /\ KeepsEdits
  <2>1. /\ UNCHANGED <<snap, cut>> /\ OneSlot(m, s)
        /\ fence'[s] = fence[s] + 1 /\ status'[s] = "active"
        /\ \A t \in Session : t # s => fence'[t] = fence[t] /\ status'[t] = status[t]
        /\ cycle'[m][s].pc = "leased"
    BY <1>0, <1>4, LeaseTakes
  <2>2. \A n \in Manager : Live(n, s) => cycle[n][s].fence # fence'[s]
    BY <1>0, <2>1
  <2>3. EditInv'
    BY <2>1, <2>2 DEF EditInv, Live, OneSlot
  <2> QED BY <1>2, <2>1, <2>3
<1>5. ASSUME NEW m \in Manager, NEW s \in Session, Activate(m, s) PROVE EditInv' /\ KeepsEdits
  <2>1. /\ UNCHANGED <<snap, fence, status>> /\ OneSlot(m, s) /\ cut[s] # 0
        /\ cut'[s] = 0 /\ \A t \in Session : t # s => cut'[t] = cut[t]
        /\ \/ cycle'[m][s] = cycle[m][s]
           \/ cycle'[m][s].pc = "leased" /\ cycle'[m][s].fence = cut[s]
    BY <1>0, <1>5, ActivateTakes
  <2>2. EditInv'
    BY <2>1 DEF EditInv, Live, OneSlot
  <2> QED BY <1>2, <2>1, <2>2
<1>6. ASSUME NEW m \in Manager, NEW s \in Session, Load(m, s) PROVE EditInv' /\ KeepsEdits
  <2>1. /\ UNCHANGED <<snap, fence, status, cut>> /\ OneSlot(m, s) /\ Live(m, s)
        /\ cycle'[m][s].fence = cycle[m][s].fence
        /\ cycle'[m][s].eng.edits = snap[s].edits
    BY <1>0, <1>6, LoadTakes
  <2>2. EditInv'
    BY <2>1 DEF EditInv, Live, OneSlot
  <2> QED BY <1>2, <2>1, <2>2
<1>7. ASSUME NEW m \in Manager, NEW s \in Session, NEW sn, Commits(m, s, sn)
      PROVE  EditInv' /\ KeepsEdits
  <2>1. /\ UNCHANGED <<fence, cut>> /\ OneSlot(m, s) /\ ~Live(m, s)' /\ Live(m, s)
        /\ cycle[m][s].pc = "running" /\ cycle[m][s].fence = fence[s]
        /\ snap'[s].edits = cycle[m][s].eng.edits
        /\ \A t \in Session : t # s => snap'[t] = snap[t] /\ status'[t] = status[t]
    BY <1>7 DEF Commits, Writes, Live
  <2>2. cycle[m][s].eng.edits = snap[s].edits
    BY <2>1 DEF EditInv
  <2>3. KeepsEdits
    BY <1>0, <2>1, <2>2 DEF KeepsEdits
  <2>4. \A n \in Manager : n # m /\ Live(n, s) => cycle[n][s].fence # fence[s]
    BY <2>1 DEF IInv, LeaseUnique
  <2>5. cut[s] # 0 => cut[s] # fence[s]
    BY <2>1 DEF IInv, LeaseUnique
  <2>6. EditInv'
    BY <2>1, <2>4, <2>5 DEF EditInv, Live, OneSlot
  <2> QED BY <2>3, <2>6
<1> QED BY <1>1, <1>3, <1>4, <1>5, <1>6, <1>7, StepKinds

(* No commit overwrites an edit of swap_snapshot_if_dormant it has not      *)
(* seen, for any processes and leases, as long as no completion is recorded *)
(* while the session is Active: that flip to Ready, which the run lost_edit *)
(* exhibits, is the only way in.                                            *)
THEOREM EditsSurvive == Spec /\ [][Undisturbed]_vars => EditSurvives
<1> QED BY EditStart, EditStep, Inductive, PTL DEF Spec, EditSurvives, KeepsEdits

-----------------------------------------------------------------------------
(* An input on its way to reopen_if_settled.                                *)
Reopening(s) == \E m \in Manager : client[m].pc = "reopen" /\ client[m].s = s

(* No client is lost between its append and its reopen, an input to a       *)
(* settled session comes over the rail that reopens, and none arrives       *)
(* while an incarnation runs that may settle the session.                   *)
InputsHeeded ==
    /\ \A m \in Manager : client[m].pc = "reopen" => client'[m].pc # "idle"
    /\ \A s \in Session : lastSeq'[s] # lastSeq[s] =>
          /\ status[s] = "completed" => Reopening(s)'
          /\ s \notin Interactive => \A m \in Manager :
                ~(cycle[m][s].pc = "running" /\ cycle[m][s].fence = fence[s])

(* A settled session has folded every splice, or is about to be reopened.   *)
Covered(s) == status[s] = "completed" => snap[s].cursor = lastSeq[s] \/ Reopening(s)

(* An incarnation whose commit settles the session has folded every splice. *)
FoldsAll(cy, fe, n) == cy.pc = "running" /\ cy.fence = fe => cy.eng.cursor = n

HeedInv ==
    /\ \A s \in Session : Covered(s)
    /\ \A m \in Manager, s \in Session :
          s \notin Interactive => FoldsAll(cycle[m][s], fence[s], lastSeq[s])

LEMMA HeedStart == Init => HeedInv
<1> SUFFICES ASSUME Init PROVE HeedInv
  OBVIOUS
<1>1. \A m \in Manager, s \in Session : cycle[m][s].pc = "none"
  BY DEF Init, Vacant
<1>2. \A s \in Session : status[s] = "absent"
  BY DEF Init, StoreInit
<1> QED BY <1>1, <1>2 DEF HeedInv, Covered, FoldsAll

(* The session is settled by nothing but the step before, and the step      *)
(* accepts and folds nothing for it.                                        *)
Stays(t) ==
    status'[t] = "completed" =>
        status[t] = "completed" /\ snap'[t].cursor = snap[t].cursor /\ lastSeq'[t] = lastSeq[t]

LEMMA StaysCovered ==
    ASSUME \A t \in Session : Covered(t) /\ Stays(t), client' = client
    PROVE  \A t \in Session : Covered(t)'
BY DEF Covered, Stays, Reopening

LEMMA StaysSame ==
    ASSUME UNCHANGED <<status, snap, lastSeq>>
    PROVE  \A t \in Session : Stays(t)
BY DEF Stays

(* A step that gives one session another status than Completed.             *)
LEMMA StaysFlip ==
    ASSUME TypeOK, NEW s \in Session, NEW st, st # "completed" \/ st = status[s],
           status' = [status EXCEPT ![s] = st], UNCHANGED <<snap, lastSeq>>
    PROVE  \A t \in Session : Stays(t)
BY DEF Stays, TypeOK, StoreTypeOK

LEMMA ProducerStays ==
    ASSUME TypeOK, NEW s \in Session, Producer(s)
    PROVE  client' = client /\ \A t \in Session : Stays(t)
<1>1. CASE Create(s)
  <2>1. /\ client' = client /\ UNCHANGED snap
        /\ \E st : st # "completed" /\ status' = [status EXCEPT ![s] = st]
        /\ lastSeq' = lastSeq \/ lastSeq' = [lastSeq EXCEPT ![s] = @ + 1]
    BY <1>1 DEF Create, CreateIdle, CreateRunnable, InsertSplice, managerVars
  <2>2. status'[s] # "completed" /\ \A t \in Session : t # s => status'[t] = status[t]
    BY <2>1 DEF TypeOK, StoreTypeOK
  <2>3. \A t \in Session : t # s => lastSeq'[t] = lastSeq[t]
    BY <2>1 DEF TypeOK, StoreTypeOK
  <2> QED BY <2>1, <2>2, <2>3 DEF Stays
<1>2. CASE Edit(s)
  <2>1. /\ UNCHANGED <<status, lastSeq, client>>
        /\ snap' = [snap EXCEPT ![s] = [snap[s] EXCEPT !.edits = snap[s].edits + 1]]
    BY <1>2 DEF Edit, SwapSnapshotIfDormant
  <2> DEFINE sn == [snap[s] EXCEPT !.edits = snap[s].edits + 1]
  <2>2. sn.cursor = snap[s].cursor
    BY SessionType DEF Snapshot
  <2>3. snap'[s] = sn /\ \A t \in Session : t # s => snap'[t] = snap[t]
    BY <2>1 DEF TypeOK, StoreTypeOK
  <2> HIDE DEF sn
  <2> QED BY <2>1, <2>2, <2>3 DEF Stays
<1>3. CASE Prune(s)
  <2>1. UNCHANGED <<status, snap, lastSeq, client>>
    BY <1>3 DEF Prune, PruneConsumedSplices, managerVars
  <2> QED BY <2>1, StaysSame
<1>4. CASE LeaseElsewhere(s)
  <2>1. UNCHANGED <<snap, lastSeq, client>> /\ status' = [status EXCEPT ![s] = "active"]
    BY <1>4 DEF LeaseElsewhere, AcquireActivationLease
  <2> QED BY <2>1, StaysFlip
<1>5. ASSUME NEW j \in parked[s], Answer(s, j)
      PROVE  client' = client /\ \A t \in Session : Stays(t)
  <2>1. /\ UNCHANGED <<snap, lastSeq, client>>
        /\ status' = status \/ status' = [status EXCEPT ![s] = "ready"]
    BY <1>5 DEF Answer, AnswerApproval, managerVars
  <2>2. CASE status' = status
    BY <2>1, <2>2, StaysSame
  <2>3. CASE status' = [status EXCEPT ![s] = "ready"]
    <3>1. \A t \in Session : Stays(t)
      BY <2>1, <2>3, StaysFlip
    <3> QED BY <2>1, <3>1
  <2> QED BY <2>1, <2>2, <2>3
<1> QED BY <1>1, <1>2, <1>3, <1>4, <1>5 DEF Producer

LEMMA WakeStays ==
    ASSUME TypeOK, NEW m \in Manager, NEW s \in Session, Wake(m, s) \/ LingerStep(m, s)
    PROVE  client' = client /\ \A t \in Session : Stays(t)
<1>1. CASE Assign(m, s)
  <2> DEFINE st == IF status[s] = "idle" THEN "ready" ELSE status[s]
  <2>1. UNCHANGED <<snap, lastSeq, client>> /\ status' = [status EXCEPT ![s] = st]
    BY <1>1 DEF Assign, MarkReadyIfIdle
  <2>2. st # "completed" \/ st = status[s]
    OBVIOUS
  <2> HIDE DEF st
  <2>3. \A t \in Session : Stays(t)
    BY <2>1, <2>2, StaysFlip
  <2> QED BY <2>1, <2>3
<1>2. CASE DispatchWake(m, s)
  <2>1. UNCHANGED <<status, snap, lastSeq, client>>
    BY <1>2 DEF DispatchWake, DequeueWake
  <2> QED BY <2>1, StaysSame
<1>3. CASE UNCHANGED <<storeVars, client>>
  <2>1. UNCHANGED <<status, snap, lastSeq, client>>
    BY <1>3 DEF storeVars
  <2> QED BY <2>1, StaysSame
<1>4. CASE ScanNext(m, s) \/ \E c \in Caller : Reserve(m, c, s) \/ Absorb(m, c, s)
  BY <1>3, <1>4 DEF ScanNext, Reserve, Absorb
<1>5. CASE LingerStep(m, s)
  BY <1>3, <1>5 DEF LingerStep, LingerRegister, LingerCheck, LingerNotified,
                    LingerTimeout, LingerRecheck
<1> QED BY <1>1, <1>2, <1>4, <1>5 DEF Wake

(* A commit settles the session only over a cursor its incarnation reached. *)
SettlesFolded(m, s, t) ==
    Stays(t) \/ /\ t = s /\ s \notin Interactive
                /\ cycle[m][s].pc = "running" /\ cycle[m][s].fence = fence[s]
                /\ snap'[s].cursor = cycle[m][s].eng.cursor /\ lastSeq'[s] = lastSeq[s]

LEMMA EndTurnStays ==
    ASSUME TypeOK, NEW m \in Manager, NEW s \in Session, NEW sn, NEW pend, EndTurn(m, s, sn, pend)
    PROVE  \A t \in Session : Stays(t)
<1> DEFINE st == TurnStatus(ConsumeSplices(inbox[s], sn.cursor, turnSeq[s]),
                            completions[s] \ cycle[m][s].loaded)
<1>1. /\ status' = [status EXCEPT ![s] = st]
      /\ snap' = [snap EXCEPT ![s] = sn] /\ lastSeq' = lastSeq
  BY DEF EndTurn, CommitTurn
<1>2. st # "completed"
  BY DEF TurnStatus
<1> HIDE DEF st
<1> QED BY <1>1, <1>2 DEF Stays, TypeOK, StoreTypeOK

LEMMA FinishSettles ==
    ASSUME IInv, NEW m \in Manager, NEW s \in Session, NEW sn, NEW pend,
           cycle[m][s].pc = "running", sn.cursor = cycle[m][s].eng.cursor,
           Finish(m, s, sn, pend)
    PROVE  \A t \in Session : SettlesFolded(m, s, t)
<1>0. TypeOK
  BY DEF IInv
<1>1. CASE s \in Interactive
  BY <1>0, <1>1, EndTurnStays DEF Finish, SettlesFolded
<1>2. CASE s \notin Interactive
  <2>1. /\ CheckFence(s, cycle[m][s].fence) /\ lastSeq' = lastSeq
        /\ status' = [status EXCEPT ![s] = "completed"] /\ snap' = [snap EXCEPT ![s] = sn]
    BY <1>2 DEF Finish, MarkCompleted
  <2>2. cycle[m][s].fence = fence[s]
    BY <2>1, Accepted
  <2>3. /\ snap'[s] = sn
        /\ \A t \in Session : t # s => snap'[t] = snap[t] /\ status'[t] = status[t]
    BY <1>0, <2>1 DEF TypeOK, StoreTypeOK
  <2> QED BY <1>2, <2>1, <2>2, <2>3 DEF SettlesFolded, Stays
<1> QED BY <1>1, <1>2

LEMMA SuspendStays ==
    ASSUME TypeOK, NEW m \in Manager, NEW s \in Session, NEW sn, Suspend(m, s, sn)
    PROVE  \A t \in Session : Stays(t)
<1>1. /\ status' = [status EXCEPT ![s] = "suspended"]
      /\ snap' = [snap EXCEPT ![s] = sn] /\ lastSeq' = lastSeq
  BY DEF Suspend, CheckpointAndEnqueue, ParkApproval
<1> QED BY <1>1 DEF Stays, TypeOK, StoreTypeOK

LEMMA TurnSettles ==
    ASSUME IInv, NEW m \in Manager, NEW s \in Session, Turn(m, s)
    PROVE  client' = client /\ \A t \in Session : SettlesFolded(m, s, t)
<1>0. TypeOK /\ cycle[m][s] \in Cycle /\ cycle[m][s].eng \in Snapshot
  BY CycleFields DEF IInv
<1>1. CASE Lease(m, s)
  <2>1. UNCHANGED <<snap, lastSeq, client>> /\ status' = [status EXCEPT ![s] = "active"]
    BY <1>1 DEF Lease, AcquireActivationLease
  <2> QED BY <1>0, <2>1, StaysFlip DEF SettlesFolded
<1>2. CASE Activate(m, s) \/ Load(m, s) \/ Fenced(m, s) \/ Fail(m, s) \/ DropSlot(m, s)
  <2>1. UNCHANGED <<status, snap, lastSeq, client>>
    BY <1>2 DEF Activate, Load, LoadForActivation, Fenced, Fail, DropSlot, storeVars
  <2> QED BY <2>1, StaysSame DEF SettlesFolded
<1>3. CASE FoldOnly(m, s)
  BY <1>0, <1>3, EndTurnStays DEF FoldOnly, SettlesFolded
<1>4. CASE Interrupt(m, s)
  BY <1>4, FinishSettles DEF Interrupt
<1>5. CASE Resuspend(m, s)
  BY <1>0, <1>5, SuspendStays DEF Resuspend, SettlesFolded
<1>6. CASE RunToEnd(m, s)
  <2>1. cycle[m][s].pc = "running" /\ Finish(m, s, Resumed(cycle[m][s]), {}) /\ client' = client
    BY <1>6 DEF RunToEnd, RunsModel
  <2>2. Resumed(cycle[m][s]).cursor = cycle[m][s].eng.cursor
    BY <1>0 DEF Resumed, Snapshot
  <2> QED BY <2>1, <2>2, FinishSettles
<1>7. CASE RunToSuspension(m, s)
  <2>1. (\E sn : Suspend(m, s, sn)) /\ client' = client
    BY <1>7 DEF RunToSuspension
  <2> QED BY <1>0, <2>1, SuspendStays DEF SettlesFolded
<1> QED BY <1>1, <1>2, <1>3, <1>4, <1>5, <1>6, <1>7 DEF Turn

(* The rails: an append, the reopen and the wake, and a lost process.       *)
LEMMA SubmitCovers ==
    ASSUME TypeOK, \A t \in Session : Covered(t), InputsHeeded,
           NEW m \in Manager, NEW s \in Session, NEW op, Submit(m, s, op)
    PROVE  \A t \in Session : Covered(t)'
<1>1. /\ snap' = snap /\ client[m].pc = "idle"
      /\ \E c : client' = [client EXCEPT ![m] = c]
      /\ \/ UNCHANGED <<status, lastSeq>>
         \/ /\ lastSeq' = [lastSeq EXCEPT ![s] = @ + 1]
            /\ status' = [status EXCEPT ![s] = IF @ = "idle" THEN "ready" ELSE @]
  BY DEF Submit, AppendSplice, InsertSplice
<1>2. \A n \in Manager : n # m => client'[n] = client[n]
  BY <1>1 DEF TypeOK
<1>3. \A t \in Session : Reopening(t) => Reopening(t)'
  BY <1>1, <1>2 DEF Reopening
<1>4. \A t \in Session : status'[t] = "completed" => status[t] = "completed"
  BY <1>1 DEF TypeOK, StoreTypeOK
<1>5. \A t \in Session : lastSeq'[t] # lastSeq[t] => (status[t] = "completed" => Reopening(t)')
  BY DEF InputsHeeded
<1> QED BY <1>1, <1>3, <1>4, <1>5 DEF Covered

LEMMA CrashCovers ==
    ASSUME TypeOK, \A t \in Session : Covered(t), InputsHeeded,
           NEW m \in Manager, LoseProcess(m), UNCHANGED <<status, snap, lastSeq>>
    PROVE  \A t \in Session : Covered(t)'
<1>1. client' = [client EXCEPT ![m] = IdleClient]
  BY DEF LoseProcess
<1>2. client'[m].pc = "idle" /\ \A n \in Manager : n # m => client'[n] = client[n]
  BY <1>1 DEF TypeOK, IdleClient
<1>3. client[m].pc # "reopen"
  BY <1>2 DEF InputsHeeded
<1>4. \A t \in Session : Reopening(t) => Reopening(t)'
  BY <1>2, <1>3 DEF Reopening
<1> QED BY <1>4 DEF Covered

LEMMA WorkCovers ==
    ASSUME TypeOK, \A t \in Session : Covered(t), InputsHeeded,
           NEW m \in Manager, NEW s \in Session, Work(m, s)
    PROVE  \A t \in Session : Covered(t)'
<1>1. CASE SubmitAppend(m, s) \/ SubmitRetry(m, s)
  BY <1>1, SubmitCovers DEF SubmitAppend, SubmitRetry
<1>2. CASE SubmitReopen(m, s)
  <2>1. /\ UNCHANGED <<snap, lastSeq>> /\ client[m].s = s
        /\ status' = [status EXCEPT ![s] = IF @ = "completed" THEN "ready" ELSE @]
        /\ \E c : client' = [client EXCEPT ![m] = c]
    BY <1>2 DEF SubmitReopen, ReopenIfSettled
  <2>2. status'[s] # "completed" /\ \A t \in Session : t # s => status'[t] = status[t]
    BY <2>1 DEF TypeOK, StoreTypeOK
  <2>3. \A n \in Manager : n # m => client'[n] = client[n]
    BY <2>1 DEF TypeOK
  <2>4. \A t \in Session : t # s /\ Reopening(t) => Reopening(t)'
    BY <2>1, <2>3 DEF Reopening
  <2> QED BY <2>1, <2>2, <2>4 DEF Covered
<1>3. CASE SubmitWake(m, s)
  <2>1. /\ UNCHANGED <<status, snap, lastSeq>> /\ client[m].pc = "wake"
        /\ client' = [client EXCEPT ![m] = IdleClient]
    BY <1>3 DEF SubmitWake, EnqueueWake
  <2>2. \A n \in Manager : n # m => client'[n] = client[n]
    BY <2>1 DEF TypeOK
  <2>3. \A t \in Session : Reopening(t) => Reopening(t)'
    BY <2>1, <2>2 DEF Reopening
  <2> QED BY <2>1, <2>3 DEF Covered
<1>4. CASE (\E j \in {p[2] : p \in jobOutbox} : WorkerPop(m, s, j)) \/ WorkerPublish(m, s)
  <2>1. UNCHANGED <<status, snap, lastSeq, client>>
    BY <1>4 DEF WorkerPop, DequeueJob, WorkerPublish, EnqueueWake
  <2> QED BY <2>1, StaysSame, StaysCovered
<1>5. CASE WorkerRecord(m, s)
  <2>1. UNCHANGED <<snap, lastSeq, client>> /\ status' = [status EXCEPT ![s] = "ready"]
    BY <1>5 DEF WorkerRecord, RecordCompletion
  <2>2. \A t \in Session : Stays(t)
    BY <2>1, StaysFlip
  <2> QED BY <2>1, <2>2, StaysCovered
<1>6. CASE CrashInRecord(m, s)
  <2>1. LoseProcess(m) /\ UNCHANGED <<status, snap, lastSeq>>
    BY <1>6 DEF CrashInRecord, RecordCompletionOnly
  <2> QED BY <2>1, CrashCovers
<1> QED BY <1>1, <1>2, <1>3, <1>4, <1>5, <1>6 DEF Work

LEMMA CoveredStep ==
    ASSUME IInv, HeedInv, Next, InputsHeeded
    PROVE  \A t \in Session : Covered(t)'
<1>0. TypeOK /\ \A t \in Session : Covered(t)
  BY DEF IInv, HeedInv
<1>1. ASSUME NEW s \in Session, Producer(s) PROVE \A t \in Session : Covered(t)'
  BY <1>0, <1>1, ProducerStays, StaysCovered
<1>2. ASSUME NEW m \in Manager, NEW s \in Session, Wake(m, s) \/ LingerStep(m, s)
      PROVE  \A t \in Session : Covered(t)'
  BY <1>0, <1>2, WakeStays, StaysCovered
<1>3. ASSUME NEW m \in Manager, NEW s \in Session, Turn(m, s)
      PROVE  \A t \in Session : Covered(t)'
  <2>1. client' = client /\ \A t \in Session : SettlesFolded(m, s, t)
    BY <1>3, TurnSettles
  <2> SUFFICES ASSUME NEW t \in Session PROVE Covered(t)'
    OBVIOUS
  <2>2. CASE Stays(t)
    BY <1>0, <2>1, <2>2 DEF Stays, Covered, Reopening
  <2>3. CASE ~Stays(t)
    <3>1. /\ t = s /\ s \notin Interactive
          /\ cycle[m][s].pc = "running" /\ cycle[m][s].fence = fence[s]
          /\ snap'[s].cursor = cycle[m][s].eng.cursor /\ lastSeq'[s] = lastSeq[s]
      BY <2>1, <2>3 DEF SettlesFolded
    <3>2. cycle[m][s].eng.cursor = lastSeq[s]
      BY <3>1 DEF HeedInv, FoldsAll
    <3> QED BY <3>1, <3>2 DEF Covered
  <2> QED BY <2>2, <2>3
<1>4. ASSUME NEW m \in Manager, NEW s \in Session, Work(m, s)
      PROVE  \A t \in Session : Covered(t)'
  BY <1>0, <1>4, WorkCovers
<1>5. ASSUME NEW m \in Manager, Crash(m) PROVE \A t \in Session : Covered(t)'
  <2>1. LoseProcess(m) /\ UNCHANGED <<status, snap, lastSeq>>
    BY <1>5 DEF Crash, storeVars
  <2> QED BY <1>0, <2>1, CrashCovers
<1>6. ASSUME NEW m \in Manager, ScanResumable(m) \/ \E c \in Caller : CheckStatus(m, c)
      PROVE  \A t \in Session : Covered(t)'
  <2>1. UNCHANGED <<status, snap, lastSeq, client>>
    BY <1>6 DEF ScanResumable, CheckStatus, storeVars
  <2> QED BY <1>0, <2>1, StaysSame, StaysCovered
<1> QED BY <1>1, <1>2, <1>3, <1>4, <1>5, <1>6 DEF Next

(* A load under the newest lease folds every splice there is.               *)
LEMMA LoadFoldsAll ==
    ASSUME IInv, NEW m \in Manager, NEW s \in Session, Load(m, s)
    PROVE  FoldsAll(cycle'[m][s], fence'[s], lastSeq'[s])
<1> DEFINE cy    == cycle[m][s]
           base  == IF KeepsEngine(cy, s) THEN cy.eng ELSE snap[s]
           fresh == Fresh(inbox[s], base, cy.fence)
           eng   == Folded(base, fresh, cy.fence)
<1>0. /\ TypeOK /\ cy \in Cycle /\ fence[s] \in Nat /\ snap[s] \in Snapshot
      /\ lastSeq[s] \in Nat /\ inbox[s] \in [1 .. lastSeq[s] -> Row]
      /\ RowsOK(status[s], fence[s], snap[s], lastSeq[s], inbox[s])
  BY SessionType, CycleFields DEF IInv
<1>1. UNCHANGED <<fence, lastSeq>>
  BY DEF Load, LoadForActivation
<1>2. cycle'[m][s].fence = cy.fence
  BY <1>0, LoadTakes
<1>3. cycle'[m][s].eng = eng
  <2> DEFINE stash == IF KeepsEngine(cy, s) THEN cy.pend ELSE {}
             opens == completions[s] # {} \/ \E i \in fresh : inbox[s][i].op \notin Observe
             pend  == stash \cup (completions[s] \cap base.waiting)
             only  == fresh # {} /\ ~opens /\ base.waiting = {}
  <2>1. cycle' = [cycle EXCEPT ![m][s] = [cy EXCEPT
            !.pc = "running", !.turn = turnSeq[s], !.eng = eng, !.pend = pend,
            !.loaded = completions[s], !.foldOnly = only]]
    BY DEF Load
  <2> HIDE DEF eng, pend, only
  <2> DEFINE new == [cy EXCEPT
            !.pc = "running", !.turn = turnSeq[s], !.eng = eng, !.pend = pend,
            !.loaded = completions[s], !.foldOnly = only]
  <2>2. new.eng = eng
    BY <1>0 DEF Cycle
  <2>3. cycle' = [cycle EXCEPT ![m][s] = new]
    BY <2>1
  <2> HIDE DEF new
  <2> QED BY <1>0, <2>2, <2>3, SlotUpdate DEF TypeOK
<1> SUFFICES ASSUME cy.fence = fence[s] PROVE eng.cursor = lastSeq[s]
  BY <1>1, <1>2, <1>3 DEF FoldsAll
<1>4. snap[s].cursor <= lastSeq[s]
  BY <1>0 DEF RowsOK
<1>5. Fresh(inbox[s], snap[s], fence[s]) = snap[s].cursor + 1 .. lastSeq[s]
  BY <1>0, LoadedFresh
<1>6. base = snap[s]
  BY DEF KeepsEngine
<1>7. eng = Folded(snap[s], snap[s].cursor + 1 .. lastSeq[s], fence[s])
  BY <1>5, <1>6
<1> QED BY <1>0, <1>4, <1>7, FoldedExtends

LEMMA FoldsAllStep ==
    ASSUME IInv, HeedInv, Next, InputsHeeded,
           NEW n \in Manager, NEW t \in Session, t \notin Interactive
    PROVE  FoldsAll(cycle'[n][t], fence'[t], lastSeq'[t])
<1>0. /\ TypeOK /\ fence[t] \in Nat /\ FoldsAll(cycle[n][t], fence[t], lastSeq[t])
      /\ cycle[n][t].pc = "running" => cycle[n][t].fence \in 1 .. fence[t]
  BY SessionType DEF IInv, HeedInv, HeldOK
<1>1. lastSeq'[t] = lastSeq[t] \/ ~(cycle[n][t].pc = "running" /\ cycle[n][t].fence = fence[t])
  BY DEF InputsHeeded
<1>2. CASE Tame
  <2>1. Calm(cycle'[n][t], cycle[n][t]) /\ fence'[t] = fence[t]
    BY <1>2 DEF Tame
  <2> QED BY <1>0, <1>1, <2>1 DEF Calm, FoldsAll
<1>3. ASSUME cycle'[n][t] = cycle[n][t], fence'[t] \in {fence[t], fence[t] + 1}
      PROVE  FoldsAll(cycle'[n][t], fence'[t], lastSeq'[t])
  <2>1. CASE fence'[t] = fence[t]
    BY <1>0, <1>1, <1>3, <2>1 DEF FoldsAll
  <2>2. CASE fence'[t] = fence[t] + 1
    BY <1>0, <1>3, <2>2 DEF FoldsAll
  <2> QED BY <1>3, <2>1, <2>2
<1>4. ASSUME NEW s \in Session, LeaseElsewhere(s)
      PROVE  FoldsAll(cycle'[n][t], fence'[t], lastSeq'[t])
  BY <1>0, <1>3, <1>4, ElsewhereTakes
<1>5. ASSUME NEW m \in Manager, NEW s \in Session,
             Lease(m, s) \/ Activate(m, s) \/ Load(m, s) \/ \E sn : Commits(m, s, sn)
      PROVE  FoldsAll(cycle'[n][t], fence'[t], lastSeq'[t])
  <2>1. OneSlot(m, s) /\ fence'[t] \in {fence[t], fence[t] + 1}
    BY <1>0, <1>5, LeaseTakes, ActivateTakes, LoadTakes DEF Commits, Writes
  <2>2. CASE ~(n = m /\ t = s)
    BY <1>3, <2>1, <2>2 DEF OneSlot
  <2>3. CASE n = m /\ t = s
    <3>1. CASE Load(m, s)
      BY <2>3, <3>1, LoadFoldsAll
    <3>2. CASE Lease(m, s) \/ Activate(m, s) \/ \E sn : Commits(m, s, sn)
      <4>1. cycle'[n][t].pc # "running" \/ (cycle'[n][t] = cycle[n][t] /\ fence'[t] = fence[t])
        BY <1>0, <2>3, <3>2, LeaseTakes, ActivateTakes DEF Commits, Writes
      <4> QED BY <1>3, <4>1 DEF FoldsAll
    <3> QED BY <1>5, <3>1, <3>2
  <2> QED BY <2>2, <2>3
<1> QED BY <1>2, <1>4, <1>5, StepKinds

LEMMA HeedStep == IInv /\ HeedInv /\ [Next]_vars /\ [InputsHeeded]_vars => HeedInv'
<1> SUFFICES ASSUME IInv, HeedInv, [Next]_vars, [InputsHeeded]_vars PROVE HeedInv'
  OBVIOUS
<1>1. CASE UNCHANGED vars
  BY <1>1 DEF HeedInv, Covered, Reopening, FoldsAll, vars, storeVars, managerVars
<1>2. CASE Next /\ InputsHeeded
  BY <1>2, CoveredStep, FoldsAllStep DEF HeedInv
<1> QED BY <1>1, <1>2

(* A settled session keeps no input a client submitted, for any processes,  *)
(* rails and crashes, as long as no input arrives in the last turn of a     *)
(* session that settles (what the run stranded_input exhibits), none goes   *)
(* to a settled session over the rail that does not reopen, and no client   *)
(* dies between append_splice and reopen_if_settled: there is no other way. *)
THEOREM NothingStrandedOtherwise ==
    Spec /\ [][InputsHeeded]_vars => []NoStrandedCompleted
<1>1. IInv /\ HeedInv => NoStrandedCompleted
  <2> SUFFICES ASSUME IInv, HeedInv, NEW s \in Session, status[s] = "completed",
                      \A m \in Manager : client[m].s # s
               PROVE  Unconsumed(inbox[s]) = {}
    BY DEF NoStrandedCompleted
  <2>1. snap[s].cursor = lastSeq[s]
    BY DEF HeedInv, Covered, Reopening
  <2>2. /\ lastSeq[s] \in Nat /\ inbox[s] \in [1 .. lastSeq[s] -> Row]
        /\ RowsOK(status[s], fence[s], snap[s], lastSeq[s], inbox[s])
    BY SessionType DEF IInv
  <2>3. \A i \in 1 .. lastSeq[s] : Settled(inbox[s][i])
    BY <2>1, <2>2 DEF RowsOK
  <2> QED BY <2>2, <2>3 DEF Unconsumed, Settled
<1> QED BY <1>1, HeedStart, HeedStep, Inductive, PTL DEF Spec
=============================================================================
