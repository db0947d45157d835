--------------------------- MODULE DelegationProofs ---------------------------
(***************************************************************************)
(* Proofs about durable delegation, for trees of any depth and fan-out and *)
(* any number of crashes, failures, rewinds and messages.                  *)
(***************************************************************************)
EXTENDS Delegation, TLAPS, SequenceTheorems, FiniteSetTheorems

-----------------------------------------------------------------------------
(* The inductive invariant.                                                 *)

LastKind(c) == c[Len(c)].kind

(* The jobs a session waits for, in its row or in its running incarnation.  *)
Waits(p) == sess[p].waiting \cup (IF p \in DOMAIN live THEN live[p].waiting ELSE {})

JobOK(j) ==
    /\ j.parent \in DOMAIN sess
    /\ j.detached => j.child # DelRoot /\ LastKind(j.child) = "d"
    /\ ~j.detached => j.child = JoinChild(j.parent, j.epoch) /\ <<j.parent, j.epoch>> \in enqueued

JobsOK ==
    /\ \A i \in DOMAIN jobs : JobOK(jobs[i])
    /\ jobWorker.pc # "idle" => JobOK(jobWorker.job)

(* A joining child carries its edge in its id.                              *)
JoinsOK ==
    \A c \in DOMAIN joins :
        /\ c = JoinChild(joins[c].parent, joins[c].epoch)
        /\ joins[c].parent \in DOMAIN sess
        /\ <<joins[c].parent, joins[c].epoch>> \in enqueued

ChildrenOK ==
    \A c \in DOMAIN sess : c # DelRoot /\ LastKind(c) = "c" => c \in DOMAIN joins

(* An epoch is never delegated at twice: the parent is at or past it.       *)
EnqueuedOK ==
    \A pe \in enqueued :
        /\ pe[1] \in DOMAIN sess
        /\ pe[2] <= sess[pe[1]].epoch
        /\ pe[1] \in DOMAIN live => pe[2] <= live[pe[1]].epoch

WaitsOK ==
    \A p \in DOMAIN sess : \A e \in Waits(p) :
        /\ <<p, e>> \in enqueued
        /\ Has(JoinChild(p, e), "completed") => e \in sess[p].comps \/ <<p, e>> \in severed

JoinInv == JobsOK /\ JoinsOK /\ ChildrenOK /\ EnqueuedOK /\ WaitsOK

(* What an incarnation loaded is still in the row.                          *)
LiveOK ==
    \A s \in DOMAIN live :
        /\ live[s].items \subseteq sess[s].inbox
        /\ live[s].heard = sess[s].heard

InHand == noticeWorker.pc \in {"check", "append"}

(* A notice of c for p comes from a marked edge.                            *)
Sent(c, p) == c \in DOMAIN notices /\ notices[c].notified /\ notices[c].parent = p

PlacesOK ==
    /\ \A c \in DOMAIN notices : notices[c].parent \in DOMAIN sess
    /\ \A i \in DOMAIN outbox : Sent(outbox[i].child, outbox[i].parent)
    /\ InHand => Sent(noticeWorker.notice.child, noticeWorker.notice.parent)
    /\ \A p \in DOMAIN sess : \A i \in sess[p].inbox \cup sess[p].heard :
          i.kind = "notice" => Sent(i.of, p)

(* ... and is in one place.                                                 *)
OnceOK ==
    /\ \A i, k \in DOMAIN outbox : outbox[i].child = outbox[k].child => i = k
    /\ \A i \in DOMAIN outbox :
          /\ InHand => outbox[i].child # noticeWorker.notice.child
          /\ \A p \in DOMAIN sess :
                NoticeOf(outbox[i].child) \notin sess[p].inbox \cup sess[p].heard
    /\ InHand => \A p \in DOMAIN sess :
          NoticeOf(noticeWorker.notice.child) \notin sess[p].inbox \cup sess[p].heard
    /\ \A p \in DOMAIN sess : \A i \in sess[p].inbox :
          i.kind = "notice" => i \notin sess[p].heard

NoticeInv == LiveOK /\ PlacesOK /\ OnceOK

DelInv == DelTypeOK /\ JoinInv /\ NoticeInv

-----------------------------------------------------------------------------
(* Ids.                                                                     *)

LEMMA Appended ==
    ASSUME NEW S, NEW p \in Seq(S), NEW x \in S
    PROVE  /\ Append(p, x) \in Seq(S) /\ Append(p, x) # <<>>
           /\ Append(p, x)[Len(Append(p, x))] = x /\ Append(p, x) # p
BY AppendProperties

LEMMA JoinId ==
    ASSUME NEW p \in Path, NEW n \in Nat
    PROVE  /\ JoinChild(p, n) \in Path /\ JoinChild(p, n) # DelRoot
           /\ LastKind(JoinChild(p, n)) = "c" /\ JoinChild(p, n) # p
<1> DEFINE x == [kind |-> "c", n |-> n]
<1>1. x \in Segment /\ x.kind = "c"
  BY DEF Segment
<1>2. JoinChild(p, n) = Append(p, x) /\ p \in Seq(Segment)
  BY DEF JoinChild, Path
<1> HIDE DEF x
<1> QED BY <1>1, <1>2, Appended DEF DelRoot, LastKind, Path

LEMMA DetachedId ==
    ASSUME NEW p \in Path, NEW n \in Nat
    PROVE  /\ DetachedChild(p, n) \in Path /\ DetachedChild(p, n) # DelRoot
           /\ LastKind(DetachedChild(p, n)) = "d"
<1> DEFINE x == [kind |-> "d", n |-> n]
<1>1. x \in Segment /\ x.kind = "d"
  BY DEF Segment
<1>2. DetachedChild(p, n) = Append(p, x) /\ p \in Seq(Segment)
  BY DEF DetachedChild, Path
<1> HIDE DEF x
<1> QED BY <1>1, <1>2, Appended DEF DelRoot, LastKind, Path

(* The id of a joining child names its parent and epoch.                    *)
LEMMA JoinInjective ==
    ASSUME NEW p \in Path, NEW q \in Path, NEW d \in Nat, NEW e \in Nat,
           JoinChild(p, d) = JoinChild(q, e)
    PROVE  p = q /\ d = e
<1> DEFINE x == [kind |-> "c", n |-> d]
           y == [kind |-> "c", n |-> e]
<1>1. x \in Segment /\ y \in Segment /\ (x = y => d = e)
  BY DEF Segment
<1>2. Append(p, x) = Append(q, y) /\ p \in Seq(Segment) /\ q \in Seq(Segment)
  BY DEF JoinChild, Path
<1> HIDE DEF x, y
<1>3. p = q /\ x = y
  BY <1>1, <1>2, AppendInjective
<1> QED BY <1>1, <1>3

-----------------------------------------------------------------------------
(* Tables.                                                                  *)

JoinRow   == [parent : Path, epoch : Nat]
NoticeRow == [parent : Path, call : BOOLEAN, notified : BOOLEAN]

LEMMA SessionInserted ==
    ASSUME sess \in [DOMAIN sess -> DelSession], NEW x, NEW v \in DelSession,
           sess' = OrIgnore(sess, x, v)
    PROVE  /\ sess' \in [DOMAIN sess' -> DelSession] /\ DOMAIN sess' = DOMAIN sess \cup {x}
           /\ \A y \in DOMAIN sess : sess'[y] = sess[y]
           /\ x \notin DOMAIN sess => sess'[x] = v
<1>1. CASE x \in DOMAIN sess
  BY <1>1 DEF OrIgnore
<1>2. CASE x \notin DOMAIN sess
  BY <1>2 DEF OrIgnore, With
<1> QED BY <1>1, <1>2

LEMMA JoinInserted ==
    ASSUME joins \in [DOMAIN joins -> JoinRow], NEW x, NEW v \in JoinRow,
           joins' = OrIgnore(joins, x, v)
    PROVE  /\ joins' \in [DOMAIN joins' -> JoinRow] /\ DOMAIN joins' = DOMAIN joins \cup {x}
           /\ \A y \in DOMAIN joins : joins'[y] = joins[y]
           /\ x \notin DOMAIN joins => joins'[x] = v
<1>1. CASE x \in DOMAIN joins
  BY <1>1 DEF OrIgnore
<1>2. CASE x \notin DOMAIN joins
  BY <1>2 DEF OrIgnore, With
<1> QED BY <1>1, <1>2

LEMMA NoticeInserted ==
    ASSUME notices \in [DOMAIN notices -> NoticeRow], NEW x, NEW v \in NoticeRow,
           notices' = OrIgnore(notices, x, v)
    PROVE  /\ notices' \in [DOMAIN notices' -> NoticeRow] /\ DOMAIN notices' = DOMAIN notices \cup {x}
           /\ \A y \in DOMAIN notices : notices'[y] = notices[y]
           /\ x \notin DOMAIN notices => notices'[x] = v
<1>1. CASE x \in DOMAIN notices
  BY <1>1 DEF OrIgnore
<1>2. CASE x \notin DOMAIN notices
  BY <1>2 DEF OrIgnore, With
<1> QED BY <1>1, <1>2

LEMMA WithoutOK ==
    ASSUME NEW f, NEW g, NEW V, f \in [DOMAIN f -> V], NEW x, g = Without(f, x)
    PROVE  /\ g \in [DOMAIN g -> V] /\ DOMAIN g = DOMAIN f \ {x}
           /\ \A y \in DOMAIN g : g[y] = f[y]
BY DEF Without

LEMMA RowFields ==
    ASSUME DelTypeOK, NEW s \in DOMAIN sess
    PROVE  /\ s \in Path /\ sess[s] \in DelSession
           /\ sess[s].status \in {"idle", "ready", "active", "suspended", "completed"}
           /\ sess[s].epoch \in Nat /\ sess[s].waiting \subseteq Nat /\ sess[s].comps \subseteq Nat
           /\ sess[s].inbox \subseteq Item /\ sess[s].heard \subseteq Item /\ sess[s].minted \in Nat
<1>1. s \in Path /\ sess[s] \in DelSession
  BY DEF DelTypeOK
<1> QED BY <1>1 DEF DelSession

LEMMA LiveFields ==
    ASSUME DelTypeOK, NEW s \in DOMAIN live
    PROVE  /\ s \in DOMAIN sess /\ live[s] \in Incarnation
           /\ live[s].epoch \in Nat /\ live[s].waiting \subseteq Nat /\ live[s].comps \subseteq Nat
           /\ live[s].items \subseteq Item /\ live[s].heard \subseteq Item /\ live[s].child \in Path
<1>1. s \in DOMAIN sess /\ live[s] \in Incarnation
  BY DEF DelTypeOK
<1> QED BY <1>1 DEF Incarnation

(* append_splice on a row.                                                  *)
AppendRow(r, item) ==
    [r EXCEPT !.inbox = @ \cup {item}, !.status = IF @ = "idle" THEN "ready" ELSE @]

LEMMA AppendRowOK ==
    ASSUME NEW r \in DelSession, NEW item \in Item
    PROVE  LET t == AppendRow(r, item) IN
           /\ t \in DelSession /\ t.inbox = r.inbox \cup {item} /\ t.heard = r.heard
           /\ t.epoch = r.epoch /\ t.waiting = r.waiting /\ t.comps = r.comps
           /\ t.status = "completed" <=> r.status = "completed"
BY DEF AppendRow, DelSession

LEMMA AppendItemOK ==
    ASSUME NEW f, f \in [DOMAIN f -> DelSession], NEW s \in DOMAIN f, NEW item \in Item
    PROVE  AppendItem(f, s, item) = [f EXCEPT ![s] = AppendRow(f[s], item)]
BY DEF AppendItem, AppendRow, DelSession

-----------------------------------------------------------------------------
(* What keeps the joins.                                                    *)

AtLeast(q, n) == n >= sess[q].epoch \/ (q \in DOMAIN live /\ n >= live[q].epoch)

(* A step that enqueues no job and creates no session: nobody waits for     *)
(* more, no epoch falls, no completion row goes while somebody waits, and   *)
(* a child that completes has left its row.                                 *)
LEMMA JoinsKept ==
    ASSUME DelTypeOK, JoinInv, DelTypeOK',
           DOMAIN sess' = DOMAIN sess, joins' = joins, enqueued' = enqueued,
           \A i \in DOMAIN jobs' : JobOK(jobs'[i]),
           jobWorker'.pc # "idle" => JobOK(jobWorker'.job),
           \A q \in DOMAIN sess : sess'[q].waiting \subseteq Waits(q) /\ AtLeast(q, sess'[q].epoch),
           \A q \in DOMAIN live' : live'[q].waiting \subseteq Waits(q) /\ AtLeast(q, live'[q].epoch),
           severed \subseteq severed',
           \A q \in DOMAIN sess : \A e \in sess[q].comps \cap Waits(q)' :
               e \in sess'[q].comps \/ <<q, e>> \in severed',
           \A q \in DOMAIN sess : sess'[q].status = "completed" =>
               \/ sess[q].status = "completed"
               \/ q \in DOMAIN joins => joins[q].epoch \in sess'[joins[q].parent].comps
    PROVE  JoinInv'
<1>0. JobsOK /\ JoinsOK /\ ChildrenOK /\ EnqueuedOK /\ WaitsOK
  BY DEF JoinInv
<1>1. JobsOK'
  BY DEF JobsOK, JobOK
<1>2. JoinsOK' /\ ChildrenOK'
  BY <1>0 DEF JoinsOK, ChildrenOK
<1>3. EnqueuedOK'
  <2> SUFFICES ASSUME NEW pe \in enqueued
               PROVE  /\ pe[1] \in DOMAIN sess /\ pe[2] <= sess'[pe[1]].epoch
                      /\ pe[1] \in DOMAIN live' => pe[2] <= live'[pe[1]].epoch
    BY DEF EnqueuedOK
  <2> DEFINE p == pe[1]
             e == pe[2]
  <2>1. e \in Nat
    BY DEF DelTypeOK
  <2>2. /\ p \in DOMAIN sess /\ e <= sess[p].epoch
        /\ p \in DOMAIN live => e <= live[p].epoch
    BY <1>0 DEF EnqueuedOK
  <2> HIDE DEF p, e
  <2>3. /\ sess[p].epoch \in Nat /\ (p \in DOMAIN live => live[p].epoch \in Nat)
    BY <2>2, RowFields, LiveFields
  <2>4. /\ sess'[p].epoch \in Nat /\ (p \in DOMAIN live' => live'[p].epoch \in Nat)
    BY <2>2 DEF DelTypeOK, DelSession, Incarnation
  <2>5. e <= sess'[p].epoch
    BY <2>1, <2>2, <2>3, <2>4 DEF AtLeast
  <2>6. p \in DOMAIN live' => e <= live'[p].epoch
    BY <2>1, <2>2, <2>3, <2>4 DEF AtLeast
  <2> QED BY <2>2, <2>5, <2>6 DEF p, e
<1>4. WaitsOK'
  <2> SUFFICES ASSUME NEW p \in DOMAIN sess, NEW e \in Waits(p)'
               PROVE  /\ <<p, e>> \in enqueued
                      /\ Has(JoinChild(p, e), "completed")' =>
                            e \in sess'[p].comps \/ <<p, e>> \in severed'
    BY DEF WaitsOK, Has, JoinChild
  <2>1. e \in Waits(p)
    BY DEF Waits
  <2>2. /\ <<p, e>> \in enqueued
        /\ Has(JoinChild(p, e), "completed") => e \in sess[p].comps \/ <<p, e>> \in severed
    BY <1>0, <2>1 DEF WaitsOK
  <2>3. ASSUME Has(JoinChild(p, e), "completed")'
        PROVE  e \in sess'[p].comps \/ <<p, e>> \in severed'
    <3>1. PICK c : c = JoinChild(p, e)
      OBVIOUS
    <3>2. c \in DOMAIN sess /\ sess'[c].status = "completed"
      BY <2>3, <3>1 DEF Has, JoinChild
    <3>3. p \in Path /\ e \in Nat
      BY <2>2 DEF DelTypeOK
    <3>4. CASE sess[c].status = "completed"
      <4>1. e \in sess[p].comps \/ <<p, e>> \in severed
        BY <2>2, <3>1, <3>2, <3>4 DEF Has
      <4> QED BY <4>1
    <3>5. CASE c \in DOMAIN joins => joins[c].epoch \in sess'[joins[c].parent].comps
      <4>1. c \in DOMAIN joins
        BY <1>0, <3>1, <3>2, <3>3, JoinId DEF ChildrenOK
      <4>2. c = JoinChild(joins[c].parent, joins[c].epoch)
            /\ joins[c].parent \in Path /\ joins[c].epoch \in Nat
        BY <1>0, <4>1 DEF JoinsOK, DelTypeOK
      <4>3. joins[c].parent = p /\ joins[c].epoch = e
        BY <3>1, <3>3, <4>2, JoinInjective
      <4> QED BY <3>5, <4>1, <4>3
    <3> QED BY <3>2, <3>4, <3>5
  <2> QED BY <2>2, <2>3
<1> QED BY <1>1, <1>2, <1>3, <1>4 DEF JoinInv

-----------------------------------------------------------------------------
(* What keeps the notices.                                                  *)

(* Edges stay and stay marked; a notice stays where it is, moves from the   *)
(* inbox to what was heard, leaves the worker's hands, or is new in the     *)
(* outbox when its edge is marked.                                          *)
LEMMA NoticesKept ==
    ASSUME DelTypeOK, PlacesOK, OnceOK, DelTypeOK',
           DOMAIN sess \subseteq DOMAIN sess', DOMAIN notices \subseteq DOMAIN notices',
           \A c \in DOMAIN notices : /\ notices'[c].parent = notices[c].parent
                                     /\ notices[c].notified => notices'[c].notified,
           \A c \in DOMAIN notices' : notices'[c].parent \in DOMAIN sess',
           \/ outbox' = outbox
           \/ \E n \in Notice :
                 /\ outbox' = Append(outbox, n) /\ n.child \in DOMAIN notices
                 /\ ~notices[n.child].notified /\ notices'[n.child].notified
                 /\ n.parent = notices[n.child].parent,
           InHand' => InHand /\ noticeWorker'.notice = noticeWorker.notice,
           \A p \in DOMAIN sess' : p \notin DOMAIN sess =>
               sess'[p].inbox = {} /\ sess'[p].heard = {},
           \A p \in DOMAIN sess : \A i \in sess'[p].inbox :
               i.kind = "notice" => i \in sess[p].inbox,
           \A p \in DOMAIN sess : \A i \in sess'[p].heard :
               i.kind = "notice" =>
                   i \in sess[p].heard \/ (i \in sess[p].inbox /\ i \notin sess'[p].inbox)
    PROVE  PlacesOK' /\ OnceOK'
<1>1. ASSUME NEW c, NEW p, Sent(c, p)
      PROVE  Sent(c, p)'
  BY <1>1 DEF Sent
<1>2. \A p \in DOMAIN sess' : \A i \in sess'[p].inbox \cup sess'[p].heard :
          i.kind = "notice" => p \in DOMAIN sess /\ i \in sess[p].inbox \cup sess[p].heard
  OBVIOUS
<1>3. \A c : NoticeOf(c).kind = "notice" /\ NoticeOf(c).of = c
  BY DEF NoticeOf
<1>4. outbox \in Seq(Notice) /\ outbox' \in Seq(Notice)
      /\ DOMAIN outbox = 1 .. Len(outbox) /\ Len(outbox) \in Nat
      /\ \A i \in DOMAIN outbox : outbox[i] \in Notice
  BY LenProperties, ElementOfSeq DEF DelTypeOK
<1>5. CASE outbox' = outbox
  <2>1. PlacesOK'
    BY <1>1, <1>2, <1>5 DEF PlacesOK
  <2>2. OnceOK'
    BY <1>2, <1>3, <1>5 DEF OnceOK
  <2> QED BY <2>1, <2>2
<1>6. CASE \E n \in Notice :
              /\ outbox' = Append(outbox, n) /\ n.child \in DOMAIN notices
              /\ ~notices[n.child].notified /\ notices'[n.child].notified
              /\ n.parent = notices[n.child].parent
  <2>1. PICK n \in Notice :
              /\ outbox' = Append(outbox, n) /\ n.child \in DOMAIN notices
              /\ ~notices[n.child].notified /\ notices'[n.child].notified
              /\ n.parent = notices[n.child].parent
    BY <1>6
  <2>2. /\ DOMAIN outbox' = 1 .. Len(outbox) + 1
        /\ \A i \in DOMAIN outbox : outbox'[i] = outbox[i]
        /\ outbox'[Len(outbox) + 1] = n
    <3>1. /\ Len(Append(outbox, n)) = Len(outbox) + 1
          /\ \A i \in 1 .. Len(outbox) : Append(outbox, n)[i] = outbox[i]
          /\ Append(outbox, n)[Len(outbox) + 1] = n
      BY <1>4, AppendProperties
    <3>2. DOMAIN outbox' = 1 .. Len(outbox')
      BY <1>4, LenProperties
    <3>3. outbox' = Append(outbox, n)
      BY <2>1
    <3> HIDE DEF Notice
    <3> QED BY <1>4, <3>1, <3>2, <3>3
  <2>3. \A i \in DOMAIN outbox' : i \in DOMAIN outbox \/ i = Len(outbox) + 1
    BY <1>4, <2>2
  <2>4. \A p : ~Sent(n.child, p)
    BY <2>1 DEF Sent
  <2>5. Sent(n.child, n.parent)'
    BY <2>1 DEF Sent
  <2>6. PlacesOK'
    <3>1. \A i \in DOMAIN outbox' : Sent(outbox[i].child, outbox[i].parent)'
      <4> SUFFICES ASSUME NEW i \in DOMAIN outbox'
                   PROVE  Sent(outbox[i].child, outbox[i].parent)'
        OBVIOUS
      <4>1. CASE i \in DOMAIN outbox
        <5>1. Sent(outbox[i].child, outbox[i].parent)
          BY <4>1 DEF PlacesOK
        <5>2. outbox'[i] = outbox[i]
          BY <2>2, <4>1
        <5> QED BY <5>1, <5>2 DEF Sent
      <4>2. CASE i = Len(outbox) + 1
        <5>1. outbox'[i] = n
          BY <2>2, <4>2
        <5> QED BY <2>5, <5>1 DEF Sent
      <4> QED BY <2>3, <4>1, <4>2
    <3>2. InHand' => Sent(noticeWorker.notice.child, noticeWorker.notice.parent)'
      BY DEF PlacesOK, Sent
    <3>3. \A p \in DOMAIN sess' : \A i \in sess'[p].inbox \cup sess'[p].heard :
             i.kind = "notice" => Sent(i.of, p)'
      BY <1>1, <1>2 DEF PlacesOK
    <3> QED BY <3>1, <3>2, <3>3 DEF PlacesOK, Sent
  <2>7. OnceOK'
    <3>1. /\ \A i \in DOMAIN outbox : outbox[i].child # n.child
          /\ InHand => noticeWorker.notice.child # n.child
          /\ \A p \in DOMAIN sess : NoticeOf(n.child) \notin sess[p].inbox \cup sess[p].heard
      BY <1>3, <2>4 DEF PlacesOK
    <3>2. \A i, k \in DOMAIN outbox' : outbox'[i].child = outbox'[k].child => i = k
      BY <2>2, <2>3, <3>1 DEF OnceOK
    <3>3. \A i \in DOMAIN outbox' : InHand' => outbox'[i].child # noticeWorker'.notice.child
      BY <2>2, <2>3, <3>1 DEF OnceOK
    <3>4. \A i \in DOMAIN outbox' : \A p \in DOMAIN sess' :
             NoticeOf(outbox'[i].child) \notin sess'[p].inbox \cup sess'[p].heard
      BY <1>2, <1>3, <2>2, <2>3, <3>1 DEF OnceOK
    <3>5. InHand' => \A p \in DOMAIN sess' :
             NoticeOf(noticeWorker'.notice.child) \notin sess'[p].inbox \cup sess'[p].heard
      BY <1>2, <1>3 DEF OnceOK
    <3>6. \A p \in DOMAIN sess' : \A i \in sess'[p].inbox :
             i.kind = "notice" => i \notin sess'[p].heard
      BY DEF OnceOK
    <3> QED BY <3>2, <3>3, <3>4, <3>5, <3>6 DEF OnceOK, NoticeOf
  <2> QED BY <2>6, <2>7
<1> QED BY <1>5, <1>6

-----------------------------------------------------------------------------
(* Steps that write one row.                                                *)

LEMMA RowWritten ==
    ASSUME DelTypeOK, NEW s \in DOMAIN sess, NEW v \in DelSession,
           sess' = [sess EXCEPT ![s] = v]
    PROVE  /\ DOMAIN sess' = DOMAIN sess /\ DOMAIN sess' \subseteq Path
           /\ sess' \in [DOMAIN sess' -> DelSession]
           /\ sess'[s] = v /\ \A q \in DOMAIN sess : q # s => sess'[q] = sess[q]
<1>1. sess \in [DOMAIN sess -> DelSession] /\ DOMAIN sess \subseteq Path
  BY DEF DelTypeOK
<1> QED BY <1>1

LEMMA SelfBounds ==
    ASSUME DelTypeOK, NEW q \in DOMAIN sess
    PROVE  /\ sess[q].waiting \subseteq Waits(q) /\ AtLeast(q, sess[q].epoch)
           /\ q \in DOMAIN live =>
                 live[q].waiting \subseteq Waits(q) /\ AtLeast(q, live[q].epoch)
<1>1. sess[q].epoch \in Nat
  BY RowFields
<1>2. q \in DOMAIN live => live[q].epoch \in Nat
  BY LiveFields
<1> QED BY <1>1, <1>2 DEF Waits, AtLeast

(* The row of s changes and nothing the joins rest on but its waits, its    *)
(* epoch, its completions and its status.                                   *)
LEMMA RowJoins ==
    ASSUME DelTypeOK, JoinInv, DelTypeOK', NEW s \in DOMAIN sess, NEW v \in DelSession,
           sess' = [sess EXCEPT ![s] = v], joins' = joins, enqueued' = enqueued,
           jobs' = jobs, jobWorker' = jobWorker,
           v.waiting \subseteq Waits(s), AtLeast(s, v.epoch),
           \A q \in DOMAIN live' : live'[q].waiting \subseteq Waits(q) /\ AtLeast(q, live'[q].epoch),
           severed \subseteq severed',
           \A e \in sess[s].comps \cap Waits(s)' : e \in v.comps \/ <<s, e>> \in severed',
           v.status = "completed" => sess[s].status = "completed"
    PROVE  JoinInv'
<1>1. /\ DOMAIN sess' = DOMAIN sess /\ sess'[s] = v
      /\ \A q \in DOMAIN sess : q # s => sess'[q] = sess[q]
  BY RowWritten
<1>2. (\A i \in DOMAIN jobs' : JobOK(jobs'[i])) /\ (jobWorker'.pc # "idle" => JobOK(jobWorker'.job))
  BY DEF JoinInv, JobsOK
<1>3. \A q \in DOMAIN sess : sess'[q].waiting \subseteq Waits(q) /\ AtLeast(q, sess'[q].epoch)
  BY <1>1, SelfBounds
<1>4. \A q \in DOMAIN sess : \A e \in sess[q].comps \cap Waits(q)' :
          e \in sess'[q].comps \/ <<q, e>> \in severed'
  BY <1>1
<1>5. \A q \in DOMAIN sess : sess'[q].status = "completed" => sess[q].status = "completed"
  BY <1>1
<1> QED BY <1>1, <1>2, <1>3, <1>4, <1>5, JoinsKept

(* The same of the notices: what leaves the inbox has been heard.           *)
LEMMA RowNotices ==
    ASSUME DelTypeOK, NoticeInv, DelTypeOK', NEW s \in DOMAIN sess, NEW v \in DelSession,
           sess' = [sess EXCEPT ![s] = v], UNCHANGED <<notices, outbox>>,
           InHand' => InHand /\ noticeWorker'.notice = noticeWorker.notice,
           \A i \in v.inbox : i.kind = "notice" => i \in sess[s].inbox,
           \A i \in v.heard : i.kind = "notice" =>
               i \in sess[s].heard \/ (i \in sess[s].inbox /\ i \notin v.inbox)
    PROVE  PlacesOK' /\ OnceOK'
<1>1. /\ DOMAIN sess' = DOMAIN sess /\ sess'[s] = v
      /\ \A q \in DOMAIN sess : q # s => sess'[q] = sess[q]
  BY RowWritten
<1>2. /\ \A p \in DOMAIN sess : \A i \in sess'[p].inbox :
            i.kind = "notice" => i \in sess[p].inbox
      /\ \A p \in DOMAIN sess : \A i \in sess'[p].heard :
            i.kind = "notice" =>
                i \in sess[p].heard \/ (i \in sess[p].inbox /\ i \notin sess'[p].inbox)
  BY <1>1
<1>3. \A c \in DOMAIN notices' : notices'[c].parent \in DOMAIN sess'
  BY <1>1 DEF NoticeInv, PlacesOK
<1> QED BY <1>1, <1>2, <1>3, NoticesKept DEF NoticeInv

LEMMA Spent ==
    ASSUME DelTypeOK, NEW e \in DelEvent, DelSpend(e)
    PROVE  delBudget' \in [DelEvent -> Nat]
<1>1. delBudget \in [DelEvent -> Nat] /\ delBudget[e] > 0 /\ delBudget' = [delBudget EXCEPT ![e] = @ - 1]
  BY DEF DelTypeOK, DelSpend
<1>2. delBudget[e] - 1 \in Nat
  BY <1>1
<1> QED BY <1>1, <1>2

LEMMA NobodySubmits == NoSubmit \in Submission
<1>1. DelRoot \in Path
  BY EmptySeq DEF DelRoot, Path
<1> QED BY <1>1 DEF NoSubmit, Submission

(* The rest of the types, where only rows, wakes and budgets change.        *)
LEMMA RowTypes ==
    ASSUME DelTypeOK, NEW s \in DOMAIN sess, NEW v \in DelSession,
           sess' = [sess EXCEPT ![s] = v], wakeSet' \subseteq Path,
           delBudget' \in [DelEvent -> Nat],
           noticeWorker' \in [pc : {"idle", "check", "append", "wake"}, notice : Notice],
           live' \in [DOMAIN live' -> Incarnation], DOMAIN live' = DOMAIN live,
           submit' \in Submission,
           UNCHANGED <<jobs, enqueued, joins, severed, notices, outbox, jobWorker>>
    PROVE  DelTypeOK'
<1>1. /\ DOMAIN sess' = DOMAIN sess /\ DOMAIN sess' \subseteq Path
      /\ sess' \in [DOMAIN sess' -> DelSession]
  BY RowWritten
<1> QED BY <1>1 DEF DelTypeOK

LEMMA ItemTypes ==
    ASSUME NEW p \in Path
    PROVE  /\ Message(p) \in Item /\ SendFrom(p) \in Item /\ NoticeOf(p) \in Item
           /\ Message(p).kind = "message" /\ SendFrom(p).kind = "send"
           /\ NoticeOf(p).kind = "notice" /\ NoticeOf(p).of = p
BY DEF Message, SendFrom, NoticeOf, Item

(* A splice appended: the incarnation's items are still there.              *)
LEMMA Spliced ==
    ASSUME DelInv, NEW s \in DOMAIN sess, NEW item \in Item, item.kind # "notice",
           sess' = AppendItem(sess, s, item), delBudget' \in [DelEvent -> Nat],
           submit' \in Submission, live' \in [DOMAIN live' -> Incarnation],
           DOMAIN live' = DOMAIN live,
           \A q \in DOMAIN live : /\ live'[q].epoch = live[q].epoch
                                  /\ live'[q].waiting = live[q].waiting
                                  /\ live'[q].items = live[q].items
                                  /\ live'[q].heard = live[q].heard,
           UNCHANGED <<jobs, enqueued, joins, severed, notices, outbox, wakeSet, jobWorker,
                       noticeWorker>>
    PROVE  DelInv'
<1> DEFINE v == AppendRow(sess[s], item)
<1>0. DelTypeOK /\ JoinInv /\ NoticeInv /\ s \in Path /\ sess[s] \in DelSession
  BY RowFields DEF DelInv
<1>1. /\ v \in DelSession /\ v.inbox = sess[s].inbox \cup {item} /\ v.heard = sess[s].heard
      /\ v.epoch = sess[s].epoch /\ v.waiting = sess[s].waiting /\ v.comps = sess[s].comps
      /\ v.status = "completed" => sess[s].status = "completed"
  BY <1>0, AppendRowOK
<1>2. sess' = [sess EXCEPT ![s] = v]
  <2>1. sess \in [DOMAIN sess -> DelSession]
    BY <1>0 DEF DelTypeOK
  <2> QED BY <1>0, <2>1, AppendItemOK
<1> HIDE DEF v
<1>3. DelTypeOK'
  <2>1. /\ wakeSet' \subseteq Path
        /\ noticeWorker' \in [pc : {"idle", "check", "append", "wake"}, notice : Notice]
    BY <1>0 DEF DelTypeOK
  <2> QED BY <1>0, <1>1, <1>2, <2>1, RowTypes
<1>4. JoinInv'
  <2>1. \A q \in DOMAIN live' :
            live'[q].waiting \subseteq Waits(q) /\ AtLeast(q, live'[q].epoch)
    BY <1>0, LiveFields, SelfBounds
  <2>2. v.waiting \subseteq Waits(s) /\ AtLeast(s, v.epoch)
    BY <1>0, <1>1, SelfBounds
  <2> QED BY <1>0, <1>1, <1>2, <1>3, <2>1, <2>2, RowJoins
<1>5. PlacesOK' /\ OnceOK'
  <2>1. InHand' => InHand /\ noticeWorker'.notice = noticeWorker.notice
    BY DEF InHand
  <2>2. /\ \A i \in v.inbox : i.kind = "notice" => i \in sess[s].inbox
        /\ \A i \in v.heard : i.kind = "notice" => i \in sess[s].heard
    BY <1>1
  <2> QED BY <1>0, <1>1, <1>2, <1>3, <2>1, <2>2, RowNotices
<1>6. LiveOK'
  <2>1. \A q \in DOMAIN live : q \in DOMAIN sess /\ sess[q].inbox \subseteq sess'[q].inbox
                                 /\ sess'[q].heard = sess[q].heard
    BY <1>0, <1>1, <1>2, RowWritten, LiveFields
  <2> QED BY <1>0, <2>1 DEF NoticeInv, LiveOK
<1> QED BY <1>3, <1>4, <1>5, <1>6 DEF DelInv, NoticeInv

LEMMA ClientMessageStep ==
    ASSUME DelInv, NEW s \in DOMAIN sess, ClientMessage(s)
    PROVE  DelInv'
<1>0. DelTypeOK /\ s \in Path /\ live \in [DOMAIN live -> Incarnation]
  BY RowFields DEF DelInv, DelTypeOK
<1>1. Message(s) \in Item /\ Message(s).kind = "message"
  BY <1>0, ItemTypes
<1>2. delBudget' \in [DelEvent -> Nat]
  BY <1>0, Spent DEF ClientMessage, DelEvent
<1>3. submit' \in Submission
  BY <1>0 DEF ClientMessage, Submission
<1>4. /\ sess' = AppendItem(sess, s, Message(s))
      /\ UNCHANGED <<jobs, enqueued, joins, severed, notices, outbox, wakeSet, live, jobWorker,
                     noticeWorker>>
  BY DEF ClientMessage
<1> QED BY <1>0, <1>1, <1>2, <1>3, <1>4, Spliced

LEMMA RewindStep ==
    ASSUME DelInv, NEW s \in DOMAIN sess, Rewind(s)
    PROVE  DelInv'
<1> DEFINE n == sess[s].epoch + 1
           v == [sess[s] EXCEPT !.waiting = {}, !.epoch = n]
<1>0. /\ DelTypeOK /\ JoinInv /\ NoticeInv /\ sess[s] \in DelSession /\ sess[s].epoch \in Nat
  BY RowFields DEF DelInv
<1>1. sess' = [sess EXCEPT ![s] = v]
  BY <1>0 DEF Rewind, DelTypeOK
<1>2. n \in Nat /\ n >= sess[s].epoch
  BY <1>0
<1> HIDE DEF n
<1>3. /\ v \in DelSession /\ v.inbox = sess[s].inbox /\ v.heard = sess[s].heard /\ v.epoch = n
      /\ v.waiting = {} /\ v.comps = sess[s].comps /\ v.status = sess[s].status
  BY <1>0, <1>2 DEF DelSession
<1> HIDE DEF v
<1>5. /\ UNCHANGED <<jobs, enqueued, joins, severed, notices, outbox, live, jobWorker, submit, noticeWorker>>
      /\ DelSpend("rewind") /\ wakeSet' = wakeSet
  BY DEF Rewind
<1>6. DelTypeOK'
  <2>1. wakeSet' \subseteq Path /\ delBudget' \in [DelEvent -> Nat]
    BY <1>0, <1>5, Spent DEF DelTypeOK, DelEvent
  <2>2. /\ noticeWorker' \in [pc : {"idle", "check", "append", "wake"}, notice : Notice]
        /\ live' \in [DOMAIN live' -> Incarnation] /\ submit' \in Submission
    BY <1>0, <1>5 DEF DelTypeOK
  <2> QED BY <1>0, <1>1, <1>3, <1>5, <2>1, <2>2, RowTypes
<1>7. JoinInv'
  <2>1. \A q \in DOMAIN live' :
            live'[q].waiting \subseteq Waits(q) /\ AtLeast(q, live'[q].epoch)
    BY <1>0, <1>5, LiveFields, SelfBounds
  <2>2. v.waiting \subseteq Waits(s) /\ AtLeast(s, v.epoch)
    BY <1>2, <1>3 DEF AtLeast
  <2> QED BY <1>0, <1>1, <1>3, <1>5, <1>6, <2>1, <2>2, RowJoins
<1>8. PlacesOK' /\ OnceOK'
  <2>1. InHand' => InHand /\ noticeWorker'.notice = noticeWorker.notice
    BY <1>5 DEF InHand
  <2> QED BY <1>0, <1>1, <1>3, <1>5, <1>6, <2>1, RowNotices
<1>9. LiveOK'
  <2>1. \A q \in DOMAIN live : q \in DOMAIN sess /\ sess'[q].inbox = sess[q].inbox
                                 /\ sess'[q].heard = sess[q].heard
    BY <1>0, <1>1, <1>3, RowWritten, LiveFields
  <2> QED BY <1>0, <1>5, <2>1 DEF NoticeInv, LiveOK
<1> QED BY <1>6, <1>7, <1>8, <1>9 DEF DelInv, NoticeInv

(* A running incarnation moves on and keeps its snapshot.                   *)
LEMMA PcMoved ==
    ASSUME DelTypeOK, NEW s \in DOMAIN live, NEW pc \in {"hydrated", "model", "bind", "sent"},
           NEW c \in Path, live' = [live EXCEPT ![s] = [live[s] EXCEPT !.pc = pc, !.child = c]]
    PROVE  /\ live' \in [DOMAIN live' -> Incarnation] /\ DOMAIN live' = DOMAIN live
           /\ \A q \in DOMAIN live : /\ live'[q].epoch = live[q].epoch
                                     /\ live'[q].waiting = live[q].waiting
                                     /\ live'[q].items = live[q].items
                                     /\ live'[q].heard = live[q].heard
<1> DEFINE h == [live[s] EXCEPT !.pc = pc, !.child = c]
<1>1. live \in [DOMAIN live -> Incarnation] /\ live[s] \in Incarnation
  BY LiveFields DEF DelTypeOK
<1>2. /\ h \in Incarnation /\ h.epoch = live[s].epoch /\ h.waiting = live[s].waiting
      /\ h.items = live[s].items /\ h.heard = live[s].heard
  BY <1>1 DEF Incarnation
<1> HIDE DEF h
<1>3. live' = [live EXCEPT ![s] = h]
  BY DEF h
<1>4. /\ live' \in [DOMAIN live' -> Incarnation] /\ DOMAIN live' = DOMAIN live
      /\ live'[s] = h /\ \A q \in DOMAIN live : q # s => live'[q] = live[q]
  BY <1>1, <1>2, <1>3
<1> QED BY <1>2, <1>4

LEMMA SendToChildStep ==
    ASSUME DelInv, NEW s \in DOMAIN live, NEW c \in DOMAIN sess, SendToChild(s, c)
    PROVE  DelInv'
<1>0. DelTypeOK /\ s \in Path /\ c \in Path /\ live \in [DOMAIN live -> Incarnation]
  <2>1. DelTypeOK /\ s \in DOMAIN sess
    BY LiveFields DEF DelInv
  <2> QED BY <2>1, RowFields DEF DelTypeOK
<1>1. SendFrom(s) \in Item /\ SendFrom(s).kind = "send"
  BY <1>0, ItemTypes
<1>2. delBudget' \in [DelEvent -> Nat]
  BY <1>0, Spent DEF SendToChild, DelEvent
<1>3. /\ sess' = AppendItem(sess, c, SendFrom(s))
      /\ live' = [live EXCEPT ![s] = [live[s] EXCEPT !.pc = "sent", !.child = c]]
      /\ UNCHANGED <<jobs, enqueued, joins, severed, notices, outbox, wakeSet, jobWorker, submit,
                     noticeWorker>>
  BY <1>0 DEF SendToChild
<1>4. submit' \in Submission
  BY <1>0, <1>3 DEF DelTypeOK
<1>5. /\ live' \in [DOMAIN live' -> Incarnation] /\ DOMAIN live' = DOMAIN live
      /\ \A q \in DOMAIN live : /\ live'[q].epoch = live[q].epoch
                                /\ live'[q].waiting = live[q].waiting
                                /\ live'[q].items = live[q].items
                                /\ live'[q].heard = live[q].heard
  BY <1>0, <1>3, PcMoved
<1> QED BY <1>1, <1>2, <1>3, <1>4, <1>5, Spliced

(* The lease and the load: the incarnation holds what the row holds.        *)
LEMMA HydrateStep ==
    ASSUME DelInv, NEW s \in DOMAIN sess, s \notin DOMAIN live, Hydrate(s),
           wakeSet' \subseteq wakeSet,
           UNCHANGED <<jobs, enqueued, joins, severed, notices, outbox, jobWorker, submit, noticeWorker, delBudget>>
    PROVE  DelInv'
<1> DEFINE v == [sess[s] EXCEPT !.status = "active"]
           h == [pc |-> "hydrated", epoch |-> sess[s].epoch, waiting |-> sess[s].waiting,
                 comps |-> sess[s].comps, items |-> sess[s].inbox, heard |-> sess[s].heard,
                 child |-> DelRoot]
<1>0. DelTypeOK /\ JoinInv /\ NoticeInv /\ sess[s] \in DelSession
  BY RowFields DEF DelInv
<1>1. sess' = [sess EXCEPT ![s] = v] /\ live' = With(live, s, h)
  BY <1>0 DEF Hydrate, DelTypeOK
<1>2. /\ v \in DelSession /\ v.inbox = sess[s].inbox /\ v.heard = sess[s].heard
      /\ v.epoch = sess[s].epoch /\ v.waiting = sess[s].waiting /\ v.comps = sess[s].comps
      /\ v.status = "active"
  BY <1>0 DEF DelSession
<1>3. h \in Incarnation /\ h.items = sess[s].inbox /\ h.heard = sess[s].heard
      /\ h.epoch = sess[s].epoch /\ h.waiting = sess[s].waiting
  <2>1. DelRoot \in Path
    BY EmptySeq DEF DelRoot, Path
  <2> QED BY <1>0, <2>1, RowFields DEF Incarnation
<1> HIDE DEF v, h
<1>4. /\ DOMAIN sess' = DOMAIN sess /\ DOMAIN sess' \subseteq Path
      /\ sess' \in [DOMAIN sess' -> DelSession]
      /\ sess'[s] = v /\ \A q \in DOMAIN sess : q # s => sess'[q] = sess[q]
  BY <1>0, <1>1, <1>2, RowWritten
<1>5. /\ live' \in [DOMAIN live' -> Incarnation] /\ DOMAIN live' = DOMAIN live \cup {s}
      /\ live'[s] = h /\ \A q \in DOMAIN live : live'[q] = live[q]
  <2>1. live \in [DOMAIN live -> Incarnation]
    BY <1>0 DEF DelTypeOK
  <2>2. /\ With(live, s, h) \in [DOMAIN live \cup {s} -> Incarnation]
        /\ DOMAIN With(live, s, h) = DOMAIN live \cup {s} /\ With(live, s, h)[s] = h
        /\ \A y \in DOMAIN live : y # s => With(live, s, h)[y] = live[y]
    BY <1>3, <2>1 DEF With
  <2>3. live' = With(live, s, h)
    BY <1>1
  <2> QED BY <2>2, <2>3
<1>6. DelTypeOK'
  BY <1>0, <1>4, <1>5 DEF DelTypeOK
<1>7. JoinInv'
  <2>1. \A q \in DOMAIN live' :
            live'[q].waiting \subseteq Waits(q) /\ AtLeast(q, live'[q].epoch)
    BY <1>0, <1>3, <1>5, LiveFields, SelfBounds
  <2>2. v.waiting \subseteq Waits(s) /\ AtLeast(s, v.epoch)
    BY <1>0, <1>2, SelfBounds
  <2> QED BY <1>0, <1>1, <1>2, <1>6, <2>1, <2>2, RowJoins
<1>8. PlacesOK' /\ OnceOK'
  <2>1. InHand' => InHand /\ noticeWorker'.notice = noticeWorker.notice
    BY DEF InHand
  <2> QED BY <1>0, <1>1, <1>2, <1>6, <2>1, RowNotices
<1>9. LiveOK'
  <2>1. \A q \in DOMAIN live : q \in DOMAIN sess /\ q # s /\ sess'[q] = sess[q]
    BY <1>0, <1>4, LiveFields
  <2> QED BY <1>0, <1>2, <1>3, <1>4, <1>5, <2>1 DEF NoticeInv, LiveOK
<1> QED BY <1>6, <1>7, <1>8, <1>9 DEF DelInv, NoticeInv

LEMMA ScanWakeStep ==
    ASSUME DelInv, NEW s \in DOMAIN sess, ScanWake(s)
    PROVE  DelInv'
BY HydrateStep DEF ScanWake

-----------------------------------------------------------------------------
(* Steps that write no row.                                                 *)

LEMMA StillJoins ==
    ASSUME DelTypeOK, JoinInv, DelTypeOK', sess' = sess, joins' = joins, enqueued' = enqueued,
           severed' = severed,
           \A i \in DOMAIN jobs' : JobOK(jobs'[i]),
           jobWorker'.pc # "idle" => JobOK(jobWorker'.job),
           \A q \in DOMAIN live' : /\ q \in DOMAIN live /\ live'[q].epoch = live[q].epoch
                                   /\ live'[q].waiting = live[q].waiting
    PROVE  JoinInv'
<1>1. \A q \in DOMAIN sess : sess'[q].waiting \subseteq Waits(q) /\ AtLeast(q, sess'[q].epoch)
  BY SelfBounds
<1>2. \A q \in DOMAIN live' : live'[q].waiting \subseteq Waits(q) /\ AtLeast(q, live'[q].epoch)
  BY SelfBounds, LiveFields
<1> QED BY <1>1, <1>2, JoinsKept

LEMMA StillNotices ==
    ASSUME DelTypeOK, NoticeInv, DelTypeOK', sess' = sess, outbox' = outbox,
           DOMAIN notices \subseteq DOMAIN notices',
           \A c \in DOMAIN notices : notices'[c] = notices[c],
           \A c \in DOMAIN notices' : notices'[c].parent \in DOMAIN sess,
           InHand' => InHand /\ noticeWorker'.notice = noticeWorker.notice,
           \A q \in DOMAIN live' : /\ q \in DOMAIN live /\ live'[q].items = live[q].items
                                   /\ live'[q].heard = live[q].heard
    PROVE  NoticeInv'
<1>1. PlacesOK' /\ OnceOK'
  BY NoticesKept DEF NoticeInv
<1>2. LiveOK'
  BY DEF NoticeInv, LiveOK
<1> QED BY <1>1, <1>2 DEF NoticeInv

LEMMA JobsStill ==
    ASSUME JoinInv
    PROVE  (\A i \in DOMAIN jobs : JobOK(jobs[i])) /\ (jobWorker.pc # "idle" => JobOK(jobWorker.job))
BY DEF JoinInv, JobsOK

LEMMA EdgesStill ==
    ASSUME NoticeInv
    PROVE  \A c \in DOMAIN notices : notices[c].parent \in DOMAIN sess
BY DEF NoticeInv, PlacesOK

(* inject reopens a settled session.                                        *)
LEMMA ReopenSettledStep ==
    ASSUME DelInv, ReopenSettled
    PROVE  DelInv'
<1> DEFINE s == submit.to
           st == IF sess[s].status = "completed" THEN "ready" ELSE sess[s].status
           v == [sess[s] EXCEPT !.status = st]
<1>0. /\ DelTypeOK /\ JoinInv /\ NoticeInv /\ sess \in [DOMAIN sess -> DelSession]
      /\ submit \in Submission /\ live \in [DOMAIN live -> Incarnation]
      /\ UNCHANGED <<jobs, enqueued, joins, severed, notices, outbox, wakeSet, live, jobWorker,
                     noticeWorker, delBudget>>
      /\ sess' = [sess EXCEPT ![s].status = IF @ = "completed" THEN "ready" ELSE @]
      /\ submit' = [submit EXCEPT !.pc = "wake"]
  BY DEF DelInv, DelTypeOK, ReopenSettled
<1>1. submit' \in Submission
  BY <1>0 DEF Submission
<1>2. InHand' => InHand /\ noticeWorker'.notice = noticeWorker.notice
  BY <1>0 DEF InHand
<1>3. CASE s \notin DOMAIN sess
  <2>1. sess' = sess
    BY <1>0, <1>3
  <2>2. DelTypeOK'
    BY <1>0, <1>1, <2>1 DEF DelTypeOK
  <2>3. JoinInv'
    BY <1>0, <2>1, <2>2, JobsStill, StillJoins
  <2>4. NoticeInv'
    BY <1>0, <1>2, <2>1, <2>2, EdgesStill, StillNotices
  <2> QED BY <2>2, <2>3, <2>4 DEF DelInv
<1>4. CASE s \in DOMAIN sess
  <2>1. sess' = [sess EXCEPT ![s] = v] /\ sess[s] \in DelSession
    BY <1>0, <1>4
  <2>2. st \in {"idle", "ready", "active", "suspended", "completed"} /\ st # "completed"
    BY <1>0, <1>4, RowFields
  <2> HIDE DEF s, st
  <2>3. /\ v \in DelSession /\ v.inbox = sess[s].inbox /\ v.heard = sess[s].heard
        /\ v.epoch = sess[s].epoch /\ v.waiting = sess[s].waiting /\ v.comps = sess[s].comps
        /\ v.status # "completed"
    BY <2>1, <2>2 DEF DelSession
  <2> HIDE DEF v
  <2>4. DelTypeOK'
    <3>1. /\ wakeSet' \subseteq Path /\ delBudget' \in [DelEvent -> Nat]
          /\ noticeWorker' \in [pc : {"idle", "check", "append", "wake"}, notice : Notice]
      BY <1>0 DEF DelTypeOK
    <3> QED BY <1>0, <1>1, <1>4, <2>1, <2>3, <3>1, RowTypes
  <2>5. JoinInv'
    <3>1. \A q \in DOMAIN live' :
              live'[q].waiting \subseteq Waits(q) /\ AtLeast(q, live'[q].epoch)
      BY <1>0, LiveFields, SelfBounds
    <3>2. v.waiting \subseteq Waits(s) /\ AtLeast(s, v.epoch)
      BY <1>0, <1>4, <2>3, SelfBounds
    <3> QED BY <1>0, <1>4, <2>1, <2>3, <2>4, <3>1, <3>2, RowJoins
  <2>6. PlacesOK' /\ OnceOK'
    BY <1>0, <1>2, <1>4, <2>1, <2>3, <2>4, RowNotices
  <2>7. LiveOK'
    <3>1. \A q \in DOMAIN live : q \in DOMAIN sess /\ sess'[q].inbox = sess[q].inbox
                                   /\ sess'[q].heard = sess[q].heard
      BY <1>0, <1>4, <2>1, <2>3, RowWritten, LiveFields
    <3> QED BY <1>0, <3>1 DEF NoticeInv, LiveOK
  <2> QED BY <2>4, <2>5, <2>6, <2>7 DEF DelInv, NoticeInv
<1> QED BY <1>3, <1>4

LEMMA WakeAddressedStep ==
    ASSUME DelInv, WakeAddressed
    PROVE  DelInv'
<1>0. /\ DelTypeOK /\ JoinInv /\ NoticeInv /\ submit' = NoSubmit
      /\ wakeSet' = wakeSet \cup {submit.to}
      /\ UNCHANGED <<sess, jobs, enqueued, joins, severed, notices, outbox, live, jobWorker,
                     noticeWorker, delBudget>>
  BY DEF DelInv, WakeAddressed
<1>1. submit' \in Submission /\ submit.to \in Path
  BY <1>0, NobodySubmits DEF Submission, DelTypeOK
<1>2. DelTypeOK'
  BY <1>0, <1>1 DEF DelTypeOK
<1>3. JoinInv'
  BY <1>0, <1>2, JobsStill, StillJoins
<1>4. NoticeInv'
  <2>1. InHand' => InHand /\ noticeWorker'.notice = noticeWorker.notice
    BY <1>0 DEF InHand
  <2> QED BY <1>0, <1>2, <2>1, EdgesStill, StillNotices
<1> QED BY <1>2, <1>3, <1>4 DEF DelInv

LEMMA DispatchStep ==
    ASSUME DelInv, NEW s \in wakeSet, Dispatch(s)
    PROVE  DelInv'
<1>0. /\ DelTypeOK /\ JoinInv /\ NoticeInv /\ wakeSet' = wakeSet \ {s}
      /\ UNCHANGED <<jobs, enqueued, joins, severed, notices, outbox, jobWorker, submit, noticeWorker, delBudget>>
  BY DEF DelInv, Dispatch
<1>1. CASE s \in DOMAIN sess /\ s \notin DOMAIN live /\ Hydrate(s)
  BY <1>0, <1>1, HydrateStep
<1>2. CASE UNCHANGED <<sess, live>>
  <2>1. DelTypeOK'
    BY <1>0, <1>2 DEF DelTypeOK
  <2>2. JoinInv'
    BY <1>0, <1>2, <2>1, JobsStill, StillJoins
  <2>3. NoticeInv'
    <3>1. InHand' => InHand /\ noticeWorker'.notice = noticeWorker.notice
      BY <1>0 DEF InHand
    <3> QED BY <1>0, <1>2, <2>1, <3>1, EdgesStill, StillNotices
  <2> QED BY <2>1, <2>2, <2>3 DEF DelInv
<1> QED BY <1>1, <1>2 DEF Dispatch

LEMMA GoesOnStep ==
    ASSUME DelInv, NEW s \in DOMAIN live, EnterModel(s) \/ WakeSentTo(s)
    PROVE  DelInv'
<1>0. /\ DelTypeOK /\ JoinInv /\ NoticeInv /\ live[s] \in Incarnation /\ live[s].child \in Path
      /\ live \in [DOMAIN live -> Incarnation]
      /\ UNCHANGED <<sess, jobs, enqueued, joins, severed, notices, outbox, jobWorker, submit,
                     noticeWorker, delBudget>>
  BY LiveFields DEF DelInv, EnterModel, WakeSentTo, delStore, DelTypeOK
<1>1. wakeSet' \subseteq Path
  BY <1>0 DEF EnterModel, WakeSentTo, delStore, DelTypeOK
<1>2. live' = [live EXCEPT ![s] = [live[s] EXCEPT !.pc = "model", !.child = live[s].child]]
  BY <1>0 DEF EnterModel, WakeSentTo, Incarnation
<1>3. /\ live' \in [DOMAIN live' -> Incarnation] /\ DOMAIN live' = DOMAIN live
      /\ \A q \in DOMAIN live : /\ live'[q].epoch = live[q].epoch
                                /\ live'[q].waiting = live[q].waiting
                                /\ live'[q].items = live[q].items
                                /\ live'[q].heard = live[q].heard
  BY <1>0, <1>2, PcMoved
<1>4. DelTypeOK'
  BY <1>0, <1>1, <1>3 DEF DelTypeOK
<1>5. JoinInv'
  BY <1>0, <1>3, <1>4, JobsStill, StillJoins
<1>6. NoticeInv'
  <2>1. InHand' => InHand /\ noticeWorker'.notice = noticeWorker.notice
    BY <1>0 DEF InHand
  <2> QED BY <1>0, <1>3, <1>4, <2>1, EdgesStill, StillNotices
<1> QED BY <1>4, <1>5, <1>6 DEF DelInv

LEMMA BindNoticeStep ==
    ASSUME DelInv, NEW s \in DOMAIN live, BindNotice(s)
    PROVE  DelInv'
<1> DEFINE h == [live[s] EXCEPT !.pc = "model"]
           edge == NoticeEdge(s, TRUE)
<1>0. /\ DelTypeOK /\ JoinInv /\ NoticeInv /\ live[s] \in Incarnation
      /\ live \in [DOMAIN live -> Incarnation] /\ s \in DOMAIN sess /\ s \in Path
      /\ live[s].child \in Path
      /\ UNCHANGED <<sess, jobs, enqueued, joins, severed, outbox, wakeSet, jobWorker, submit,
                     noticeWorker, delBudget>>
  BY LiveFields, RowFields DEF DelInv, BindNotice, DelTypeOK
<1>1. live' = [live EXCEPT ![s] = h] /\ notices' = OrIgnore(notices, live[s].child, edge)
  BY <1>0 DEF BindNotice
<1>2. /\ h \in Incarnation /\ h.epoch = live[s].epoch /\ h.waiting = live[s].waiting
      /\ h.items = live[s].items /\ h.heard = live[s].heard
  BY <1>0 DEF Incarnation
<1>3. edge \in NoticeRow /\ edge.parent = s
  BY <1>0 DEF NoticeEdge, NoticeRow
<1> HIDE DEF h, edge
<1>4. /\ live' \in [DOMAIN live' -> Incarnation] /\ DOMAIN live' = DOMAIN live
      /\ live'[s] = h /\ \A q \in DOMAIN live : q # s => live'[q] = live[q]
  BY <1>0, <1>1, <1>2
<1>5. /\ notices' \in [DOMAIN notices' -> NoticeRow] /\ DOMAIN notices' = DOMAIN notices \cup {live[s].child}
      /\ \A c \in DOMAIN notices : notices'[c] = notices[c]
      /\ live[s].child \notin DOMAIN notices => notices'[live[s].child] = edge
  <2>1. notices \in [DOMAIN notices -> NoticeRow]
    BY <1>0 DEF DelTypeOK, NoticeRow
  <2> QED BY <1>1, <1>3, <2>1, NoticeInserted
<1>6. DelTypeOK'
  <2>1. DOMAIN notices' \subseteq Path
    BY <1>0, <1>5 DEF DelTypeOK
  <2> QED BY <1>0, <1>4, <1>5, <2>1 DEF DelTypeOK, NoticeRow
<1>7. JoinInv'
  BY <1>0, <1>2, <1>4, <1>6, JobsStill, StillJoins
<1>8. NoticeInv'
  <2>1. InHand' => InHand /\ noticeWorker'.notice = noticeWorker.notice
    BY <1>0 DEF InHand
  <2>2. \A c \in DOMAIN notices' : notices'[c].parent \in DOMAIN sess
    BY <1>0, <1>3, <1>5, EdgesStill
  <2> QED BY <1>0, <1>2, <1>4, <1>5, <1>6, <2>1, <2>2, StillNotices
<1> QED BY <1>6, <1>7, <1>8 DEF DelInv

LEMMA SpawnDetachedStep ==
    ASSUME DelInv, NEW s \in DOMAIN live, SpawnDetached(s)
    PROVE  DelInv'
<1> DEFINE n == sess[s].minted + 1
           child == DetachedChild(s, n)
           v == [sess[s] EXCEPT !.minted = n]
           h == [live[s] EXCEPT !.pc = "bind", !.child = child]
           j == [parent |-> s, epoch |-> 0, child |-> child, detached |-> TRUE]
<1>0. /\ DelTypeOK /\ JoinInv /\ NoticeInv /\ live[s] \in Incarnation
      /\ live \in [DOMAIN live -> Incarnation] /\ s \in DOMAIN sess /\ s \in Path
      /\ sess[s] \in DelSession /\ n \in Nat /\ DelSpend("spawn")
      /\ UNCHANGED <<enqueued, joins, severed, notices, outbox, wakeSet, jobWorker, submit, noticeWorker>>
  <2>1. DelTypeOK /\ JoinInv /\ NoticeInv
    BY DEF DelInv
  <2>2. /\ live[s] \in Incarnation /\ live \in [DOMAIN live -> Incarnation] /\ s \in DOMAIN sess
    BY <2>1, LiveFields DEF DelTypeOK
  <2>3. s \in Path /\ sess[s] \in DelSession /\ sess[s].minted \in Nat
    BY <2>1, <2>2, RowFields
  <2>4. /\ DelSpend("spawn")
        /\ UNCHANGED <<enqueued, joins, severed, notices, outbox, wakeSet, jobWorker, submit, noticeWorker>>
    BY DEF SpawnDetached
  <2> QED BY <2>1, <2>2, <2>3, <2>4
<1>1. /\ sess' = [sess EXCEPT ![s] = v] /\ live' = [live EXCEPT ![s] = h]
      /\ jobs' = Append(jobs, j)
  BY <1>0 DEF SpawnDetached, DelTypeOK
<1>2. child \in Path /\ child # DelRoot /\ LastKind(child) = "d"
  BY <1>0, DetachedId
<1> HIDE DEF n, child
<1>3. /\ v \in DelSession /\ v.inbox = sess[s].inbox /\ v.heard = sess[s].heard
      /\ v.epoch = sess[s].epoch /\ v.waiting = sess[s].waiting /\ v.comps = sess[s].comps
      /\ v.status = sess[s].status
  BY <1>0 DEF DelSession
<1>4. /\ h \in Incarnation /\ h.epoch = live[s].epoch /\ h.waiting = live[s].waiting
      /\ h.items = live[s].items /\ h.heard = live[s].heard
  BY <1>0, <1>2 DEF Incarnation
<1>5. j \in DelJob /\ JobOK(j)
  BY <1>0, <1>2 DEF DelJob, JobOK
<1> HIDE DEF v, h, j
<1>6. /\ DOMAIN sess' = DOMAIN sess /\ DOMAIN sess' \subseteq Path
      /\ sess' \in [DOMAIN sess' -> DelSession]
      /\ sess'[s] = v /\ \A q \in DOMAIN sess : q # s => sess'[q] = sess[q]
  BY <1>0, <1>1, <1>3, RowWritten
<1>7. /\ live' \in [DOMAIN live' -> Incarnation] /\ DOMAIN live' = DOMAIN live
      /\ live'[s] = h /\ \A q \in DOMAIN live : q # s => live'[q] = live[q]
  BY <1>0, <1>1, <1>4
<1>8. jobs' \in Seq(DelJob) /\ \A i \in DOMAIN jobs' : JobOK(jobs'[i])
  <2>1. jobs \in Seq(DelJob)
    BY <1>0 DEF DelTypeOK
  <2>2. /\ Append(jobs, j) \in Seq(DelJob) /\ Len(Append(jobs, j)) = Len(jobs) + 1
        /\ \A i \in 1 .. Len(jobs) : Append(jobs, j)[i] = jobs[i]
        /\ Append(jobs, j)[Len(jobs) + 1] = j
    BY <1>5, <2>1, AppendProperties
  <2>3. DOMAIN jobs = 1 .. Len(jobs) /\ Len(jobs) \in Nat
    BY <2>1, LenProperties
  <2>4. DOMAIN Append(jobs, j) = 1 .. Len(jobs) + 1
    BY <2>2, LenProperties
  <2>5. \A i \in 1 .. Len(jobs) + 1 : JobOK(Append(jobs, j)[i])
    <3> SUFFICES ASSUME NEW i \in 1 .. Len(jobs) + 1
                 PROVE  JobOK(Append(jobs, j)[i])
      OBVIOUS
    <3>1. CASE i \in 1 .. Len(jobs)
      BY <1>0, <2>2, <2>3, <3>1, JobsStill
    <3>2. CASE i = Len(jobs) + 1
      BY <1>5, <2>2, <3>2
    <3> QED BY <2>3, <3>1, <3>2
  <2> QED BY <1>1, <2>2, <2>4, <2>5
<1>9. DelTypeOK'
  <2>1. delBudget' \in [DelEvent -> Nat]
    BY <1>0, Spent DEF DelEvent
  <2> QED BY <1>0, <1>6, <1>7, <1>8, <2>1 DEF DelTypeOK
<1>10. JoinInv'
  <2>1. \A q \in DOMAIN live' :
            live'[q].waiting \subseteq Waits(q) /\ AtLeast(q, live'[q].epoch)
    BY <1>0, <1>4, <1>7, LiveFields, SelfBounds
  <2>2. /\ \A q \in DOMAIN sess : sess'[q].waiting \subseteq Waits(q) /\ AtLeast(q, sess'[q].epoch)
    BY <1>0, <1>3, <1>6, SelfBounds
  <2>3. /\ \A q \in DOMAIN sess : sess[q].comps \subseteq sess'[q].comps
        /\ \A q \in DOMAIN sess : sess'[q].status = sess[q].status
    BY <1>3, <1>6
  <2>4. jobWorker'.pc # "idle" => JobOK(jobWorker'.job)
    BY <1>0, JobsStill
  <2>5. severed' = severed
    BY <1>0
  <2> QED BY <1>0, <1>6, <1>8, <1>9, <2>1, <2>2, <2>3, <2>4, <2>5, JoinsKept
<1>11. PlacesOK' /\ OnceOK'
  <2>1. InHand' => InHand /\ noticeWorker'.notice = noticeWorker.notice
    BY <1>0 DEF InHand
  <2> QED BY <1>0, <1>1, <1>3, <1>9, <2>1, RowNotices
<1>12. LiveOK'
  <2>1. \A q \in DOMAIN live : q \in DOMAIN sess /\ sess'[q].inbox = sess[q].inbox
                                 /\ sess'[q].heard = sess[q].heard
    BY <1>0, <1>3, <1>6, LiveFields
  <2> QED BY <1>0, <1>4, <1>7, <2>1 DEF NoticeInv, LiveOK
<1> QED BY <1>9, <1>10, <1>11, <1>12 DEF DelInv, NoticeInv

-----------------------------------------------------------------------------
(* The workers.                                                             *)

LEMMA PopJobStep ==
    ASSUME DelInv, PopJob
    PROVE  DelInv'
<1>0. /\ DelTypeOK /\ JoinInv /\ NoticeInv /\ jobs # <<>> /\ jobs \in Seq(DelJob)
      /\ jobs' = Tail(jobs) /\ jobWorker' = [pc |-> "create", job |-> Head(jobs)]
      /\ UNCHANGED <<sess, enqueued, joins, severed, notices, outbox, wakeSet, live, submit, noticeWorker, delBudget>>
  BY DEF DelInv, PopJob, DelTypeOK
<1>1. /\ Head(jobs) \in DelJob /\ Tail(jobs) \in Seq(DelJob) /\ Len(Tail(jobs)) = Len(jobs) - 1
      /\ \A i \in 1 .. Len(Tail(jobs)) : Tail(jobs)[i] = jobs[i + 1]
  BY <1>0, HeadTailProperties
<1>2. /\ DOMAIN jobs = 1 .. Len(jobs) /\ Len(jobs) \in Nat /\ Len(jobs) # 0
      /\ DOMAIN Tail(jobs) = 1 .. Len(Tail(jobs)) /\ Head(jobs) = jobs[1]
  BY <1>0, <1>1, LenProperties, EmptySeq
<1>3. DelTypeOK'
  BY <1>0, <1>1 DEF DelTypeOK
<1>4. \A i \in DOMAIN jobs' : JobOK(jobs'[i])
  <2> SUFFICES ASSUME NEW i \in 1 .. Len(Tail(jobs))
               PROVE  JobOK(Tail(jobs)[i])
    BY <1>0, <1>2
  <2>1. i + 1 \in DOMAIN jobs /\ Tail(jobs)[i] = jobs[i + 1]
    BY <1>1, <1>2
  <2> QED BY <1>0, <2>1, JobsStill
<1>5. JobOK(jobWorker'.job)
  <2>1. 1 \in DOMAIN jobs
    BY <1>2
  <2>2. JobOK(jobs[1])
    BY <1>0, <2>1, JobsStill
  <2> QED BY <1>0, <1>2, <2>2
<1>6. JoinInv'
  BY <1>0, <1>3, <1>4, <1>5, StillJoins
<1>7. NoticeInv'
  <2>1. InHand' => InHand /\ noticeWorker'.notice = noticeWorker.notice
    BY <1>0 DEF InHand
  <2> QED BY <1>0, <1>3, <2>1, EdgesStill, StillNotices
<1> QED BY <1>3, <1>6, <1>7 DEF DelInv

LEMMA IdleWorkers ==
    /\ IdleJobWorker \in [pc : {"idle", "create", "wake"}, job : DelJob]
    /\ IdleJobWorker.pc = "idle"
    /\ IdleNoticeWorker \in [pc : {"idle", "check", "append", "wake"}, notice : Notice]
    /\ IdleNoticeWorker.pc = "idle"
<1>1. DelRoot \in Path
  BY EmptySeq DEF DelRoot, Path
<1> QED BY <1>1 DEF IdleJobWorker, IdleNoticeWorker, NoDelJob, NoNotice, DelJob, Notice

LEMMA JobFields ==
    ASSUME DelTypeOK
    PROVE  /\ jobWorker \in [pc : {"idle", "create", "wake"}, job : DelJob]
           /\ jobWorker.job \in DelJob /\ jobWorker.job.parent \in Path
           /\ jobWorker.job.child \in Path /\ jobWorker.job.epoch \in Nat
           /\ jobWorker.job.detached \in BOOLEAN
<1>1. /\ jobWorker \in [pc : {"idle", "create", "wake"}, job : DelJob]
      /\ jobWorker.job \in DelJob
  BY DEF DelTypeOK
<1> QED BY <1>1 DEF DelJob

(* The job worker ends its job.                                             *)
LEMMA JobEndStep ==
    ASSUME DelInv, WakeChild \/ JobFails
    PROVE  DelInv'
<1>0. /\ DelTypeOK /\ JoinInv /\ NoticeInv /\ jobWorker' = IdleJobWorker
      /\ UNCHANGED <<sess, jobs, enqueued, joins, severed, notices, outbox, live, submit, noticeWorker>>
  BY DEF DelInv, WakeChild, JobFails, delStore
<1>1. wakeSet' \subseteq Path /\ delBudget' \in [DelEvent -> Nat]
  <2>1. CASE WakeChild
    BY <1>0, <2>1, JobFields DEF WakeChild, DelTypeOK
  <2>2. CASE JobFails
    BY <1>0, <2>2, Spent DEF JobFails, DelTypeOK, delStore, DelEvent
  <2> QED BY <2>1, <2>2
<1>2. DelTypeOK'
  BY <1>0, <1>1, IdleWorkers DEF DelTypeOK
<1>3. JoinInv'
  BY <1>0, <1>2, JobsStill, IdleWorkers, StillJoins
<1>4. NoticeInv'
  <2>1. InHand' => InHand /\ noticeWorker'.notice = noticeWorker.notice
    BY <1>0 DEF InHand
  <2> QED BY <1>0, <1>2, <2>1, EdgesStill, StillNotices
<1> QED BY <1>2, <1>3, <1>4 DEF DelInv

(* create_runnable: the child's row and its edge in one transaction.        *)
LEMMA MaterialiseStep ==
    ASSUME DelInv, Materialise
    PROVE  DelInv'
<1> DEFINE j == jobWorker.job
           c == j.child
<1>0. /\ DelTypeOK /\ JoinInv /\ NoticeInv /\ jobWorker.pc = "create"
      /\ UNCHANGED <<jobs, enqueued, severed, outbox, wakeSet, live, submit, noticeWorker, delBudget>>
      /\ sess' = OrIgnore(sess, c, NewSession)
      /\ jobWorker' = [jobWorker EXCEPT !.pc = "wake"]
  BY DEF DelInv, Materialise
<1>1. /\ j \in DelJob /\ j.parent \in Path /\ c \in Path /\ j.epoch \in Nat
      /\ j.detached \in BOOLEAN /\ JobOK(j)
  BY <1>0, JobFields, JobsStill
<1>2. NewSession \in DelSession /\ NewSession.inbox = {} /\ NewSession.heard = {}
      /\ NewSession.waiting = {} /\ NewSession.status = "ready"
  BY DEF NewSession, DelSession
<1>3. /\ sess' \in [DOMAIN sess' -> DelSession] /\ DOMAIN sess' = DOMAIN sess \cup {c}
      /\ \A q \in DOMAIN sess : sess'[q] = sess[q]
      /\ c \notin DOMAIN sess => sess'[c] = NewSession
  <2>1. sess \in [DOMAIN sess -> DelSession]
    BY <1>0 DEF DelTypeOK
  <2> HIDE DEF c
  <2> QED BY <1>0, <1>2, <2>1, SessionInserted
<1>4. /\ jobWorker' \in [pc : {"idle", "create", "wake"}, job : DelJob]
      /\ jobWorker'.job = j
  BY <1>0, JobFields
<1>5. /\ notices' \in [DOMAIN notices' -> NoticeRow] /\ DOMAIN notices' \subseteq Path
      /\ DOMAIN notices \subseteq DOMAIN notices'
      /\ \A y \in DOMAIN notices : notices'[y] = notices[y]
      /\ \A y \in DOMAIN notices' : notices'[y].parent \in DOMAIN sess
  <2>1. notices \in [DOMAIN notices -> NoticeRow] /\ DOMAIN notices \subseteq Path
        /\ \A y \in DOMAIN notices : notices[y].parent \in DOMAIN sess
    BY <1>0, EdgesStill DEF DelTypeOK, NoticeRow
  <2>2. CASE j.detached
    <3> DEFINE edge == NoticeEdge(j.parent, FALSE)
    <3>1. notices' = OrIgnore(notices, c, edge)
      BY <2>2 DEF Materialise
    <3>2. edge \in NoticeRow /\ edge.parent = j.parent
      BY <1>1 DEF NoticeEdge, NoticeRow
    <3>3. j.parent \in DOMAIN sess
      BY <1>1 DEF JobOK
    <3> HIDE DEF edge, c, j
    <3>4. /\ notices' \in [DOMAIN notices' -> NoticeRow] /\ DOMAIN notices' = DOMAIN notices \cup {c}
          /\ \A y \in DOMAIN notices : notices'[y] = notices[y]
          /\ c \notin DOMAIN notices => notices'[c] = edge
      BY <2>1, <3>1, <3>2, NoticeInserted
    <3> QED BY <1>1, <2>1, <3>2, <3>3, <3>4
  <2>3. CASE ~j.detached
    <3>1. notices' = notices
      BY <2>3 DEF Materialise
    <3> QED BY <2>1, <3>1
  <2> QED BY <2>2, <2>3
<1>6. /\ joins' \in [DOMAIN joins' -> JoinRow] /\ DOMAIN joins' \subseteq Path
      /\ DOMAIN joins \subseteq DOMAIN joins'
      /\ \A y \in DOMAIN joins : joins'[y] = joins[y]
      /\ \A y \in DOMAIN joins' : y \notin DOMAIN joins =>
            y = c /\ ~j.detached /\ joins'[y].parent = j.parent /\ joins'[y].epoch = j.epoch
      /\ ~j.detached => c \in DOMAIN joins'
  <2>1. joins \in [DOMAIN joins -> JoinRow] /\ DOMAIN joins \subseteq Path
    BY <1>0 DEF DelTypeOK, JoinRow
  <2>2. CASE ~j.detached
    <3> DEFINE edge == [parent |-> j.parent, epoch |-> j.epoch]
    <3>1. joins' = OrIgnore(joins, c, edge)
      BY <2>2 DEF Materialise
    <3>2. edge \in JoinRow /\ edge.parent = j.parent /\ edge.epoch = j.epoch
      BY <1>1 DEF JoinRow
    <3> HIDE DEF edge, c, j
    <3>3. /\ joins' \in [DOMAIN joins' -> JoinRow] /\ DOMAIN joins' = DOMAIN joins \cup {c}
          /\ \A y \in DOMAIN joins : joins'[y] = joins[y]
          /\ c \notin DOMAIN joins => joins'[c] = edge
      BY <2>1, <3>1, <3>2, JoinInserted
    <3> QED BY <1>1, <2>1, <2>2, <3>2, <3>3
  <2>3. CASE j.detached
    <3>1. joins' = joins
      BY <2>3 DEF Materialise
    <3> QED BY <2>1, <2>3, <3>1
  <2> QED BY <2>2, <2>3
<1>7. DelTypeOK'
  <2>1. DOMAIN sess' \subseteq Path /\ DOMAIN live' \subseteq DOMAIN sess'
    BY <1>0, <1>1, <1>3 DEF DelTypeOK
  <2> QED BY <1>0, <1>3, <1>4, <1>5, <1>6, <2>1 DEF DelTypeOK, JoinRow, NoticeRow
<1> HIDE DEF c, j
<1>8. JoinInv'
  <2>0. JobsOK /\ JoinsOK /\ ChildrenOK /\ EnqueuedOK /\ WaitsOK
    BY <1>0 DEF JoinInv
  <2>1. JobsOK'
    <3>1. \A x : JobOK(x) => x.parent \in DOMAIN sess'
      BY <1>3 DEF JobOK
    <3>2. (\A i \in DOMAIN jobs : JobOK(jobs[i])) /\ JobOK(j)
      BY <1>1, <2>0 DEF JobsOK
    <3>3. \A i \in DOMAIN jobs' : JobOK(jobs[i])'
      BY <1>0, <3>1, <3>2 DEF JobOK
    <3>4. JobOK(jobWorker.job)'
      BY <1>0, <1>4, <3>1, <3>2 DEF JobOK
    <3> QED BY <3>3, <3>4 DEF JobsOK
  <2>2. JoinsOK'
    <3> SUFFICES ASSUME NEW y \in DOMAIN joins'
                 PROVE  /\ y = JoinChild(joins'[y].parent, joins'[y].epoch)
                        /\ joins'[y].parent \in DOMAIN sess'
                        /\ <<joins'[y].parent, joins'[y].epoch>> \in enqueued'
      BY DEF JoinsOK, JoinChild
    <3>1. CASE y \in DOMAIN joins
      BY <1>0, <1>3, <1>6, <2>0, <3>1 DEF JoinsOK
    <3>2. CASE y \notin DOMAIN joins
      BY <1>0, <1>1, <1>3, <1>6, <3>2 DEF JobOK, c
    <3> QED BY <3>1, <3>2
  <2>3. ChildrenOK'
    <3> SUFFICES ASSUME NEW y \in DOMAIN sess', y # DelRoot, LastKind(y) = "c"
                 PROVE  y \in DOMAIN joins'
      BY DEF ChildrenOK
    <3>1. CASE y \in DOMAIN sess
      BY <1>6, <2>0, <3>1 DEF ChildrenOK
    <3>2. CASE y = c
      BY <1>1, <1>6, <3>2 DEF JobOK, c
    <3> QED BY <1>3, <3>1, <3>2
  <2>4. EnqueuedOK'
    BY <1>0, <1>3, <2>0 DEF EnqueuedOK
  <2>5. WaitsOK'
    <3> SUFFICES ASSUME NEW p \in DOMAIN sess', NEW e \in Waits(p)'
                 PROVE  /\ <<p, e>> \in enqueued
                        /\ Has(JoinChild(p, e), "completed")' =>
                              e \in sess'[p].comps \/ <<p, e>> \in severed
      BY <1>0 DEF WaitsOK, Has, JoinChild
    <3>1. CASE p \in DOMAIN sess
      <4>1. e \in Waits(p) /\ sess'[p] = sess[p]
        BY <1>0, <1>3, <3>1 DEF Waits
      <4>2. /\ <<p, e>> \in enqueued
            /\ Has(JoinChild(p, e), "completed") => e \in sess[p].comps \/ <<p, e>> \in severed
        BY <2>0, <3>1, <4>1 DEF WaitsOK
      <4>3. Has(JoinChild(p, e), "completed")' => Has(JoinChild(p, e), "completed")
        <5>1. PICK y : y = JoinChild(p, e)
          OBVIOUS
        <5>2. Has(y, "completed")' => Has(y, "completed")
          BY <1>2, <1>3 DEF Has
        <5> QED BY <5>1, <5>2 DEF Has, JoinChild
      <4> QED BY <4>1, <4>2, <4>3
    <3>2. CASE p \notin DOMAIN sess
      <4>1. p \notin DOMAIN live'
        BY <1>0, <3>2 DEF DelTypeOK
      <4> QED BY <1>2, <1>3, <3>2, <4>1 DEF Waits
    <3> QED BY <3>1, <3>2
  <2> QED BY <2>1, <2>2, <2>3, <2>4, <2>5 DEF JoinInv
<1>9. PlacesOK' /\ OnceOK'
  <2>1. InHand' => InHand /\ noticeWorker'.notice = noticeWorker.notice
    BY <1>0 DEF InHand
  <2>2. \A p \in DOMAIN sess' : p \notin DOMAIN sess => sess'[p].inbox = {} /\ sess'[p].heard = {}
    BY <1>2, <1>3
  <2>3. DOMAIN sess \subseteq DOMAIN sess' /\ outbox' = outbox
    BY <1>0, <1>3
  <2> QED BY <1>0, <1>3, <1>5, <1>7, <2>1, <2>2, <2>3, NoticesKept DEF NoticeInv
<1>10. LiveOK'
  BY <1>0, <1>3, LiveFields DEF NoticeInv, LiveOK
<1> QED BY <1>7, <1>8, <1>9, <1>10 DEF DelInv, NoticeInv

LEMMA NoticeFields ==
    ASSUME DelTypeOK
    PROVE  /\ noticeWorker \in [pc : {"idle", "check", "append", "wake"}, notice : Notice]
           /\ noticeWorker.notice \in Notice /\ noticeWorker.notice.parent \in Path
           /\ noticeWorker.notice.child \in Path
<1>1. /\ noticeWorker \in [pc : {"idle", "check", "append", "wake"}, notice : Notice]
      /\ noticeWorker.notice \in Notice
  BY DEF DelTypeOK
<1> QED BY <1>1 DEF Notice

(* A notice goes from the outbox into the worker's hands.                   *)
LEMMA PopNoticeStep ==
    ASSUME DelInv, PopNotice
    PROVE  DelInv'
<1>0. /\ DelTypeOK /\ JoinInv /\ NoticeInv /\ outbox # <<>> /\ outbox \in Seq(Notice)
      /\ outbox' = Tail(outbox) /\ noticeWorker' = [pc |-> "check", notice |-> Head(outbox)]
      /\ UNCHANGED <<sess, jobs, enqueued, joins, severed, notices, wakeSet, live, jobWorker, submit, delBudget>>
  BY DEF DelInv, PopNotice, DelTypeOK
<1>1. /\ Head(outbox) \in Notice /\ Tail(outbox) \in Seq(Notice)
      /\ Len(Tail(outbox)) = Len(outbox) - 1
      /\ \A i \in 1 .. Len(Tail(outbox)) : Tail(outbox)[i] = outbox[i + 1]
  BY <1>0, HeadTailProperties
<1>2. /\ DOMAIN outbox = 1 .. Len(outbox) /\ Len(outbox) \in Nat /\ Len(outbox) # 0
      /\ DOMAIN Tail(outbox) = 1 .. Len(Tail(outbox)) /\ Head(outbox) = outbox[1]
  BY <1>0, <1>1, LenProperties, EmptySeq
<1>3. /\ 1 \in DOMAIN outbox
      /\ \A i \in DOMAIN outbox' : /\ i + 1 \in DOMAIN outbox /\ i + 1 # 1
                                   /\ outbox'[i] = outbox[i + 1]
      /\ \A i, k \in DOMAIN outbox' : i + 1 = k + 1 => i = k
  BY <1>0, <1>1, <1>2
<1>4. noticeWorker'.notice = outbox[1] /\ noticeWorker'.pc = "check"
  BY <1>0, <1>2
<1>5. DelTypeOK'
  BY <1>0, <1>1 DEF DelTypeOK
<1>6. JoinInv'
  BY <1>0, <1>5, JobsStill, StillJoins
<1>7. PlacesOK /\ OnceOK /\ LiveOK
  BY <1>0 DEF NoticeInv
<1>8. PlacesOK'
  <2>1. \A i \in DOMAIN outbox' : Sent(outbox[i].child, outbox[i].parent)'
    BY <1>0, <1>3, <1>7 DEF PlacesOK, Sent
  <2>2. Sent(noticeWorker.notice.child, noticeWorker.notice.parent)'
    BY <1>0, <1>3, <1>4, <1>7 DEF PlacesOK, Sent
  <2> QED BY <1>0, <1>7, <2>1, <2>2 DEF PlacesOK, Sent
<1>9. OnceOK'
  <2>1. \A i, k \in DOMAIN outbox' : outbox'[i].child = outbox'[k].child => i = k
    BY <1>3, <1>7 DEF OnceOK
  <2>2. \A i \in DOMAIN outbox' : outbox'[i].child # noticeWorker'.notice.child
    BY <1>3, <1>4, <1>7 DEF OnceOK
  <2>3. \A i \in DOMAIN outbox' : \A p \in DOMAIN sess' :
            NoticeOf(outbox'[i].child) \notin sess'[p].inbox \cup sess'[p].heard
    BY <1>0, <1>3, <1>7 DEF OnceOK
  <2>4. \A p \in DOMAIN sess' :
            NoticeOf(noticeWorker'.notice.child) \notin sess'[p].inbox \cup sess'[p].heard
    BY <1>0, <1>3, <1>4, <1>7 DEF OnceOK
  <2>5. \A p \in DOMAIN sess' : \A i \in sess'[p].inbox :
            i.kind = "notice" => i \notin sess'[p].heard
    BY <1>0, <1>7 DEF OnceOK
  <2> QED BY <2>1, <2>2, <2>3, <2>4, <2>5 DEF OnceOK, NoticeOf
<1>10. LiveOK'
  BY <1>0, <1>7 DEF LiveOK
<1> QED BY <1>5, <1>6, <1>8, <1>9, <1>10 DEF DelInv, NoticeInv

(* The notice worker goes on, or lets go of the notice.                     *)
LEMMA NoticeGoesOnStep ==
    ASSUME DelInv, CheckParent \/ WakeParent \/ InjectFails
    PROVE  DelInv'
<1>0. /\ DelTypeOK /\ JoinInv /\ NoticeInv
      /\ UNCHANGED <<sess, jobs, enqueued, joins, severed, notices, outbox, live, jobWorker, submit>>
  BY DEF DelInv, CheckParent, WakeParent, InjectFails, delStore
<1>1. wakeSet' \subseteq Path /\ delBudget' \in [DelEvent -> Nat]
  <2>1. CASE CheckParent \/ WakeParent
    BY <1>0, <2>1, NoticeFields DEF CheckParent, WakeParent, delStore, DelTypeOK
  <2>2. CASE InjectFails
    BY <1>0, <2>2, Spent DEF InjectFails, delStore, DelTypeOK, DelEvent
  <2> QED BY <2>1, <2>2
<1>2. /\ noticeWorker' \in [pc : {"idle", "check", "append", "wake"}, notice : Notice]
      /\ InHand' => InHand /\ noticeWorker'.notice = noticeWorker.notice
  <2>1. CASE noticeWorker' = IdleNoticeWorker
    BY <2>1, IdleWorkers DEF InHand
  <2>2. CASE noticeWorker.pc = "check" /\ noticeWorker' = [noticeWorker EXCEPT !.pc = "append"]
    BY <1>0, <2>2, NoticeFields DEF InHand
  <2> QED BY <2>1, <2>2 DEF CheckParent, WakeParent, InjectFails, SetNotice
<1>3. DelTypeOK'
  BY <1>0, <1>1, <1>2 DEF DelTypeOK
<1>4. JoinInv'
  BY <1>0, <1>3, JobsStill, StillJoins
<1>5. NoticeInv'
  BY <1>0, <1>2, <1>3, EdgesStill, StillNotices
<1> QED BY <1>3, <1>4, <1>5 DEF DelInv

(* The notice arrives: it was in the worker's hands and nowhere else.       *)
LEMMA InjectNoticeStep ==
    ASSUME DelInv, InjectNotice
    PROVE  DelInv'
<1> DEFINE c == noticeWorker.notice.child
           s == noticeWorker.notice.parent
           v == AppendRow(sess[s], NoticeOf(c))
<1>0. /\ DelTypeOK /\ JoinInv /\ NoticeInv /\ PlacesOK /\ OnceOK /\ LiveOK
      /\ noticeWorker.pc = "append" /\ InHand
      /\ sess' = AppendItem(sess, s, NoticeOf(c))
      /\ noticeWorker' = [noticeWorker EXCEPT !.pc = "wake"]
      /\ UNCHANGED <<jobs, enqueued, joins, severed, notices, outbox, wakeSet, live, jobWorker, submit, delBudget>>
  BY DEF DelInv, InjectNotice, NoticeInv, SetNotice, InHand
<1>1. c \in Path /\ s \in Path /\ Sent(c, s) /\ s \in DOMAIN sess
  BY <1>0, NoticeFields DEF PlacesOK, Sent
<1>2. /\ sess[s] \in DelSession /\ sess \in [DOMAIN sess -> DelSession]
      /\ NoticeOf(c) \in Item /\ NoticeOf(c).kind = "notice" /\ NoticeOf(c).of = c
  BY <1>0, <1>1, RowFields, ItemTypes DEF DelTypeOK
<1>3. /\ noticeWorker' \in [pc : {"idle", "check", "append", "wake"}, notice : Notice]
      /\ ~InHand'
  BY <1>0, NoticeFields DEF InHand
<1> HIDE DEF c, s
<1>4. /\ v \in DelSession /\ v.inbox = sess[s].inbox \cup {NoticeOf(c)} /\ v.heard = sess[s].heard
      /\ v.epoch = sess[s].epoch /\ v.waiting = sess[s].waiting /\ v.comps = sess[s].comps
      /\ v.status = "completed" => sess[s].status = "completed"
  BY <1>2, AppendRowOK
<1>5. sess' = [sess EXCEPT ![s] = v]
  BY <1>0, <1>1, <1>2, AppendItemOK
<1> HIDE DEF v
<1>6. DelTypeOK'
  <2>1. /\ wakeSet' \subseteq Path /\ delBudget' \in [DelEvent -> Nat]
        /\ live' \in [DOMAIN live' -> Incarnation] /\ submit' \in Submission
    BY <1>0 DEF DelTypeOK
  <2> QED BY <1>0, <1>1, <1>3, <1>4, <1>5, <2>1, RowTypes
<1>7. JoinInv'
  <2>1. \A q \in DOMAIN live' :
            live'[q].waiting \subseteq Waits(q) /\ AtLeast(q, live'[q].epoch)
    BY <1>0, LiveFields, SelfBounds
  <2>2. v.waiting \subseteq Waits(s) /\ AtLeast(s, v.epoch)
    BY <1>0, <1>1, <1>4, SelfBounds
  <2> QED BY <1>0, <1>1, <1>4, <1>5, <1>6, <2>1, <2>2, RowJoins
<1>8. /\ DOMAIN sess' = DOMAIN sess /\ sess'[s] = v
      /\ \A q \in DOMAIN sess : q # s => sess'[q] = sess[q]
  BY <1>0, <1>1, <1>4, <1>5, RowWritten
<1>9. \A p \in DOMAIN sess : \A i \in sess'[p].inbox \cup sess'[p].heard :
          i \in sess[p].inbox \cup sess[p].heard \/ (p = s /\ i = NoticeOf(c))
  BY <1>4, <1>8
<1>10. PlacesOK'
  <2>1. \A x, p : Sent(x, p)' <=> Sent(x, p)
    BY <1>0 DEF Sent
  <2>2. \A p \in DOMAIN sess' : \A i \in sess'[p].inbox \cup sess'[p].heard :
            i.kind = "notice" => Sent(i.of, p)
    BY <1>0, <1>1, <1>2, <1>8, <1>9 DEF PlacesOK
  <2>3. \A i \in DOMAIN outbox' : Sent(outbox'[i].child, outbox'[i].parent)
    BY <1>0 DEF PlacesOK
  <2>4. \A x \in DOMAIN notices' : notices'[x].parent \in DOMAIN sess'
    BY <1>0, <1>8 DEF PlacesOK
  <2> QED BY <1>0, <1>3, <2>1, <2>2, <2>3, <2>4 DEF PlacesOK, Sent
<1>11. OnceOK'
  <2>1. \A i, k \in DOMAIN outbox' : outbox'[i].child = outbox'[k].child => i = k
    BY <1>0 DEF OnceOK
  <2>2. \A i \in DOMAIN outbox' : \A p \in DOMAIN sess' :
            NoticeOf(outbox'[i].child) \notin sess'[p].inbox \cup sess'[p].heard
    <3>1. \A i \in DOMAIN outbox : outbox[i].child # c
      BY <1>0 DEF OnceOK, c
    <3>2. \A x : NoticeOf(x) = NoticeOf(c) => x = c
      BY DEF NoticeOf
    <3> QED BY <1>0, <1>8, <1>9, <3>1, <3>2 DEF OnceOK
  <2>3. \A p \in DOMAIN sess' : \A i \in sess'[p].inbox :
            i.kind = "notice" => i \notin sess'[p].heard
    <3>1. \A p \in DOMAIN sess : NoticeOf(c) \notin sess[p].heard
      BY <1>0 DEF OnceOK, c
    <3> QED BY <1>0, <1>4, <1>8, <3>1 DEF OnceOK
  <2> QED BY <1>3, <2>1, <2>2, <2>3 DEF OnceOK, NoticeOf
<1>12. LiveOK'
  <2>1. \A q \in DOMAIN live : q \in DOMAIN sess /\ sess[q].inbox \subseteq sess'[q].inbox
                                 /\ sess'[q].heard = sess[q].heard
    BY <1>0, <1>4, <1>8, LiveFields
  <2> QED BY <1>0, <2>1 DEF LiveOK
<1> QED BY <1>6, <1>7, <1>10, <1>11, <1>12 DEF DelInv, NoticeInv

LEMMA DelCrashStep ==
    ASSUME DelInv, DelCrash
    PROVE  DelInv'
<1>0. /\ DelTypeOK /\ JoinInv /\ NoticeInv /\ jobWorker' = IdleJobWorker
      /\ noticeWorker' = IdleNoticeWorker /\ submit' = NoSubmit /\ live' = [s \in {} |-> NoIncarnation]
      /\ UNCHANGED <<sess, jobs, enqueued, joins, severed, notices, outbox, wakeSet>>
      /\ delBudget' \in [DelEvent -> Nat]
  BY Spent DEF DelInv, DelCrash, delStore, DelEvent
<1>1. DOMAIN live' = {} /\ live' \in [DOMAIN live' -> Incarnation]
  BY <1>0
<1>2. DelTypeOK'
  BY <1>0, <1>1, IdleWorkers, NobodySubmits DEF DelTypeOK
<1>3. JoinInv'
  BY <1>0, <1>1, <1>2, JobsStill, IdleWorkers, StillJoins
<1>4. NoticeInv'
  <2>1. ~InHand'
    BY <1>0, IdleWorkers DEF InHand
  <2> QED BY <1>0, <1>1, <1>2, <2>1, EdgesStill, StillNotices
<1> QED BY <1>2, <1>3, <1>4 DEF DelInv

-----------------------------------------------------------------------------
(* The commits: the incarnation ends, what it loaded has been heard.        *)

LEMMA EpochInOK ==
    ASSUME DelTypeOK, NEW s \in DOMAIN live
    PROVE  EpochIn(s) \in Nat /\ EpochIn(s) >= live[s].epoch
BY LiveFields DEF EpochIn

LEMMA LiveLeft ==
    ASSUME DelTypeOK, NEW s \in DOMAIN live, live' = Without(live, s)
    PROVE  /\ live' \in [DOMAIN live' -> Incarnation] /\ DOMAIN live' = DOMAIN live \ {s}
           /\ \A q \in DOMAIN live' : q \in DOMAIN live /\ q # s /\ live'[q] = live[q]
<1>1. live \in [DOMAIN live -> Incarnation]
  BY DEF DelTypeOK
<1> QED BY <1>1 DEF Without

(* A commit that writes the row v of s.                                     *)
LEMMA CommitTypes ==
    ASSUME DelTypeOK, NEW s \in DOMAIN live, NEW v \in DelSession,
           sess' = [sess EXCEPT ![s] = v], live' = Without(live, s),
           wakeSet' \subseteq Path, delBudget' \in [DelEvent -> Nat],
           jobs' \in Seq(DelJob), enqueued' \subseteq Path \X Nat,
           severed' \subseteq Path \X Nat,
           UNCHANGED <<joins, notices, outbox, jobWorker, submit, noticeWorker>>
    PROVE  DelTypeOK'
<1>1. s \in DOMAIN sess
  BY LiveFields
<1>2. /\ DOMAIN sess' = DOMAIN sess /\ DOMAIN sess' \subseteq Path
      /\ sess' \in [DOMAIN sess' -> DelSession]
  BY <1>1, RowWritten
<1>3. live' \in [DOMAIN live' -> Incarnation] /\ DOMAIN live' \subseteq DOMAIN live
  BY LiveLeft
<1> QED BY <1>2, <1>3 DEF DelTypeOK

LEMMA CommitNotices ==
    ASSUME DelTypeOK, NoticeInv, DelTypeOK', NEW s \in DOMAIN live, NEW v \in DelSession,
           sess' = [sess EXCEPT ![s] = v], live' = Without(live, s),
           v.inbox = sess[s].inbox \ live[s].items, v.heard = live[s].heard \cup live[s].items,
           UNCHANGED <<notices, outbox, noticeWorker>>
    PROVE  NoticeInv'
<1>0. s \in DOMAIN sess
  BY LiveFields
<1>1. live[s].items \subseteq sess[s].inbox /\ live[s].heard = sess[s].heard /\ LiveOK
  BY DEF NoticeInv, LiveOK
<1>2. PlacesOK' /\ OnceOK'
  <2>1. InHand' => InHand /\ noticeWorker'.notice = noticeWorker.notice
    BY DEF InHand
  <2>2. /\ \A i \in v.inbox : i.kind = "notice" => i \in sess[s].inbox
        /\ \A i \in v.heard : i.kind = "notice" =>
              i \in sess[s].heard \/ (i \in sess[s].inbox /\ i \notin v.inbox)
    BY <1>1
  <2> QED BY <1>0, <2>1, <2>2, RowNotices
<1>3. LiveOK'
  <2>1. \A q \in DOMAIN sess : q # s => sess'[q] = sess[q]
    BY <1>0, RowWritten
  <2>2. \A q \in DOMAIN live' : q \in DOMAIN live /\ q # s /\ live'[q] = live[q]
    BY LiveLeft
  <2>3. \A q \in DOMAIN live' : q \in DOMAIN sess /\ sess'[q] = sess[q]
    BY <2>1, <2>2, LiveFields
  <2> QED BY <1>1, <2>2, <2>3 DEF LiveOK
<1> QED BY <1>2, <1>3 DEF NoticeInv

LEMMA LiveLeftBounds ==
    ASSUME DelTypeOK, NEW s \in DOMAIN live, live' = Without(live, s)
    PROVE  \A q \in DOMAIN live' :
               live'[q].waiting \subseteq Waits(q) /\ AtLeast(q, live'[q].epoch)
<1>1. \A q \in DOMAIN live' : q \in DOMAIN live /\ live'[q] = live[q]
  BY LiveLeft
<1>2. \A q \in DOMAIN live : live[q].waiting \subseteq Waits(q) /\ AtLeast(q, live[q].epoch)
  BY LiveFields, SelfBounds
<1> QED BY <1>1, <1>2

(* Suspending again enqueues nothing: the job was enqueued when the wait    *)
(* began.                                                                   *)
LEMMA StaySuspendedStep ==
    ASSUME DelInv, NEW s \in DOMAIN live, StaySuspended(s)
    PROVE  DelInv'
<1> DEFINE v == Captured(s, "suspended", live[s].waiting, live[s].epoch)
<1>0. /\ DelTypeOK /\ JoinInv /\ NoticeInv /\ s \in DOMAIN sess
      /\ live[s].waiting \in SUBSET Nat /\ live[s].epoch \in Nat
  BY LiveFields DEF DelInv
<1>1. PICK e \in live[s].waiting : sess' = [sess EXCEPT ![s] = v] /\ Enqueue(s, e)
  BY DEF StaySuspended
<1>2. /\ v \in DelSession /\ v.status = "suspended" /\ v.waiting = live[s].waiting
      /\ v.epoch = live[s].epoch /\ v.comps = sess[s].comps
      /\ v.inbox = sess[s].inbox \ live[s].items /\ v.heard = live[s].heard \cup live[s].items
  BY <1>0, RowFields, LiveFields DEF Captured, DelSession
<1> HIDE DEF v
<1>3. <<s, e>> \in enqueued
  <2>1. e \in Waits(s)
    BY <1>1 DEF Waits
  <2> QED BY <1>0, <2>1 DEF JoinInv, WaitsOK
<1>4. /\ jobs' = jobs /\ enqueued' = enqueued /\ live' = Without(live, s)
      /\ UNCHANGED <<joins, severed, notices, outbox, wakeSet, jobWorker, submit, noticeWorker, delBudget>>
  BY <1>1, <1>3 DEF Enqueue, StaySuspended
<1>5. DelTypeOK'
  <2>1. /\ wakeSet' \subseteq Path /\ delBudget' \in [DelEvent -> Nat]
        /\ jobs' \in Seq(DelJob) /\ enqueued' \subseteq Path \X Nat
        /\ severed' \subseteq Path \X Nat
    BY <1>0, <1>4 DEF DelTypeOK
  <2> QED BY <1>0, <1>1, <1>2, <1>4, <2>1, CommitTypes
<1>6. JoinInv'
  <2>1. v.waiting \subseteq Waits(s) /\ AtLeast(s, v.epoch)
    BY <1>0, <1>2, SelfBounds
  <2>2. \A q \in DOMAIN live' :
            live'[q].waiting \subseteq Waits(q) /\ AtLeast(q, live'[q].epoch)
    BY <1>0, <1>4, LiveLeftBounds
  <2> QED BY <1>0, <1>1, <1>2, <1>4, <1>5, <2>1, <2>2, RowJoins
<1>7. NoticeInv'
  BY <1>0, <1>1, <1>2, <1>4, <1>5, CommitNotices
<1> QED BY <1>5, <1>6, <1>7 DEF DelInv

(* commit_turn takes completion rows away from a session that waits for     *)
(* nothing, or whose wait is severed.                                       *)
LEMMA CommitTurnStep ==
    ASSUME DelInv, NEW s \in DOMAIN live, NEW w \in SUBSET Nat, NEW e \in Nat,
           CommitTurn(s, w, e), w \subseteq live[s].waiting, e >= live[s].epoch,
           severed \subseteq severed', severed' \subseteq Path \X Nat,
           \A x \in w \cap live[s].comps : <<s, x>> \in severed',
           delBudget' \in [DelEvent -> Nat]
    PROVE  DelInv'
<1> DEFINE left == sess[s].comps \ live[s].comps
<1>0. /\ DelTypeOK /\ JoinInv /\ NoticeInv /\ s \in DOMAIN sess /\ s \in Path
      /\ sess[s].comps \subseteq Nat
  <2>1. DelTypeOK /\ JoinInv /\ NoticeInv /\ s \in DOMAIN sess
    BY LiveFields DEF DelInv
  <2> QED BY <2>1, RowFields
<1>1. PICK next \in {"ready", "idle"} :
         /\ sess' = [sess EXCEPT ![s] = [Captured(s, next, w, e) EXCEPT !.comps = left]]
         /\ wakeSet' \subseteq wakeSet \cup {s}
  BY DEF CommitTurn
<1> DEFINE r == Captured(s, next, w, e)
           v == [r EXCEPT !.comps = left]
<1>2. /\ r \in DelSession /\ r.status = next /\ r.waiting = w /\ r.epoch = e
      /\ r.inbox = sess[s].inbox \ live[s].items /\ r.heard = live[s].heard \cup live[s].items
  BY <1>0, RowFields, LiveFields DEF Captured, DelSession
<1>3. sess' = [sess EXCEPT ![s] = v]
  BY <1>1
<1> HIDE DEF r
<1>4. left \in SUBSET Nat
  BY <1>0
<1> HIDE DEF left
<1>5. /\ v \in DelSession /\ v.status = r.status /\ v.waiting = r.waiting /\ v.epoch = r.epoch
      /\ v.inbox = r.inbox /\ v.heard = r.heard /\ v.comps = left
  BY <1>2, <1>4 DEF DelSession
<1> HIDE DEF v
<1>6. /\ live' = Without(live, s)
      /\ UNCHANGED <<jobs, enqueued, joins, notices, outbox, jobWorker, submit, noticeWorker>>
  BY DEF CommitTurn
<1>7. DelTypeOK'
  <2>1. /\ wakeSet' \subseteq Path /\ jobs' \in Seq(DelJob) /\ enqueued' \subseteq Path \X Nat
    BY <1>0, <1>1, <1>6 DEF DelTypeOK
  <2> QED BY <1>0, <1>3, <1>5, <1>6, <2>1, CommitTypes
<1>8. JoinInv'
  <2>1. v.waiting \subseteq Waits(s) /\ AtLeast(s, v.epoch)
    BY <1>0, <1>2, <1>5 DEF AtLeast, Waits
  <2>2. \A q \in DOMAIN live' :
            live'[q].waiting \subseteq Waits(q) /\ AtLeast(q, live'[q].epoch)
    BY <1>0, <1>6, LiveLeftBounds
  <2>3. Waits(s)' = w
    <3>1. s \notin DOMAIN live' /\ sess'[s] = v
      BY <1>0, <1>3, <1>5, <1>6, LiveLeft, RowWritten
    <3> QED BY <1>2, <1>5, <3>1 DEF Waits
  <2>4. \A x \in sess[s].comps \cap Waits(s)' : x \in v.comps \/ <<s, x>> \in severed'
    BY <1>5, <2>3 DEF left
  <2>5. v.status = "completed" => sess[s].status = "completed"
    BY <1>2, <1>5
  <2> QED BY <1>0, <1>3, <1>5, <1>6, <1>7, <2>1, <2>2, <2>4, <2>5, RowJoins
<1>9. NoticeInv'
  BY <1>0, <1>2, <1>3, <1>5, <1>6, <1>7, CommitNotices
<1> QED BY <1>7, <1>8, <1>9 DEF DelInv

LEMMA CommitRootStep ==
    ASSUME DelInv, NEW s \in DOMAIN live, CommitRoot(s)
    PROVE  DelInv'
<1>1. EpochIn(s) \in Nat /\ EpochIn(s) >= live[s].epoch
  BY EpochInOK DEF DelInv
<1>2. CommitTurn(s, {}, EpochIn(s)) /\ severed' = severed /\ delBudget' = delBudget
  BY DEF CommitRoot
<1>3. severed' \subseteq Path \X Nat /\ delBudget' \in [DelEvent -> Nat]
  BY <1>2 DEF DelInv, DelTypeOK
<1>4. {} \in SUBSET Nat /\ {} \subseteq live[s].waiting
  OBVIOUS
<1>5. \A x \in {} \cap live[s].comps : <<s, x>> \in severed'
  OBVIOUS
<1> QED BY <1>1, <1>2, <1>3, <1>4, <1>5, CommitTurnStep

(* A new wait is on an epoch nobody delegated at: its child does not exist. *)
LEMMA SpawnJoiningStep ==
    ASSUME DelInv, NEW s \in DOMAIN live, SpawnJoining(s)
    PROVE  DelInv'
<1>0. /\ DelTypeOK /\ JoinInv /\ NoticeInv /\ s \in DOMAIN sess /\ s \in Path
      /\ JobsOK /\ JoinsOK /\ ChildrenOK /\ EnqueuedOK /\ WaitsOK
      /\ EpochIn(s) \in Nat /\ EpochIn(s) >= live[s].epoch /\ live[s].epoch \in Nat
  <2>1. DelTypeOK /\ JoinInv /\ NoticeInv /\ s \in DOMAIN sess /\ live[s].epoch \in Nat
    BY LiveFields DEF DelInv
  <2> QED BY <2>1, RowFields, EpochInOK DEF JoinInv
<1>1. PICK e \in Nat : e = EpochIn(s) + 1
  BY <1>0
<1> DEFINE v == Captured(s, "suspended", {e}, e)
           child == JoinChild(s, e)
           j == [parent |-> s, epoch |-> e, child |-> child, detached |-> FALSE]
<1>2. /\ v \in DelSession /\ v.status = "suspended" /\ v.waiting = {e}
      /\ v.epoch = e /\ v.comps = sess[s].comps
      /\ v.inbox = sess[s].inbox \ live[s].items /\ v.heard = live[s].heard \cup live[s].items
  <2>1. {e} \in SUBSET Nat
    OBVIOUS
  <2> QED BY <1>0, <2>1, RowFields, LiveFields DEF Captured, DelSession
<1>3. sess' = [sess EXCEPT ![s] = v] /\ Enqueue(s, e)
  BY <1>1 DEF SpawnJoining
<1> HIDE DEF v
<1>4. <<s, e>> \notin enqueued
  <2> SUFFICES ASSUME <<s, e>> \in enqueued
               PROVE  FALSE
    OBVIOUS
  <2>1. e <= live[s].epoch
    BY <1>0 DEF EnqueuedOK
  <2> QED BY <1>0, <1>1, <2>1
<1>5. /\ jobs' = Append(jobs, j) /\ enqueued' = enqueued \cup {<<s, e>>}
      /\ live' = Without(live, s) /\ DelSpend("spawn")
      /\ UNCHANGED <<joins, severed, notices, outbox, wakeSet, jobWorker, submit, noticeWorker>>
  BY <1>3, <1>4 DEF Enqueue, SpawnJoining
<1>6. child \in Path /\ child = JoinChild(s, e) /\ child # DelRoot /\ LastKind(child) = "c"
  BY <1>0, JoinId
<1> HIDE DEF child
<1>7. j \in DelJob /\ j.parent = s /\ j.epoch = e /\ j.child = child /\ ~j.detached
  BY <1>0, <1>6 DEF DelJob
<1> HIDE DEF j
<1>8. child \notin DOMAIN sess
  <2> SUFFICES ASSUME child \in DOMAIN sess
               PROVE  FALSE
    OBVIOUS
  <2>1. child \in DOMAIN joins
    BY <1>0, <1>6 DEF ChildrenOK
  <2>2. /\ child = JoinChild(joins[child].parent, joins[child].epoch)
        /\ <<joins[child].parent, joins[child].epoch>> \in enqueued
        /\ joins[child].parent \in Path /\ joins[child].epoch \in Nat
    BY <1>0, <2>1 DEF JoinsOK, DelTypeOK
  <2>3. joins[child].parent = s /\ joins[child].epoch = e
    BY <1>0, <1>6, <2>2, JoinInjective
  <2> QED BY <1>4, <2>2, <2>3
<1>9. /\ jobs \in Seq(DelJob) /\ jobs' \in Seq(DelJob) /\ Len(jobs) \in Nat
      /\ DOMAIN jobs = 1 .. Len(jobs) /\ DOMAIN jobs' = 1 .. Len(jobs) + 1
      /\ \A i \in 1 .. Len(jobs) : jobs'[i] = jobs[i]
      /\ jobs'[Len(jobs) + 1] = j
  <2>1. jobs \in Seq(DelJob)
    BY <1>0 DEF DelTypeOK
  <2>2. /\ Append(jobs, j) \in Seq(DelJob) /\ Len(Append(jobs, j)) = Len(jobs) + 1
        /\ \A i \in 1 .. Len(jobs) : Append(jobs, j)[i] = jobs[i]
        /\ Append(jobs, j)[Len(jobs) + 1] = j
    BY <1>7, <2>1, AppendProperties
  <2>3. DOMAIN jobs = 1 .. Len(jobs) /\ Len(jobs) \in Nat
    BY <2>1, LenProperties
  <2>4. DOMAIN Append(jobs, j) = 1 .. Len(jobs) + 1
    BY <2>2, LenProperties
  <2> QED BY <1>5, <2>1, <2>2, <2>3, <2>4
<1>10. DelTypeOK'
  <2>1. /\ wakeSet' \subseteq Path /\ enqueued' \subseteq Path \X Nat
        /\ severed' \subseteq Path \X Nat
    BY <1>0, <1>5 DEF DelTypeOK
  <2>2. delBudget' \in [DelEvent -> Nat]
    BY <1>0, <1>5, Spent DEF DelEvent
  <2> QED BY <1>0, <1>2, <1>3, <1>5, <1>9, <2>1, <2>2, CommitTypes
<1>11. /\ DOMAIN sess' = DOMAIN sess /\ sess'[s] = v
       /\ \A q \in DOMAIN sess : q # s => sess'[q] = sess[q]
  BY <1>0, <1>2, <1>3, RowWritten
<1>12. /\ s \notin DOMAIN live'
       /\ \A q \in DOMAIN live' : q \in DOMAIN live /\ q # s /\ live'[q] = live[q]
       /\ \A q \in DOMAIN live : q # s => q \in DOMAIN live'
  BY <1>0, <1>5, LiveLeft
<1>13. JoinInv'
  <2>1. JobsOK'
    <3>1. \A x : JobOK(x) => JobOK(x)'
      BY <1>5, <1>11 DEF JobOK
    <3>2. JobOK(j)'
      BY <1>0, <1>5, <1>6, <1>7, <1>11 DEF JobOK
    <3>3. \A i \in DOMAIN jobs' : JobOK(jobs[i])'
      <4> SUFFICES ASSUME NEW i \in DOMAIN jobs'
                   PROVE  JobOK(jobs[i])'
        OBVIOUS
      <4>1. CASE i \in DOMAIN jobs
        <5>1. JobOK(jobs[i]) /\ jobs'[i] = jobs[i]
          BY <1>0, <1>9, <4>1 DEF JobsOK
        <5> QED BY <1>5, <1>11, <5>1 DEF JobOK
      <4>2. CASE i = Len(jobs) + 1
        <5>1. jobs'[i] = j
          BY <1>9, <4>2
        <5> QED BY <1>0, <1>5, <1>6, <1>7, <1>11, <5>1 DEF JobOK
      <4> QED BY <1>9, <4>1, <4>2
    <3>4. jobWorker'.pc # "idle" => JobOK(jobWorker.job)'
      BY <1>0, <1>5, <1>11 DEF JobsOK, JobOK
    <3> QED BY <3>3, <3>4 DEF JobsOK
  <2>2. JoinsOK' /\ ChildrenOK'
    BY <1>0, <1>5, <1>11 DEF JoinsOK, ChildrenOK
  <2>3. EnqueuedOK'
    <3> SUFFICES ASSUME NEW pe \in enqueued'
                 PROVE  /\ pe[1] \in DOMAIN sess' /\ pe[2] <= sess'[pe[1]].epoch
                        /\ pe[1] \in DOMAIN live' => pe[2] <= live'[pe[1]].epoch
      BY DEF EnqueuedOK
    <3>1. CASE pe = <<s, e>>
      BY <1>0, <1>1, <1>2, <1>11, <1>12, <3>1
    <3>2. CASE pe \in enqueued /\ pe[1] = s
      <4>1. pe[2] \in Nat /\ pe[2] <= live[s].epoch
        BY <1>0, <3>2 DEF EnqueuedOK, DelTypeOK
      <4>2. pe[2] <= e
        BY <1>0, <1>1, <4>1
      <4> QED BY <1>0, <1>2, <1>11, <1>12, <3>2, <4>2
    <3>3. CASE pe \in enqueued /\ pe[1] # s
      BY <1>0, <1>11, <1>12, <3>3 DEF EnqueuedOK
    <3> QED BY <1>5, <3>1, <3>2, <3>3
  <2>4. WaitsOK'
    <3> SUFFICES ASSUME NEW p \in DOMAIN sess, NEW d \in Waits(p)'
                 PROVE  /\ <<p, d>> \in enqueued'
                        /\ Has(JoinChild(p, d), "completed")' =>
                              d \in sess'[p].comps \/ <<p, d>> \in severed
      BY <1>5, <1>11 DEF WaitsOK, Has, JoinChild
    <3>1. CASE p = s
      <4>1. d = e
        BY <1>2, <1>11, <1>12, <3>1 DEF Waits
      <4>2. ~Has(JoinChild(p, d), "completed")'
        BY <1>6, <1>8, <1>11, <3>1, <4>1 DEF Has, JoinChild
      <4> QED BY <1>5, <3>1, <4>1, <4>2
    <3>2. CASE p # s
      <4>1. d \in Waits(p) /\ sess'[p] = sess[p]
        BY <1>11, <1>12, <3>2 DEF Waits
      <4>2. /\ <<p, d>> \in enqueued
            /\ Has(JoinChild(p, d), "completed") => d \in sess[p].comps \/ <<p, d>> \in severed
        BY <1>0, <4>1 DEF WaitsOK
      <4>3. Has(JoinChild(p, d), "completed")' => Has(JoinChild(p, d), "completed")
        <5>1. PICK y : y = JoinChild(p, d)
          OBVIOUS
        <5>2. Has(y, "completed")' => Has(y, "completed")
          BY <1>2, <1>11 DEF Has
        <5> QED BY <5>1, <5>2 DEF Has, JoinChild
      <4> QED BY <1>5, <4>1, <4>2, <4>3
    <3> QED BY <3>1, <3>2
  <2> QED BY <2>1, <2>2, <2>3, <2>4 DEF JoinInv
<1>14. NoticeInv'
  BY <1>0, <1>2, <1>3, <1>5, <1>10, CommitNotices
<1> QED BY <1>10, <1>13, <1>14 DEF DelInv

(* mark_completed writes the child's row and the parent's completion        *)
(* together.                                                                *)
LEMMA FulfilOK ==
    ASSUME DelTypeOK, JoinInv, NEW s \in DOMAIN live, NEW u \in SUBSET Nat, NEW d \in Nat,
           sess' = Fulfil(s, u, d)
    PROVE  /\ DOMAIN sess' = DOMAIN sess /\ sess' \in [DOMAIN sess' -> DelSession]
           /\ sess'[s].waiting = u /\ sess'[s].epoch = d
           /\ sess'[s].comps = sess[s].comps /\ sess'[s].inbox = sess[s].inbox \ live[s].items
           /\ sess'[s].heard = live[s].heard \cup live[s].items
           /\ \A q \in DOMAIN sess : q # s =>
                 /\ sess'[q].waiting = sess[q].waiting /\ sess'[q].epoch = sess[q].epoch
                 /\ sess'[q].inbox = sess[q].inbox /\ sess'[q].heard = sess[q].heard
                 /\ sess[q].comps \subseteq sess'[q].comps
                 /\ sess'[q].status = "completed" => sess[q].status = "completed"
           /\ s \in DOMAIN joins =>
                 joins[s].epoch \in sess'[joins[s].parent].comps /\ joins[s].parent \in Path
<1> DEFINE v == Settle(s, u, d)
           settled == [sess EXCEPT ![s] = v]
<1>0. /\ s \in DOMAIN sess /\ sess \in [DOMAIN sess -> DelSession]
      /\ sess[s] \in DelSession
  <2>1. s \in DOMAIN sess
    BY LiveFields
  <2> QED BY <2>1, RowFields DEF DelTypeOK
<1>1. /\ v \in DelSession /\ v.waiting = u /\ v.epoch = d /\ v.comps = sess[s].comps
      /\ v.inbox = sess[s].inbox \ live[s].items /\ v.heard = live[s].heard \cup live[s].items
  BY <1>0, RowFields, LiveFields DEF Settle, Captured, DelSession
<1> HIDE DEF v
<1>2. /\ settled \in [DOMAIN sess -> DelSession] /\ DOMAIN settled = DOMAIN sess
      /\ settled[s] = v /\ \A q \in DOMAIN sess : q # s => settled[q] = sess[q]
  BY <1>0, <1>1
<1>3. s \in DOMAIN joins => /\ joins[s].parent \in DOMAIN sess /\ joins[s].parent \in Path
                            /\ joins[s].epoch \in Nat /\ joins[s].parent # s
  <2> SUFFICES ASSUME s \in DOMAIN joins
               PROVE  /\ joins[s].parent \in DOMAIN sess /\ joins[s].parent \in Path
                      /\ joins[s].epoch \in Nat /\ joins[s].parent # s
    OBVIOUS
  <2>1. /\ joins[s].parent \in Path /\ joins[s].epoch \in Nat
        /\ joins[s].parent \in DOMAIN sess
        /\ s = JoinChild(joins[s].parent, joins[s].epoch)
    BY DEF JoinInv, JoinsOK, DelTypeOK
  <2> QED BY <2>1, JoinId
<1>4. CASE ~Fulfils(s)
  <2>1. sess' = settled
    BY <1>4 DEF Fulfil, v
  <2> HIDE DEF settled
  <2>2. s \in DOMAIN joins => joins[s].epoch \in sess[joins[s].parent].comps
    BY <1>4 DEF Fulfils
  <2> QED BY <1>1, <1>2, <1>3, <2>1, <2>2
<1>5. CASE Fulfils(s)
  <2> DEFINE p == joins[s].parent
             e == joins[s].epoch
             r == settled[p]
             w == [r EXCEPT !.comps = r.comps \cup {e}, !.status = "ready"]
  <2>1. s \in DOMAIN joins /\ p \in DOMAIN sess /\ p # s /\ p \in Path /\ e \in Nat
    BY <1>3, <1>5 DEF Fulfils
  <2>2. r = sess[p] /\ r \in DelSession /\ r.comps \cup {e} \in SUBSET Nat
    <3>1. r = sess[p] /\ r \in DelSession
      BY <1>2, <2>1
    <3> QED BY <2>1, <3>1 DEF DelSession
  <2>3. sess' = [settled EXCEPT ![p].comps = @ \cup {e}, ![p].status = "ready"]
    BY <1>5 DEF Fulfil, v
  <2> HIDE DEF settled, p, e
  <2>4. sess' = [settled EXCEPT ![p] = w]
    BY <1>2, <2>1, <2>2, <2>3
  <2> HIDE DEF r
  <2>5. /\ w \in DelSession /\ w.comps = r.comps \cup {e} /\ w.status = "ready"
        /\ w.waiting = r.waiting /\ w.epoch = r.epoch /\ w.inbox = r.inbox /\ w.heard = r.heard
    BY <2>2 DEF DelSession
  <2> HIDE DEF w
  <2>6. /\ sess' \in [DOMAIN sess -> DelSession] /\ DOMAIN sess' = DOMAIN sess
        /\ sess'[p] = w /\ \A q \in DOMAIN sess : q # p => sess'[q] = settled[q]
    BY <1>2, <2>1, <2>4, <2>5
  <2>7. sess'[s] = v /\ \A q \in DOMAIN sess : q # s /\ q # p => sess'[q] = sess[q]
    BY <1>0, <1>2, <2>1, <2>6
  <2>8. e \in sess'[p].comps
    BY <2>5, <2>6
  <2> QED BY <1>1, <2>1, <2>2, <2>5, <2>6, <2>7, <2>8 DEF p, e
<1> QED BY <1>4, <1>5

LEMMA MarkCompletedStep ==
    ASSUME DelInv, NEW s \in DOMAIN live, NEW u \in SUBSET Nat, NEW d \in Nat,
           MarkCompleted(s, u, d), u \subseteq live[s].waiting, d >= live[s].epoch,
           severed \subseteq severed', severed' \subseteq Path \X Nat,
           delBudget' \in [DelEvent -> Nat]
    PROVE  DelInv'
<1>0. /\ DelTypeOK /\ JoinInv /\ NoticeInv /\ PlacesOK /\ OnceOK /\ LiveOK
      /\ s \in DOMAIN sess /\ s \in Path
      /\ sess' = Fulfil(s, u, d) /\ live' = Without(live, s) /\ notices' = MarkNotified(s)
      /\ UNCHANGED <<jobs, enqueued, joins, jobWorker, submit, noticeWorker>>
  <2>1. DelTypeOK /\ JoinInv /\ NoticeInv /\ s \in DOMAIN sess
    BY LiveFields DEF DelInv
  <2>2. /\ sess' = Fulfil(s, u, d) /\ live' = Without(live, s) /\ notices' = MarkNotified(s)
        /\ UNCHANGED <<jobs, enqueued, joins, jobWorker, submit, noticeWorker>>
    BY DEF MarkCompleted
  <2> QED BY <2>1, <2>2, RowFields DEF NoticeInv
<1>1. /\ DOMAIN sess' = DOMAIN sess /\ sess' \in [DOMAIN sess' -> DelSession]
      /\ sess'[s].waiting = u /\ sess'[s].epoch = d
      /\ sess'[s].comps = sess[s].comps /\ sess'[s].inbox = sess[s].inbox \ live[s].items
      /\ sess'[s].heard = live[s].heard \cup live[s].items
      /\ \A q \in DOMAIN sess : q # s =>
            /\ sess'[q].waiting = sess[q].waiting /\ sess'[q].epoch = sess[q].epoch
            /\ sess'[q].inbox = sess[q].inbox /\ sess'[q].heard = sess[q].heard
            /\ sess[q].comps \subseteq sess'[q].comps
            /\ sess'[q].status = "completed" => sess[q].status = "completed"
      /\ s \in DOMAIN joins =>
            joins[s].epoch \in sess'[joins[s].parent].comps /\ joins[s].parent \in Path
  BY <1>0, FulfilOK
<1>2. wakeSet' \subseteq Path
  BY <1>0, <1>1 DEF MarkCompleted, Fulfils, DelTypeOK
<1>3. /\ notices' \in [DOMAIN notices' -> NoticeRow] /\ DOMAIN notices' = DOMAIN notices
      /\ \A c \in DOMAIN notices : /\ notices'[c].parent = notices[c].parent
                                   /\ notices[c].notified => notices'[c].notified
      /\ Notifies(s) => notices'[s].notified
  <2>1. notices \in [DOMAIN notices -> NoticeRow]
    BY <1>0 DEF DelTypeOK, NoticeRow
  <2>2. CASE ~Notifies(s)
    BY <1>0, <2>1, <2>2 DEF MarkNotified
  <2>3. CASE Notifies(s)
    <3> DEFINE r == [notices[s] EXCEPT !.notified = TRUE]
    <3>1. s \in DOMAIN notices /\ notices[s] \in NoticeRow
      BY <2>1, <2>3 DEF Notifies
    <3>2. notices' = [notices EXCEPT ![s] = r]
      BY <1>0, <2>3, <3>1 DEF MarkNotified
    <3>3. r \in NoticeRow /\ r.parent = notices[s].parent /\ r.notified = TRUE
      BY <3>1 DEF NoticeRow
    <3> HIDE DEF r
    <3>4. /\ notices' \in [DOMAIN notices' -> NoticeRow] /\ DOMAIN notices' = DOMAIN notices
          /\ notices'[s] = r /\ \A c \in DOMAIN notices : c # s => notices'[c] = notices[c]
      BY <2>1, <3>1, <3>2, <3>3
    <3> QED BY <3>1, <3>3, <3>4
  <2> QED BY <2>2, <2>3
<1>4. /\ outbox' \in Seq(Notice)
      /\ \/ outbox' = outbox
         \/ \E n \in Notice :
               /\ outbox' = Append(outbox, n) /\ n.child \in DOMAIN notices
               /\ ~notices[n.child].notified /\ notices'[n.child].notified
               /\ n.parent = notices[n.child].parent
  <2>1. outbox \in Seq(Notice) /\ notices \in [DOMAIN notices -> NoticeRow]
    BY <1>0 DEF DelTypeOK, NoticeRow
  <2>2. CASE ~Notifies(s)
    BY <2>1, <2>2 DEF MarkCompleted
  <2>3. CASE Notifies(s)
    <3> DEFINE n == [parent |-> notices[s].parent, child |-> s, call |-> notices[s].call]
    <3>1. s \in DOMAIN notices /\ notices[s] \in NoticeRow /\ ~notices[s].notified
      BY <2>1, <2>3 DEF Notifies
    <3>2. n \in Notice /\ n.child = s /\ n.parent = notices[s].parent
      BY <1>0, <3>1 DEF Notice, NoticeRow
    <3>3. outbox' = Append(outbox, n)
      BY <2>3 DEF MarkCompleted
    <3> HIDE DEF n
    <3>4. outbox' \in Seq(Notice)
      BY <2>1, <3>2, <3>3, AppendProperties
    <3> QED BY <1>3, <2>3, <3>1, <3>2, <3>3, <3>4
  <2> QED BY <2>2, <2>3
<1>5. DelTypeOK'
  <2>1. live' \in [DOMAIN live' -> Incarnation] /\ DOMAIN live' \subseteq DOMAIN live
    BY <1>0, LiveLeft
  <2> QED BY <1>0, <1>1, <1>2, <1>3, <1>4, <2>1 DEF DelTypeOK, NoticeRow
<1>6. JoinInv'
  <2>1. \A q \in DOMAIN live' :
            live'[q].waiting \subseteq Waits(q) /\ AtLeast(q, live'[q].epoch)
    BY <1>0, LiveLeftBounds
  <2>2. \A q \in DOMAIN sess : sess'[q].waiting \subseteq Waits(q) /\ AtLeast(q, sess'[q].epoch)
    <3> SUFFICES ASSUME NEW q \in DOMAIN sess
                 PROVE  sess'[q].waiting \subseteq Waits(q) /\ AtLeast(q, sess'[q].epoch)
      OBVIOUS
    <3>1. CASE q = s
      BY <1>0, <1>1, <3>1 DEF AtLeast, Waits
    <3>2. CASE q # s
      BY <1>0, <1>1, <3>2, SelfBounds
    <3> QED BY <3>1, <3>2
  <2>3. \A q \in DOMAIN sess : sess[q].comps \subseteq sess'[q].comps
    BY <1>1
  <2>4. \A q \in DOMAIN sess : sess'[q].status = "completed" =>
            \/ sess[q].status = "completed"
            \/ q \in DOMAIN joins => joins[q].epoch \in sess'[joins[q].parent].comps
    BY <1>1
  <2>5. /\ \A i \in DOMAIN jobs' : JobOK(jobs'[i])
        /\ jobWorker'.pc # "idle" => JobOK(jobWorker'.job)
    BY <1>0, JobsStill
  <2> QED BY <1>0, <1>1, <1>5, <2>1, <2>2, <2>3, <2>4, <2>5, JoinsKept
<1>7. live[s].items \subseteq sess[s].inbox /\ live[s].heard = sess[s].heard
  BY <1>0 DEF LiveOK
<1>8. PlacesOK' /\ OnceOK'
  <2>1. InHand' => InHand /\ noticeWorker'.notice = noticeWorker.notice
    BY <1>0 DEF InHand
  <2>2. /\ \A p \in DOMAIN sess : \A i \in sess'[p].inbox :
              i.kind = "notice" => i \in sess[p].inbox
        /\ \A p \in DOMAIN sess : \A i \in sess'[p].heard :
              i.kind = "notice" =>
                  i \in sess[p].heard \/ (i \in sess[p].inbox /\ i \notin sess'[p].inbox)
    BY <1>1, <1>7
  <2>3. \A c \in DOMAIN notices' : notices'[c].parent \in DOMAIN sess'
    BY <1>0, <1>1, <1>3, EdgesStill
  <2>4. DOMAIN sess \subseteq DOMAIN sess' /\ DOMAIN notices \subseteq DOMAIN notices'
    BY <1>1, <1>3
  <2> QED BY <1>0, <1>1, <1>3, <1>4, <1>5, <2>1, <2>2, <2>3, <2>4, NoticesKept
<1>9. LiveOK'
  <2>1. \A q \in DOMAIN live' : q \in DOMAIN live /\ q # s /\ live'[q] = live[q]
    BY <1>0, LiveLeft
  <2>2. \A q \in DOMAIN live' : /\ q \in DOMAIN sess /\ sess'[q].inbox = sess[q].inbox
                                /\ sess'[q].heard = sess[q].heard
    BY <1>0, <1>1, <2>1, LiveFields
  <2> QED BY <1>0, <2>1, <2>2 DEF LiveOK
<1> QED BY <1>5, <1>6, <1>8, <1>9 DEF DelInv, NoticeInv

LEMMA CompleteStep ==
    ASSUME DelInv, NEW s \in DOMAIN live, Complete(s)
    PROVE  DelInv'
<1>1. EpochIn(s) \in Nat /\ EpochIn(s) >= live[s].epoch
  BY EpochInOK DEF DelInv
<1>2. MarkCompleted(s, {}, EpochIn(s)) /\ severed' = severed /\ delBudget' = delBudget
  BY DEF Complete
<1>3. severed' \subseteq Path \X Nat /\ delBudget' \in [DelEvent -> Nat]
  BY <1>2 DEF DelInv, DelTypeOK
<1>4. {} \in SUBSET Nat /\ {} \subseteq live[s].waiting
  OBVIOUS
<1> QED BY <1>1, <1>2, <1>3, <1>4, MarkCompletedStep

(* An interrupted turn severs the waits whose completion it passes over.    *)
LEMMA DelInterruptStep ==
    ASSUME DelInv, NEW s \in DOMAIN live, DelInterrupt(s)
    PROVE  DelInv'
<1> DEFINE w == live[s].waiting
           n == live[s].epoch
<1>0. /\ DelTypeOK /\ s \in Path /\ w \in SUBSET Nat /\ n \in Nat /\ n >= n
      /\ PassedOver(s) \subseteq Nat
  <2>1. DelTypeOK /\ s \in DOMAIN sess /\ live[s].waiting \subseteq Nat /\ live[s].epoch \in Nat
    BY LiveFields DEF DelInv
  <2> QED BY <2>1, RowFields DEF PassedOver
<1>1. severed' = severed \cup {<<s, e>> : e \in PassedOver(s)}
  BY DEF DelInterrupt
<1>2. severed \subseteq severed' /\ severed' \subseteq Path \X Nat
  BY <1>0, <1>1 DEF DelTypeOK
<1>3. delBudget' \in [DelEvent -> Nat]
  BY <1>0, Spent DEF DelInterrupt, DelEvent
<1>4. CASE s = DelRoot
  <2>1. CommitTurn(s, w, n)
    BY <1>4 DEF DelInterrupt
  <2>2. \A x \in w \cap live[s].comps : <<s, x>> \in severed'
    BY <1>1, <1>4 DEF PassedOver
  <2> HIDE DEF w, n
  <2>3. w \subseteq live[s].waiting /\ n >= live[s].epoch
    BY <1>0 DEF w, n
  <2> QED BY <1>0, <1>2, <1>3, <2>1, <2>2, <2>3, CommitTurnStep
<1>5. CASE s # DelRoot
  <2>1. MarkCompleted(s, w, n)
    BY <1>5 DEF DelInterrupt
  <2> HIDE DEF w, n
  <2>2. w \subseteq live[s].waiting /\ n >= live[s].epoch
    BY <1>0 DEF w, n
  <2> QED BY <1>0, <1>2, <1>3, <2>1, <2>2, MarkCompletedStep
<1> QED BY <1>4, <1>5

-----------------------------------------------------------------------------
(* The induction.                                                           *)

LEMMA DelStep ==
    ASSUME DelInv, [DelNext]_delVars
    PROVE  DelInv'
<1>1. CASE \E s \in DOMAIN sess : ClientMessage(s) \/ Rewind(s) \/ ScanWake(s)
  BY <1>1, ClientMessageStep, RewindStep, ScanWakeStep
<1>8. CASE ReopenSettled \/ WakeAddressed
  BY <1>8, ReopenSettledStep, WakeAddressedStep
<1>2. CASE \E s \in wakeSet : Dispatch(s)
  BY <1>2, DispatchStep
<1>3. CASE \E s \in DOMAIN live : DelTurn(s)
  <2>1. PICK s \in DOMAIN live : DelTurn(s)
    BY <1>3
  <2> QED BY <2>1, StaySuspendedStep, GoesOnStep, SpawnJoiningStep, SpawnDetachedStep,
             BindNoticeStep, SendToChildStep, CommitRootStep, CompleteStep,
             DelInterruptStep DEF DelTurn
<1>4. CASE PopJob \/ Materialise \/ WakeChild \/ JobFails
  BY <1>4, PopJobStep, MaterialiseStep, JobEndStep
<1>5. CASE PopNotice \/ CheckParent \/ InjectNotice \/ InjectFails \/ WakeParent
  BY <1>5, PopNoticeStep, NoticeGoesOnStep, InjectNoticeStep
<1>6. CASE DelCrash
  BY <1>6, DelCrashStep
<1>7. CASE UNCHANGED delVars
  <2>0. DelTypeOK /\ JoinInv /\ NoticeInv
    BY DEF DelInv
  <2>1. UNCHANGED <<sess, jobs, enqueued, joins, severed, notices, outbox, wakeSet, live, jobWorker, submit,
                    noticeWorker, delBudget>>
    BY <1>7 DEF delVars, delStore
  <2>2. DelTypeOK'
    BY <2>0, <2>1 DEF DelTypeOK
  <2>3. JoinInv'
    BY <2>0, <2>1, <2>2, JobsStill, StillJoins
  <2>4. NoticeInv'
    <3>1. InHand' => InHand /\ noticeWorker'.notice = noticeWorker.notice
      BY <2>1 DEF InHand
    <3> QED BY <2>0, <2>1, <2>2, <3>1, EdgesStill, StillNotices
  <2> QED BY <2>2, <2>3, <2>4 DEF DelInv
<1> QED BY <1>1, <1>2, <1>3, <1>4, <1>5, <1>6, <1>7, <1>8 DEF DelNext

LEMMA DelStart ==
    ASSUME DelInit
    PROVE  DelInv
<1> DEFINE v == [NewSession EXCEPT !.inbox = {Message(DelRoot)}]
<1>1. DelRoot \in Path
  BY EmptySeq DEF DelRoot, Path
<1>2. NewSession \in DelSession /\ Message(DelRoot) \in Item /\ Message(DelRoot).kind = "message"
  BY <1>1, ItemTypes DEF NewSession, DelSession
<1>3. /\ v \in DelSession /\ v.inbox = {Message(DelRoot)} /\ v.heard = {} /\ v.waiting = {}
  BY <1>2 DEF DelSession, NewSession
<1>4. sess = [s \in {DelRoot} |-> v]
  BY DEF DelInit
<1> HIDE DEF v
<1>5. /\ DOMAIN sess = {DelRoot} /\ sess \in [DOMAIN sess -> DelSession] /\ sess[DelRoot] = v
  BY <1>3, <1>4
<1>6. /\ jobs = <<>> /\ enqueued = {} /\ DOMAIN joins = {} /\ DOMAIN notices = {}
      /\ outbox = <<>> /\ wakeSet = {} /\ DOMAIN live = {}
      /\ jobWorker = IdleJobWorker /\ noticeWorker = IdleNoticeWorker
      /\ submit = NoSubmit /\ severed = {}
      /\ delBudget \in [DelEvent -> Nat]
      /\ joins \in [{} -> [parent : Path, epoch : Nat]]
      /\ notices \in [{} -> [parent : Path, call : BOOLEAN, notified : BOOLEAN]]
      /\ live \in [{} -> Incarnation]
  BY DelBudgetAssumption DEF DelInit
<1>7. DelTypeOK
  <2>1. jobs \in Seq(DelJob) /\ outbox \in Seq(Notice)
    BY <1>6, EmptySeq
  <2> QED BY <1>1, <1>5, <1>6, <2>1, IdleWorkers, NobodySubmits DEF DelTypeOK
<1>8. DOMAIN jobs = {} /\ DOMAIN outbox = {}
  BY <1>6
<1>9. JoinInv
  <2>1. JobsOK /\ JoinsOK /\ EnqueuedOK
    BY <1>6, <1>8, IdleWorkers DEF JobsOK, JoinsOK, EnqueuedOK
  <2>2. ChildrenOK
    BY <1>5 DEF ChildrenOK
  <2>3. WaitsOK
    BY <1>3, <1>5, <1>6 DEF WaitsOK, Waits
  <2> QED BY <2>1, <2>2, <2>3 DEF JoinInv
<1>10. NoticeInv
  <2>1. ~InHand
    BY <1>6, IdleWorkers DEF InHand
  <2> QED BY <1>2, <1>3, <1>5, <1>6, <1>8, <2>1 DEF NoticeInv, LiveOK, PlacesOK, OnceOK
<1> QED BY <1>7, <1>9, <1>10 DEF DelInv

LEMMA DelInductive == DelSpec => []DelInv
<1>1. DelInv /\ [DelNext]_delVars => DelInv'
  BY DelStep
<1> QED BY <1>1, DelStart, PTL DEF DelSpec

-----------------------------------------------------------------------------
(* The tables of the store, the incarnations and both workers keep their    *)
(* types in every interleaving, and an incarnation runs a session that has  *)
(* a row.                                                                   *)
THEOREM DelTypeCorrect == DelSpec => []DelTypeOK
<1>1. DelInv => DelTypeOK
  BY DEF DelInv
<1> QED BY <1>1, DelInductive, PTL

(* No join is lost by create_runnable or mark_completed: for any tree, a    *)
(* child that completed has answered the parent that waits for it, through  *)
(* reopening, rewinds, suspensions repeated and crashes.                    *)
THEOREM JoinsStayAccounted == DelSpec => []JoinAccounted
<1>1. DelInv => JoinAccounted
  <2> SUFFICES ASSUME DelInv, NEW p \in DOMAIN sess, NEW e \in sess[p].waiting,
                      JoinChild(p, e) \in DOMAIN sess
               PROVE  /\ JoinChild(p, e) \in DOMAIN joins
                      /\ joins[JoinChild(p, e)] = [parent |-> p, epoch |-> e]
                      /\ Has(JoinChild(p, e), "completed") =>
                            e \in sess[p].comps \/ <<p, e>> \in severed
    BY DEF JoinAccounted
  <2>1. p \in Path /\ e \in Nat /\ DelTypeOK /\ JoinInv
    BY RowFields DEF DelInv
  <2>2. PICK c : c = JoinChild(p, e)
    OBVIOUS
  <2>3. c \in DOMAIN joins
    BY <2>1, <2>2, JoinId DEF JoinInv, ChildrenOK
  <2>4. joins[c] \in [parent : Path, epoch : Nat]
        /\ c = JoinChild(joins[c].parent, joins[c].epoch)
    BY <2>1, <2>3 DEF DelTypeOK, JoinInv, JoinsOK
  <2>5. joins[c].parent = p /\ joins[c].epoch = e
    BY <2>1, <2>2, <2>4, JoinInjective
  <2>6. joins[c] = [parent |-> p, epoch |-> e]
    BY <2>4, <2>5
  <2>7. Has(JoinChild(p, e), "completed") => e \in sess[p].comps \/ <<p, e>> \in severed
    BY <2>1 DEF JoinInv, WaitsOK, Waits
  <2> QED BY <2>2, <2>3, <2>6, <2>7
<1> QED BY <1>1, DelInductive, PTL

LEMMA AtMostOneIn ==
    ASSUME NEW S, NEW x, S \subseteq {x}
    PROVE  /\ IsFiniteSet(S) /\ Cardinality(S) \in Nat /\ Cardinality(S) <= 1
           /\ S = {} => Cardinality(S) = 0
<1>1. IsFiniteSet({}) /\ Cardinality({}) = 0
  BY FS_EmptySet
<1>2. IsFiniteSet({x}) /\ Cardinality({x}) = 1
  BY FS_Singleton
<1>3. S = {} \/ S = {x}
  OBVIOUS
<1>4. CASE S = {}
  <2>1. IsFiniteSet(S) /\ Cardinality(S) = 0
    BY <1>1, <1>4, Zenon
  <2> QED BY <2>1
<1>5. CASE S = {x}
  <2>1. IsFiniteSet(S) /\ Cardinality(S) = 1
    BY <1>2, <1>5, Zenon
  <2>2. S # {}
    BY <1>5
  <2> QED BY <2>1, <2>2
<1> QED BY <1>3, <1>4, <1>5

(* A detached child is announced at most once, over any number of runs of   *)
(* the child, crashes of the worker and turns of the parent: the notice is  *)
(* in one place, and only an unmarked edge sends one.                       *)
THEOREM NoticesStayUnique == DelSpec => []NoticeAtMostOnce
<1>1. DelInv => NoticeAtMostOnce
  <2> SUFFICES ASSUME DelInv, NEW c \in DOMAIN sess
               PROVE  NoticeCopies(c) <= 1
    BY DEF NoticeAtMostOnce
  <2> DEFINE A == InFlight(c)
             B == {p \in DOMAIN sess : NoticeOf(c) \in sess[p].inbox}
             D == {p \in DOMAIN sess : NoticeOf(c) \in sess[p].heard}
             h == IF InHand /\ noticeWorker.notice.child = c THEN 1 ELSE 0
  <2>0. PlacesOK /\ OnceOK /\ NoticeOf(c).kind = "notice" /\ NoticeOf(c).of = c
    BY DEF DelInv, NoticeInv, NoticeOf
  <2>1. PICK i : A \subseteq {i}
    <3>1. \A x, y \in A : x = y
      BY <2>0 DEF InFlight, OnceOK
    <3>2. CASE A = {}
      BY <3>2
    <3>3. CASE A # {}
      BY <3>1, <3>3
    <3> QED BY <3>2, <3>3
  <2>2. PICK p : B \subseteq {p} /\ D \subseteq {p}
    <3>1. \A q \in B \cup D : Sent(c, q)
      BY <2>0 DEF PlacesOK
    <3>2. B \cup D \subseteq {notices[c].parent}
      BY <3>1 DEF Sent
    <3> QED BY <3>2
  <2>3. /\ Cardinality(A) \in Nat /\ Cardinality(A) <= 1 /\ (A = {} => Cardinality(A) = 0)
        /\ Cardinality(B) \in Nat /\ Cardinality(B) <= 1 /\ (B = {} => Cardinality(B) = 0)
        /\ Cardinality(D) \in Nat /\ Cardinality(D) <= 1 /\ (D = {} => Cardinality(D) = 0)
    <3> HIDE DEF A, B, D
    <3> QED BY <2>1, <2>2, AtMostOneIn
  <2>4. A # {} => h = 0 /\ B = {} /\ D = {}
    BY <2>0 DEF OnceOK, InFlight
  <2>5. h # 0 => A = {} /\ B = {} /\ D = {}
    BY <2>0 DEF OnceOK, InFlight
  <2>6. B # {} => D = {}
    <3> SUFFICES ASSUME B # {}, D # {}
                 PROVE  FALSE
      OBVIOUS
    <3>1. p \in B /\ p \in D
      BY <2>2
    <3> QED BY <2>0, <3>1 DEF OnceOK
  <2>7. NoticeCopies(c) = Cardinality(A) + h + Cardinality(B) + Cardinality(D)
    BY DEF NoticeCopies, InHand
  <2>8. h \in {0, 1}
    OBVIOUS
  <2> HIDE DEF A, B, D, h
  <2> QED BY <2>3, <2>4, <2>5, <2>6, <2>7, <2>8
<1> QED BY <1>1, DelInductive, PTL
-----------------------------------------------------------------------------
(* Spawns.  A worker that returns or dies with a row in its hands loses it, *)
(* and a parent reopened after its notice was dropped never hears of it;    *)
(* nothing else does.                                                       *)

(* The workers let nothing go: no job that was popped, and no notice unless *)
(* the parent has settled.                                                  *)
HoldsOn ==
    /\ jobWorker.pc = "create" => jobWorker'.pc # "idle"
    /\ InHand /\ noticeWorker'.pc = "idle" => Has(noticeWorker.notice.parent, "completed")

(* A settled parent stays settled once a child of it has been announced.    *)
StaysSettled ==
    \A c \in DOMAIN notices :
        notices[c].notified /\ Has(notices[c].parent, "completed") =>
            sess'[notices[c].parent].status = "completed"

JobPlaced(c) ==
    \/ c \in DOMAIN sess
    \/ \E i \in DOMAIN jobs : jobs[i].child = c
    \/ jobWorker.pc = "create" /\ jobWorker.job.child = c

JobsPlaced == \A pe \in enqueued : JobPlaced(JoinChild(pe[1], pe[2]))

(* A detached child has its edge, which the turn that spawned it or the job *)
(* worker wrote, before it has a row.                                       *)
BornOK ==
    \A s \in DOMAIN live :
        live[s].pc = "bind" => live[s].child # DelRoot /\ LastKind(live[s].child) = "d"

EdgesOK == \A c \in DOMAIN sess : c # DelRoot /\ LastKind(c) = "d" => c \in DOMAIN notices

MarkedOK == \A c \in DOMAIN notices : Has(c, "completed") => notices[c].notified

Travels(c) ==
    \/ \E i \in DOMAIN outbox : outbox[i].child = c
    \/ InHand /\ noticeWorker.notice.child = c
    \/ \E p \in DOMAIN sess : NoticeOf(c) \in sess[p].inbox \cup sess[p].heard

AnnouncedOK ==
    \A c \in DOMAIN notices :
        notices[c].notified => Travels(c) \/ Has(notices[c].parent, "completed")

SpawnInv == JobsPlaced /\ BornOK /\ EdgesOK /\ MarkedOK /\ AnnouncedOK

(* No step takes a row away, or an item from the inbox that it does not add *)
(* to what the session has heard.                                           *)
RowsKept ==
    /\ DOMAIN sess \subseteq DOMAIN sess'
    /\ \A q \in DOMAIN sess :
          sess[q].inbox \cup sess[q].heard \subseteq sess'[q].inbox \cup sess'[q].heard

NoneSettles ==
    \A q \in DOMAIN sess' :
        sess'[q].status = "completed" => q \in DOMAIN sess /\ sess[q].status = "completed"

NoneCreated == DOMAIN sess' \subseteq DOMAIN sess

(* A turn ends in commit_turn or in mark_completed, interrupted or not.     *)
Commits(s) == \E w \in SUBSET Nat, e \in Nat : CommitTurn(s, w, e)
Settles(s) == \E w \in SUBSET Nat, e \in Nat : MarkCompleted(s, w, e)

LEMMA TurnCases ==
    ASSUME DelInv, NEW s \in DOMAIN live, DelTurn(s)
    PROVE  \/ StaySuspended(s) \/ EnterModel(s) \/ SpawnJoining(s) \/ SpawnDetached(s)
           \/ BindNotice(s) \/ (\E c \in DOMAIN sess : SendToChild(s, c)) \/ WakeSentTo(s)
           \/ Commits(s) \/ Settles(s)
<1>0. /\ {} \in SUBSET Nat /\ EpochIn(s) \in Nat
      /\ live[s].waiting \in SUBSET Nat /\ live[s].epoch \in Nat
  BY LiveFields, EpochInOK DEF DelInv
<1>1. CASE CommitRoot(s)
  BY <1>0, <1>1 DEF CommitRoot, Commits
<1>2. CASE Complete(s)
  BY <1>0, <1>2 DEF Complete, Settles
<1>3. CASE DelInterrupt(s)
  BY <1>0, <1>3 DEF DelInterrupt, Commits, Settles
<1> QED BY <1>1, <1>2, <1>3 DEF DelTurn

LEMMA RowKept ==
    ASSUME DelTypeOK, NEW s \in DOMAIN sess, NEW v \in DelSession,
           sess' = [sess EXCEPT ![s] = v],
           sess[s].inbox \cup sess[s].heard \subseteq v.inbox \cup v.heard,
           v.status = "completed" => sess[s].status = "completed"
    PROVE  RowsKept /\ NoneSettles /\ NoneCreated
<1>1. /\ DOMAIN sess' = DOMAIN sess /\ sess'[s] = v
      /\ \A q \in DOMAIN sess : q # s => sess'[q] = sess[q]
  BY RowWritten
<1> QED BY <1>1 DEF RowsKept, NoneSettles, NoneCreated

LEMMA RowsSame ==
    ASSUME sess' = sess
    PROVE  RowsKept /\ NoneSettles /\ NoneCreated
BY DEF RowsKept, NoneSettles, NoneCreated

LEMMA ReopenSettledRows ==
    ASSUME DelInv, ReopenSettled
    PROVE  RowsKept /\ NoneSettles /\ NoneCreated
<1> DEFINE s == submit.to
           st == IF sess[s].status = "completed" THEN "ready" ELSE sess[s].status
           v == [sess[s] EXCEPT !.status = st]
<1>0. /\ DelTypeOK /\ sess \in [DOMAIN sess -> DelSession]
      /\ sess' = [sess EXCEPT ![s].status = IF @ = "completed" THEN "ready" ELSE @]
  BY DEF DelInv, DelTypeOK, ReopenSettled
<1>1. CASE s \notin DOMAIN sess
  BY <1>0, <1>1, RowsSame
<1>2. CASE s \in DOMAIN sess
  <2>1. sess' = [sess EXCEPT ![s] = v] /\ sess[s] \in DelSession
    BY <1>0, <1>2
  <2>2. st \in {"idle", "ready", "active", "suspended", "completed"} /\ st # "completed"
    BY <1>0, <1>2, RowFields
  <2> HIDE DEF s, st
  <2>3. /\ v \in DelSession /\ v.inbox = sess[s].inbox /\ v.heard = sess[s].heard
        /\ v.status # "completed"
    BY <2>1, <2>2 DEF DelSession
  <2> HIDE DEF v
  <2> QED BY <1>0, <1>2, <2>1, <2>3, RowKept
<1> QED BY <1>1, <1>2

LEMMA RewindRows ==
    ASSUME DelInv, NEW s \in DOMAIN sess, Rewind(s)
    PROVE  RowsKept /\ NoneSettles /\ NoneCreated
<1> DEFINE n == sess[s].epoch + 1
           v == [sess[s] EXCEPT !.waiting = {}, !.epoch = n]
<1>0. DelTypeOK /\ sess[s] \in DelSession /\ n \in Nat
  BY RowFields DEF DelInv
<1>1. sess' = [sess EXCEPT ![s] = v]
  BY <1>0 DEF Rewind, DelTypeOK
<1> HIDE DEF n
<1>2. /\ v \in DelSession /\ v.inbox = sess[s].inbox /\ v.heard = sess[s].heard
      /\ v.status = sess[s].status
  BY <1>0 DEF DelSession
<1> HIDE DEF v
<1> QED BY <1>0, <1>1, <1>2, RowKept

LEMMA HydrateRows ==
    ASSUME DelInv, NEW s \in DOMAIN sess, Hydrate(s)
    PROVE  RowsKept /\ NoneSettles /\ NoneCreated
<1> DEFINE v == [sess[s] EXCEPT !.status = "active"]
<1>0. DelTypeOK /\ sess[s] \in DelSession
  BY RowFields DEF DelInv
<1>1. sess' = [sess EXCEPT ![s] = v]
  BY <1>0 DEF Hydrate, DelTypeOK
<1>2. /\ v \in DelSession /\ v.inbox = sess[s].inbox /\ v.heard = sess[s].heard
      /\ v.status = "active"
  BY <1>0 DEF DelSession
<1> HIDE DEF v
<1> QED BY <1>0, <1>1, <1>2, RowKept

LEMMA AppendRows ==
    ASSUME DelInv, NEW s \in DOMAIN sess, NEW item \in Item, sess' = AppendItem(sess, s, item)
    PROVE  RowsKept /\ NoneSettles /\ NoneCreated /\ item \in sess'[s].inbox
<1> DEFINE v == AppendRow(sess[s], item)
<1>0. DelTypeOK /\ sess[s] \in DelSession
  BY RowFields DEF DelInv
<1>1. /\ v \in DelSession /\ v.inbox = sess[s].inbox \cup {item} /\ v.heard = sess[s].heard
      /\ v.status = "completed" => sess[s].status = "completed"
  BY <1>0, AppendRowOK
<1>2. sess' = [sess EXCEPT ![s] = v]
  <2>1. sess \in [DOMAIN sess -> DelSession]
    BY <1>0 DEF DelTypeOK
  <2> QED BY <2>1, AppendItemOK
<1> HIDE DEF v
<1>3. sess'[s] = v
  BY <1>0, <1>1, <1>2, RowWritten
<1> QED BY <1>0, <1>1, <1>2, <1>3, RowKept

(* A commit folds what the turn loaded into what it has heard.              *)
LEMMA CapturedRows ==
    ASSUME DelInv, NEW s \in DOMAIN live, NEW st \in {"idle", "ready", "suspended"},
           NEW w \in SUBSET Nat, NEW e \in Nat,
           sess' = [sess EXCEPT ![s] = Captured(s, st, w, e)]
    PROVE  RowsKept /\ NoneSettles /\ NoneCreated
<1> DEFINE v == Captured(s, st, w, e)
<1>0. DelTypeOK /\ s \in DOMAIN sess /\ live[s].items \subseteq sess[s].inbox
      /\ live[s].heard = sess[s].heard
  BY LiveFields DEF DelInv, NoticeInv, LiveOK
<1>1. /\ v \in DelSession /\ v.status = st /\ v.inbox = sess[s].inbox \ live[s].items
      /\ v.heard = live[s].heard \cup live[s].items
  BY <1>0, RowFields, LiveFields DEF Captured, DelSession
<1>2. sess' = [sess EXCEPT ![s] = v]
  OBVIOUS
<1> HIDE DEF v
<1>3. v.status # "completed"
  BY <1>1
<1> QED BY <1>0, <1>1, <1>2, <1>3, RowKept

LEMMA CommitRows ==
    ASSUME DelInv, NEW s \in DOMAIN live, Commits(s)
    PROVE  RowsKept /\ NoneSettles /\ NoneCreated
<1> DEFINE left == sess[s].comps \ live[s].comps
<1>0. /\ DelTypeOK /\ s \in DOMAIN sess /\ live[s].items \subseteq sess[s].inbox
      /\ live[s].heard = sess[s].heard
  BY LiveFields DEF DelInv, NoticeInv, LiveOK
<1>a. PICK w \in SUBSET Nat, e \in Nat : CommitTurn(s, w, e)
  BY DEF Commits
<1>1. PICK next \in {"ready", "idle"} :
         sess' = [sess EXCEPT ![s] = [Captured(s, next, w, e) EXCEPT !.comps = left]]
  BY <1>a DEF CommitTurn
<1> DEFINE r == Captured(s, next, w, e)
           v == [r EXCEPT !.comps = left]
<1>2. /\ r \in DelSession /\ r.status = next
      /\ r.inbox = sess[s].inbox \ live[s].items /\ r.heard = live[s].heard \cup live[s].items
  BY <1>0, RowFields, LiveFields DEF Captured, DelSession
<1>3. left \in SUBSET Nat
  BY <1>0, RowFields
<1>4. sess' = [sess EXCEPT ![s] = v]
  BY <1>1
<1> HIDE DEF r, left
<1>5. v \in DelSession /\ v.status = r.status /\ v.inbox = r.inbox /\ v.heard = r.heard
  BY <1>2, <1>3 DEF DelSession
<1> HIDE DEF v
<1>6. v.status # "completed"
  BY <1>2, <1>5
<1> QED BY <1>0, <1>2, <1>4, <1>5, <1>6, RowKept

LEMMA SpawnDetachedRows ==
    ASSUME DelInv, NEW s \in DOMAIN live, SpawnDetached(s)
    PROVE  RowsKept /\ NoneSettles /\ NoneCreated
<1> DEFINE n == sess[s].minted + 1
           v == [sess[s] EXCEPT !.minted = n]
<1>0. DelTypeOK /\ s \in DOMAIN sess
  BY LiveFields DEF DelInv
<1>1. sess[s] \in DelSession /\ n \in Nat
  BY <1>0, RowFields
<1>2. sess' = [sess EXCEPT ![s] = v]
  BY <1>0, <1>1 DEF SpawnDetached, DelTypeOK
<1> HIDE DEF n
<1>3. /\ v \in DelSession /\ v.inbox = sess[s].inbox /\ v.heard = sess[s].heard
      /\ v.status = sess[s].status
  BY <1>1 DEF DelSession
<1> HIDE DEF v
<1> QED BY <1>0, <1>2, <1>3, RowKept

(* mark_completed settles the child and nobody else.                        *)
LEMMA SettleRows ==
    ASSUME DelInv, NEW s \in DOMAIN live, Settles(s)
    PROVE  /\ RowsKept /\ NoneCreated
           /\ \A q \in DOMAIN sess' : q # s /\ sess'[q].status = "completed" =>
                 q \in DOMAIN sess /\ sess[q].status = "completed"
<1>0. /\ DelTypeOK /\ JoinInv /\ s \in DOMAIN sess /\ live[s].items \subseteq sess[s].inbox
      /\ live[s].heard = sess[s].heard
  BY LiveFields DEF DelInv, NoticeInv, LiveOK
<1>a. PICK w \in SUBSET Nat, e \in Nat : sess' = Fulfil(s, w, e)
  BY DEF Settles, MarkCompleted
<1>1. /\ DOMAIN sess' = DOMAIN sess
      /\ sess'[s].inbox = sess[s].inbox \ live[s].items
      /\ sess'[s].heard = live[s].heard \cup live[s].items
      /\ \A q \in DOMAIN sess : q # s =>
            /\ sess'[q].inbox = sess[q].inbox /\ sess'[q].heard = sess[q].heard
            /\ sess'[q].status = "completed" => sess[q].status = "completed"
  BY <1>0, <1>a, FulfilOK
<1> QED BY <1>0, <1>1 DEF RowsKept, NoneCreated

LEMMA MaterialiseRows ==
    ASSUME DelInv, Materialise
    PROVE  /\ RowsKept /\ NoneSettles
           /\ DOMAIN sess' = DOMAIN sess \cup {jobWorker.job.child}
<1> DEFINE c == jobWorker.job.child
<1>0. sess \in [DOMAIN sess -> DelSession] /\ sess' = OrIgnore(sess, c, NewSession)
  BY DEF DelInv, DelTypeOK, Materialise
<1>1. NewSession \in DelSession /\ NewSession.status = "ready"
  BY DEF NewSession, DelSession
<1> HIDE DEF c
<1>2. /\ DOMAIN sess' = DOMAIN sess \cup {c}
      /\ \A q \in DOMAIN sess : sess'[q] = sess[q]
      /\ c \notin DOMAIN sess => sess'[c] = NewSession
  BY <1>0, <1>1, SessionInserted
<1>3. RowsKept
  BY <1>2 DEF RowsKept
<1>4. NoneSettles
  BY <1>1, <1>2 DEF NoneSettles
<1> QED BY <1>2, <1>3, <1>4 DEF c

(* A step settles nobody and creates nobody, settles the child that         *)
(* completes, or creates the child of the job in hand.                      *)
Quiet == NoneSettles /\ NoneCreated

LEMMA RowsStep ==
    ASSUME DelInv, [DelNext]_delVars
    PROVE  /\ RowsKept
           /\ Quiet \/ Materialise \/ \E s \in DOMAIN live : Settles(s)
<1>1. ASSUME NEW s \in DOMAIN sess, ClientMessage(s) \/ Rewind(s) \/ ScanWake(s)
      PROVE  RowsKept /\ Quiet
  <2>1. Message(s) \in Item
    BY RowFields, ItemTypes DEF DelInv
  <2> QED BY <1>1, <2>1, AppendRows, RewindRows, HydrateRows DEF ClientMessage, ScanWake, Quiet
<1>2. ASSUME NEW s \in wakeSet, Dispatch(s)
      PROVE  RowsKept /\ Quiet
  BY <1>2, HydrateRows, RowsSame DEF Dispatch, Quiet
<1>3. ASSUME NEW s \in DOMAIN live, DelTurn(s)
      PROVE  RowsKept /\ (Quiet \/ Settles(s))
  <2>0. /\ DelTypeOK /\ live[s].waiting \in SUBSET Nat /\ live[s].epoch \in Nat
        /\ EpochIn(s) \in Nat /\ s \in DOMAIN sess
    BY LiveFields, EpochInOK DEF DelInv
  <2>1. CASE StaySuspended(s)
    <3>1. sess' = [sess EXCEPT ![s] = Captured(s, "suspended", live[s].waiting, live[s].epoch)]
      BY <2>1 DEF StaySuspended
    <3> QED BY <2>0, <3>1, CapturedRows DEF Quiet
  <2>2. CASE EnterModel(s) \/ BindNotice(s) \/ WakeSentTo(s)
    BY <2>2, RowsSame DEF EnterModel, BindNotice, WakeSentTo, delStore, Quiet
  <2>3. CASE SpawnJoining(s)
    <3>1. PICK e \in Nat : e = EpochIn(s) + 1
      BY <2>0
    <3>2. sess' = [sess EXCEPT ![s] = Captured(s, "suspended", {e}, e)]
      BY <2>3, <3>1 DEF SpawnJoining
    <3>3. {e} \in SUBSET Nat
      OBVIOUS
    <3> QED BY <3>2, <3>3, CapturedRows DEF Quiet
  <2>4. ASSUME NEW c \in DOMAIN sess, SendToChild(s, c)
        PROVE  RowsKept /\ Quiet
    <3>1. SendFrom(s) \in Item
      BY <2>0, RowFields, ItemTypes
    <3> QED BY <2>4, <3>1, AppendRows DEF SendToChild, Quiet
  <2>5. CASE SpawnDetached(s) \/ Commits(s)
    BY <2>5, SpawnDetachedRows, CommitRows DEF Quiet
  <2>6. CASE Settles(s)
    BY <2>6, SettleRows
  <2> QED BY <1>3, <2>1, <2>2, <2>3, <2>4, <2>5, <2>6, TurnCases
<1>4. CASE Materialise
  BY <1>4, MaterialiseRows
<1>5. CASE InjectNotice
  <2>1. Sent(noticeWorker.notice.child, noticeWorker.notice.parent)
    BY <1>5 DEF InjectNotice, InHand, DelInv, NoticeInv, PlacesOK
  <2>2. noticeWorker.notice.parent \in DOMAIN sess /\ noticeWorker.notice.child \in Path
    BY <2>1, NoticeFields DEF Sent, DelInv, NoticeInv, PlacesOK
  <2>3. NoticeOf(noticeWorker.notice.child) \in Item
    BY <2>2, ItemTypes
  <2> QED BY <1>5, <2>2, <2>3, AppendRows DEF InjectNotice, Quiet
<1>6. CASE PopJob \/ WakeChild \/ JobFails \/ PopNotice \/ CheckParent \/ WakeParent \/ DelCrash
           \/ InjectFails \/ WakeAddressed \/ UNCHANGED delVars
  BY <1>6, RowsSame DEF InjectFails, WakeAddressed, PopJob, WakeChild, JobFails, PopNotice, CheckParent, WakeParent, DelCrash,
                        delVars, delStore, Quiet
<1>7. CASE ReopenSettled
  BY <1>7, ReopenSettledRows DEF Quiet
<1> QED BY <1>1, <1>2, <1>3, <1>4, <1>5, <1>6, <1>7 DEF DelNext

(* The job table: a job leaves it for the worker's hands, and the worker's  *)
(* hands for the child's row.                                               *)
LEMMA PlacedStill ==
    ASSUME RowsKept, JobsPlaced, enqueued' = enqueued, jobs' = jobs,
           jobWorker.pc = "create" => jobWorker' = jobWorker \/ jobWorker.job.child \in DOMAIN sess'
    PROVE  JobsPlaced'
BY DEF RowsKept, JobsPlaced, JobPlaced

LEMMA PlacedAppended ==
    ASSUME DelTypeOK, RowsKept, JobsPlaced, jobWorker' = jobWorker, NEW j \in DelJob,
           jobs' = Append(jobs, j),
           \A pe \in enqueued' : pe \in enqueued \/ j.child = JoinChild(pe[1], pe[2])
    PROVE  JobsPlaced'
<1>1. jobs \in Seq(DelJob)
  BY DEF DelTypeOK
<1>2. /\ Len(jobs') = Len(jobs) + 1 /\ DOMAIN jobs' = 1 .. Len(jobs')
      /\ DOMAIN jobs = 1 .. Len(jobs) /\ Len(jobs) \in Nat
      /\ \A i \in 1 .. Len(jobs) : jobs'[i] = jobs[i]
      /\ jobs'[Len(jobs) + 1] = j
  BY <1>1, AppendProperties, LenProperties
<1>3. \A i \in DOMAIN jobs : i \in DOMAIN jobs' /\ jobs'[i] = jobs[i]
  BY <1>2
<1>4. \E i \in DOMAIN jobs' : jobs'[i].child = j.child
  BY <1>2
<1>5. ASSUME NEW c, JobPlaced(c) PROVE JobPlaced(c)'
  BY <1>3, <1>5 DEF RowsKept, JobPlaced
<1>6. JobPlaced(j.child)'
  BY <1>4 DEF JobPlaced
<1>7. ASSUME NEW pe \in enqueued' PROVE JobPlaced(JoinChild(pe[1], pe[2]))'
  BY <1>5, <1>6, <1>7 DEF JobsPlaced
<1> QED BY <1>7 DEF JobsPlaced

LEMMA PlacedStep ==
    ASSUME DelInv, [DelNext]_delVars, HoldsOn \/ UNCHANGED delVars, JobsPlaced
    PROVE  JobsPlaced'
<1>0. DelTypeOK /\ RowsKept /\ JoinInv
  BY RowsStep DEF DelInv
<1>1. CASE UNCHANGED <<jobs, enqueued, jobWorker>>
  BY <1>0, <1>1, PlacedStill
<1>2. CASE jobWorker' = IdleJobWorker /\ UNCHANGED <<jobs, enqueued>>
  <2>1. jobWorker.pc = "create" => jobWorker' = jobWorker
    BY <1>2, IdleWorkers DEF HoldsOn, delVars
  <2> QED BY <1>0, <1>2, <2>1, PlacedStill
<1>3. CASE PopJob
  <2>1. /\ jobs \in Seq(DelJob) /\ jobs # <<>> /\ jobs' = Tail(jobs) /\ jobWorker.pc = "idle"
        /\ jobWorker' = [pc |-> "create", job |-> Head(jobs)] /\ enqueued' = enqueued
    BY <1>0, <1>3 DEF PopJob, DelTypeOK
  <2>2. /\ Len(Tail(jobs)) = Len(jobs) - 1 /\ Tail(jobs) \in Seq(DelJob)
        /\ \A i \in 1 .. Len(Tail(jobs)) : Tail(jobs)[i] = jobs[i + 1]
    BY <2>1, HeadTailProperties
  <2>3. /\ DOMAIN jobs = 1 .. Len(jobs) /\ Len(jobs) \in Nat /\ Head(jobs) = jobs[1]
        /\ DOMAIN Tail(jobs) = 1 .. Len(Tail(jobs))
    BY <2>1, <2>2, LenProperties
  <2>4. ASSUME NEW i \in DOMAIN jobs
        PROVE  \/ jobWorker'.job = jobs[i]
               \/ \E k \in DOMAIN jobs' : jobs'[k] = jobs[i]
    <3>1. CASE i = 1
      BY <2>1, <2>3, <3>1
    <3>2. CASE i # 1
      <4>1. i - 1 \in 1 .. Len(Tail(jobs)) /\ (i - 1) + 1 = i
        BY <2>2, <2>3, <2>4, <3>2
      <4> QED BY <2>1, <2>2, <2>3, <4>1
    <3> QED BY <3>1, <3>2
  <2>5. jobWorker'.pc = "create" /\ jobWorker.pc # "create"
    BY <2>1
  <2>6. ASSUME NEW c, JobPlaced(c) PROVE JobPlaced(c)'
    BY <1>0, <2>4, <2>5, <2>6 DEF RowsKept, JobPlaced
  <2> QED BY <2>1, <2>6 DEF JobsPlaced
<1>4. CASE Materialise
  <2>1. jobWorker.job.child \in DOMAIN sess'
    BY <1>4, MaterialiseRows
  <2>2. UNCHANGED <<jobs, enqueued>>
    BY <1>4 DEF Materialise
  <2> QED BY <1>0, <2>1, <2>2, PlacedStill
<1>5. ASSUME NEW s \in DOMAIN live, StaySuspended(s) \/ SpawnJoining(s)
      PROVE  JobsPlaced'
  <2>0. s \in Path /\ EpochIn(s) \in Nat /\ live[s].waiting \subseteq Nat /\ jobWorker' = jobWorker
    <3>1. s \in DOMAIN sess /\ live[s].waiting \subseteq Nat /\ EpochIn(s) \in Nat
      BY <1>0, LiveFields, EpochInOK
    <3> QED BY <1>0, <1>5, <3>1, RowFields DEF StaySuspended, SpawnJoining
  <2>1. PICK e \in Nat : Enqueue(s, e)
    BY <1>5, <2>0 DEF StaySuspended, SpawnJoining
  <2> DEFINE j == [parent |-> s, epoch |-> e, child |-> JoinChild(s, e), detached |-> FALSE]
  <2>2. CASE <<s, e>> \in enqueued
    <3>1. jobs' = jobs /\ enqueued' = enqueued
      BY <2>1, <2>2 DEF Enqueue
    <3> QED BY <1>0, <2>0, <3>1, PlacedStill
  <2>3. CASE <<s, e>> \notin enqueued
    <3>1. jobs' = Append(jobs, j) /\ enqueued' = enqueued \cup {<<s, e>>}
      BY <2>1, <2>3 DEF Enqueue
    <3>2. j \in DelJob
      BY <2>0, JoinId DEF DelJob
    <3>3. \A pe \in enqueued' : pe \in enqueued \/ j.child = JoinChild(pe[1], pe[2])
      BY <3>1
    <3> HIDE DEF j
    <3> QED BY <1>0, <2>0, <3>1, <3>2, <3>3, PlacedAppended
  <2> QED BY <2>2, <2>3
<1>6. ASSUME NEW s \in DOMAIN live, SpawnDetached(s)
      PROVE  JobsPlaced'
  <2> DEFINE child == DetachedChild(s, sess[s].minted + 1)
             j == [parent |-> s, epoch |-> 0, child |-> child, detached |-> TRUE]
  <2>1. jobs' = Append(jobs, j) /\ enqueued' = enqueued /\ jobWorker' = jobWorker
    BY <1>6 DEF SpawnDetached
  <2>2. s \in DOMAIN sess
    BY <1>0, LiveFields
  <2>3. s \in Path /\ sess[s].minted + 1 \in Nat
    BY <1>0, <2>2, RowFields
  <2>4. j \in DelJob
    BY <2>3, DetachedId DEF DelJob
  <2> HIDE DEF j
  <2> QED BY <1>0, <2>1, <2>4, PlacedAppended
<1>7. ASSUME NEW s, ClientMessage(s) \/ Rewind(s) \/ ScanWake(s) \/ Dispatch(s)
      PROVE  UNCHANGED <<jobs, enqueued, jobWorker>>
  BY <1>7 DEF ClientMessage, Rewind, ScanWake, Dispatch
<1>8. ASSUME NEW s, \/ EnterModel(s) \/ BindNotice(s) \/ WakeSentTo(s)
                    \/ Commits(s) \/ Settles(s) \/ \E c \in DOMAIN sess : SendToChild(s, c)
      PROVE  UNCHANGED <<jobs, enqueued, jobWorker>>
  BY <1>8 DEF EnterModel, BindNotice, WakeSentTo, Commits, CommitTurn, Settles, MarkCompleted,
              SendToChild, delStore
<1>9. ASSUME \/ PopNotice \/ CheckParent \/ InjectNotice \/ InjectFails \/ WakeParent
             \/ ReopenSettled \/ WakeAddressed \/ UNCHANGED delVars
      PROVE  UNCHANGED <<jobs, enqueued, jobWorker>>
  BY <1>9 DEF PopNotice, CheckParent, InjectNotice, InjectFails, WakeParent, ReopenSettled,
              WakeAddressed, delVars, delStore
<1>10. ASSUME WakeChild \/ JobFails \/ DelCrash
       PROVE  jobWorker' = IdleJobWorker /\ UNCHANGED <<jobs, enqueued>>
  BY <1>10 DEF WakeChild, JobFails, DelCrash, delStore
<1>11. ASSUME NEW s \in DOMAIN live, DelTurn(s) PROVE JobsPlaced'
  BY <1>1, <1>5, <1>6, <1>8, <1>11, TurnCases
<1> QED BY <1>1, <1>2, <1>3, <1>4, <1>7, <1>9, <1>10, <1>11 DEF DelNext

(* The turn that minted a detached child still has its id.                  *)
LEMMA BornStep ==
    ASSUME DelInv, [DelNext]_delVars, BornOK
    PROVE  BornOK'
<1>0. DelTypeOK /\ live \in [DOMAIN live -> Incarnation]
  BY DEF DelInv, DelTypeOK
<1>1. CASE live' = live
  BY <1>1 DEF BornOK
<1>2. ASSUME NEW s, Hydrate(s) PROVE BornOK'
  <2> DEFINE h == [pc |-> "hydrated", epoch |-> sess[s].epoch, waiting |-> sess[s].waiting,
                   comps |-> sess[s].comps, items |-> sess[s].inbox, heard |-> sess[s].heard,
                   child |-> DelRoot]
  <2>1. live' = With(live, s, h) /\ h.pc = "hydrated"
    BY <1>2 DEF Hydrate
  <2> HIDE DEF h
  <2>2. \A q \in DOMAIN live' : live'[q] = h \/ (q \in DOMAIN live /\ live'[q] = live[q])
    BY <2>1 DEF With
  <2> QED BY <2>1, <2>2 DEF BornOK
<1>3. ASSUME NEW s \in DOMAIN live, live' = Without(live, s) PROVE BornOK'
  BY <1>0, <1>3, LiveLeft DEF BornOK
<1>4. ASSUME NEW s \in DOMAIN live, EnterModel(s) \/ BindNotice(s) \/ WakeSentTo(s) PROVE BornOK'
  <2>1. live' = [live EXCEPT ![s] = [live[s] EXCEPT !.pc = "model"]]
    BY <1>0, <1>4 DEF EnterModel, BindNotice, WakeSentTo
  <2>2. [live[s] EXCEPT !.pc = "model"].pc = "model"
    BY <1>0 DEF Incarnation
  <2>3. \A q \in DOMAIN live' : q \in DOMAIN live /\ (live'[q].pc = "model" \/ live'[q] = live[q])
    BY <1>0, <2>1, <2>2
  <2> QED BY <2>3 DEF BornOK
<1>5. ASSUME NEW s \in DOMAIN live, SpawnDetached(s) PROVE BornOK'
  <2> DEFINE child == DetachedChild(s, sess[s].minted + 1)
             h == [live[s] EXCEPT !.pc = "bind", !.child = child]
  <2>1. s \in DOMAIN sess
    BY <1>0, LiveFields
  <2>2. s \in Path /\ sess[s].minted + 1 \in Nat
    BY <1>0, <2>1, RowFields
  <2>3. child # DelRoot /\ LastKind(child) = "d"
    BY <2>2, DetachedId
  <2>4. live' = [live EXCEPT ![s] = h]
    BY <1>0, <1>5 DEF SpawnDetached
  <2> HIDE DEF child
  <2>5. h.child = child
    BY <1>0 DEF Incarnation
  <2> HIDE DEF h
  <2>6. \A q \in DOMAIN live' : q \in DOMAIN live /\ (live'[q] = h \/ live'[q] = live[q])
    BY <1>0, <2>4
  <2> QED BY <2>3, <2>5, <2>6 DEF BornOK
<1>10. ASSUME NEW s \in DOMAIN live, NEW c, SendToChild(s, c) PROVE BornOK'
  <2> DEFINE h == [live[s] EXCEPT !.pc = "sent", !.child = c]
  <2>1. live' = [live EXCEPT ![s] = h]
    BY <1>0, <1>10 DEF SendToChild
  <2>2. h.pc = "sent"
    BY <1>0 DEF Incarnation
  <2> HIDE DEF h
  <2>3. \A q \in DOMAIN live' : q \in DOMAIN live /\ (live'[q] = h \/ live'[q] = live[q])
    BY <1>0, <2>1
  <2> QED BY <2>2, <2>3 DEF BornOK
<1>6. CASE DelCrash
  BY <1>6 DEF DelCrash, BornOK
<1>7. ASSUME NEW s, ClientMessage(s) \/ Rewind(s) \/ ScanWake(s) \/ Dispatch(s)
      PROVE  live' = live \/ Hydrate(s)
  BY <1>7 DEF ClientMessage, Rewind, ScanWake, Dispatch
<1>8. ASSUME NEW s \in DOMAIN live, DelTurn(s)
      PROVE  \/ live' = live \/ live' = Without(live, s)
             \/ EnterModel(s) \/ BindNotice(s) \/ WakeSentTo(s) \/ SpawnDetached(s)
             \/ \E c \in DOMAIN sess : SendToChild(s, c)
  BY <1>8, TurnCases DEF StaySuspended, SpawnJoining, Commits, CommitTurn, Settles, MarkCompleted
<1>9. ASSUME \/ PopJob \/ Materialise \/ WakeChild \/ JobFails
             \/ PopNotice \/ CheckParent \/ InjectNotice \/ InjectFails \/ WakeParent
             \/ ReopenSettled \/ WakeAddressed \/ UNCHANGED delVars
      PROVE  live' = live
  BY <1>9 DEF PopJob, Materialise, WakeChild, JobFails, PopNotice, CheckParent, InjectNotice,
              InjectFails, WakeParent, ReopenSettled, WakeAddressed, delVars
<1> QED BY <1>1, <1>2, <1>3, <1>4, <1>5, <1>6, <1>7, <1>8, <1>9, <1>10 DEF DelNext

(* An edge goes to a detached child, keeps its parent, and is marked by the *)
(* completion of the child, which announces it.                             *)
EdgeKept(c) ==
    /\ c \in DOMAIN notices'
    /\ notices'[c].parent = notices[c].parent
    /\ notices[c].notified => notices'[c].notified
    /\ notices'[c].notified =>
          notices[c].notified \/ \E i \in DOMAIN outbox' : outbox'[i].child = c

EdgeBorn(c) == c # DelRoot /\ LastKind(c) = "d" /\ ~notices'[c].notified

EdgeMoves ==
    /\ \A c \in DOMAIN notices : EdgeKept(c)
    /\ \A c \in DOMAIN notices' : c \in DOMAIN notices \/ EdgeBorn(c)

LEMMA EdgesSame ==
    ASSUME notices' = notices
    PROVE  EdgeMoves
BY DEF EdgeMoves, EdgeKept

LEMMA EdgeInserted ==
    ASSUME DelInv, NEW c, c # DelRoot, LastKind(c) = "d", NEW p \in Path, NEW call \in BOOLEAN,
           notices' = OrIgnore(notices, c, NoticeEdge(p, call))
    PROVE  EdgeMoves
<1> DEFINE v == NoticeEdge(p, call)
<1>1. notices \in [DOMAIN notices -> NoticeRow]
  BY DEF DelInv, DelTypeOK, NoticeRow
<1>2. v \in NoticeRow /\ ~v.notified
  BY DEF NoticeEdge, NoticeRow
<1> HIDE DEF v
<1>3. /\ DOMAIN notices' = DOMAIN notices \cup {c}
      /\ \A y \in DOMAIN notices : notices'[y] = notices[y]
      /\ c \notin DOMAIN notices => notices'[c] = v
  <2>1. notices' = OrIgnore(notices, c, v)
    BY DEF v
  <2> QED BY <1>1, <1>2, <2>1, NoticeInserted
<1> QED BY <1>2, <1>3 DEF EdgeMoves, EdgeKept, EdgeBorn

LEMMA EdgeAnnounced ==
    ASSUME DelInv, NEW s \in DOMAIN live, Settles(s)
    PROVE  EdgeMoves /\ (s \in DOMAIN notices => notices'[s].notified)
<1>1. notices \in [DOMAIN notices -> NoticeRow] /\ notices' = MarkNotified(s)
  BY DEF DelInv, DelTypeOK, NoticeRow, Settles, MarkCompleted
<1>2. CASE ~Notifies(s)
  <2>1. notices' = notices /\ (s \in DOMAIN notices => notices[s].notified)
    BY <1>1, <1>2 DEF MarkNotified, Notifies
  <2> QED BY <2>1, EdgesSame
<1>3. CASE Notifies(s)
  <2> DEFINE r == [notices[s] EXCEPT !.notified = TRUE]
             m == [parent |-> notices[s].parent, child |-> s, call |-> notices[s].call]
  <2>1. s \in DOMAIN notices /\ notices[s] \in NoticeRow
    BY <1>1, <1>3 DEF Notifies
  <2>2. notices' = [notices EXCEPT ![s] = r]
    BY <1>1, <1>3, <2>1 DEF MarkNotified
  <2>3. r.parent = notices[s].parent /\ r.notified
    BY <2>1 DEF NoticeRow
  <2> HIDE DEF r
  <2>4. /\ DOMAIN notices' = DOMAIN notices /\ notices'[s] = r
        /\ \A y \in DOMAIN notices : y # s => notices'[y] = notices[y]
    BY <1>1, <2>1, <2>2
  <2>5. outbox' = Append(outbox, m) /\ outbox \in Seq(Notice)
    BY <1>3 DEF Settles, MarkCompleted, DelInv, DelTypeOK
  <2>6. m \in Notice /\ m.child = s
    <3>1. s \in DOMAIN sess /\ DelTypeOK
      BY LiveFields DEF DelInv
    <3> QED BY <2>1, <3>1, RowFields DEF NoticeRow, Notice
  <2> HIDE DEF m
  <2>7. \E i \in DOMAIN outbox' : outbox'[i].child = s
    <3>1. /\ Len(outbox') = Len(outbox) + 1 /\ outbox'[Len(outbox) + 1] = m
          /\ outbox' \in Seq(Notice) /\ Len(outbox) \in Nat
      BY <2>5, <2>6, AppendProperties, LenProperties
    <3>2. Len(outbox) + 1 \in DOMAIN outbox'
      BY <3>1, LenProperties
    <3> QED BY <2>6, <3>1, <3>2
  <2> QED BY <2>3, <2>4, <2>7 DEF EdgeMoves, EdgeKept
<1> QED BY <1>2, <1>3

LEMMA EdgeStep ==
    ASSUME DelInv, [DelNext]_delVars, BornOK
    PROVE  EdgeMoves
<1>1. ASSUME NEW s \in DOMAIN live, BindNotice(s) PROVE EdgeMoves
  <2>1. /\ live[s].child # DelRoot /\ LastKind(live[s].child) = "d"
        /\ notices' = OrIgnore(notices, live[s].child, NoticeEdge(s, TRUE))
    BY <1>1 DEF BindNotice, BornOK
  <2>2. s \in Path
    BY LiveFields, RowFields DEF DelInv
  <2> QED BY <2>1, <2>2, EdgeInserted
<1>2. CASE Materialise
  <2> DEFINE j == jobWorker.job
  <2>1. JobOK(j) /\ j.parent \in Path
    BY <1>2, JobFields DEF Materialise, DelInv, JoinInv, JobsOK
  <2>2. CASE j.detached
    <3>1. notices' = OrIgnore(notices, j.child, NoticeEdge(j.parent, FALSE))
      BY <1>2, <2>2 DEF Materialise
    <3>2. j.child # DelRoot /\ LastKind(j.child) = "d"
      BY <2>1, <2>2 DEF JobOK
    <3> HIDE DEF j
    <3> QED BY <2>1, <3>1, <3>2, EdgeInserted
  <2>3. CASE ~j.detached
    BY <1>2, <2>3, EdgesSame DEF Materialise
  <2> QED BY <2>2, <2>3
<1>3. ASSUME NEW s, ClientMessage(s) \/ Rewind(s) \/ ScanWake(s) \/ Dispatch(s)
      PROVE  notices' = notices
  BY <1>3 DEF ClientMessage, Rewind, ScanWake, Dispatch
<1>4. ASSUME NEW s \in DOMAIN live, DelTurn(s)
      PROVE  notices' = notices \/ BindNotice(s) \/ Settles(s)
  BY <1>4, TurnCases DEF StaySuspended, EnterModel, SpawnJoining, SpawnDetached, SendToChild,
                         WakeSentTo, Commits, CommitTurn, delStore
<1>5. ASSUME \/ PopJob \/ WakeChild \/ JobFails \/ PopNotice \/ CheckParent \/ InjectNotice
             \/ InjectFails \/ WakeParent \/ ReopenSettled \/ WakeAddressed \/ DelCrash
             \/ UNCHANGED delVars
      PROVE  notices' = notices
  BY <1>5 DEF PopJob, WakeChild, JobFails, PopNotice, CheckParent, InjectNotice, InjectFails,
              WakeParent, ReopenSettled, WakeAddressed, DelCrash, delVars, delStore
<1> QED BY <1>1, <1>2, <1>3, <1>4, <1>5, EdgesSame, EdgeAnnounced DEF DelNext

(* create_runnable writes the edge with the row.                            *)
LEMMA EdgesStep ==
    ASSUME DelInv, [DelNext]_delVars, BornOK, EdgesOK
    PROVE  EdgesOK'
<1>1. DOMAIN notices \subseteq DOMAIN notices'
  BY EdgeStep DEF EdgeMoves, EdgeKept
<1>2. CASE NoneCreated
  BY <1>1, <1>2 DEF NoneCreated, EdgesOK
<1>3. CASE Materialise
  <2> DEFINE j == jobWorker.job
             c == j.child
  <2>1. JobOK(j) /\ j \in DelJob /\ j.parent \in Path /\ j.epoch \in Nat
    BY <1>3, JobFields DEF Materialise, DelInv, JoinInv, JobsOK
  <2>2. DOMAIN sess' = DOMAIN sess \cup {c}
    BY <1>3, MaterialiseRows
  <2>3. LastKind(c) = "d" => c \in DOMAIN notices'
    <3>1. CASE j.detached
      <4>1. notices' = OrIgnore(notices, c, NoticeEdge(j.parent, FALSE))
        BY <1>3, <3>1 DEF Materialise
      <4> HIDE DEF c
      <4> QED BY <4>1 DEF OrIgnore, With
    <3>2. CASE ~j.detached
      <4>1. c = JoinChild(j.parent, j.epoch)
        BY <2>1, <3>2 DEF JobOK
      <4>2. LastKind(c) = "c"
        BY <2>1, <4>1, JoinId
      <4> QED BY <4>2
    <3> QED BY <3>1, <3>2
  <2> HIDE DEF c
  <2> QED BY <1>1, <2>2, <2>3 DEF EdgesOK
<1>4. ASSUME NEW s \in DOMAIN live, Settles(s) PROVE NoneCreated
  BY <1>4, SettleRows
<1> QED BY <1>2, <1>3, <1>4, RowsStep DEF Quiet

(* mark_completed marks the edge of the child it settles.                   *)
LEMMA MarkedStep ==
    ASSUME DelInv, [DelNext]_delVars, BornOK, EdgesOK, MarkedOK
    PROVE  MarkedOK'
<1> SUFFICES ASSUME NEW c \in DOMAIN notices', c \in DOMAIN sess', sess'[c].status = "completed"
             PROVE  notices'[c].notified
  BY DEF MarkedOK, Has
<1>0. EdgeMoves
  BY EdgeStep
<1>1. CASE c \in DOMAIN sess /\ sess[c].status = "completed"
  <2>1. c \in DOMAIN notices
    BY <1>0, <1>1 DEF EdgeMoves, EdgeBorn, EdgesOK
  <2>2. notices[c].notified
    BY <1>1, <2>1 DEF MarkedOK, Has
  <2> QED BY <1>0, <2>1, <2>2 DEF EdgeMoves, EdgeKept
<1>2. ASSUME NEW s \in DOMAIN live, Settles(s) PROVE notices'[c].notified
  <2>1. CASE c = s
    <3>1. c \in DOMAIN sess
      BY <1>2, <2>1, LiveFields DEF DelInv
    <3>2. c \in DOMAIN notices
      BY <1>0, <3>1 DEF EdgeMoves, EdgeBorn, EdgesOK
    <3> QED BY <1>2, <2>1, <3>2, EdgeAnnounced
  <2>2. CASE c # s
    BY <1>1, <1>2, <2>2, SettleRows
  <2> QED BY <2>1, <2>2
<1>3. CASE NoneSettles
  BY <1>1, <1>3 DEF NoneSettles
<1>4. CASE Materialise
  BY <1>3, <1>4, MaterialiseRows
<1> QED BY <1>2, <1>3, <1>4, RowsStep DEF Quiet

(* A notice goes on, from the outbox to the worker's hands, from there to   *)
(* the parent's inbox, and with the turn into what the parent has heard.    *)
LEMMA OutboxStep ==
    ASSUME DelInv, [DelNext]_delVars, NEW i \in DOMAIN outbox,
           NEW c, outbox[i].child = c
    PROVE  Travels(c)'
<1>0. outbox \in Seq(Notice)
  BY DEF DelInv, DelTypeOK
<1>1. CASE outbox' = outbox
  BY <1>1 DEF Travels
<1>2. ASSUME NEW s \in DOMAIN live, Settles(s) PROVE Travels(c)'
  <2>1. CASE ~Notifies(s)
    BY <1>1, <1>2, <2>1 DEF Settles, MarkCompleted
  <2>2. CASE Notifies(s)
    <3> DEFINE m == [parent |-> notices[s].parent, child |-> s, call |-> notices[s].call]
    <3>1. outbox' = Append(outbox, m)
      BY <1>2, <2>2 DEF Settles, MarkCompleted
    <3>2. s \in Path /\ notices[s] \in NoticeRow
      BY <2>2, LiveFields, RowFields DEF DelInv, DelTypeOK, NoticeRow, Notifies
    <3>3. m \in Notice
      BY <3>2 DEF NoticeRow, Notice
    <3> HIDE DEF m
    <3>4. i \in DOMAIN outbox' /\ outbox'[i] = outbox[i]
      BY <1>0, <3>1, <3>3, AppendProperties, LenProperties
    <3> QED BY <3>4 DEF Travels
  <2> QED BY <2>1, <2>2
<1>3. CASE PopNotice
  <2>1. /\ outbox # <<>> /\ outbox' = Tail(outbox)
        /\ noticeWorker' = [pc |-> "check", notice |-> Head(outbox)]
    BY <1>3 DEF PopNotice
  <2>2. /\ Len(Tail(outbox)) = Len(outbox) - 1 /\ Tail(outbox) \in Seq(Notice)
        /\ \A k \in 1 .. Len(Tail(outbox)) : Tail(outbox)[k] = outbox[k + 1]
    BY <1>0, <2>1, HeadTailProperties
  <2>3. /\ DOMAIN outbox = 1 .. Len(outbox) /\ Len(outbox) \in Nat /\ Head(outbox) = outbox[1]
        /\ DOMAIN Tail(outbox) = 1 .. Len(Tail(outbox))
    BY <1>0, <2>2, LenProperties
  <2>4. CASE i = 1
    <3>1. InHand' /\ noticeWorker'.notice = outbox[i]
      BY <2>1, <2>3, <2>4 DEF InHand
    <3> QED BY <3>1 DEF Travels
  <2>5. CASE i # 1
    <3>1. i - 1 \in 1 .. Len(Tail(outbox)) /\ (i - 1) + 1 = i
      BY <2>2, <2>3, <2>5
    <3>2. i - 1 \in DOMAIN outbox' /\ outbox'[i - 1] = outbox[i]
      BY <2>1, <2>2, <2>3, <3>1
    <3> QED BY <3>2 DEF Travels
  <2> QED BY <2>4, <2>5
<1>4. ASSUME NEW s, ClientMessage(s) \/ Rewind(s) \/ ScanWake(s) \/ Dispatch(s)
      PROVE  outbox' = outbox
  BY <1>4 DEF ClientMessage, Rewind, ScanWake, Dispatch
<1>5. ASSUME NEW s \in DOMAIN live, DelTurn(s)
      PROVE  outbox' = outbox \/ Settles(s)
  BY <1>5, TurnCases DEF StaySuspended, EnterModel, SpawnJoining, SpawnDetached, SendToChild,
                         WakeSentTo, BindNotice, Commits, CommitTurn, delStore
<1>6. ASSUME \/ PopJob \/ Materialise \/ WakeChild \/ JobFails \/ CheckParent \/ InjectNotice
             \/ InjectFails \/ WakeParent \/ ReopenSettled \/ WakeAddressed \/ DelCrash
             \/ UNCHANGED delVars
      PROVE  outbox' = outbox
  BY <1>6 DEF PopJob, Materialise, WakeChild, JobFails, CheckParent, InjectNotice, InjectFails,
              WakeParent, ReopenSettled, WakeAddressed, DelCrash, delVars, delStore
<1> QED BY <1>1, <1>2, <1>3, <1>4, <1>5, <1>6 DEF DelNext

LEMMA HandStep ==
    ASSUME DelInv, [DelNext]_delVars, HoldsOn \/ UNCHANGED delVars, InHand,
           NEW c, noticeWorker.notice.child = c
    PROVE  Travels(c)' \/ Has(noticeWorker.notice.parent, "completed")
<1> DEFINE p == noticeWorker.notice.parent
<1>0. DelTypeOK /\ c \in Path
  BY NoticeFields DEF DelInv
<1>1. CASE noticeWorker' = noticeWorker
  BY <1>1 DEF Travels, InHand
<1>2. CASE noticeWorker' = IdleNoticeWorker
  <2>1. noticeWorker'.pc = "idle"
    BY <1>2, IdleWorkers
  <2>2. noticeWorker' # noticeWorker
    BY <2>1 DEF InHand
  <2> QED BY <2>1, <2>2 DEF HoldsOn, delVars
<1>3. CASE CheckParent
  <2>1. CASE noticeWorker' = [noticeWorker EXCEPT !.pc = "append"]
    <3>1. noticeWorker'.pc = "append" /\ noticeWorker'.notice = noticeWorker.notice
      BY <1>0, <2>1, NoticeFields
    <3> QED BY <3>1 DEF Travels, InHand
  <2> QED BY <1>2, <1>3, <2>1 DEF CheckParent, SetNotice
<1>4. CASE InjectNotice
  <2>1. Sent(c, p) /\ sess' = AppendItem(sess, p, NoticeOf(c))
    BY <1>4 DEF InjectNotice, DelInv, NoticeInv, PlacesOK
  <2>2. p \in DOMAIN sess /\ NoticeOf(c) \in Item
    BY <1>0, <2>1, ItemTypes DEF Sent, DelInv, NoticeInv, PlacesOK
  <2> HIDE DEF p
  <2>3. p \in DOMAIN sess' /\ NoticeOf(c) \in sess'[p].inbox
    BY <2>1, <2>2, AppendRows DEF RowsKept
  <2> QED BY <2>3 DEF Travels
<1>5. ASSUME NEW s, ClientMessage(s) \/ Rewind(s) \/ ScanWake(s) \/ Dispatch(s)
      PROVE  noticeWorker' = noticeWorker
  BY <1>5 DEF ClientMessage, Rewind, ScanWake, Dispatch
<1>6. ASSUME NEW s \in DOMAIN live, DelTurn(s)
      PROVE  noticeWorker' = noticeWorker
  BY <1>6, TurnCases DEF StaySuspended, EnterModel, SpawnJoining, SpawnDetached, SendToChild,
                         WakeSentTo, BindNotice, Commits, CommitTurn, Settles, MarkCompleted
<1>7. ASSUME \/ PopJob \/ Materialise \/ WakeChild \/ JobFails
             \/ ReopenSettled \/ WakeAddressed \/ UNCHANGED delVars
      PROVE  noticeWorker' = noticeWorker
  BY <1>7 DEF PopJob, Materialise, WakeChild, JobFails, ReopenSettled, WakeAddressed, delVars
<1>8. ASSUME PopNotice PROVE FALSE
  BY <1>8 DEF PopNotice, InHand
<1>9. ASSUME WakeParent \/ InjectFails \/ DelCrash PROVE noticeWorker' = IdleNoticeWorker
  BY <1>9 DEF WakeParent, InjectFails, DelCrash
<1> QED BY <1>1, <1>2, <1>3, <1>4, <1>5, <1>6, <1>7, <1>8, <1>9 DEF DelNext

LEMMA AnnouncedStep ==
    ASSUME DelInv, [DelNext]_delVars, (HoldsOn /\ StaysSettled) \/ UNCHANGED delVars,
           BornOK, AnnouncedOK
    PROVE  AnnouncedOK'
<1> SUFFICES ASSUME NEW c \in DOMAIN notices', notices'[c].notified
             PROVE  Travels(c)' \/ Has(notices[c].parent, "completed")'
  BY DEF AnnouncedOK
<1>0. c \in DOMAIN notices /\ EdgeKept(c) /\ RowsKept
  BY EdgeStep, RowsStep DEF EdgeMoves, EdgeBorn
<1>1. CASE ~notices[c].notified
  BY <1>0, <1>1 DEF EdgeKept, Travels
<1>2. ASSUME notices[c].notified, Has(notices[c].parent, "completed")
      PROVE  Has(notices[c].parent, "completed")'
  <2> DEFINE p == notices[c].parent
  <2>1. p \in DOMAIN sess /\ sess[p].status = "completed" /\ p \in DOMAIN sess'
    BY <1>0, <1>2 DEF Has, RowsKept
  <2>2. sess'[p].status = "completed"
    BY <1>0, <1>2, <2>1 DEF StaysSettled, delVars, delStore
  <2>3. notices'[c].parent = p
    BY <1>0 DEF EdgeKept
  <2> QED BY <2>1, <2>2, <2>3 DEF Has
<1>3. ASSUME notices[c].notified, Travels(c)
      PROVE  Travels(c)' \/ Has(notices[c].parent, "completed")'
  <2>1. ASSUME NEW i \in DOMAIN outbox, outbox[i].child = c PROVE Travels(c)'
    BY <2>1, OutboxStep
  <2>2. CASE InHand /\ noticeWorker.notice.child = c
    <3>1. noticeWorker.notice.parent = notices[c].parent
      BY <2>2 DEF DelInv, NoticeInv, PlacesOK, Sent
    <3>2. Travels(c)' \/ Has(notices[c].parent, "completed")
      BY <2>2, <3>1, HandStep
    <3> QED BY <1>2, <1>3, <3>2
  <2>3. ASSUME NEW p \in DOMAIN sess, NoticeOf(c) \in sess[p].inbox \cup sess[p].heard
        PROVE  Travels(c)'
    BY <1>0, <2>3 DEF RowsKept, Travels, NoticeOf
  <2> QED BY <1>3, <2>1, <2>2, <2>3 DEF Travels
<1> QED BY <1>0, <1>1, <1>2, <1>3 DEF AnnouncedOK

LEMMA SpawnStep ==
    ASSUME DelInv, [DelNext]_delVars, [HoldsOn /\ StaysSettled]_delVars, SpawnInv
    PROVE  SpawnInv'
<1>1. JobsPlaced /\ BornOK /\ EdgesOK /\ MarkedOK /\ AnnouncedOK
  BY DEF SpawnInv
<1>2. JobsPlaced'
  BY <1>1, PlacedStep
<1>3. BornOK' /\ EdgesOK' /\ MarkedOK'
  BY <1>1, BornStep, EdgesStep, MarkedStep
<1>4. AnnouncedOK'
  BY <1>1, AnnouncedStep
<1> QED BY <1>2, <1>3, <1>4 DEF SpawnInv

(* A notice that travels or has arrived is counted.                         *)
LEMMA TravelsCounted ==
    ASSUME DelInv, NEW c \in DOMAIN notices, Travels(c)
    PROVE  NoticeCopies(c) > 0
<1> DEFINE A == InFlight(c)
           B == {p \in DOMAIN sess : NoticeOf(c) \in sess[p].inbox}
           D == {p \in DOMAIN sess : NoticeOf(c) \in sess[p].heard}
           h == IF InHand /\ noticeWorker.notice.child = c THEN 1 ELSE 0
<1>0. PlacesOK /\ OnceOK /\ NoticeOf(c).kind = "notice" /\ NoticeOf(c).of = c
  BY DEF DelInv, NoticeInv, NoticeOf
<1>1. PICK i : A \subseteq {i}
  <2>1. \A x, y \in A : x = y
    BY <1>0 DEF InFlight, OnceOK
  <2> QED BY <2>1
<1>2. B \subseteq {notices[c].parent} /\ D \subseteq {notices[c].parent}
  BY <1>0 DEF PlacesOK, Sent
<1>3. A # {} \/ h = 1 \/ B # {} \/ D # {}
  BY DEF Travels, InFlight
<1>4. NoticeCopies(c) = Cardinality(A) + h + Cardinality(B) + Cardinality(D)
  BY DEF NoticeCopies, InHand
<1>5. h \in {0, 1}
  OBVIOUS
<1> HIDE DEF A, B, D, h
<1>6. /\ Cardinality(A) \in Nat /\ (A # {} => Cardinality(A) > 0)
      /\ Cardinality(B) \in Nat /\ (B # {} => Cardinality(B) > 0)
      /\ Cardinality(D) \in Nat /\ (D # {} => Cardinality(D) > 0)
  <2>1. IsFiniteSet(A) /\ IsFiniteSet(B) /\ IsFiniteSet(D)
    BY <1>1, <1>2, AtMostOneIn
  <2> QED BY <2>1, FS_CardinalityType, FS_EmptySet
<1> QED BY <1>3, <1>4, <1>5, <1>6

(* If no worker lets go of what it popped, and no parent is reopened after  *)
(* it settled on an announced child, every spawn is accounted for: these    *)
(* are the only ways to lose a job or an outcome.  Neither rewinds, nor     *)
(* suspensions repeated, nor a crash while the workers' hands are empty     *)
(* does.                                                                    *)
THEOREM SpawnsAccountedOtherwise ==
    DelSpec /\ [][HoldsOn /\ StaysSettled]_delVars => []SpawnAccounted
<1>1. DelInit => SpawnInv
  <2> SUFFICES ASSUME DelInit PROVE SpawnInv
    OBVIOUS
  <2>1. /\ DOMAIN sess = {DelRoot} /\ enqueued = {} /\ DOMAIN notices = {} /\ DOMAIN live = {}
    BY DEF DelInit
  <2> QED BY <2>1 DEF SpawnInv, JobsPlaced, BornOK, EdgesOK, MarkedOK, AnnouncedOK
<1>2. DelInv /\ SpawnInv /\ [DelNext]_delVars /\ [HoldsOn /\ StaysSettled]_delVars => SpawnInv'
  BY SpawnStep
<1>3. DelInv /\ SpawnInv => SpawnAccounted
  <2> SUFFICES ASSUME DelInv, SpawnInv PROVE SpawnAccounted
    OBVIOUS
  <2>1. JobsAccounted
    <3> SUFFICES ASSUME NEW p \in DOMAIN sess, NEW e \in sess[p].waiting
                 PROVE  JobPlaced(JoinChild(p, e))
      BY DEF JobsAccounted, JobPlaced
    <3>1. <<p, e>> \in enqueued
      BY DEF DelInv, JoinInv, WaitsOK, Waits
    <3> QED BY <3>1 DEF SpawnInv, JobsPlaced
  <2>2. ASSUME NEW c \in DOMAIN notices, Has(c, "completed")
        PROVE  NoticeCopies(c) > 0 \/ Has(notices[c].parent, "completed")
    BY <2>2, TravelsCounted DEF SpawnInv, MarkedOK, AnnouncedOK
  <2> QED BY <2>1, <2>2 DEF SpawnAccounted
<1> QED BY <1>1, <1>2, <1>3, DelInductive, PTL DEF DelSpec

=============================================================================
