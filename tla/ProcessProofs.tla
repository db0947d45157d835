--------------------------- MODULE ProcessProofs ---------------------------
(***************************************************************************)
(* Proofs about the process registry: type correctness, the first verdict  *)
(* stands, every exit is accounted for, and a full table evicts before it  *)
(* grows, for any number of processes and calls.                           *)
(***************************************************************************)
EXTENDS Processes, TLAPS, FiniteSetTheorems, WellFoundedInduction

Fate == {"open", "silent", "announced", "waited for", "consumed", "untracked"}
Call == [pc : {"idle", "reconcile", "marking", "look", "select", "kill"},
         op : {"query", "wait", "kill"}, of : SUBSET Proc]

-----------------------------------------------------------------------------
(* The inductive invariant, by process and by call.                         *)

(* A watch that is not disabled has a strike left.  An entry or an exit     *)
(* belongs to a process that was started.  mark_exited runs for an exited   *)
(* process and ends with a decision on the notification: none when nobody   *)
(* asked for it, or when a call has shown the exit.                         *)
RowOK(r, f, shown) ==
    /\ r.disabled \/ r.strikes < StrikeLimit
    /\ r.table # "none" \/ r.exited => r.child # "none"
    /\ r.mark # "no" => r.exited
    /\ r.mark = "done" => f # "open"
    /\ f = "silent" => r.exited /\ ~r.notify
    /\ r.consumed \/ f = "consumed" => shown

(* A call under way has a process, which was entered in the table.          *)
CallOK(k) ==
    k.pc # "idle" => k.of # {} /\ \A p \in k.of : proc[p].table # "none"

RegistryInv ==
    /\ ProcTypeOK
    /\ \A p \in Proc : RowOK(proc[p], fate[p], p \in seen)
    /\ \A c \in ToolCall : CallOK(toolCall[c])

-----------------------------------------------------------------------------
LEMMA InvInit == ProcInit => RegistryInv
BY RegistryAssumption, ProcBudgetAssumption
DEF ProcInit, Unborn, IdleCall, Process, RegistryInv, ProcTypeOK, RowOK, CallOK

(* A call under way is about a started process of the registry.             *)
LEMMA SubjectOK ==
    ASSUME RegistryInv, NEW c \in ToolCall, toolCall[c].pc # "idle"
    PROVE  /\ Subject(c) \in toolCall[c].of
           /\ Subject(c) \in Proc
           /\ proc[Subject(c)].table # "none"
<1>1. toolCall[c].of # {} /\ toolCall[c].of \in SUBSET Proc
  BY DEF RegistryInv, CallOK, ProcTypeOK
<1>2. Subject(c) \in toolCall[c].of
  BY <1>1 DEF Subject
<1> QED BY <1>1, <1>2 DEF RegistryInv, CallOK

LEMMA SpendOK ==
    ASSUME procBudget \in [ProcEvent -> Nat], NEW e \in ProcEvent, ProcSpend(e)
    PROVE  procBudget' \in [ProcEvent -> Nat]
BY DEF ProcSpend

(* The registry is finite.                                                  *)
LEMMA FiniteProcs ==
    ASSUME NEW S \in SUBSET Proc
    PROVE  IsFiniteSet(S) /\ Cardinality(S) \in Nat
<1>1. IsFiniteSet(Proc)
  BY RegistryAssumption, FS_Interval DEF Proc
<1>2. IsFiniteSet(S)
  BY <1>1, FS_Subset
<1> QED BY <1>2, FS_CardinalityType

(* A step that rewrites one row, keeps its entry, and leaves calls that are *)
(* well-formed, keeps the invariant.                                        *)
LEMMA RowStep ==
    ASSUME RegistryInv, NEW p \in Proc, NEW r \in Process, NEW f \in Fate,
           proc' = [proc EXCEPT ![p] = r],
           fate' = [fate EXCEPT ![p] = f],
           seen \subseteq seen', seen' \subseteq Proc,
           RowOK(r, f, p \in seen'),
           proc[p].table # "none" => r.table # "none",
           toolCall' \in [ToolCall -> Call],
           \A c \in ToolCall : CallOK(toolCall'[c]),
           procBudget' \in [ProcEvent -> Nat]
    PROVE  RegistryInv'
<1> USE DEF Fate
<1>1. proc \in [Proc -> Process] /\ fate \in [Proc -> Fate]
  BY DEF RegistryInv, ProcTypeOK
<1>2. ProcTypeOK'
  BY <1>1 DEF ProcTypeOK, Call
<1>3. ASSUME NEW q \in Proc PROVE RowOK(proc'[q], fate'[q], q \in seen')
  <2>1. CASE q = p
    BY <1>1, <2>1
  <2>2. CASE q # p
    <3>1. RowOK(proc[q], fate[q], q \in seen)
      BY DEF RegistryInv
    <3>2. proc'[q] = proc[q] /\ fate'[q] = fate[q]
      BY <1>1, <2>2
    <3> QED BY <3>1, <3>2 DEF RowOK
  <2> QED BY <2>1, <2>2
<1>4. ASSUME NEW c \in ToolCall PROVE CallOK(toolCall[c])'
  <2>1. \A q \in Proc : proc[q].table # "none" => proc'[q].table # "none"
    BY <1>1
  <2>2. toolCall'[c] \in Call
    OBVIOUS
  <2> QED BY <2>1, <2>2 DEF CallOK, Call
<1> QED BY <1>2, <1>3, <1>4 DEF RegistryInv

(* A step that only moves calls keeps the invariant.                        *)
LEMMA CallStep ==
    ASSUME RegistryInv, UNCHANGED <<proc, fate, seen>>,
           toolCall' \in [ToolCall -> Call],
           \A c \in ToolCall : CallOK(toolCall'[c]),
           procBudget' \in [ProcEvent -> Nat]
    PROVE  RegistryInv'
<1>1. ProcTypeOK'
  BY DEF RegistryInv, ProcTypeOK, Call
<1>2. \A p \in Proc : RowOK(proc[p], fate[p], p \in seen)'
  BY DEF RegistryInv
<1>3. \A c \in ToolCall : CallOK(toolCall[c])'
  BY DEF CallOK
<1> QED BY <1>1, <1>2, <1>3 DEF RegistryInv

(* The typing facts the steps below use.                                    *)
LEMMA Types ==
    ASSUME RegistryInv
    PROVE  /\ proc \in [Proc -> Process] /\ fate \in [Proc -> Fate]
           /\ toolCall \in [ToolCall -> Call] /\ seen \subseteq Proc
           /\ procBudget \in [ProcEvent -> Nat]
           /\ \A p \in Proc : proc[p] \in Process /\ fate[p] \in Fate
                                /\ RowOK(proc[p], fate[p], p \in seen)
           /\ \A c \in ToolCall : CallOK(toolCall[c])
BY DEF RegistryInv, ProcTypeOK, Fate, Call

(* RowStep for a step that touches nothing but the row.                     *)
LEMMA OnlyRowStep ==
    ASSUME RegistryInv, NEW p \in Proc, NEW r \in Process, NEW f \in Fate,
           proc' = [proc EXCEPT ![p] = r],
           fate' = [fate EXCEPT ![p] = f],
           RowOK(r, f, p \in seen),
           proc[p].table # "none" => r.table # "none",
           UNCHANGED <<toolCall, seen>>,
           procBudget' \in [ProcEvent -> Nat]
    PROVE  RegistryInv'
BY Types, RowStep

(* The same, with the decision on the notification left open as well.       *)
LEMMA QuietRowStep ==
    ASSUME RegistryInv, NEW p \in Proc, NEW r \in Process,
           proc' = [proc EXCEPT ![p] = r],
           RowOK(r, fate[p], p \in seen),
           proc[p].table # "none" => r.table # "none",
           OnlyProc,
           procBudget' \in [ProcEvent -> Nat]
    PROVE  RegistryInv'
<1>1. fate' = [fate EXCEPT ![p] = fate[p]] /\ fate[p] \in Fate
  BY Types DEF OnlyProc
<1> QED BY <1>1, OnlyRowStep DEF OnlyProc

LEMMA SpawnInv ==
    ASSUME RegistryInv, NEW p \in Proc, NEW notify \in BOOLEAN, NEW watches \in BOOLEAN,
           Spawn(p, notify, watches)
    PROVE  RegistryInv'
<1> DEFINE r == [proc[p] EXCEPT !.child = "alive", !.pipe = TRUE,
                                !.notify = notify, !.watches = watches]
<1>1. proc[p] \in Process /\ proc \in [Proc -> Process]
        /\ RowOK(proc[p], fate[p], p \in seen)
  BY Types
<1>2. r \in Process
  BY <1>1 DEF Process
<1>3. proc' = [proc EXCEPT ![p] = r]
  BY <1>1 DEF Spawn, Process
<1>4. RowOK(r, fate[p], p \in seen) /\ (proc[p].table # "none" => r.table # "none")
  BY <1>1 DEF Spawn, Process, RowOK
<1>5. procBudget' \in [ProcEvent -> Nat] /\ OnlyProc
  BY Types, SpendOK DEF Spawn, ProcEvent, OnlyProc
<1> HIDE DEF r
<1> QED BY <1>2, <1>3, <1>4, <1>5, QuietRowStep

LEMMA ChildExitsInv ==
    ASSUME RegistryInv, NEW p \in Proc, ChildExits(p)
    PROVE  RegistryInv'
<1> DEFINE r == [proc[p] EXCEPT !.child = "gone"]
<1>1. proc[p] \in Process /\ proc \in [Proc -> Process]
        /\ RowOK(proc[p], fate[p], p \in seen)
  BY Types
<1>2. r \in Process
  BY <1>1 DEF Process
<1>3. proc' = [proc EXCEPT ![p] = r]
  BY <1>1 DEF ChildExits, Process
<1>4. RowOK(r, fate[p], p \in seen) /\ (proc[p].table # "none" => r.table # "none")
  BY <1>1 DEF ChildExits, Process, RowOK
<1>5. procBudget' \in [ProcEvent -> Nat] /\ OnlyProc
  BY Types DEF ChildExits, OnlyProc
<1> HIDE DEF r
<1> QED BY <1>2, <1>3, <1>4, <1>5, QuietRowStep

LEMMA PipeClosesInv ==
    ASSUME RegistryInv, NEW p \in Proc, PipeCloses(p)
    PROVE  RegistryInv'
<1> DEFINE r == [proc[p] EXCEPT !.pipe = FALSE]
<1>1. proc[p] \in Process /\ proc \in [Proc -> Process]
        /\ RowOK(proc[p], fate[p], p \in seen)
  BY Types
<1>2. r \in Process
  BY <1>1 DEF Process
<1>3. proc' = [proc EXCEPT ![p] = r]
  BY <1>1 DEF PipeCloses, Process
<1>4. RowOK(r, fate[p], p \in seen) /\ (proc[p].table # "none" => r.table # "none")
  BY <1>1 DEF PipeCloses, Process, RowOK
<1>5. procBudget' \in [ProcEvent -> Nat] /\ OnlyProc
  BY Types DEF PipeCloses, OnlyProc
<1> HIDE DEF r
<1> QED BY <1>2, <1>3, <1>4, <1>5, QuietRowStep

LEMMA GraceEndsInv ==
    ASSUME RegistryInv, NEW p \in Proc, GraceEnds(p)
    PROVE  RegistryInv'
<1> DEFINE r == [proc[p] EXCEPT !.armed = "due"]
<1>1. proc[p] \in Process /\ proc \in [Proc -> Process]
        /\ RowOK(proc[p], fate[p], p \in seen)
  BY Types
<1>2. r \in Process
  BY <1>1 DEF Process
<1>3. proc' = [proc EXCEPT ![p] = r]
  BY <1>1 DEF GraceEnds, Process
<1>4. RowOK(r, fate[p], p \in seen) /\ (proc[p].table # "none" => r.table # "none")
  BY <1>1 DEF GraceEnds, Process, RowOK
<1>5. procBudget' \in [ProcEvent -> Nat] /\ OnlyProc
  BY Types DEF GraceEnds, OnlyProc
<1> HIDE DEF r
<1> QED BY <1>2, <1>3, <1>4, <1>5, QuietRowStep

LEMMA WindowEndsInv ==
    ASSUME RegistryInv, NEW p \in Proc, WindowEnds(p)
    PROVE  RegistryInv'
<1> DEFINE r == [proc[p] EXCEPT !.cool = "over"]
<1>1. proc[p] \in Process /\ proc \in [Proc -> Process]
        /\ RowOK(proc[p], fate[p], p \in seen)
  BY Types
<1>2. r \in Process
  BY <1>1 DEF Process
<1>3. proc' = [proc EXCEPT ![p] = r]
  BY <1>1 DEF WindowEnds, Process
<1>4. RowOK(r, fate[p], p \in seen) /\ (proc[p].table # "none" => r.table # "none")
  BY <1>1 DEF WindowEnds, Process, RowOK
<1>5. procBudget' \in [ProcEvent -> Nat] /\ OnlyProc
  BY Types DEF WindowEnds, OnlyProc
<1> HIDE DEF r
<1> QED BY <1>2, <1>3, <1>4, <1>5, QuietRowStep

(* WatchState::scan stays within the strike limit.                          *)
LEMMA ScanOK ==
    ASSUME NEW r \in Process, NEW f \in Fate, NEW p \in Proc, RowOK(r, f, p \in seen),
           ~r.exited, ~r.disabled
    PROVE  /\ Scan(r) \in Process
           /\ RowOK(Scan(r), f, p \in seen)
           /\ Scan(r).table = r.table
<1>1. r.strikes \in 0 .. StrikeLimit /\ r.strikes < StrikeLimit
  BY DEF Process, RowOK
<1>2. CASE r.cool = "cooling" /\ r.struck
  BY <1>2 DEF Scan
<1>3. CASE r.cool = "cooling" /\ ~r.struck
  <2> DEFINE t == [r EXCEPT !.struck = TRUE, !.strikes = r.strikes + 1,
                            !.disabled = StruckOut(r.strikes + 1),
                            !.notify = r.notify \/ StruckOut(r.strikes + 1)]
  <2>1. Scan(r) = t
    BY <1>3 DEF Scan
  <2>2. r.strikes + 1 \in 0 .. StrikeLimit
    BY <1>1, RegistryAssumption
  <2>3. StruckOut(r.strikes + 1) \in BOOLEAN
    BY DEF StruckOut
  <2>4. t \in Process
    BY <2>2, <2>3 DEF Process
  <2>5. t.disabled \/ t.strikes < StrikeLimit
    <3>1. t.disabled = StruckOut(r.strikes + 1) /\ t.strikes = r.strikes + 1
      BY DEF Process
    <3>2. StruckOut(r.strikes + 1) \/ r.strikes + 1 < StrikeLimit
      BY <2>2, RegistryAssumption DEF StruckOut
    <3> HIDE DEF t
    <3> QED BY <3>1, <3>2
  <2>6. RowOK(t, f, p \in seen) /\ t.table = r.table
    BY <2>5 DEF RowOK, Process
  <2> QED BY <2>1, <2>4, <2>6
<1>4. CASE r.cool # "cooling"
  <2> DEFINE n == IF r.cool = "over" /\ ~r.struck THEN 0 ELSE r.strikes
             t == [r EXCEPT !.cool = "cooling", !.struck = FALSE, !.strikes = n]
  <2>1. Scan(r) = t
    BY <1>4 DEF Scan
  <2>2. n \in 0 .. StrikeLimit /\ n < StrikeLimit
    BY <1>1, RegistryAssumption
  <2> HIDE DEF n
  <2>3. t \in Process /\ RowOK(t, f, p \in seen) /\ t.table = r.table
    BY <2>2 DEF RowOK, Process
  <2> QED BY <2>1, <2>3
<1> QED BY <1>2, <1>3, <1>4

LEMMA MatchInv ==
    ASSUME RegistryInv, NEW p \in Proc, Match(p)
    PROVE  RegistryInv'
<1>1. proc[p] \in Process /\ fate[p] \in Fate /\ RowOK(proc[p], fate[p], p \in seen)
  BY Types
<1>2. Scan(proc[p]) \in Process /\ RowOK(Scan(proc[p]), fate[p], p \in seen)
        /\ Scan(proc[p]).table = proc[p].table
  BY <1>1, ScanOK DEF Match
<1>3. proc' = [proc EXCEPT ![p] = Scan(proc[p])]
  BY Types DEF Match
<1>4. procBudget' \in [ProcEvent -> Nat] /\ OnlyProc
  BY Types, SpendOK DEF Match, ProcEvent
<1> QED BY <1>2, <1>3, <1>4, QuietRowStep

(* Flip rewrites one row of a started process and keeps its entry.          *)
LEMMA FlipOK ==
    ASSUME RegistryInv, NEW p \in Proc, NEW reason \in {"exited", "killed"},
           proc[p].child # "none"
    PROVE  \E r \in Process :
              /\ Flip(p, reason) = [proc EXCEPT ![p] = r]
              /\ RowOK(r, fate[p], p \in seen)
              /\ r.table = proc[p].table
<1>1. proc[p] \in Process /\ proc \in [Proc -> Process]
        /\ RowOK(proc[p], fate[p], p \in seen)
  BY Types
<1>2. CASE proc[p].exited
  BY <1>1, <1>2 DEF Flip
<1>3. CASE ~proc[p].exited
  <2> DEFINE r == [proc[p] EXCEPT !.exited = TRUE, !.reason = reason, !.mark = "move"]
  <2>1. r \in Process
    BY <1>1 DEF Process
  <2>2. Flip(p, reason) = [proc EXCEPT ![p] = r]
    BY <1>1, <1>3 DEF Flip, Process
  <2>3. RowOK(r, fate[p], p \in seen) /\ r.table = proc[p].table
    BY <1>1, <1>3 DEF RowOK, Process
  <2> HIDE DEF r
  <2> QED BY <2>1, <2>2, <2>3
<1> QED BY <1>2, <1>3

LEMMA ReaderMarksInv ==
    ASSUME RegistryInv, NEW p \in Proc, ReaderMarks(p)
    PROVE  RegistryInv'
<1>1. PICK r \in Process : /\ Flip(p, "exited") = [proc EXCEPT ![p] = r]
                           /\ RowOK(r, fate[p], p \in seen)
                           /\ r.table = proc[p].table
  BY FlipOK DEF ReaderMarks
<1>2. procBudget' \in [ProcEvent -> Nat] /\ OnlyProc
  BY Types DEF ReaderMarks
<1> QED BY <1>1, <1>2, QuietRowStep DEF ReaderMarks

LEMMA MoveInv ==
    ASSUME RegistryInv, NEW p \in Proc, Move(p)
    PROVE  RegistryInv'
<1>1. proc[p] \in Process /\ proc \in [Proc -> Process] /\ fate \in [Proc -> Fate]
        /\ fate[p] \in Fate /\ RowOK(proc[p], fate[p], p \in seen)
  BY Types
<1>2. procBudget' \in [ProcEvent -> Nat] /\ UNCHANGED <<toolCall, seen>>
  BY Types DEF Move
<1>3. CASE proc[p].table = "running"
  <2> DEFINE r == [proc[p] EXCEPT !.table = "finished", !.mark = "announce"]
  <2>1. r \in Process
    BY <1>1 DEF Process
  <2>2. proc' = [proc EXCEPT ![p] = r] /\ OnlyProc
    BY <1>1, <1>3 DEF Move, Process, OnlyProc
  <2>3. RowOK(r, fate[p], p \in seen) /\ r.table # "none"
    BY <1>1, <1>3 DEF Move, RowOK, Process
  <2> HIDE DEF r
  <2> QED BY <1>2, <2>1, <2>2, <2>3, QuietRowStep
<1>4. CASE proc[p].table # "running"
  <2> DEFINE r == [proc[p] EXCEPT !.mark = "done"]
  <2>1. r \in Process /\ "untracked" \in Fate
    BY <1>1 DEF Process, Fate
  <2>2. proc' = [proc EXCEPT ![p] = r] /\ fate' = [fate EXCEPT ![p] = "untracked"]
    BY <1>1, <1>4 DEF Move, Process
  <2>3. RowOK(r, "untracked", p \in seen) /\ r.table = proc[p].table
    BY <1>1, <1>4 DEF Move, RowOK, Process
  <2> HIDE DEF r
  <2> QED BY <1>2, <2>1, <2>2, <2>3, OnlyRowStep
<1> QED BY <1>3, <1>4

LEMMA AnnounceInv ==
    ASSUME RegistryInv, NEW p \in Proc, Announce(p)
    PROVE  RegistryInv'
<1> DEFINE quiet == ~proc[p].notify \/ proc[p].consumed
           r == [proc[p] EXCEPT !.mark = IF quiet THEN "done" ELSE "count"]
           f == IF ~quiet THEN fate[p] ELSE IF proc[p].notify THEN "consumed" ELSE "silent"
<1>1. proc[p] \in Process /\ proc \in [Proc -> Process] /\ fate \in [Proc -> Fate]
        /\ fate[p] \in Fate /\ RowOK(proc[p], fate[p], p \in seen)
  BY Types
<1>2. procBudget' \in [ProcEvent -> Nat] /\ UNCHANGED <<toolCall, seen>>
  BY Types DEF Announce
<1>3. r \in Process /\ f \in Fate
  BY <1>1 DEF Process, Fate
<1>4. proc' = [proc EXCEPT ![p] = r] /\ fate' = [fate EXCEPT ![p] = f]
  BY <1>1 DEF Announce, Process
<1>5. RowOK(r, f, p \in seen) /\ r.table = proc[p].table
  BY <1>1 DEF Announce, RowOK, Process
<1> HIDE DEF r, f
<1> QED BY <1>2, <1>3, <1>4, <1>5, OnlyRowStep

LEMMA EmitInv ==
    ASSUME RegistryInv, NEW p \in Proc, Emit(p)
    PROVE  RegistryInv'
<1> DEFINE r == [proc[p] EXCEPT !.mark = "done"]
           f == IF Waiting(p) # {} THEN "waited for" ELSE "announced"
<1>1. proc[p] \in Process /\ proc \in [Proc -> Process] /\ fate \in [Proc -> Fate]
        /\ RowOK(proc[p], fate[p], p \in seen)
  BY Types
<1>2. procBudget' \in [ProcEvent -> Nat] /\ UNCHANGED <<toolCall, seen>>
  BY Types DEF Emit
<1>3. r \in Process /\ f \in Fate
  BY <1>1 DEF Process, Fate
<1>4. proc' = [proc EXCEPT ![p] = r] /\ fate' = [fate EXCEPT ![p] = f]
  BY <1>1 DEF Emit, Process
<1>5. RowOK(r, f, p \in seen) /\ r.table = proc[p].table
  BY <1>1 DEF Emit, RowOK, Process
<1> HIDE DEF r, f
<1> QED BY <1>2, <1>3, <1>4, <1>5, OnlyRowStep

(* Registration enters one process; what it prunes stays entered and loses  *)
(* its consumed marker.                                                     *)
LEMMA RegisterInv ==
    ASSUME RegistryInv, NEW p \in Proc, Register(p)
    PROVE  RegistryInv'
<1>1. PICK expired \in SUBSET InTable("finished") :
          proc' = [q \in Proc |->
                IF q = p THEN [proc[q] EXCEPT !.table = "running"]
                ELSE IF q \in Pruned(expired) \cup InTable("pruned")
                     THEN [proc[q] EXCEPT !.table = "pruned", !.consumed = FALSE]
                     ELSE proc[q]]
  BY DEF Register
<1> DEFINE gone == Pruned(expired) \cup InTable("pruned")
<1>2. \A q \in gone : q \in Proc /\ proc[q].table # "none"
  BY DEF Pruned, Evicted, InTable
<1>3. UNCHANGED <<toolCall, fate, seen, procBudget>>
  BY DEF Register
<1> HIDE DEF gone
<1>4. ASSUME NEW q \in Proc
      PROVE  /\ proc'[q] \in Process
             /\ RowOK(proc'[q], fate'[q], q \in seen')
             /\ proc[q].table # "none" => proc'[q].table # "none"
  <2>1. proc[q] \in Process /\ RowOK(proc[q], fate[q], q \in seen)
    BY Types
  <2>2. CASE q = p
    <3>1. proc'[q] = [proc[q] EXCEPT !.table = "running"] /\ proc[q].child # "none"
      BY <1>1, <2>2 DEF Register
    <3> QED BY <1>3, <2>1, <3>1 DEF RowOK, Process
  <2>3. CASE q # p /\ q \in gone
    <3>1. proc'[q] = [proc[q] EXCEPT !.table = "pruned", !.consumed = FALSE]
            /\ proc[q].table # "none"
      BY <1>1, <1>2, <2>3 DEF gone
    <3> QED BY <1>3, <2>1, <3>1 DEF RowOK, Process
  <2>4. CASE q # p /\ q \notin gone
    <3>1. proc'[q] = proc[q]
      BY <1>1, <2>4 DEF gone
    <3> QED BY <1>3, <2>1, <3>1
  <2> QED BY <2>2, <2>3, <2>4
<1>5. proc' \in [Proc -> Process]
  BY <1>1, <1>4
<1>6. ProcTypeOK'
  BY <1>3, <1>5 DEF RegistryInv, ProcTypeOK
<1>7. ASSUME NEW c \in ToolCall PROVE CallOK(toolCall[c])'
  <2>1. toolCall[c] \in Call /\ CallOK(toolCall[c])
    BY Types
  <2> QED BY <1>3, <1>4, <2>1 DEF CallOK, Call
<1> QED BY <1>4, <1>6, <1>7 DEF RegistryInv

-----------------------------------------------------------------------------
(* The tool calls.                                                          *)

LEMMA GoesOK ==
    ASSUME RegistryInv, NEW c \in ToolCall, toolCall[c].pc # "idle",
           NEW pc \in {"idle", "reconcile", "marking", "look", "select", "kill"}, Goes(c, pc)
    PROVE  /\ toolCall' \in [ToolCall -> Call]
           /\ \A d \in ToolCall : CallOK(toolCall'[d])
<1>1. toolCall \in [ToolCall -> Call] /\ \A d \in ToolCall : CallOK(toolCall[d])
  BY Types
<1> QED BY <1>1 DEF Goes, Call, CallOK

(* A call that goes on and rewrites the row of its process.                 *)
LEMMA SubjectStep ==
    ASSUME RegistryInv, NEW c \in ToolCall, toolCall[c].pc # "idle",
           NEW pc \in {"idle", "reconcile", "marking", "look", "select", "kill"}, Goes(c, pc),
           NEW p \in Proc, NEW r \in Process,
           proc' = [proc EXCEPT ![p] = r],
           seen \subseteq seen', seen' \subseteq Proc,
           RowOK(r, fate[p], p \in seen'), r.table = proc[p].table,
           UNCHANGED <<fate, procBudget>>
    PROVE  RegistryInv'
<1>1. fate' = [fate EXCEPT ![p] = fate[p]] /\ fate[p] \in Fate
        /\ procBudget' \in [ProcEvent -> Nat]
  BY Types
<1>2. toolCall' \in [ToolCall -> Call] /\ \A d \in ToolCall : CallOK(toolCall'[d])
  BY GoesOK
<1> QED BY <1>1, <1>2, RowStep

LEMMA InvokeInv ==
    ASSUME RegistryInv, NEW c \in ToolCall, NEW op \in {"query", "wait", "kill"},
           NEW p \in Proc, Invoke(c, op, p)
    PROVE  RegistryInv'
<1>1. toolCall \in [ToolCall -> Call] /\ \A d \in ToolCall : CallOK(toolCall[d])
  BY Types
<1> DEFINE k == [pc |-> IF op = "kill" THEN "kill" ELSE "reconcile", op |-> op, of |-> {p}]
<1>2. k \in Call /\ CallOK(k)
  BY DEF Call, CallOK, Invoke, Tracked, InTable
<1>3. toolCall' = [toolCall EXCEPT ![c] = k]
  BY DEF Invoke
<1> HIDE DEF k
<1>4. toolCall' \in [ToolCall -> Call] /\ \A d \in ToolCall : CallOK(toolCall'[d])
  BY <1>1, <1>2, <1>3
<1>5. procBudget' \in [ProcEvent -> Nat] /\ UNCHANGED <<proc, fate, seen>>
  BY Types, SpendOK DEF Invoke, ProcEvent
<1> QED BY <1>4, <1>5, CallStep

LEMMA ReconcileInv ==
    ASSUME RegistryInv, NEW c \in ToolCall, ReconcileCall(c)
    PROVE  RegistryInv'
<1> DEFINE p == Subject(c)
<1>1. toolCall[c].pc = "reconcile" /\ UNCHANGED <<fate, seen, procBudget>>
  BY DEF ReconcileCall
<1>2. p \in Proc /\ proc[p].table # "none"
  BY <1>1, SubjectOK
<1>3. proc[p] \in Process /\ proc \in [Proc -> Process] /\ seen \subseteq Proc
        /\ RowOK(proc[p], fate[p], p \in seen)
  BY <1>2, Types
<1>4. proc[p].child # "none"
  BY <1>2, <1>3 DEF RowOK
<1>5. CASE UNCHANGED proc /\ Goes(c, "look")
  <2>1. proc' = [proc EXCEPT ![p] = proc[p]]
    BY <1>2, <1>3, <1>5
  <2> HIDE DEF p
  <2> QED BY <1>1, <1>2, <1>3, <1>5, <2>1, SubjectStep
<1>6. CASE proc' = Flip(p, "exited") /\ Goes(c, "marking")
  <2>1. PICK r \in Process : /\ Flip(p, "exited") = [proc EXCEPT ![p] = r]
                             /\ RowOK(r, fate[p], p \in seen)
                             /\ r.table = proc[p].table
    BY <1>2, <1>4, FlipOK
  <2> HIDE DEF p
  <2> QED BY <1>1, <1>2, <1>3, <1>6, <2>1, SubjectStep
<1>7. CASE /\ proc' = [proc EXCEPT ![p].armed = IF @ = "no" THEN "armed" ELSE @]
           /\ Goes(c, "look")
  <2> DEFINE r == [proc[p] EXCEPT !.armed = IF @ = "no" THEN "armed" ELSE @]
  <2>1. r \in Process
    BY <1>3 DEF Process
  <2>2. proc' = [proc EXCEPT ![p] = r]
    BY <1>2, <1>3, <1>7 DEF Process
  <2>3. RowOK(r, fate[p], p \in seen) /\ r.table = proc[p].table
    BY <1>3 DEF RowOK, Process
  <2> HIDE DEF p, r
  <2> QED BY <1>1, <1>2, <1>3, <1>7, <2>1, <2>2, <2>3, SubjectStep
<1> QED BY <1>5, <1>6, <1>7 DEF ReconcileCall

LEMMA LookInv ==
    ASSUME RegistryInv, NEW c \in ToolCall, Look(c)
    PROVE  RegistryInv'
<1> DEFINE p == Subject(c)
           r == [proc[p] EXCEPT !.consumed = @ \/ Consumes(p)]
<1>1. toolCall[c].pc = "look" /\ UNCHANGED <<fate, procBudget>>
  BY DEF Look
<1>2. p \in Proc
  BY <1>1, SubjectOK
<1>3. proc[p] \in Process /\ proc \in [Proc -> Process] /\ seen \subseteq Proc
        /\ RowOK(proc[p], fate[p], p \in seen)
  BY <1>2, Types
<1>4. r \in Process
  BY <1>3 DEF Process, Consumes
<1>5. proc' = [proc EXCEPT ![p] = r]
  BY <1>2, <1>3 DEF Look, Process
<1>6. seen' = IF proc[p].exited THEN seen \cup {p} ELSE seen
  BY DEF Look
<1>7. RowOK(r, fate[p], p \in seen') /\ r.table = proc[p].table
  BY <1>3, <1>6 DEF RowOK, Process, Consumes
<1>8. Goes(c, IF toolCall[c].op = "wait" /\ ~proc[p].exited THEN "select" ELSE "idle")
  BY DEF Look
<1> HIDE DEF p, r
<1>9. PICK pc \in {"select", "idle"} : Goes(c, pc)
  BY <1>8
<1>10. seen \subseteq seen' /\ seen' \subseteq Proc
  BY <1>2, <1>3, <1>6
<1> QED BY <1>1, <1>2, <1>4, <1>5, <1>7, <1>9, <1>10, SubjectStep

LEMMA KillInv ==
    ASSUME RegistryInv, NEW c \in ToolCall, Kill(c)
    PROVE  RegistryInv'
<1> DEFINE p == Subject(c)
<1>1. toolCall[c].pc = "kill" /\ UNCHANGED <<fate, seen, procBudget>>
  BY DEF Kill
<1>2. p \in Proc /\ proc[p].table # "none"
  BY <1>1, SubjectOK
<1>3. proc[p] \in Process /\ proc \in [Proc -> Process] /\ seen \subseteq Proc
        /\ RowOK(proc[p], fate[p], p \in seen)
  BY <1>2, Types
<1>4. proc[p].child # "none"
  BY <1>2, <1>3 DEF RowOK
<1>5. CASE proc' = Flip(p, "killed") /\ Goes(c, "marking")
  <2>1. PICK r \in Process : /\ Flip(p, "killed") = [proc EXCEPT ![p] = r]
                             /\ RowOK(r, fate[p], p \in seen)
                             /\ r.table = proc[p].table
    BY <1>2, <1>4, FlipOK
  <2> HIDE DEF p
  <2> QED BY <1>1, <1>2, <1>3, <1>5, <2>1, SubjectStep
<1>6. CASE UNCHANGED proc /\ Goes(c, "idle")
  <2>1. proc' = [proc EXCEPT ![p] = proc[p]]
    BY <1>2, <1>3, <1>6
  <2> HIDE DEF p
  <2> QED BY <1>1, <1>2, <1>3, <1>6, <2>1, SubjectStep
<1> QED BY <1>5, <1>6 DEF Kill

(* The calls that touch no process.                                         *)
LEMMA MarkedInv ==
    ASSUME RegistryInv, NEW c \in ToolCall, Marked(c)
    PROVE  RegistryInv'
<1>1. toolCall[c].pc = "marking" /\ UNCHANGED <<proc, fate, seen, procBudget>>
  BY DEF Marked
<1>2. PICK pc \in {"idle", "look"} : Goes(c, pc)
  BY DEF Marked
<1>3. toolCall' \in [ToolCall -> Call] /\ \A d \in ToolCall : CallOK(toolCall'[d])
  BY <1>1, <1>2, GoesOK
<1> QED BY <1>1, <1>3, CallStep, Types

LEMMA WaitAgainInv ==
    ASSUME RegistryInv, NEW c \in ToolCall, WaitAgain(c)
    PROVE  RegistryInv'
<1>1. toolCall[c].pc = "select" /\ UNCHANGED <<proc, fate, seen, procBudget>>
  BY DEF WaitAgain
<1>2. toolCall' \in [ToolCall -> Call] /\ \A d \in ToolCall : CallOK(toolCall'[d])
  BY <1>1, GoesOK DEF WaitAgain
<1> QED BY <1>1, <1>2, CallStep, Types

LEMMA WaitLeavesInv ==
    ASSUME RegistryInv, NEW c \in ToolCall, WaitLeaves(c)
    PROVE  RegistryInv'
<1>1. toolCall[c].pc = "select" /\ UNCHANGED <<proc, fate, seen>>
  BY DEF WaitLeaves
<1>2. toolCall' \in [ToolCall -> Call] /\ \A d \in ToolCall : CallOK(toolCall'[d])
  BY <1>1, GoesOK DEF WaitLeaves
<1>3. procBudget' \in [ProcEvent -> Nat]
  BY Types, SpendOK DEF WaitLeaves, ProcEvent
<1> QED BY <1>1, <1>2, <1>3, CallStep

-----------------------------------------------------------------------------
LEMMA InvStep == RegistryInv /\ [ProcNext]_procVars => RegistryInv'
<1> SUFFICES ASSUME RegistryInv, [ProcNext]_procVars PROVE RegistryInv'
  OBVIOUS
<1>1. CASE UNCHANGED procVars
  BY <1>1 DEF procVars, RegistryInv, ProcTypeOK, CallOK
<1>2. ASSUME NEW p \in Proc, NEW notify \in BOOLEAN, NEW watches \in BOOLEAN,
             Spawn(p, notify, watches)
      PROVE  RegistryInv'
  BY <1>2, SpawnInv
<1>3. ASSUME NEW p \in Proc,
             \/ Register(p) \/ ChildExits(p) \/ PipeCloses(p) \/ GraceEnds(p)
             \/ WindowEnds(p) \/ Match(p) \/ ReaderMarks(p) \/ Move(p) \/ Announce(p)
             \/ Emit(p)
      PROVE  RegistryInv'
  BY <1>3, RegisterInv, ChildExitsInv, PipeClosesInv, GraceEndsInv, WindowEndsInv, MatchInv,
     ReaderMarksInv, MoveInv, AnnounceInv, EmitInv
<1>4. ASSUME NEW c \in ToolCall, NEW op \in {"query", "wait", "kill"}, NEW p \in Proc,
             Invoke(c, op, p)
      PROVE  RegistryInv'
  BY <1>4, InvokeInv
<1>5. ASSUME NEW c \in ToolCall, CallProceeds(c) \/ WaitLeaves(c)
      PROVE  RegistryInv'
  BY <1>5, ReconcileInv, MarkedInv, LookInv, WaitAgainInv, KillInv, WaitLeavesInv
  DEF CallProceeds
<1> QED BY <1>1, <1>2, <1>3, <1>4, <1>5 DEF ProcNext

LEMMA RegistryInvariant == ProcSpec => []RegistryInv
BY InvInit, InvStep, PTL DEF ProcSpec

(* Every reachable state of the registry is type correct; in particular the *)
(* strikes of a watch never pass watch_strike_limit.                        *)
THEOREM ProcTypeCorrect == ProcSpec => []ProcTypeOK
<1>1. RegistryInv => ProcTypeOK
  BY DEF RegistryInv
<1> QED BY <1>1, RegistryInvariant, PTL

(* mark_exited, poll, wait and the watch limiter lose no exit but in the    *)
(* two ways ExitAccounted names.                                            *)
THEOREM ExitsAccounted == ProcSpec => []ExitAccounted
<1>1. ASSUME RegistryInv, NEW p \in Proc, Unreported(p)
      PROVE  fate[p] \in {"untracked", "waited for"}
  <2>1. fate[p] \in Fate /\ RowOK(proc[p], fate[p], p \in seen)
    BY <1>1, Types
  <2> QED BY <1>1, <2>1 DEF Unreported, RowOK, Fate
<1>2. RegistryInv => ExitAccounted
  BY <1>1 DEF ExitAccounted
<1> QED BY <1>2, RegistryInvariant, PTL

-----------------------------------------------------------------------------
(* Flip leaves an exited process alone, and every process its entry.        *)
LEMMA FlipKeeps ==
    ASSUME RegistryInv, NEW p, NEW reason, proc' = Flip(p, reason), NEW q \in Proc
    PROVE  /\ proc[q].exited => proc'[q].exited /\ proc'[q].reason = proc[q].reason
           /\ proc'[q].table = proc[q].table
<1>1. proc \in [Proc -> Process] /\ proc[q] \in Process
  BY Types
<1> QED BY <1>1 DEF Flip, Process

Keeps(q) == proc[q].exited => proc'[q].exited /\ proc'[q].reason = proc[q].reason

LEMMA VerdictStep ==
    ASSUME RegistryInv, [ProcNext]_procVars, NEW q \in Proc
    PROVE  Keeps(q)
<1>1. proc \in [Proc -> Process] /\ proc[q] \in Process
  BY Types
<1>2. CASE UNCHANGED proc
  BY <1>2 DEF Keeps
<1>3. ASSUME NEW p \in Proc, NEW notify \in BOOLEAN, NEW watches \in BOOLEAN,
             Spawn(p, notify, watches)
      PROVE  Keeps(q)
  BY <1>1, <1>3 DEF Spawn, Keeps, Process
<1>4. ASSUME NEW p \in Proc, Register(p) PROVE Keeps(q)
  <2>1. \/ proc'[q] = [proc[q] EXCEPT !.table = "running"]
        \/ proc'[q] = [proc[q] EXCEPT !.table = "pruned", !.consumed = FALSE]
        \/ proc'[q] = proc[q]
    BY <1>4 DEF Register
  <2> QED BY <1>1, <2>1 DEF Keeps, Process
<1>5. ASSUME NEW p \in Proc, ChildExits(p) \/ PipeCloses(p) \/ GraceEnds(p) \/ WindowEnds(p)
      PROVE  Keeps(q)
  BY <1>1, <1>5 DEF ChildExits, PipeCloses, GraceEnds, WindowEnds, Keeps, Process
<1>6. ASSUME NEW p \in Proc, Match(p) PROVE Keeps(q)
  BY <1>1, <1>6 DEF Match, Keeps
<1>7. ASSUME NEW p \in Proc, ReaderMarks(p) PROVE Keeps(q)
  BY <1>7, FlipKeeps DEF ReaderMarks, Keeps
<1>8. ASSUME NEW p \in Proc, Move(p) \/ Announce(p) \/ Emit(p) PROVE Keeps(q)
  <2>1. CASE Move(p)
    BY <1>1, <2>1 DEF Move, Keeps, Process
  <2>2. CASE Announce(p)
    <3>1. PICK m : proc' = [proc EXCEPT ![p].mark = m]
      BY <2>2 DEF Announce
    <3> QED BY <1>1, <3>1 DEF Keeps, Process
  <2>3. CASE Emit(p)
    BY <1>1, <2>3 DEF Emit, Keeps, Process
  <2> QED BY <1>8, <2>1, <2>2, <2>3
<1>9. ASSUME NEW c \in ToolCall, ReconcileCall(c) PROVE Keeps(q)
  <2>1. CASE proc' = Flip(Subject(c), "exited")
    BY <2>1, FlipKeeps DEF Keeps
  <2>2. CASE proc' = [proc EXCEPT ![Subject(c)].armed = IF @ = "no" THEN "armed" ELSE @]
    BY <1>1, <2>2 DEF Keeps, Process
  <2> QED BY <1>2, <1>9, <2>1, <2>2 DEF ReconcileCall
<1>10. ASSUME NEW c \in ToolCall, Look(c) PROVE Keeps(q)
  BY <1>1, <1>10 DEF Look, Keeps, Process
<1>11. ASSUME NEW c \in ToolCall, Kill(c) PROVE Keeps(q)
  BY <1>2, <1>11, FlipKeeps DEF Kill, Keeps
<1>12. ASSUME NEW c \in ToolCall,
              \/ Marked(c) \/ WaitAgain(c) \/ WaitLeaves(c)
              \/ \E op \in {"query", "wait", "kill"}, p \in Proc : Invoke(c, op, p)
       PROVE  UNCHANGED proc
  BY <1>12 DEF Marked, WaitAgain, WaitLeaves, Invoke
<1>13. UNCHANGED procVars => UNCHANGED proc
  BY DEF procVars
<1> QED BY <1>2, <1>3, <1>4, <1>5, <1>6, <1>7, <1>8, <1>9, <1>10, <1>11, <1>12, <1>13
        DEF ProcNext, CallProceeds

(* Reader, kill and reconciliation may race as they like: the first verdict *)
(* of mark_exited stands.                                                   *)
THEOREM VerdictsStand == ProcSpec => VerdictStands
<1>1. RegistryInv /\ [ProcNext]_procVars
        => [\A p \in Proc : proc[p].exited =>
              proc'[p].exited /\ proc'[p].reason = proc[p].reason]_procVars
  BY VerdictStep DEF Keeps
<1> QED BY <1>1, RegistryInvariant, PTL DEF ProcSpec, VerdictStands

-----------------------------------------------------------------------------
(* Some finished entry is the oldest.                                       *)
LEMMA Oldest ==
    ASSUME NEW S \in SUBSET Proc, S # {}
    PROVE  \E p \in S : \A q \in S : p <= q
<1> DEFINE R == {x \in Nat \X Nat : x[1] < x[2]}
<1>1. IsWellFoundedOn(R, Nat)
  BY NatLessThanWellFounded DEF OpToRel
<1>2. S \subseteq Nat
  BY DEF Proc
<1>3. PICK p \in S : \A q \in S : ~(<<q, p>> \in R)
  BY <1>1, <1>2, WFMin
<1>4. ASSUME NEW q \in S PROVE p <= q
  <2>1. q \in Nat /\ p \in Nat
    BY <1>2
  <2>2. q < p => <<q, p>> \in R
    BY <2>1
  <2> HIDE DEF R
  <2> QED BY <1>3, <2>1, <2>2
<1> QED BY <1>4

(* Only a registration changes how many processes are tracked.              *)
LEMMA TrackedKept ==
    ASSUME RegistryInv, [ProcNext]_procVars, \A p \in Proc : ~Register(p)
    PROVE  Tracked' = Tracked
<1> DEFINE In(q) == proc[q].table \in {"running", "finished"}
           InNext(q) == proc'[q].table \in {"running", "finished"}
<1>1. proc \in [Proc -> Process] /\ \A q \in Proc : proc[q] \in Process
  BY Types
<1>2. UNCHANGED proc => \A q \in Proc : In(q) <=> InNext(q)
  OBVIOUS
<1>3. ASSUME NEW p \in Proc, NEW notify \in BOOLEAN, NEW watches \in BOOLEAN,
             Spawn(p, notify, watches)
      PROVE  \A q \in Proc : In(q) <=> InNext(q)
  BY <1>1, <1>3 DEF Spawn, Process
<1>4. ASSUME NEW p \in Proc, ChildExits(p) \/ PipeCloses(p) \/ GraceEnds(p) \/ WindowEnds(p)
      PROVE  \A q \in Proc : In(q) <=> InNext(q)
  BY <1>1, <1>4 DEF ChildExits, PipeCloses, GraceEnds, WindowEnds, OnlyProc, Process
<1>5. ASSUME NEW p \in Proc, Match(p)
      PROVE  \A q \in Proc : In(q) <=> InNext(q)
  <2>1. Scan(proc[p]).table = proc[p].table
    BY <1>5, Types, ScanOK DEF Match
  <2> QED BY <1>1, <1>5, <2>1 DEF Match, OnlyProc
<1>6. ASSUME NEW p \in Proc, ReaderMarks(p)
      PROVE  \A q \in Proc : In(q) <=> InNext(q)
  BY <1>6, FlipKeeps DEF ReaderMarks, OnlyProc
<1>7. ASSUME NEW p \in Proc, Move(p) \/ Announce(p) \/ Emit(p)
      PROVE  \A q \in Proc : In(q) <=> InNext(q)
  <2>1. CASE Move(p)
    BY <1>1, <2>1 DEF Move, Process
  <2>2. CASE Announce(p)
    <3>1. PICK m : proc' = [proc EXCEPT ![p].mark = m]
      BY <2>2 DEF Announce
    <3> QED BY <1>1, <3>1 DEF Process
  <2>3. CASE Emit(p)
    BY <1>1, <2>3 DEF Emit, Process
  <2> QED BY <1>7, <2>1, <2>2, <2>3
<1>8. ASSUME NEW c \in ToolCall, ReconcileCall(c)
      PROVE  \A q \in Proc : In(q) <=> InNext(q)
  <2>1. CASE proc' = Flip(Subject(c), "exited")
    BY <1>8, <2>1, FlipKeeps DEF ReconcileCall
  <2>2. CASE proc' = [proc EXCEPT ![Subject(c)].armed = IF @ = "no" THEN "armed" ELSE @]
    BY <1>1, <1>8, <2>2 DEF ReconcileCall, Process
  <2> QED BY <1>2, <1>8, <2>1, <2>2 DEF ReconcileCall
<1>9. ASSUME NEW c \in ToolCall, Look(c)
      PROVE  \A q \in Proc : In(q) <=> InNext(q)
  BY <1>1, <1>9 DEF Look, Process
<1>10. ASSUME NEW c \in ToolCall, Kill(c)
       PROVE  \A q \in Proc : In(q) <=> InNext(q)
  BY <1>2, <1>10, FlipKeeps DEF Kill
<1>11. ASSUME NEW c \in ToolCall,
              \/ Marked(c) \/ WaitAgain(c) \/ WaitLeaves(c)
              \/ \E op \in {"query", "wait", "kill"}, p \in Proc : Invoke(c, op, p)
       PROVE  UNCHANGED proc
  BY <1>11 DEF Marked, WaitAgain, WaitLeaves, Invoke
<1>12. UNCHANGED procVars => UNCHANGED proc
  BY DEF procVars
<1> HIDE DEF In, InNext
<1>13. \A q \in Proc : In(q) <=> InNext(q)
  BY <1>2, <1>3, <1>4, <1>5, <1>6, <1>7, <1>8, <1>9, <1>10, <1>11, <1>12
  DEF ProcNext, CallProceeds
<1> QED BY <1>13 DEF In, InNext, Tracked, InTable

(* A registration removes a finished entry of a full table.                 *)
LEMMA RegisterEvicts ==
    ASSUME RegistryInv, NEW p \in Proc, Register(p),
           Full(Tracked), InTable("finished") # {}
    PROVE  Cardinality(Tracked') <= Cardinality(Tracked)
<1>1. PICK expired \in SUBSET InTable("finished") :
          proc' = [q \in Proc |->
                IF q = p THEN [proc[q] EXCEPT !.table = "running"]
                ELSE IF q \in Pruned(expired) \cup InTable("pruned")
                     THEN [proc[q] EXCEPT !.table = "pruned", !.consumed = FALSE]
                     ELSE proc[q]]
  BY DEF Register
<1>2. Tracked \in SUBSET Proc /\ InTable("finished") \in SUBSET Tracked /\ p \notin Tracked
  BY DEF Tracked, InTable, Register
<1>3. \E m \in Tracked : m \in Pruned(expired)
  <2>1. CASE expired # {}
    BY <1>2, <2>1 DEF Pruned
  <2>2. CASE expired = {}
    <3>1. PICK m \in InTable("finished") : \A q \in InTable("finished") : m <= q
      BY <1>2, Oldest
    <3>2. Pruned(expired) = Evicted(InTable("finished"), Tracked)
      BY <2>2 DEF Pruned
    <3> QED BY <1>2, <3>1, <3>2 DEF Evicted
  <2> QED BY <2>1, <2>2
<1>4. PICK m \in Tracked : m \in Pruned(expired)
  BY <1>3
<1>5. Tracked' \subseteq (Tracked \ {m}) \cup {p}
  <2>1. ASSUME NEW q \in Tracked', q # p PROVE q \in Tracked /\ q # m
    <3>1. q \in Proc /\ proc[q] \in Process /\ proc'[q].table \in {"running", "finished"}
      BY Types DEF Tracked, InTable
    <3>2. CASE q \in Pruned(expired) \cup InTable("pruned")
      <4>1. proc'[q] = [proc[q] EXCEPT !.table = "pruned", !.consumed = FALSE]
        BY <1>1, <2>1, <3>1, <3>2
      <4> QED BY <3>1, <4>1 DEF Process
    <3>3. CASE q \notin Pruned(expired) \cup InTable("pruned")
      <4>1. proc'[q] = proc[q]
        BY <1>1, <2>1, <3>1, <3>3
      <4> QED BY <1>4, <3>1, <3>3, <4>1 DEF Tracked, InTable
    <3> QED BY <3>2, <3>3
  <2> QED BY <2>1
<1>6. IsFiniteSet(Tracked) /\ Cardinality(Tracked) \in Nat
  BY <1>2, FiniteProcs
<1>7. IsFiniteSet(Tracked \ {m}) /\ Cardinality(Tracked \ {m}) = Cardinality(Tracked) - 1
  BY <1>4, <1>6, FS_RemoveElement
<1>8. /\ IsFiniteSet((Tracked \ {m}) \cup {p})
      /\ Cardinality((Tracked \ {m}) \cup {p}) = Cardinality(Tracked \ {m}) + 1
  BY <1>2, <1>7, FS_AddElement
<1>9. Cardinality(Tracked') <= Cardinality((Tracked \ {m}) \cup {p})
  BY <1>5, <1>8, FS_Subset
<1> QED BY <1>6, <1>7, <1>8, <1>9

(* Whatever the interleaving, a full table does not grow while it holds a   *)
(* finished entry: prune_locked runs in the critical section of the insert. *)
THEOREM FullTableEvicts == ProcSpec => EvictsFirst
<1>1. RegistryInv /\ [ProcNext]_procVars =>
        [Cardinality(Tracked) >= MaxTracked /\ InTable("finished") # {}
           => Cardinality(Tracked') <= Cardinality(Tracked)]_procVars
  <2> SUFFICES ASSUME RegistryInv, [ProcNext]_procVars,
                      Cardinality(Tracked) >= MaxTracked, InTable("finished") # {}
               PROVE  Cardinality(Tracked') <= Cardinality(Tracked)
    OBVIOUS
  <2>1. CASE \E p \in Proc : Register(p)
    BY <2>1, RegisterEvicts DEF Full
  <2>2. CASE \A p \in Proc : ~Register(p)
    <3>1. Tracked' = Tracked /\ Tracked \in SUBSET Proc
      BY <2>2, TrackedKept DEF Tracked, InTable
    <3> QED BY <3>1, FiniteProcs
  <2> QED BY <2>1, <2>2
<1> QED BY <1>1, RegistryInvariant, PTL DEF ProcSpec, EvictsFirst

-----------------------------------------------------------------------------
(* "Exactly one notification", but for the two ways ExitAccounted names.    *)

(* No exit is declared before spawn has entered the process in the table.   *)
ListedFirst == \A p \in Proc : proc[p].table = "none" => ~proc'[p].exited

(* No wait leaves a process that has exited without a look.                 *)
WaitsLook ==
    \A c \in ToolCall :
        toolCall[c].pc = "select" /\ toolCall'[c].pc = "idle" => ~proc[Subject(c)].exited

(* Under these a verdict finds the process running in the table, and a      *)
(* suppressed notification has a wait that will show the exit.              *)
Gone == {"finished", "pruned"}

RowReported(p) ==
    /\ proc[p].table \in Gone => proc[p].exited /\ proc[p].mark # "move"
    /\ proc[p].exited => proc[p].table # "none"
    /\ fate[p] # "untracked"
    /\ fate[p] = "waited for" => proc[p].exited /\ (p \in seen \/ Waiting(p) # {})

CallShape(k) ==
    k.pc # "idle" => (\E p \in Proc : k.of = {p}) /\ (k.op = "wait" => k.pc # "kill")

ReportInv ==
    /\ \A p \in Proc : RowReported(p)
    /\ \A c \in ToolCall : CallShape(toolCall[c])

(* What every step does to a row.                                           *)
RowMoves(q) ==
    /\ proc'[q].table = "none" => proc[q].table = "none"
    /\ proc'[q].table \in Gone =>
          \/ /\ proc[q].table \in Gone
             /\ proc'[q].mark = "move" => proc[q].mark = "move" \/ ~proc[q].exited
          \/ proc[q].mark = "move" /\ proc'[q].mark = "announce"

LEMMA SameRow ==
    ASSUME NEW q, proc'[q].table = proc[q].table,
           proc'[q].mark = "move" => proc[q].mark = "move" \/ ~proc[q].exited
    PROVE  RowMoves(q)
BY DEF RowMoves, Gone

LEMMA FlipMoves ==
    ASSUME RegistryInv, NEW p, NEW reason, proc' = Flip(p, reason), NEW q \in Proc
    PROVE  RowMoves(q)
<1>1. proc \in [Proc -> Process] /\ proc[q] \in Process
  BY Types
<1>2. /\ proc'[q].table = proc[q].table
      /\ proc'[q].mark = "move" => proc[q].mark = "move" \/ ~proc[q].exited
  BY <1>1 DEF Flip, Process
<1> QED BY <1>2, SameRow

LEMMA RowsMove ==
    ASSUME RegistryInv, ProcNext, NEW q \in Proc
    PROVE  RowMoves(q)
<1>1. proc \in [Proc -> Process] /\ proc[q] \in Process
  BY Types
<1>2. CASE UNCHANGED proc
  BY <1>2, SameRow
<1>3. ASSUME NEW p \in Proc, NEW notify \in BOOLEAN, NEW watches \in BOOLEAN,
             Spawn(p, notify, watches)
      PROVE  RowMoves(q)
  <2>1. proc'[q].table = proc[q].table /\ proc'[q].mark = proc[q].mark
    BY <1>1, <1>3 DEF Spawn, Process
  <2> QED BY <2>1, SameRow
<1>4. ASSUME NEW p \in Proc, Register(p) PROVE RowMoves(q)
  <2>1. PICK expired \in SUBSET InTable("finished") :
          proc' = [r \in Proc |->
                IF r = p THEN [proc[r] EXCEPT !.table = "running"]
                ELSE IF r \in Pruned(expired) \cup InTable("pruned")
                     THEN [proc[r] EXCEPT !.table = "pruned", !.consumed = FALSE]
                     ELSE proc[r]]
    BY <1>4 DEF Register
  <2>2. CASE q = p
    <3>1. proc'[q] = [proc[q] EXCEPT !.table = "running"]
      BY <2>1, <2>2
    <3>2. proc'[q].table = "running"
      BY <1>1, <3>1 DEF Process
    <3> QED BY <3>2 DEF RowMoves, Gone
  <2>3. CASE q # p /\ q \in Pruned(expired) \cup InTable("pruned")
    <3>1. proc'[q] = [proc[q] EXCEPT !.table = "pruned", !.consumed = FALSE]
      BY <2>1, <2>3
    <3>2. proc'[q].table = "pruned" /\ proc'[q].mark = proc[q].mark
      BY <1>1, <3>1 DEF Process
    <3>3. proc[q].table \in Gone
      BY <2>3 DEF Pruned, Evicted, InTable, Gone
    <3> QED BY <3>2, <3>3 DEF RowMoves
  <2>4. CASE q # p /\ q \notin Pruned(expired) \cup InTable("pruned")
    <3>1. proc'[q] = proc[q]
      BY <2>1, <2>4
    <3> QED BY <3>1, SameRow
  <2> QED BY <2>2, <2>3, <2>4
<1>5. ASSUME NEW p \in Proc, ChildExits(p) \/ PipeCloses(p) \/ GraceEnds(p) \/ WindowEnds(p)
      PROVE  RowMoves(q)
  <2>1. proc'[q].table = proc[q].table /\ proc'[q].mark = proc[q].mark
    BY <1>1, <1>5 DEF ChildExits, PipeCloses, GraceEnds, WindowEnds, Process
  <2> QED BY <2>1, SameRow
<1>6. ASSUME NEW p \in Proc, Match(p) PROVE RowMoves(q)
  <2>1. proc[p] \in Process /\ Scan(proc[p]).table = proc[p].table
    BY <1>6, Types, ScanOK DEF Match
  <2>2. ~proc[p].exited
    BY <1>6 DEF Match
  <2>3. proc'[q].table = proc[q].table /\ (proc'[q] = proc[q] \/ ~proc[q].exited)
    BY <1>1, <1>6, <2>1, <2>2 DEF Match
  <2> QED BY <2>3, SameRow
<1>7. ASSUME NEW p \in Proc, ReaderMarks(p) PROVE RowMoves(q)
  BY <1>7, FlipMoves DEF ReaderMarks
<1>8. ASSUME NEW p \in Proc, Move(p) PROVE RowMoves(q)
  <2>1. CASE proc' = [proc EXCEPT ![p].table = "finished", ![p].mark = "announce"]
    <3>1. CASE q = p
      <4>1. proc'[q] = [proc[q] EXCEPT !.table = "finished", !.mark = "announce"]
        BY <1>1, <2>1, <3>1
      <4>2. proc'[q].table = "finished" /\ proc'[q].mark = "announce"
        BY <1>1, <4>1 DEF Process
      <4> QED BY <1>8, <3>1, <4>2 DEF Move, RowMoves, Gone
    <3>2. CASE q # p
      <4>1. proc'[q] = proc[q]
        BY <1>1, <2>1, <3>2
      <4> QED BY <4>1, SameRow
    <3> QED BY <3>1, <3>2
  <2>2. CASE proc' = [proc EXCEPT ![p].mark = "done"]
    <3>1. proc'[q].table = proc[q].table /\ (proc'[q].mark = "move" => proc[q].mark = "move")
      BY <1>1, <2>2 DEF Process
    <3> QED BY <3>1, SameRow
  <2> QED BY <1>8, <2>1, <2>2 DEF Move
<1>9. ASSUME NEW p \in Proc, Announce(p) \/ Emit(p) PROVE RowMoves(q)
  <2>1. PICK m \in {"done", "count"} : proc' = [proc EXCEPT ![p].mark = m]
    BY <1>9 DEF Announce, Emit
  <2>2. proc'[q].table = proc[q].table /\ (proc'[q].mark = "move" => proc[q].mark = "move")
    BY <1>1, <2>1 DEF Process
  <2> QED BY <2>2, SameRow
<1>10. ASSUME NEW c \in ToolCall, ReconcileCall(c) PROVE RowMoves(q)
  <2>1. CASE proc' = Flip(Subject(c), "exited")
    BY <2>1, FlipMoves
  <2>2. CASE proc' = [proc EXCEPT ![Subject(c)].armed = IF @ = "no" THEN "armed" ELSE @]
    <3>1. proc'[q].table = proc[q].table /\ proc'[q].mark = proc[q].mark
      BY <1>1, <2>2 DEF Process
    <3> QED BY <3>1, SameRow
  <2> QED BY <1>2, <1>10, <2>1, <2>2 DEF ReconcileCall
<1>11. ASSUME NEW c \in ToolCall, Look(c) PROVE RowMoves(q)
  <2>1. proc'[q].table = proc[q].table /\ proc'[q].mark = proc[q].mark
    BY <1>1, <1>11 DEF Look, Process
  <2> QED BY <2>1, SameRow
<1>12. ASSUME NEW c \in ToolCall, Kill(c) PROVE RowMoves(q)
  BY <1>2, <1>12, FlipMoves DEF Kill
<1>13. ASSUME NEW c \in ToolCall,
              \/ Marked(c) \/ WaitAgain(c) \/ WaitLeaves(c)
              \/ \E op \in {"query", "wait", "kill"}, p \in Proc : Invoke(c, op, p)
       PROVE  UNCHANGED proc
  BY <1>13 DEF Marked, WaitAgain, WaitLeaves, Invoke
<1> QED BY <1>2, <1>3, <1>4, <1>5, <1>6, <1>7, <1>8, <1>9, <1>10, <1>11, <1>12, <1>13
        DEF ProcNext, CallProceeds

(* What every step does to a call: a wait on an exited process stays, or    *)
(* shows the exit.                                                          *)
CallMoves(d) ==
    /\ CallShape(toolCall'[d])
    /\ \A q \in Proc : proc[q].exited /\ d \in Waiting(q) => d \in Waiting(q)' \/ q \in seen'

LEMMA CallMovesGoes ==
    ASSUME RegistryInv, ReportInv, NEW c \in ToolCall, toolCall[c].pc # "idle",
           NEW pc \in {"idle", "reconcile", "marking", "look", "select"}, Goes(c, pc),
           toolCall[c].op = "wait" /\ pc = "idle" /\ proc[Subject(c)].exited
             => Subject(c) \in seen',
           NEW d \in ToolCall
    PROVE  CallMoves(d)
<1>1. toolCall \in [ToolCall -> Call] /\ CallShape(toolCall[d])
  BY Types DEF ReportInv
<1>2. CASE d # c
  <2>1. toolCall'[d] = toolCall[d]
    BY <1>1, <1>2 DEF Goes
  <2> QED BY <1>1, <2>1 DEF CallMoves, Waiting
<1>3. CASE d = c
  <2>1. PICK p \in Proc : toolCall[c].of = {p}
    BY <1>1, <1>3 DEF CallShape
  <2>2. Subject(c) = p
    BY <2>1 DEF Subject
  <2>3. /\ toolCall'[d].pc = pc /\ toolCall'[d].op = toolCall[d].op
        /\ toolCall'[d].of = toolCall[d].of
    BY <1>1, <1>3 DEF Goes, Call
  <2>4. CallShape(toolCall'[d])
    BY <1>1, <1>3, <2>1, <2>3 DEF CallShape
  <2>5. ASSUME NEW q \in Proc, proc[q].exited, d \in Waiting(q)
        PROVE  d \in Waiting(q)' \/ q \in seen'
    <3>1. q = p /\ toolCall[c].op = "wait"
      BY <1>3, <2>1, <2>5 DEF Waiting
    <3> QED BY <1>3, <2>2, <2>3, <2>5, <3>1 DEF Waiting
  <2> QED BY <2>4, <2>5 DEF CallMoves
<1> QED BY <1>2, <1>3

LEMMA CallsMove ==
    ASSUME RegistryInv, ReportInv, ProcNext, WaitsLook, NEW d \in ToolCall
    PROVE  CallMoves(d)
<1>1. toolCall \in [ToolCall -> Call] /\ CallShape(toolCall[d])
  BY Types DEF ReportInv
<1>2. CASE UNCHANGED toolCall
  BY <1>1, <1>2 DEF CallMoves, Waiting
<1>3. ASSUME NEW p \in Proc,
             \/ \E notify, watches \in BOOLEAN : Spawn(p, notify, watches)
             \/ Register(p)
             \/ ChildExits(p) \/ PipeCloses(p) \/ GraceEnds(p) \/ WindowEnds(p)
             \/ Match(p)
             \/ ReaderMarks(p) \/ Move(p) \/ Announce(p) \/ Emit(p)
      PROVE  UNCHANGED toolCall
  BY <1>3 DEF Spawn, Register, ChildExits, PipeCloses, GraceEnds, WindowEnds, Match,
              ReaderMarks, Move, Announce, Emit, OnlyProc
<1>4. ASSUME NEW c \in ToolCall, NEW op \in {"query", "wait", "kill"}, NEW p \in Proc,
             Invoke(c, op, p)
      PROVE  CallMoves(d)
  <2> DEFINE k == [pc |-> IF op = "kill" THEN "kill" ELSE "reconcile", op |-> op, of |-> {p}]
  <2>1. toolCall' = [toolCall EXCEPT ![c] = k] /\ toolCall[c].pc = "idle"
    BY <1>4 DEF Invoke
  <2>2. CallShape(k)
    BY DEF CallShape
  <2> HIDE DEF k
  <2>3. CASE d = c
    BY <1>1, <2>1, <2>2, <2>3 DEF CallMoves, Waiting
  <2>4. CASE d # c
    <3>1. toolCall'[d] = toolCall[d]
      BY <1>1, <2>1, <2>4
    <3> QED BY <1>1, <3>1 DEF CallMoves, Waiting
  <2> QED BY <2>3, <2>4
<1>5. ASSUME NEW c \in ToolCall, ReconcileCall(c) PROVE CallMoves(d)
  <2>1. toolCall[c].pc # "idle" /\ (Goes(c, "look") \/ Goes(c, "marking"))
    BY <1>5 DEF ReconcileCall
  <2> QED BY <2>1, CallMovesGoes
<1>6. ASSUME NEW c \in ToolCall, Marked(c) PROVE CallMoves(d)
  <2>1. /\ toolCall[c].pc # "idle"
        /\ Goes(c, "look") \/ (Goes(c, "idle") /\ toolCall[c].op = "kill")
    BY <1>6 DEF Marked
  <2>2. CASE Goes(c, "look")
    BY <2>1, <2>2, CallMovesGoes
  <2>3. CASE Goes(c, "idle") /\ toolCall[c].op = "kill"
    BY <2>1, <2>3, CallMovesGoes
  <2> QED BY <2>1, <2>2, <2>3
<1>7. ASSUME NEW c \in ToolCall, Look(c) PROVE CallMoves(d)
  <2>1. /\ toolCall[c].pc # "idle" /\ (Goes(c, "select") \/ Goes(c, "idle"))
        /\ proc[Subject(c)].exited => Subject(c) \in seen'
    BY <1>7 DEF Look
  <2> QED BY <2>1, CallMovesGoes
<1>8. ASSUME NEW c \in ToolCall, WaitAgain(c) PROVE CallMoves(d)
  <2>1. toolCall[c].pc # "idle" /\ Goes(c, "reconcile")
    BY <1>8 DEF WaitAgain
  <2> QED BY <2>1, CallMovesGoes
<1>9. ASSUME NEW c \in ToolCall, WaitLeaves(c) PROVE CallMoves(d)
  <2>1. toolCall[c].pc = "select" /\ Goes(c, "idle")
    BY <1>9 DEF WaitLeaves
  <2>2. toolCall'[c].pc = "idle"
    BY <1>1, <2>1 DEF Goes, Call
  <2>3. ~proc[Subject(c)].exited
    BY <2>1, <2>2 DEF WaitsLook
  <2> QED BY <2>1, <2>3, CallMovesGoes
<1>10. ASSUME NEW c \in ToolCall, Kill(c) PROVE CallMoves(d)
  <2>1. /\ toolCall[c].pc = "kill" /\ (Goes(c, "marking") \/ Goes(c, "idle"))
        /\ CallShape(toolCall[c])
    BY <1>10 DEF Kill, ReportInv
  <2>2. toolCall[c].op # "wait"
    BY <2>1 DEF CallShape
  <2> QED BY <2>1, <2>2, CallMovesGoes
<1> QED BY <1>2, <1>3, <1>4, <1>5, <1>6, <1>7, <1>8, <1>9, <1>10 DEF ProcNext, CallProceeds

(* What every step does to a fate: mark_exited decides it once.             *)
LEMMA FatesMove ==
    ASSUME RegistryInv, ReportInv, ProcNext, NEW q \in Proc
    PROVE  /\ seen \subseteq seen'
           /\ \/ fate'[q] = fate[q]
              \/ fate'[q] \in {"silent", "announced", "consumed"}
              \/ fate'[q] = "waited for" /\ proc[q].exited /\ Waiting(q)' # {}
<1>1. fate \in [Proc -> Fate] /\ RowReported(q) /\ RowOK(proc[q], fate[q], q \in seen)
        /\ proc[q] \in Process
  BY Types DEF ReportInv
<1>2. CASE UNCHANGED fate /\ seen \subseteq seen'
  BY <1>2
<1>3. ASSUME NEW p \in Proc, Move(p) PROVE UNCHANGED <<fate, seen>>
  <2>1. RowReported(p) /\ proc[p].exited /\ proc[p] \in Process
    BY <1>3, Types DEF ReportInv, RowOK, Move
  <2>2. proc[p].table = "running"
    BY <1>3, <2>1 DEF RowReported, Move, Process, Gone
  <2> QED BY <1>3, <2>2 DEF Move
<1>4. ASSUME NEW p \in Proc, Announce(p)
      PROVE  seen' = seen /\ (fate'[q] = fate[q] \/ fate'[q] \in {"silent", "announced", "consumed"})
  BY <1>1, <1>4 DEF Announce
<1>5. ASSUME NEW p \in Proc, Emit(p)
      PROVE  /\ seen' = seen
             /\ \/ fate'[q] = fate[q]
                \/ fate'[q] = "announced"
                \/ fate'[q] = "waited for" /\ proc[q].exited /\ Waiting(q)' # {}
  <2>1. toolCall' = toolCall /\ seen' = seen /\ proc[p].mark = "count"
        /\ fate' = [fate EXCEPT ![p] = IF Waiting(p) # {} THEN "waited for" ELSE "announced"]
    BY <1>5 DEF Emit
  <2>2. Waiting(q)' = Waiting(q)
    BY <2>1 DEF Waiting
  <2>3. q = p => proc[q].exited
    BY <1>1, <2>1 DEF RowOK
  <2> QED BY <1>1, <2>1, <2>2, <2>3
<1>6. ASSUME NEW p \in Proc,
             \/ \E notify, watches \in BOOLEAN : Spawn(p, notify, watches)
             \/ Register(p)
             \/ ChildExits(p) \/ PipeCloses(p) \/ GraceEnds(p) \/ WindowEnds(p)
             \/ Match(p) \/ ReaderMarks(p)
      PROVE  UNCHANGED <<fate, seen>>
  BY <1>6 DEF Spawn, Register, ChildExits, PipeCloses, GraceEnds, WindowEnds, Match,
              ReaderMarks, OnlyProc
<1>7. ASSUME NEW c \in ToolCall,
             \/ \E op \in {"query", "wait", "kill"}, p \in Proc : Invoke(c, op, p)
             \/ CallProceeds(c)
             \/ WaitLeaves(c)
      PROVE  UNCHANGED fate /\ seen \subseteq seen'
  BY <1>7 DEF Invoke, CallProceeds, ReconcileCall, Marked, Look, WaitAgain, Kill, WaitLeaves
<1> QED BY <1>2, <1>3, <1>4, <1>5, <1>6, <1>7 DEF ProcNext

LEMMA ReportStep ==
    ASSUME RegistryInv, RegistryInv', ReportInv, ProcNext, ListedFirst, WaitsLook
    PROVE  ReportInv'
<1>1. ASSUME NEW p \in Proc PROVE RowReported(p)'
  <2>1. /\ RowReported(p) /\ RowMoves(p) /\ Keeps(p)
        /\ RowOK(proc[p], fate[p], p \in seen)
    BY RowsMove, VerdictStep, Types DEF ReportInv
  <2>2. /\ seen \subseteq seen'
        /\ \/ fate'[p] = fate[p]
           \/ fate'[p] \in {"silent", "announced", "consumed"}
           \/ fate'[p] = "waited for" /\ proc[p].exited /\ Waiting(p)' # {}
    BY FatesMove
  <2>3. proc[p].exited /\ Waiting(p) # {} => Waiting(p)' # {} \/ p \in seen'
    <3> SUFFICES ASSUME proc[p].exited, NEW d \in Waiting(p)
                 PROVE  Waiting(p)' # {} \/ p \in seen'
      OBVIOUS
    <3>1. CallMoves(d)
      BY CallsMove DEF Waiting
    <3> QED BY <3>1 DEF CallMoves
  <2>4. proc'[p].table \in Gone => proc'[p].exited /\ proc'[p].mark # "move"
    BY <2>1 DEF RowReported, RowMoves, Keeps, RowOK
  <2>5. proc'[p].exited => proc'[p].table # "none"
    BY <2>1 DEF RowMoves, ListedFirst
  <2>6. fate'[p] # "untracked"
    BY <2>1, <2>2 DEF RowReported
  <2>7. fate'[p] = "waited for" => proc'[p].exited /\ (p \in seen' \/ Waiting(p)' # {})
    BY <2>1, <2>2, <2>3 DEF RowReported, Keeps
  <2> QED BY <2>4, <2>5, <2>6, <2>7 DEF RowReported
<1>2. ASSUME NEW d \in ToolCall PROVE CallShape(toolCall[d])'
  BY CallsMove DEF CallMoves
<1> QED BY <1>1, <1>2 DEF ReportInv

(* If every exit is declared after spawn has entered the process, and no    *)
(* wait leaves an exited process without a look, every exit the owner asked *)
(* for is reported: these two are the only ways to lose one.                *)
THEOREM ExitsReportedOtherwise ==
    ProcSpec /\ [][ListedFirst /\ WaitsLook]_procVars => []ExitReported
<1>1. ProcInit => ReportInv
  BY DEF ProcInit, Unborn, IdleCall, ReportInv, RowReported, CallShape, Gone
<1>2. RegistryInv /\ RegistryInv' /\ ReportInv /\ [ProcNext]_procVars
        /\ [ListedFirst /\ WaitsLook]_procVars => ReportInv'
  <2>1. ReportInv /\ UNCHANGED procVars => ReportInv'
    BY DEF ReportInv, RowReported, Waiting, procVars
  <2> QED BY <2>1, ReportStep
<1>3. RegistryInv /\ ReportInv => ExitReported
  <2> SUFFICES ASSUME RegistryInv, ReportInv, NEW p \in Proc, Unreported(p) PROVE FALSE
    BY DEF ExitReported
  <2>1. RowReported(p) /\ fate[p] \in Fate /\ RowOK(proc[p], fate[p], p \in seen)
    BY Types DEF ReportInv
  <2> QED BY <2>1 DEF Unreported, RowReported, RowOK, Fate
<1> QED BY <1>1, <1>2, <1>3, RegistryInvariant, PTL DEF ProcSpec
=============================================================================
