----------------------------- MODULE CronProofs -----------------------------
(***************************************************************************)
(* Type correctness of the cron scheduler, and what its accounting of      *)
(* fires withstands, for every period, horizon, set of specs and budget.   *)
(***************************************************************************)
EXTENDS Cron, FiniteSetTheorems, TLAPS

(* The reads and writes of the store keep the tables typed.                 *)
Tables ==
    /\ cjob \subseteq CronJob /\ Cardinality(cjob) <= 1
    /\ latest \subseteq CronRun /\ Cardinality(latest) <= 1
    /\ cronSession \in
          [1 .. MaxTime -> {"none", "ready", "active", "suspended", "completed"}]

(* Writing one row, or none, leaves at most one.                            *)
LEMMA OneRow ==
    ASSUME NEW S, Cardinality(S) <= 1, NEW j, NEW T, T \in {S, {j}, {}}
    PROVE  Cardinality(T) <= 1
<1>1. Cardinality({}) = 0 /\ Cardinality({j}) = 1
  BY FS_EmptySet, FS_Singleton
<1> QED
  BY <1>1

(* A call of the store takes at most one error from the budget.             *)
LEMMA CallTyped ==
    ASSUME cronBudget \in [CronEvent -> Nat], NEW ok \in BOOLEAN, Call(ok)
    PROVE  cronBudget' \in [CronEvent -> Nat]
  BY DEF Call, CronSpend, CronEvent

(* cron_set keeps at most one job.                                          *)
LEMMA SetTyped ==
    ASSUME Tables, NEW ok \in BOOLEAN, NEW j \in CronJob, CronSet(ok, j)
    PROVE  Tables'
<1>1. cjob' \in {cjob, {j}, {}}
  BY DEF CronSet
<1>2. Cardinality(cjob') <= 1
  BY <1>1, OneRow DEF Tables
<1> QED
  BY <1>1, <1>2 DEF Tables, CronSet

(* cron_remove keeps at most one job, also when it fails half way.          *)
LEMMA RemoveTyped ==
    ASSUME Tables, NEW ok \in BOOLEAN, CronRemove(ok)
    PROVE  Tables'
<1>1. cjob' \in {cjob, {}} /\ latest' \in {latest, {}} /\ cronSession' = cronSession
  BY DEF CronRemove
<1>2. Cardinality(cjob') <= 1 /\ Cardinality(latest') <= 1
  BY <1>1, OneRow DEF Tables
<1> QED
  BY <1>1, <1>2 DEF Tables

(* cron_run_append makes its run the newest.                                *)
LEMMA AppendTyped ==
    ASSUME Tables, NEW ok \in BOOLEAN, NEW r \in CronRun, CronRunAppend(ok, r)
    PROVE  Tables'
<1>1. latest' \in {latest, {r}, {}}
  BY DEF CronRunAppend
<1>2. Cardinality(latest') <= 1
  BY <1>1, OneRow DEF Tables
<1> QED
  BY <1>1, <1>2 DEF Tables, CronRunAppend

(* The next fire of a typed spec is a time.                                 *)
LEMMA NextTyped ==
    ASSUME NEW s \in CronSpecs, NEW t \in Nat
    PROVE  /\ NextAfter(s, t) \in Nat
           /\ NextAfter(s, t) = 0 \/ NextAfter(s, t) > t
           /\ s \in CronSpec
  BY CronSpecAssumption, CronTimeAssumption DEF NextAfter, CronSpec

(* A task at work is not idle.                                              *)
LEMMA Busy ==
    ASSUME CronTypeOK
    PROVE  /\ ticker.pc # "idle" => ticker \in TickTask
           /\ firing.pc # "idle" => firing \in FireTask
           /\ editor.pc # "idle" => editor \in EditTask
           /\ IdleTask.pc = "idle"
  BY DEF CronTypeOK, IdleTask

LEMMA NotIdle ==
    ASSUME CronTypeOK
    PROVE  /\ ticker # IdleTask => ticker \in TickTask /\ ticker.pc # "idle"
           /\ firing # IdleTask => firing \in FireTask /\ firing.pc # "idle"
           /\ editor # IdleTask => editor \in EditTask /\ editor.pc # "idle"
  BY DEF CronTypeOK, IdleTask, TickTask, FireTask, EditTask

(* What a step must show for the types.                                     *)
Typed ==
    /\ now \in 1 .. MaxTime
    /\ ticker \in TickTask \cup {IdleTask}
    /\ firing \in FireTask \cup {IdleTask}
    /\ editor \in EditTask \cup {IdleTask}
    /\ fired \subseteq Fire
    /\ mishaps \subseteq Mishap
    /\ cronBudget \in [CronEvent -> Nat]

LEMMA TypeParts == CronTypeOK <=> Tables /\ Typed
  BY DEF CronTypeOK, Tables, Typed

LEMMA TickTyped ==
    ASSUME CronTypeOK, TickOnce
    PROVE  CronTypeOK'
<1> USE CronTimeAssumption
<1>t. Tables /\ Typed
  BY TypeParts
<1>1. CASE CronDue
  <2>1. PICK j \in cjob : ticker' = [pc |-> "reconcile", job |-> j, slot |-> j.next,
                                     cap |-> j.spec.repeat, at |-> now, run |-> {}]
    BY <1>1 DEF CronDue
  <2>2. j \in CronJob /\ j.next \in Nat /\ j.spec.repeat \in Nat
    BY <1>t, CronSpecAssumption DEF Tables, CronJob, CronSpec
  <2>3. ticker' \in TickTask
    BY <1>t, <2>1, <2>2 DEF Typed, TickTask
  <2>4. Typed'
    BY <1>1, <1>t, <2>3 DEF CronDue, Typed, TickerOnly, Note, Overlapping, Mishap
  <2>5. Tables'
    BY <1>1, <1>t DEF CronDue, Tables, cronStore
  <2> QED
    BY <2>4, <2>5, TypeParts DEF CronTypeOK, Tables, Typed
<1>2. CASE ReconcileRead \/ InFlightRead
  <2>1. PICK ok \in BOOLEAN, pc \in {"status", "decide"} :
          /\ Call(ok)
          /\ ticker.pc # "idle"
          /\ ticker' = [ticker EXCEPT !.pc = pc, !.run = CronRunsList(ok)]
    BY <1>2 DEF ReconcileRead, InFlightRead
  <2>2. ticker \in TickTask
    BY <2>1, Busy
  <2>3. CronRunsList(ok) \in SUBSET CronRun
    BY <1>t DEF CronRunsList, Tables
  <2>4. ticker' \in TickTask
    BY <2>1, <2>2, <2>3 DEF TickTask
  <2>5. cronBudget' \in [CronEvent -> Nat]
    BY <1>t, <2>1, CallTyped DEF Typed
  <2>6. Typed' /\ Tables'
    BY <1>2, <1>t, <2>4, <2>5
      DEF ReconcileRead, InFlightRead, Typed, Tables, TickerOnly, cronStore, cronHist
  <2> QED
    BY <2>6 DEF CronTypeOK, Tables, Typed
<1>3. CASE ReconcileStatus
  <2>1. PICK ok \in BOOLEAN, pc \in {"mark", "overlap"} :
          Call(ok) /\ ticker' = [ticker EXCEPT !.pc = pc]
    BY <1>3 DEF ReconcileStatus, TickerTo
  <2>2. ticker \in TickTask
    BY <1>3, Busy DEF ReconcileStatus
  <2>4. ticker' \in TickTask
    BY <2>1, <2>2 DEF TickTask
  <2>5. cronBudget' \in [CronEvent -> Nat]
    BY <1>t, <2>1, CallTyped DEF Typed
  <2>6. Typed' /\ Tables'
    BY <1>3, <1>t, <2>4, <2>5
      DEF ReconcileStatus, Typed, Tables, TickerOnly, cronStore, cronHist
  <2> QED
    BY <2>6 DEF CronTypeOK, Tables, Typed
<1>4. CASE MarkFinished
  <2>2. ticker \in TickTask
    BY <1>4, Busy DEF MarkFinished
  <2>1. PICK ok \in BOOLEAN, r \in ticker.run :
          Call(ok) /\ CronRunAppend(ok, [r EXCEPT !.finished = TRUE])
    BY <1>4 DEF MarkFinished
  <2>3. [r EXCEPT !.finished = TRUE] \in CronRun
    BY <2>2 DEF TickTask, CronRun
  <2>4. ticker' \in TickTask
    BY <1>4, <2>2 DEF MarkFinished, TickerTo, TickTask
  <2>5. cronBudget' \in [CronEvent -> Nat]
    BY <1>t, <2>1, CallTyped DEF Typed
  <2>6. Typed'
    BY <1>4, <1>t, <2>4, <2>5 DEF MarkFinished, Typed, TickerOnly, cronHist
  <2>7. Tables'
    BY <1>t, <2>1, <2>3, AppendTyped
  <2> QED
    BY <2>6, <2>7 DEF CronTypeOK, Tables, Typed
<1>5. CASE StampJob
  <2>2. ticker \in TickTask
    BY <1>5, Busy DEF StampJob
  <2>1. PICK ok \in BOOLEAN : Call(ok) /\ CronSet(ok, ticker.job)
    BY <1>5 DEF StampJob
  <2>4. ticker' \in TickTask /\ ticker.job \in CronJob
    BY <1>5, <2>2 DEF StampJob, TickerTo, TickTask
  <2>5. cronBudget' \in [CronEvent -> Nat]
    BY <1>t, <2>1, CallTyped DEF Typed
  <2>6. Typed'
    BY <1>5, <1>t, <2>4, <2>5 DEF StampJob, Typed, TickerOnly, cronHist
  <2>7. Tables'
    BY <1>t, <2>1, <2>4, SetTyped
  <2> QED
    BY <2>6, <2>7 DEF CronTypeOK, Tables, Typed
<1>6. CASE Decide
  <2>2. ticker \in TickTask
    BY <1>6, Busy DEF Decide
  <2>3. ticker.job.spec \in CronSpecs /\ ticker.at \in Nat
    BY <2>2 DEF TickTask, CronJob
  <2>4. NextAfter(ticker.job.spec, ticker.at) \in Nat
    BY <2>3, NextTyped
  <2>1. PICK ok \in BOOLEAN, pc \in {"seed", "rearm"} :
          /\ Call(ok)
          /\ ticker' \in {IdleTask, [ticker EXCEPT !.pc = pc,
                             !.job.next = NextAfter(ticker.job.spec, ticker.at)]}
    BY <1>6, Zenon DEF Decide
  <2>8. [ticker.job EXCEPT !.next = NextAfter(ticker.job.spec, ticker.at)] \in CronJob
    BY <2>2, <2>4 DEF TickTask, CronJob
  <2>9. [ticker EXCEPT !.pc = pc, !.job.next = NextAfter(ticker.job.spec, ticker.at)]
           \in TickTask
    BY <2>2, <2>8 DEF TickTask
  <2>5. ticker' \in TickTask \cup {IdleTask}
    BY <2>1, <2>9
  <2>6. cronBudget' \in [CronEvent -> Nat]
    BY <1>t, <2>1, CallTyped DEF Typed
  <2>7. Typed' /\ Tables'
    BY <1>6, <1>t, <2>5, <2>6 DEF Decide, Typed, Tables, TickerOnly, cronStore, cronHist
  <2> QED
    BY <2>7 DEF CronTypeOK, Tables, Typed
<1>7. CASE Rearm
  <2>2. ticker \in TickTask /\ ticker.job \in CronJob
    BY <1>7, Busy DEF Rearm, TickTask
  <2>1. PICK ok \in BOOLEAN : Call(ok) /\ (CronRemove(ok) \/ CronSet(ok, ticker.job))
    BY <1>7 DEF Rearm
  <2>5. cronBudget' \in [CronEvent -> Nat]
    BY <1>t, <2>1, CallTyped DEF Typed
  <2>6. Typed'
    BY <1>7, <1>t, <2>5 DEF Rearm, Typed, TickerOnly, cronHist
  <2>7. Tables'
    BY <1>t, <2>1, <2>2, SetTyped, RemoveTyped
  <2> QED
    BY <2>6, <2>7 DEF CronTypeOK, Tables, Typed
<1>8. CASE TickSeed
  <2>2. ticker \in TickTask
    BY <1>8, Busy DEF TickSeed
  <2>1. PICK ok \in BOOLEAN, pc \in {"append", "reread"} :
          /\ Call(ok) /\ SeedSession(ok)
          /\ ticker' = [ticker EXCEPT !.pc = pc, !.at = now]
          /\ fired' \subseteq fired \cup {[slot |-> ticker.slot, at |-> now, cap |-> ticker.cap]}
    BY <1>8 DEF TickSeed
  <2>3. ticker' \in TickTask
    BY <1>t, <2>1, <2>2 DEF TickTask, Typed
  <2>4. [slot |-> ticker.slot, at |-> now, cap |-> ticker.cap] \in Fire
    BY <1>t, <2>2 DEF Typed, TickTask, Fire
  <2>5. cronBudget' \in [CronEvent -> Nat]
    BY <1>t, <2>1, CallTyped DEF Typed
  <2>6. Typed'
    BY <1>8, <1>t, <2>1, <2>3, <2>4, <2>5 DEF TickSeed, Typed, TickerOnly
  <2>7. Tables'
    BY <1>t, <2>1 DEF Tables, SeedSession
  <2> QED
    BY <2>6, <2>7 DEF CronTypeOK, Tables, Typed
<1>9. CASE TickAppend
  <2>2. ticker \in TickTask
    BY <1>9, Busy DEF TickAppend
  <2>1. PICK ok \in BOOLEAN :
          Call(ok) /\ CronRunAppend(ok, [session |-> ticker.at, finished |-> FALSE])
    BY <1>9 DEF TickAppend, AppendRun
  <2>3. [session |-> ticker.at, finished |-> FALSE] \in CronRun
    BY <2>2 DEF TickTask, CronRun
  <2>4. ticker' \in TickTask
    BY <1>9, <2>2 DEF TickAppend, TickerTo, TickTask
  <2>5. cronBudget' \in [CronEvent -> Nat]
    BY <1>t, <2>1, CallTyped DEF Typed
  <2>6. Typed'
    BY <1>9, <1>t, <2>4, <2>5 DEF TickAppend, Typed, TickerOnly, cronHist
  <2>7. Tables'
    BY <1>t, <2>1, <2>3, AppendTyped
  <2> QED
    BY <2>6, <2>7 DEF CronTypeOK, Tables, Typed
<1>10. CASE TickCount
  <2>2. ticker \in TickTask
    BY <1>10, Busy DEF TickCount
  <2>1. PICK ok \in BOOLEAN :
          /\ Call(ok) /\ CronSet(ok, [ticker.job EXCEPT !.fires = @ + 1])
          /\ Note(IF ok THEN {} ELSE {"uncounted"})
    BY <1>10 DEF TickCount, CountFire
  <2>3. [ticker.job EXCEPT !.fires = @ + 1] \in CronJob
    BY <2>2 DEF TickTask, CronJob
  <2>4. ticker' \in TickTask
    BY <1>10, <2>2 DEF TickCount, TickerTo, TickTask
  <2>5. cronBudget' \in [CronEvent -> Nat]
    BY <1>t, <2>1, CallTyped DEF Typed
  <2>6. Typed'
    BY <1>10, <1>t, <2>1, <2>4, <2>5 DEF TickCount, Typed, TickerOnly, Note, Mishap
  <2>7. Tables'
    BY <1>t, <2>1, <2>3, SetTyped
  <2> QED
    BY <2>6, <2>7 DEF CronTypeOK, Tables, Typed
<1>11. CASE Reread
  <2>2. ticker \in TickTask
    BY <1>11, Busy DEF Reread
  <2>1. PICK ok \in BOOLEAN :
          /\ Call(ok)
          /\ \/ ticker' = IdleTask
             \/ \E j \in cjob :
                   ticker' = [ticker EXCEPT !.pc = "settle",
                                            !.job = [j EXCEPT !.next = ticker.job.next]]
          /\ Note(IF ok THEN {} ELSE {"unsettled"})
    BY <1>11 DEF Reread
  <2>3. ASSUME NEW j \in cjob PROVE [j EXCEPT !.next = ticker.job.next] \in CronJob
    BY <1>t, <2>2 DEF Tables, TickTask, CronJob
  <2>4. ticker' \in TickTask \cup {IdleTask}
    BY <2>1, <2>2, <2>3 DEF TickTask
  <2>5. cronBudget' \in [CronEvent -> Nat]
    BY <1>t, <2>1, CallTyped DEF Typed
  <2>6. Typed' /\ Tables'
    BY <1>11, <1>t, <2>1, <2>4, <2>5
      DEF Reread, Typed, Tables, TickerOnly, Note, Mishap, cronStore
  <2> QED
    BY <2>6 DEF CronTypeOK, Tables, Typed
<1>12. CASE SettleJob
  <2>2. ticker \in TickTask /\ ticker.job \in CronJob
    BY <1>12, Busy DEF SettleJob, TickTask
  <2>1. PICK ok \in BOOLEAN :
          /\ Call(ok) /\ (CronRemove(ok) \/ CronSet(ok, ticker.job))
          /\ Note(IF ok THEN {} ELSE {"unsettled"})
    BY <1>12 DEF SettleJob
  <2>5. cronBudget' \in [CronEvent -> Nat]
    BY <1>t, <2>1, CallTyped DEF Typed
  <2>6. Typed'
    BY <1>12, <1>t, <2>1, <2>5 DEF SettleJob, Typed, TickerOnly, Note, Mishap
  <2>7. Tables'
    BY <1>t, <2>1, <2>2, SetTyped, RemoveTyped
  <2> QED
    BY <2>6, <2>7 DEF CronTypeOK, Tables, Typed
<1> QED
  BY <1>1, <1>2, <1>3, <1>4, <1>5, <1>6, <1>7, <1>8, <1>9, <1>10, <1>11, <1>12 DEF TickOnce

(* A trigger keeps the types.                                               *)
LEMMA FiringTyped ==
    ASSUME CronTypeOK, FireNow \/ FiringGoesOn
    PROVE  CronTypeOK'
<1> USE CronTimeAssumption
<1>t. Tables /\ Typed
  BY TypeParts
<1>1. CASE FireNow
  <2>1. PICK j \in cjob, pc \in {"overlap", "seed"} :
          firing' = [pc |-> pc, job |-> j, at |-> now, run |-> {}]
    BY <1>1 DEF FireNow
  <2>2. firing' \in FireTask
    BY <1>t, <2>1 DEF Tables, Typed, FireTask
  <2>3. cronBudget' \in [CronEvent -> Nat]
    BY <1>1, <1>t DEF FireNow, CronSpend, CronEvent, Typed
  <2>4. Typed' /\ Tables'
    BY <1>1, <1>t, <2>2, <2>3
      DEF FireNow, Typed, Tables, FiringOnly, Note, Overlapping, Mishap, cronStore
  <2> QED
    BY <2>4 DEF CronTypeOK, Tables, Typed
<1>2. CASE FiringGoesOn
  <2>1. firing \in FireTask
    BY <1>2, Busy
      DEF FiringGoesOn, FireRead, FireDecide, FireSeed, FireAppend, FireCount
  <2>2. PICK ok \in BOOLEAN : Call(ok)
    BY <1>2 DEF FiringGoesOn, FireRead, FireDecide, FireSeed, FireAppend, FireCount
  <2>3. cronBudget' \in [CronEvent -> Nat]
    BY <1>t, <2>2, CallTyped DEF Typed
  <2>4. UNCHANGED <<now, ticker, editor, fired, mishaps>>
    BY <1>2 DEF FiringGoesOn, FireRead, FireDecide, FireSeed, FireAppend, FireCount, FiringOnly
  <2>5. firing' \in FireTask \cup {IdleTask}
    <3>1. CASE FireRead
      <4>1. PICK k \in BOOLEAN :
              firing' = [firing EXCEPT !.pc = "decide", !.run = CronRunsList(k)]
        BY <3>1 DEF FireRead
      <4>2. CronRunsList(k) \in SUBSET CronRun
        BY <1>t DEF CronRunsList, Tables
      <4> QED
        BY <2>1, <4>1, <4>2 DEF FireTask
    <3>2. CASE FireDecide
      BY <2>1, <3>2 DEF FireDecide, FireTask
    <3>3. CASE FireSeed
      BY <1>t, <2>1, <3>3 DEF FireSeed, FireTask, Typed
    <3>4. CASE FireAppend
      BY <2>1, <3>4 DEF FireAppend, FireTask
    <3>5. CASE FireCount
      BY <3>5 DEF FireCount
    <3> QED
      BY <1>2, <3>1, <3>2, <3>3, <3>4, <3>5 DEF FiringGoesOn
  <2>6. Tables'
    <3>1. CASE FireRead \/ FireDecide
      BY <1>t, <3>1 DEF FireRead, FireDecide, Tables, cronStore
    <3>3. CASE FireSeed
      BY <1>t, <3>3 DEF FireSeed, SeedSession, Tables
    <3>4. CASE FireAppend
      <4>1. PICK k \in BOOLEAN :
              CronRunAppend(k, [session |-> firing.at, finished |-> FALSE])
        BY <3>4 DEF FireAppend, AppendRun
      <4>2. [session |-> firing.at, finished |-> FALSE] \in CronRun
        BY <2>1 DEF FireTask, CronRun
      <4> QED
        BY <1>t, <4>1, <4>2, AppendTyped
    <3>5. CASE FireCount
      <4>1. PICK k \in BOOLEAN : CronSet(k, [firing.job EXCEPT !.fires = @ + 1])
        BY <3>5 DEF FireCount, CountFire
      <4>2. [firing.job EXCEPT !.fires = @ + 1] \in CronJob
        BY <2>1 DEF FireTask, CronJob
      <4> QED
        BY <1>t, <4>1, <4>2, SetTyped
    <3> QED
      BY <1>2, <3>1, <3>3, <3>4, <3>5 DEF FiringGoesOn
  <2> QED
    BY <1>t, <2>3, <2>4, <2>5, <2>6 DEF CronTypeOK, Tables, Typed
<1> QED
  BY <1>1, <1>2

(* The store and the tasks stay typed in every step.                        *)
LEMMA TypeStep ==
    ASSUME CronTypeOK, [CronNext]_cronVars
    PROVE  CronTypeOK'
<1> USE CronTimeAssumption
<1>t. Tables /\ Typed
  BY TypeParts
<1>1. CASE EditRead
  <2>1. PICK j \in cjob, s \in CronSpecs, paused \in BOOLEAN :
          /\ editor' = [pc |-> "write",
                        job |-> [j EXCEPT !.spec = s, !.paused = paused,
                                          !.next = IF paused THEN 0 ELSE NextAfter(s, now)]]
          /\ mishaps' \subseteq mishaps \cup {"overlap", "update"}
    BY <1>1 DEF EditRead, Note, Overlapping
  <2>2. NextAfter(s, now) \in Nat /\ j \in CronJob
    BY <1>t, NextTyped DEF Typed, Tables
  <2>3. editor' \in EditTask
    BY <2>1, <2>2 DEF EditTask, CronJob
  <2>4. cronBudget' \in [CronEvent -> Nat]
    BY <1>1, <1>t DEF EditRead, CronSpend, CronEvent, Typed
  <2>5. Typed' /\ Tables'
    BY <1>1, <1>t, <2>1, <2>3, <2>4 DEF EditRead, Typed, Tables, EditorOnly, Mishap, cronStore
  <2> QED
    BY <2>5 DEF CronTypeOK, Tables, Typed
<1>2. CASE EditWrite
  <2>1. editor \in EditTask /\ editor.job \in CronJob
    BY <1>2, Busy DEF EditWrite, EditTask
  <2>2. PICK ok \in BOOLEAN : Call(ok) /\ CronSet(ok, editor.job)
    BY <1>2 DEF EditWrite
  <2>3. cronBudget' \in [CronEvent -> Nat]
    BY <1>t, <2>2, CallTyped DEF Typed
  <2>4. Tables'
    BY <1>t, <2>1, <2>2, SetTyped
  <2> QED
    BY <1>2, <1>t, <2>3, <2>4 DEF EditWrite, EditorOnly, CronTypeOK, Tables, Typed
<1>3. CASE Delete
  <2>1. Tables'
    BY <1>3, <1>t, RemoveTyped DEF Delete
  <2>2. cronBudget' \in [CronEvent -> Nat]
    BY <1>3, <1>t DEF Delete, CronSpend, CronEvent, Typed
  <2> QED
    BY <1>3, <1>t, <2>1, <2>2 DEF Delete, EditorOnly, CronTypeOK, Tables, Typed
<1>4. ASSUME NEW t \in 1 .. MaxTime,
             SessionStarts(t) \/ SessionSuspends(t) \/ SessionResumes(t) \/ SessionEnds(t)
      PROVE  CronTypeOK'
  BY <1>4, <1>t
    DEF SessionStarts, SessionSuspends, SessionResumes, SessionEnds, SessionMoves, Environs,
        CronTypeOK, Tables, Typed
<1>5. CASE CronClock
  BY <1>5, <1>t DEF CronClock, Environs, CronTypeOK, Tables, Typed
<1>6. CASE CronCrash
  <2>1. cronBudget' \in [CronEvent -> Nat]
    BY <1>6, <1>t DEF CronCrash, CronSpend, CronEvent, Typed
  <2>2. mishaps' \subseteq Mishap
    BY <1>6, <1>t DEF CronCrash, Note, Mishap, Typed
  <2> QED
    BY <1>6, <1>t, <2>1, <2>2 DEF CronCrash, Environs, CronTypeOK, Tables, Typed
<1>7. CASE UNCHANGED cronVars
  BY <1>7, <1>t DEF cronVars, cronStore, cronHist, CronTypeOK, Tables, Typed
<1> QED
  BY <1>1, <1>2, <1>3, <1>4, <1>5, <1>6, <1>7, TickTyped, FiringTyped DEF CronNext

(* The tables and the tasks keep their types.                               *)
THEOREM CronTypeCorrect == CronBehaviour => []CronTypeOK
<1>1. CronInit => CronTypeOK
  <2> SUFFICES ASSUME CronInit PROVE CronTypeOK
    OBVIOUS
  <2>1. PICK s \in CronSpecs :
          cjob = {[spec |-> s, next |-> NextAfter(s, 1), paused |-> FALSE, fires |-> 0]}
    BY DEF CronInit
  <2>2. cjob \subseteq CronJob
    BY <2>1, NextTyped DEF CronJob
  <2>3. Cardinality(cjob) = 1 /\ Cardinality(latest) = 0
    BY <2>1, FS_Singleton, FS_EmptySet DEF CronInit
  <2> QED
    BY <2>2, <2>3, CronTimeAssumption, CronBudgetAssumption DEF CronInit, CronTypeOK
<1> QED
  BY <1>1, TypeStep, PTL DEF CronBehaviour

-----------------------------------------------------------------------------
(* No occurrence fires twice.  A next fire is armed when it is ahead of all *)
(* occurrences fired so far; every clone that may still be written has an   *)
(* armed next fire, and so has the row, except between a fire and the write *)
(* of its clone.                                                            *)
Armed(x) == x = 0 \/ \A f \in fired : f.slot < x

Before == {"reconcile", "status", "mark", "stamp", "overlap", "decide", "rearm", "seed"}

TimesOK ==
    /\ \A f \in fired : f.slot <= now
    /\ ticker # IdleTask => ticker.slot <= ticker.at /\ ticker.at <= now

Apart ==
    "overlap" \notin mishaps =>
        /\ ticker # IdleTask => firing = IdleTask /\ editor = IdleTask
        /\ firing # IdleTask => editor = IdleTask

FreshOK ==
    /\ AtMostOnce
    /\ ticker.pc \notin {"append", "count"} => \A j \in cjob : Armed(j.next)
    /\ ticker # IdleTask => Armed(ticker.job.next)
    /\ ticker.pc \in Before => \A f \in fired : f.slot < ticker.slot
    /\ ticker.pc = "seed" => ticker.job.next = 0 \/ ticker.slot < ticker.job.next
    /\ firing # IdleTask => Armed(firing.job.next)
    /\ editor # IdleTask => Armed(editor.job.next)

Lossless == mishaps \cap {"uncounted", "overlap"} = {}

OnceInv == CronTypeOK /\ TimesOK /\ Apart /\ (Lossless => FreshOK)

(* What has happened stays in the history.                                  *)
LEMMA MishapsGrow ==
    ASSUME CronTypeOK, [CronNext]_cronVars
    PROVE  mishaps \subseteq mishaps'
  BY DEF CronNext, TickOnce, CronDue, ReconcileRead, ReconcileStatus, MarkFinished, StampJob,
         InFlightRead, Decide, Rearm, TickSeed, TickAppend, TickCount, Reread, SettleJob,
         FireNow, FiringGoesOn, FireRead, FireDecide, FireSeed, FireAppend, FireCount,
         EditRead, EditWrite, Delete, SessionStarts, SessionSuspends, SessionResumes,
         SessionEnds, SessionMoves, Environs, CronClock, CronCrash, Note, cronHist, cronVars

(* Times only move on, and a due occurrence is not ahead.                   *)
LEMMA TimesStep ==
    ASSUME CronTypeOK, TimesOK, [CronNext]_cronVars
    PROVE  TimesOK'
<1> USE DEF TimesOK
<1>n. now \in Nat /\ \A f \in fired : f.slot \in Nat
  BY CronTimeAssumption DEF CronTypeOK, Fire
<1>i. IdleTask.pc = "idle"
  BY DEF IdleTask
<1>1. CASE CronDue
  <2>1. PICK j \in cjob : j.next <= now /\
          ticker' = [pc |-> "reconcile", job |-> j, slot |-> j.next,
                     cap |-> j.spec.repeat, at |-> now, run |-> {}]
    BY <1>1 DEF CronDue
  <2> QED
    BY <1>1, <1>n, <2>1 DEF CronDue, TickerOnly
<1>2. CASE TickSeed
  <2>1. ticker \in TickTask /\ ticker # IdleTask
    BY <1>2, <1>i, Busy DEF TickSeed
  <2>2. ticker'.slot = ticker.slot /\ ticker'.at = now /\ now' = now
    BY <1>2, <2>1 DEF TickSeed, TickTask, TickerOnly
  <2>3. fired' \subseteq fired \cup {[slot |-> ticker.slot, at |-> now, cap |-> ticker.cap]}
    BY <1>2 DEF TickSeed
  <2>4. ticker.slot \in Nat /\ ticker.at \in Nat
    BY <2>1 DEF TickTask
  <2>5. ticker.slot <= now
    BY <1>n, <2>1, <2>4
  <2> QED
    BY <1>n, <2>2, <2>3, <2>4, <2>5
<1>3. ASSUME ticker.pc # "idle",
             ticker' = IdleTask \/ (ticker'.slot = ticker.slot /\ ticker'.at = ticker.at),
             UNCHANGED <<now, fired>>
      PROVE  TimesOK'
  BY <1>3, <1>i
<1>4. CASE TickOnce /\ ~CronDue /\ ~TickSeed
  <2>1. ticker.pc # "idle" /\ ticker \in TickTask
    BY <1>4, Busy DEF TickOnce, ReconcileRead, ReconcileStatus, MarkFinished, StampJob,
         InFlightRead, Decide, Rearm, TickAppend, TickCount, Reread, SettleJob
  <2>2. UNCHANGED <<now, fired>>
    BY <1>4 DEF TickOnce, ReconcileRead, ReconcileStatus, MarkFinished, StampJob,
         InFlightRead, Decide, Rearm, TickAppend, TickCount, Reread, SettleJob, TickerOnly,
         cronHist
  <2>3. CASE ReconcileRead \/ ReconcileStatus \/ MarkFinished \/ StampJob \/ InFlightRead
               \/ TickAppend \/ TickCount
    BY <1>3, <2>1, <2>2, <2>3 DEF ReconcileRead, ReconcileStatus, MarkFinished, StampJob,
         InFlightRead, TickAppend, TickCount, TickerTo, TickTask
  <2>4. CASE Decide
    BY <1>3, <2>1, <2>2, <2>4 DEF Decide, TickTask
  <2>5. CASE Reread
    BY <1>3, <2>1, <2>2, <2>5 DEF Reread, TickTask
  <2>6. CASE Rearm \/ SettleJob
    BY <1>3, <2>1, <2>2, <2>6 DEF Rearm, SettleJob
  <2> QED
    BY <1>4, <2>3, <2>4, <2>5, <2>6 DEF TickOnce
<1>5. CASE FireNow \/ FiringGoesOn \/ EditRead \/ EditWrite \/ Delete \/ UNCHANGED cronVars
  BY <1>5 DEF FireNow, FiringGoesOn, FireRead, FireDecide, FireSeed, FireAppend, FireCount,
       FiringOnly, EditRead, EditWrite, Delete, EditorOnly, cronVars, cronHist
<1>6. CASE \E t \in 1 .. MaxTime :
             SessionStarts(t) \/ SessionSuspends(t) \/ SessionResumes(t) \/ SessionEnds(t)
  BY <1>6 DEF SessionStarts, SessionSuspends, SessionResumes, SessionEnds, SessionMoves,
       Environs
<1>7. CASE CronClock
  <2>1. ticker # IdleTask => ticker.at \in Nat
    BY NotIdle DEF TickTask
  <2> QED
    BY <1>7, <1>n, <2>1 DEF CronClock, Environs
<1>8. CASE CronCrash
  BY <1>8 DEF CronCrash, Environs
<1> QED
  BY <1>1, <1>2, <1>4, <1>5, <1>6, <1>7, <1>8 DEF CronNext

(* Two tasks under way at once are on record.                               *)
LEMMA ApartStep ==
    ASSUME CronTypeOK, Apart, [CronNext]_cronVars
    PROVE  Apart'
<1>m. mishaps \subseteq mishaps'
  BY MishapsGrow
<1> USE DEF Apart
<1>i. IdleTask.pc = "idle"
  BY DEF IdleTask
<1>1. CASE CronDue
  BY <1>1, <1>m DEF CronDue, TickerOnly, Note, Overlapping
<1>2. CASE TickOnce /\ ~CronDue
  <2>1. ticker # IdleTask
    BY <1>2, <1>i DEF TickOnce, ReconcileRead, ReconcileStatus, MarkFinished, StampJob,
         InFlightRead, Decide, Rearm, TickSeed, TickAppend, TickCount, Reread, SettleJob
  <2>2. UNCHANGED <<firing, editor>>
    BY <1>2 DEF TickOnce, ReconcileRead, ReconcileStatus, MarkFinished, StampJob,
         InFlightRead, Decide, Rearm, TickSeed, TickAppend, TickCount, Reread, SettleJob,
         TickerOnly
  <2> QED
    BY <1>m, <2>1, <2>2
<1>3. CASE FireNow
  BY <1>3, <1>m DEF FireNow, FiringOnly, Note, Overlapping
<1>4. CASE FiringGoesOn
  <2>1. firing # IdleTask
    BY <1>4, <1>i DEF FiringGoesOn, FireRead, FireDecide, FireSeed, FireAppend, FireCount
  <2>2. UNCHANGED <<ticker, editor>>
    BY <1>4 DEF FiringGoesOn, FireRead, FireDecide, FireSeed, FireAppend, FireCount,
         FiringOnly
  <2> QED
    BY <1>m, <2>1, <2>2
<1>5. CASE EditRead
  BY <1>5, <1>m DEF EditRead, EditorOnly, Note, Overlapping
<1>6. CASE EditWrite \/ Delete
  BY <1>6, <1>m DEF EditWrite, Delete, EditorOnly
<1>7. CASE \E t \in 1 .. MaxTime :
             SessionStarts(t) \/ SessionSuspends(t) \/ SessionResumes(t) \/ SessionEnds(t)
  BY <1>7, <1>m DEF SessionStarts, SessionSuspends, SessionResumes, SessionEnds, SessionMoves,
       Environs
<1>8. CASE CronClock
  BY <1>8, <1>m DEF CronClock, Environs
<1>9. CASE CronCrash
  BY <1>9, <1>m DEF CronCrash
<1>10. CASE UNCHANGED cronVars
  BY <1>10 DEF cronVars, cronHist
<1> QED
  BY <1>1, <1>2, <1>3, <1>4, <1>5, <1>6, <1>7, <1>8, <1>9, <1>10 DEF CronNext

(* A step of the tick keeps every next fire armed.                          *)
LEMMA FreshTick ==
    ASSUME OnceInv, FreshOK, Apart', Lossless', TickOnce
    PROVE  FreshOK'
<1> USE DEF FreshOK, Armed, Before, AtMostOnce
<1>t. CronTypeOK /\ TimesOK
  BY DEF OnceInv
<1>i. IdleTask.pc = "idle"
  BY DEF IdleTask
<1>f. firing' = firing /\ editor' = editor /\ "overlap" \notin mishaps'
  BY DEF Lossless, TickOnce, CronDue, ReconcileRead, ReconcileStatus, MarkFinished, StampJob,
         InFlightRead, Decide, Rearm, TickSeed, TickAppend, TickCount, Reread, SettleJob,
         TickerOnly
<1>1. CASE CronDue
  <2>1. PICK j \in cjob : j.next # 0 /\ ticker = IdleTask /\
          ticker' = [pc |-> "reconcile", job |-> j, slot |-> j.next,
                     cap |-> j.spec.repeat, at |-> now, run |-> {}]
    BY <1>1 DEF CronDue
  <2>2. UNCHANGED <<cjob, fired>>
    BY <1>1 DEF CronDue, cronStore
  <2> QED
    BY <1>f, <1>i, <2>1, <2>2
<1>o. "overlap" \notin mishaps
  BY <1>f, <1>t, MishapsGrow DEF CronNext
<1>b. ASSUME ticker.pc # "idle"
      PROVE  ticker \in TickTask /\ ticker # IdleTask /\ firing = IdleTask /\ editor = IdleTask
  BY <1>b, <1>i, <1>o, <1>t, Busy DEF OnceInv, Apart
<1>2. CASE ReconcileRead \/ ReconcileStatus \/ InFlightRead \/ MarkFinished \/ StampJob
  <2>1. ticker \in TickTask /\ ticker.pc \in Before \ {"seed"} /\ firing = IdleTask
          /\ editor = IdleTask
    BY <1>2, <1>b DEF ReconcileRead, ReconcileStatus, InFlightRead, MarkFinished, StampJob
  <2>2. /\ ticker'.job = ticker.job /\ ticker'.slot = ticker.slot
        /\ ticker'.pc \in Before \ {"seed"}
    BY <1>2, <2>1 DEF ReconcileRead, ReconcileStatus, InFlightRead, MarkFinished, StampJob,
         TickerTo, TickTask
  <2>3. cjob' \in {cjob, {ticker.job}} /\ fired' = fired
    BY <1>2 DEF ReconcileRead, ReconcileStatus, InFlightRead, MarkFinished, StampJob,
         CronRunAppend, CronSet, cronStore, cronHist
  <2>4. ticker # IdleTask
    BY <1>i, <2>1
  <2> QED
    BY <1>f, <2>1, <2>2, <2>3, <2>4
<1>3. CASE Decide
  <2>1. ticker \in TickTask /\ ticker # IdleTask /\ firing = IdleTask /\ editor = IdleTask
    BY <1>3, <1>b DEF Decide
  <2>2. UNCHANGED <<cjob, fired>>
    BY <1>3 DEF Decide, cronStore, cronHist
  <2>3. ticker.pc = "decide"
    BY <1>3 DEF Decide
  <2>4. CASE ticker' = IdleTask
    BY <1>f, <1>i, <2>1, <2>2, <2>3, <2>4
  <2>5. CASE \E pc \in {"seed", "rearm"} :
               ticker' = [ticker EXCEPT !.pc = pc,
                            !.job.next = NextAfter(ticker.job.spec, ticker.at)]
    <3> DEFINE n == NextAfter(ticker.job.spec, ticker.at)
    <3>1. ticker.job.spec \in CronSpecs /\ ticker.at \in Nat /\ ticker.slot \in Nat
            /\ ticker.job \in CronJob
      BY <2>1 DEF TickTask, CronJob
    <3>2. n \in Nat /\ (n = 0 \/ n > ticker.at)
      BY <3>1, NextTyped
    <3>3. ticker.slot <= ticker.at
      BY <1>t, <2>1 DEF TimesOK
    <3>4. \A f \in fired : f.slot \in Nat /\ f.slot < ticker.slot
      BY <1>t, <2>3 DEF CronTypeOK, Fire
    <3>5. n = 0 \/ (ticker.slot < n /\ \A f \in fired : f.slot < n)
      BY <3>1, <3>2, <3>3, <3>4
    <3> HIDE DEF n
    <3>6. [ticker.job EXCEPT !.next = n].next = n
      BY <3>1 DEF CronJob
    <3>7. /\ ticker'.pc \in {"seed", "rearm"} /\ ticker'.slot = ticker.slot
          /\ ticker'.job.next = n
      BY <2>1, <2>5, <3>6 DEF TickTask, n
    <3>8. ticker' # IdleTask
      BY <1>i, <3>7
    <3> QED
      BY <1>f, <2>1, <2>2, <2>3, <3>4, <3>5, <3>7, <3>8
  <2> QED
    BY <1>3, <2>4, <2>5, Zenon DEF Decide
<1>4. CASE Rearm
  <2>1. firing = IdleTask /\ editor = IdleTask /\ ticker # IdleTask
    BY <1>4, <1>b DEF Rearm
  <2>2. cjob' \in {cjob, {ticker.job}, {}} /\ fired' = fired /\ ticker' = IdleTask
    BY <1>4 DEF Rearm, CronSet, CronRemove, cronHist
  <2>3. ticker.pc = "rearm"
    BY <1>4 DEF Rearm
  <2> QED
    BY <1>f, <1>i, <2>1, <2>2, <2>3
<1>5. CASE TickSeed
  <2>1. ticker \in TickTask /\ firing = IdleTask /\ editor = IdleTask /\ ticker # IdleTask
    BY <1>5, <1>b DEF TickSeed
  <2>2. ticker.pc = "seed" /\ cjob' = cjob
    BY <1>5 DEF TickSeed, SeedSession
  <2>3. \A f \in fired : f.slot \in Nat /\ f.slot < ticker.slot
    BY <1>t, <2>2 DEF CronTypeOK, Fire
  <2>4. /\ ticker'.job = ticker.job
        /\ \/ ticker'.pc = "append"
           \/ ticker'.pc = "reread" /\ fired' = fired
    BY <1>5, <2>1 DEF TickSeed, TickTask
  <2>5. fired' = fired \/ fired' = fired \cup
          {[slot |-> ticker.slot, at |-> now, cap |-> ticker.cap]}
    BY <1>5 DEF TickSeed
  <2>6. ticker.slot \in Nat /\ ticker.job.next \in Nat
    BY <2>1 DEF TickTask, CronJob
  <2>7. AtMostOnce'
    BY <2>3, <2>5, <2>6
  <2>8. Armed(ticker.job.next)'
    BY <2>1, <2>2, <2>3, <2>4, <2>5, <2>6
  <2>9. ticker' # IdleTask
    BY <1>i, <2>4
  <2> QED
    BY <1>f, <2>1, <2>2, <2>4, <2>7, <2>8, <2>9
<1>6. CASE TickAppend
  <2>1. ticker \in TickTask /\ firing = IdleTask /\ editor = IdleTask
    BY <1>6, <1>b DEF TickAppend
  <2>2. /\ ticker'.job = ticker.job /\ ticker'.pc = "count" /\ ticker.pc = "append"
        /\ fired' = fired
    BY <1>6, <2>1 DEF TickAppend, TickerTo, TickTask, cronHist
  <2>3. ticker # IdleTask
    BY <1>i, <2>2
  <2> QED
    BY <1>f, <2>1, <2>2, <2>3
<1>7. CASE TickCount
  <2>1. ticker \in TickTask /\ firing = IdleTask /\ editor = IdleTask /\ ticker # IdleTask
    BY <1>7, <1>b DEF TickCount
  <2>2. cjob' = {[ticker.job EXCEPT !.fires = @ + 1]}
    BY <1>7 DEF TickCount, CountFire, CronSet, Note, Lossless
  <2>3. [ticker.job EXCEPT !.fires = @ + 1].next = ticker.job.next
    BY <2>1 DEF TickTask, CronJob
  <2>4. ticker'.job = ticker.job /\ ticker'.pc = "reread" /\ fired' = fired
    BY <1>7, <2>1 DEF TickCount, TickerTo, TickTask
  <2>5. ticker' # IdleTask
    BY <1>i, <2>4
  <2> QED
    BY <1>f, <2>1, <2>2, <2>3, <2>4, <2>5
<1>8. CASE Reread
  <2>1. ticker \in TickTask /\ firing = IdleTask /\ editor = IdleTask /\ ticker # IdleTask
    BY <1>8, <1>b DEF Reread
  <2>2. cjob' = cjob /\ fired' = fired /\ ticker.pc = "reread"
    BY <1>8 DEF Reread, cronStore
  <2>3. CASE ticker' = IdleTask
    BY <1>f, <1>i, <2>1, <2>2, <2>3
  <2>4. CASE \E j \in cjob :
               ticker' = [ticker EXCEPT !.pc = "settle",
                                        !.job = [j EXCEPT !.next = ticker.job.next]]
    <3>1. \A j \in cjob : [j EXCEPT !.next = ticker.job.next].next = ticker.job.next
      BY <1>t DEF CronTypeOK, CronJob
    <3>2. ticker'.pc = "settle" /\ ticker'.job.next = ticker.job.next
      BY <2>1, <2>4, <3>1 DEF TickTask
    <3>3. ticker' # IdleTask
      BY <1>i, <3>2
    <3> QED
      BY <1>f, <2>1, <2>2, <3>2, <3>3
  <2> QED
    BY <1>8, <2>3, <2>4 DEF Reread
<1>9. CASE SettleJob
  <2>1. ticker # IdleTask /\ firing = IdleTask /\ editor = IdleTask
    BY <1>9, <1>b DEF SettleJob
  <2>2. cjob' \in {cjob, {ticker.job}, {}} /\ fired' = fired /\ ticker' = IdleTask
    BY <1>9 DEF SettleJob, CronSet, CronRemove
  <2>3. ticker.pc = "settle"
    BY <1>9 DEF SettleJob
  <2> QED
    BY <1>f, <1>i, <2>1, <2>2, <2>3
<1> QED
  BY <1>1, <1>2, <1>3, <1>4, <1>5, <1>6, <1>7, <1>8, <1>9 DEF TickOnce

(* So does every other step: a trigger and an edit that meet no tick write  *)
(* back what was armed when they read it.                                   *)
LEMMA FreshStep ==
    ASSUME OnceInv, FreshOK, Apart', Lossless', [CronNext]_cronVars
    PROVE  FreshOK'
<1> USE DEF FreshOK, Armed, Before, AtMostOnce
<1>t. CronTypeOK /\ TimesOK /\ FreshOK
  BY DEF OnceInv
<1>i. IdleTask.pc = "idle"
  BY DEF IdleTask
<1>o. "overlap" \notin mishaps /\ "overlap" \notin mishaps'
  BY <1>t, MishapsGrow DEF Lossless
<1>1. CASE TickOnce
  BY <1>1, <1>t, FreshTick
<1>2. CASE FireNow
  <2>1. PICK j \in cjob, pc \in {"overlap", "seed"} :
          firing' = [pc |-> pc, job |-> j, at |-> now, run |-> {}]
    BY <1>2 DEF FireNow
  <2>2. UNCHANGED <<ticker, editor, fired, cjob>>
    BY <1>2 DEF FireNow, FiringOnly, cronStore
  <2>3. ticker' = IdleTask
    BY <1>i, <1>o, <2>1 DEF Apart
  <2> QED
    BY <1>i, <1>t, <2>1, <2>2, <2>3
<1>3. CASE FiringGoesOn
  <2>1. firing \in FireTask /\ firing # IdleTask
    BY <1>3, <1>i, <1>t, Busy
      DEF FiringGoesOn, FireRead, FireDecide, FireSeed, FireAppend, FireCount
  <2>2. UNCHANGED <<ticker, editor, fired>> /\ ticker = IdleTask
    BY <1>3, <1>o, <2>1 DEF FiringGoesOn, FireRead, FireDecide, FireSeed, FireAppend, FireCount,
         FiringOnly, OnceInv, Apart
  <2>3. firing' = IdleTask \/ firing'.job = firing.job
    BY <1>3, <2>1 DEF FiringGoesOn, FireRead, FireDecide, FireSeed, FireAppend, FireCount,
         FireTask
  <2>4. cjob' \in {cjob, {[firing.job EXCEPT !.fires = @ + 1]}}
    BY <1>3 DEF FiringGoesOn, FireRead, FireDecide, FireSeed, FireAppend, FireCount,
         SeedSession, AppendRun, CronRunAppend, CountFire, CronSet, cronStore
  <2>5. [firing.job EXCEPT !.fires = @ + 1].next = firing.job.next
    BY <2>1 DEF FireTask, CronJob
  <2> QED
    BY <1>i, <1>t, <2>1, <2>2, <2>3, <2>4, <2>5
<1>4. CASE EditRead
  <2>1. PICK j \in cjob, s \in CronSpecs, paused \in BOOLEAN :
          editor' = [pc |-> "write",
                     job |-> [j EXCEPT !.spec = s, !.paused = paused,
                                       !.next = IF paused THEN 0 ELSE NextAfter(s, now)]]
    BY <1>4 DEF EditRead
  <2>2. UNCHANGED <<ticker, firing, fired, cjob>>
    BY <1>4 DEF EditRead, EditorOnly, cronStore
  <2>3. now \in Nat /\ j \in CronJob /\ \A f \in fired : f.slot \in Nat /\ f.slot <= now
    BY <1>t, CronTimeAssumption DEF CronTypeOK, TimesOK, Fire
  <2>4. NextAfter(s, now) \in Nat /\ (NextAfter(s, now) = 0 \/ NextAfter(s, now) > now)
    BY <2>3, NextTyped
  <2>5. editor'.job.next \in {0, NextAfter(s, now)}
    BY <2>1, <2>3 DEF CronJob
  <2>6. editor'.job.next = 0 \/ \A f \in fired : f.slot < editor'.job.next
    BY <2>3, <2>4, <2>5
  <2> QED
    BY <1>t, <2>2, <2>6
<1>5. CASE EditWrite
  <2>1. editor # IdleTask /\ editor' = IdleTask
    BY <1>5, <1>i DEF EditWrite
  <2>2. UNCHANGED <<ticker, firing, fired>> /\ cjob' \in {cjob, {editor.job}}
    BY <1>5 DEF EditWrite, EditorOnly, CronSet
  <2> QED
    BY <1>t, <2>1, <2>2
<1>6. CASE Delete
  <2>1. UNCHANGED <<ticker, firing, editor, fired>> /\ cjob' \in {cjob, {}}
    BY <1>6 DEF Delete, EditorOnly, CronRemove
  <2> QED
    BY <1>t, <2>1
<1>7. CASE \/ \E t \in 1 .. MaxTime :
               SessionStarts(t) \/ SessionSuspends(t) \/ SessionResumes(t) \/ SessionEnds(t)
           \/ CronClock
           \/ UNCHANGED cronVars
  <2>1. UNCHANGED <<ticker, firing, editor, fired, cjob>>
    BY <1>7 DEF SessionStarts, SessionSuspends, SessionResumes, SessionEnds, SessionMoves,
         Environs, CronClock, cronVars, cronStore, cronHist
  <2> QED
    BY <1>t, <2>1
<1>8. CASE CronCrash
  <2>1. /\ ticker' = IdleTask /\ firing' = IdleTask /\ editor' = IdleTask
        /\ UNCHANGED <<fired, cjob>>
    BY <1>8 DEF CronCrash, Environs
  <2>2. ticker.pc \notin {"append", "count"}
    BY <1>8 DEF CronCrash, Note, Lossless
  <2> QED
    BY <1>i, <1>t, <2>1, <2>2
<1> QED
  BY <1>1, <1>2, <1>3, <1>4, <1>5, <1>6, <1>7, <1>8 DEF CronNext

(* OnceInv is inductive.                                                    *)
LEMMA OnceInductive == CronBehaviour => []OnceInv
<1>1. CronInit => TimesOK /\ Apart /\ FreshOK
  BY DEF CronInit, TimesOK, Apart, FreshOK, Armed, AtMostOnce, Before, IdleTask
<1>2. ASSUME OnceInv, [CronNext]_cronVars
      PROVE  OnceInv'
  <2>1. CronTypeOK' /\ TimesOK' /\ Apart'
    BY <1>2, TypeStep, TimesStep, ApartStep DEF OnceInv
  <2>2. ASSUME Lossless' PROVE FreshOK'
    <3>1. Lossless
      BY <1>2, <2>2, MishapsGrow DEF OnceInv, Lossless
    <3> QED
      BY <1>2, <2>1, <2>2, <3>1, FreshStep DEF OnceInv
  <2> QED
    BY <2>1, <2>2 DEF OnceInv
<1>3. CronInit /\ CronTypeOK => OnceInv
  BY <1>1 DEF OnceInv
<1> QED
  BY <1>2, <1>3, CronTypeCorrect, PTL DEF CronBehaviour

(* An occurrence is fired twice only after a fire whose clone was not       *)
(* written back, or after overlapping writers: nothing else, in any number, *)
(* makes tick_once fire an occurrence again.                                *)
THEOREM FiresOnceUnlessLost == CronBehaviour => []OnceUnlessLost
<1>1. OnceInv => OnceUnlessLost
  BY DEF OnceInv, OnceUnlessLost, FreshOK, Lossless
<1> QED
  BY <1>1, OnceInductive, PTL

-----------------------------------------------------------------------------
(* The repeat cap.  Room(j) says that j counts every fire so far and has    *)
(* one left; it holds of the row and of every clone, except from a fire to  *)
(* the end of its tick, where the row or the clone is one behind.           *)
After == {"append", "count", "reread", "settle"}

Agrees(j) == \A f \in fired : f.cap = j.spec.repeat

Room(j) ==
    /\ Cardinality(fired) <= j.fires
    /\ j.spec.repeat > 0 => Cardinality(fired) < j.spec.repeat

CountOK ==
    /\ \A f \in fired : f.cap > 0 => Cardinality(fired) <= f.cap
    /\ \A j \in cjob : Agrees(j)
    /\ ticker.pc \notin After => \A j \in cjob : Room(j)
    /\ ticker # IdleTask =>
          /\ Agrees(ticker.job)
          /\ ticker.job.spec.repeat = ticker.cap
          /\ \A j \in cjob : j.spec.repeat = ticker.cap
    /\ ticker.pc \in Before => Room(ticker.job)
    /\ ticker.pc \in {"append", "count"} => Cardinality(fired) <= ticker.job.fires + 1
    /\ ticker.pc = "reread" => \A j \in cjob : Cardinality(fired) <= j.fires
    /\ ticker.pc = "settle" => Cardinality(fired) <= ticker.job.fires
    /\ firing # IdleTask => Agrees(firing.job) /\ Room(firing.job)
    /\ editor # IdleTask => Agrees(editor.job) /\ Room(editor.job)

(* cron_set and cron_remove keep at most one row.                           *)
Single == \A j, k \in cjob : j = k

CapInv == CronTypeOK /\ Apart /\ Single /\ IsFiniteSet(fired) /\ (mishaps = {} => CountOK)

(* A seed adds at most one session to the history.                          *)
LEMMA FiredGrows ==
    ASSUME IsFiniteSet(fired), NEW x
    PROVE  /\ IsFiniteSet(fired \cup {x})
           /\ Cardinality(fired) \in Nat
           /\ Cardinality(fired \cup {x}) \in {Cardinality(fired), Cardinality(fired) + 1}
  BY FS_AddElement, FS_CardinalityType

LEMMA FiniteStep ==
    ASSUME IsFiniteSet(fired), [CronNext]_cronVars
    PROVE  IsFiniteSet(fired')
<1>1. CASE TickSeed
  BY <1>1, FiredGrows DEF TickSeed
<1>2. CASE ~TickSeed
  BY <1>2 DEF CronNext, TickOnce, CronDue, ReconcileRead, ReconcileStatus, MarkFinished,
         StampJob, InFlightRead, Decide, Rearm, TickAppend, TickCount, Reread, SettleJob,
         FireNow, FiringGoesOn, FireRead, FireDecide, FireSeed, FireAppend, FireCount,
         FiringOnly, EditRead, EditWrite, Delete, EditorOnly, SessionStarts, SessionSuspends,
         SessionResumes, SessionEnds, SessionMoves, Environs, CronClock, CronCrash, cronHist,
         cronVars
<1> QED
  BY <1>1, <1>2

LEMMA SingleStep ==
    ASSUME Single, [CronNext]_cronVars
    PROVE  Single'
<1>1. \/ cjob' = cjob \/ cjob' = {} \/ \E j : cjob' = {j}
  BY DEF CronNext, TickOnce, CronDue, ReconcileRead, ReconcileStatus, MarkFinished,
         StampJob, InFlightRead, Decide, Rearm, TickSeed, TickAppend, TickCount, Reread,
         SettleJob, FireNow, FiringGoesOn, FireRead, FireDecide, FireSeed, FireAppend,
         FireCount, EditRead, EditWrite, Delete, SessionStarts, SessionSuspends,
         SessionResumes, SessionEnds, SessionMoves, Environs, CronClock, CronCrash, cronStore,
         CronSet, CronRemove, CronRunAppend, AppendRun, CountFire, SeedSession, cronVars
<1> QED
  BY <1>1 DEF Single

(* The tick keeps the count: a fire takes the last room only in a tick that *)
(* removes the job, or it ends on record.                                   *)
LEMMA CountTick ==
    ASSUME CapInv, CountOK, mishaps = {}, mishaps' = {}, TickOnce
    PROVE  CountOK'
<1> USE DEF CountOK, Agrees, Room, Before, After
<1>t. CronTypeOK
  BY DEF CapInv
<1>i. IdleTask.pc = "idle"
  BY DEF IdleTask
<1>c. Cardinality(fired) \in Nat
  BY FS_CardinalityType DEF CapInv
<1>s. \A j \in CronJob : j.spec \in CronSpecs /\ j.spec.repeat \in Nat /\ j.fires \in Nat
  BY CronSpecAssumption DEF CronJob, CronSpec
<1>f. firing' = firing /\ editor' = editor
  BY DEF TickOnce, CronDue, ReconcileRead, ReconcileStatus, MarkFinished, StampJob,
         InFlightRead, Decide, Rearm, TickSeed, TickAppend, TickCount, Reread, SettleJob,
         TickerOnly
<1>b. ASSUME ticker.pc # "idle"
      PROVE  ticker \in TickTask /\ ticker # IdleTask /\ firing = IdleTask /\ editor = IdleTask
  BY <1>b, <1>i, <1>t, Busy DEF CapInv, Apart
<1>1. CASE CronDue
  <2>1. PICK j \in cjob : ticker = IdleTask /\
          ticker' = [pc |-> "reconcile", job |-> j, slot |-> j.next,
                     cap |-> j.spec.repeat, at |-> now, run |-> {}]
    BY <1>1 DEF CronDue
  <2>2. UNCHANGED <<cjob, fired>>
    BY <1>1 DEF CronDue, cronStore
  <2>3. \A k \in cjob : k = j
    BY DEF CapInv, Single
  <2> QED
    BY <1>f, <1>i, <2>1, <2>2, <2>3
<1>2. CASE ReconcileRead \/ ReconcileStatus \/ InFlightRead \/ MarkFinished \/ StampJob
  <2>1. /\ ticker \in TickTask /\ ticker # IdleTask /\ firing = IdleTask /\ editor = IdleTask
        /\ ticker.pc \in Before \ {"seed"}
    BY <1>2, <1>b DEF ReconcileRead, ReconcileStatus, InFlightRead, MarkFinished, StampJob
  <2>2. /\ ticker'.job = ticker.job /\ ticker'.cap = ticker.cap
        /\ ticker'.pc \in Before \ {"seed"}
    BY <1>2, <2>1 DEF ReconcileRead, ReconcileStatus, InFlightRead, MarkFinished, StampJob,
         TickerTo, TickTask
  <2>3. cjob' \in {cjob, {ticker.job}} /\ fired' = fired
    BY <1>2 DEF ReconcileRead, ReconcileStatus, InFlightRead, MarkFinished, StampJob,
         CronRunAppend, CronSet, cronStore, cronHist
  <2> QED
    BY <1>f, <2>1, <2>2, <2>3
<1>3. CASE Decide
  <2>1. /\ ticker \in TickTask /\ ticker # IdleTask /\ firing = IdleTask /\ editor = IdleTask
        /\ ticker.pc = "decide"
    BY <1>3, <1>b DEF Decide
  <2>2. UNCHANGED <<cjob, fired>>
    BY <1>3 DEF Decide, cronStore, cronHist
  <2>4. CASE ticker' = IdleTask
    BY <1>f, <1>i, <2>1, <2>2, <2>4
  <2>5. CASE \E pc \in {"seed", "rearm"} :
               ticker' = [ticker EXCEPT !.pc = pc,
                            !.job.next = NextAfter(ticker.job.spec, ticker.at)]
    <3> DEFINE n == NextAfter(ticker.job.spec, ticker.at)
    <3>1. ticker.job \in CronJob
      BY <2>1 DEF TickTask
    <3> HIDE DEF n
    <3>2. LET j == [ticker.job EXCEPT !.next = n]
          IN  j.spec = ticker.job.spec /\ j.fires = ticker.job.fires
      BY <3>1 DEF CronJob
    <3>3. /\ ticker'.pc \in {"seed", "rearm"} /\ ticker'.cap = ticker.cap
          /\ ticker'.job.spec = ticker.job.spec /\ ticker'.job.fires = ticker.job.fires
      BY <2>1, <2>5, <3>2 DEF TickTask, n
    <3> QED
      BY <1>f, <2>1, <2>2, <3>3
  <2> QED
    BY <1>3, <2>4, <2>5, Zenon DEF Decide
<1>4. CASE Rearm
  <2>1. ticker # IdleTask /\ firing = IdleTask /\ editor = IdleTask /\ ticker.pc = "rearm"
    BY <1>4, <1>b DEF Rearm
  <2>2. cjob' \in {cjob, {ticker.job}, {}} /\ fired' = fired /\ ticker' = IdleTask
    BY <1>4 DEF Rearm, CronSet, CronRemove, cronHist
  <2> QED
    BY <1>f, <1>i, <2>1, <2>2
<1>5. CASE TickSeed
  <2>1. /\ ticker \in TickTask /\ ticker # IdleTask /\ firing = IdleTask /\ editor = IdleTask
        /\ ticker.pc = "seed" /\ cjob' = cjob
    BY <1>5, <1>b DEF TickSeed, SeedSession
  <2>2. ticker.cap \in Nat /\ ticker.job \in CronJob
    BY <2>1 DEF TickTask
  <2>3. /\ ticker'.job = ticker.job /\ ticker'.cap = ticker.cap
        /\ \/ ticker'.pc = "append"
           \/ ticker'.pc = "reread" /\ fired' = fired
    BY <1>5, <2>1 DEF TickSeed, TickTask
  <2> DEFINE x == [slot |-> ticker.slot, at |-> now, cap |-> ticker.cap]
  <2>4. fired' = fired \/ fired' = fired \cup {x}
    BY <1>5 DEF TickSeed
  <2>5. x.cap = ticker.cap
    OBVIOUS
  <2> HIDE DEF x
  <2>6. Cardinality(fired') \in {Cardinality(fired), Cardinality(fired) + 1}
    BY <2>4, FiredGrows DEF CapInv
  <2>7. \A f \in fired' : f.cap = ticker.cap
    BY <2>1, <2>4, <2>5
  <2>8. \A j \in cjob : j.spec.repeat = ticker.cap
    BY <2>1
  <2>9. Cardinality(fired') <= ticker.job.fires + 1
    BY <1>c, <1>s, <2>1, <2>2, <2>6
  <2>10. ticker.cap > 0 => Cardinality(fired') <= ticker.cap
    BY <1>c, <2>1, <2>2, <2>6
  <2>11. ticker'.pc = "reread" => \A j \in cjob : Cardinality(fired') <= j.fires
    BY <2>1, <2>3
  <2> QED
    BY <1>f, <2>1, <2>3, <2>7, <2>8, <2>9, <2>10, <2>11
<1>6. CASE TickAppend
  <2>1. /\ ticker \in TickTask /\ ticker # IdleTask /\ firing = IdleTask /\ editor = IdleTask
        /\ ticker.pc = "append"
    BY <1>6, <1>b DEF TickAppend
  <2>2. /\ ticker'.job = ticker.job /\ ticker'.cap = ticker.cap /\ ticker'.pc = "count"
        /\ UNCHANGED <<fired, cjob>>
    BY <1>6, <2>1 DEF TickAppend, AppendRun, CronRunAppend, TickerTo, TickTask, cronHist
  <2> QED
    BY <1>f, <2>1, <2>2
<1>7. CASE TickCount
  <2>1. /\ ticker \in TickTask /\ ticker # IdleTask /\ firing = IdleTask /\ editor = IdleTask
        /\ ticker.pc = "count"
    BY <1>7, <1>b DEF TickCount
  <2> DEFINE k == [ticker.job EXCEPT !.fires = @ + 1]
  <2>2. cjob' = {k}
    BY <1>7 DEF TickCount, CountFire, CronSet, Note
  <2>3. k.spec = ticker.job.spec /\ k.fires = ticker.job.fires + 1
    BY <2>1 DEF TickTask, CronJob
  <2>4. /\ ticker'.job = ticker.job /\ ticker'.cap = ticker.cap /\ ticker'.pc = "reread"
        /\ fired' = fired
    BY <1>7, <2>1 DEF TickCount, TickerTo, TickTask
  <2> HIDE DEF k
  <2> QED
    BY <1>f, <2>1, <2>2, <2>3, <2>4
<1>8. CASE Reread
  <2>1. /\ ticker \in TickTask /\ ticker # IdleTask /\ firing = IdleTask /\ editor = IdleTask
        /\ ticker.pc = "reread"
    BY <1>8, <1>b DEF Reread
  <2>2. cjob' = cjob /\ fired' = fired
    BY <1>8 DEF Reread, cronStore
  <2>3. \/ ticker' = IdleTask /\ cjob = {}
        \/ \E j \in cjob :
              ticker' = [ticker EXCEPT !.pc = "settle",
                                       !.job = [j EXCEPT !.next = ticker.job.next]]
    BY <1>8 DEF Reread, Note
  <2>4. CASE ticker' = IdleTask /\ cjob = {}
    BY <1>f, <1>i, <2>1, <2>2, <2>4
  <2>5. ASSUME NEW j \in cjob,
               ticker' = [ticker EXCEPT !.pc = "settle",
                                        !.job = [j EXCEPT !.next = ticker.job.next]]
        PROVE  CountOK'
    <3> DEFINE k == [j EXCEPT !.next = ticker.job.next]
    <3>1. k.spec = j.spec /\ k.fires = j.fires
      BY <1>t DEF CronTypeOK, CronJob
    <3>2. ticker'.pc = "settle" /\ ticker'.job = k /\ ticker'.cap = ticker.cap
      BY <2>1, <2>5 DEF TickTask
    <3> HIDE DEF k
    <3> QED
      BY <1>f, <2>1, <2>2, <3>1, <3>2
  <2> QED
    BY <2>3, <2>4, <2>5
<1>9. CASE SettleJob
  <2>1. /\ ticker \in TickTask /\ ticker # IdleTask /\ firing = IdleTask /\ editor = IdleTask
        /\ ticker.pc = "settle"
    BY <1>9, <1>b DEF SettleJob
  <2>2. fired' = fired /\ ticker' = IdleTask
    BY <1>9 DEF SettleJob
  <2>3. cjob' = {} \/ (cjob' = {ticker.job} /\ ~Exhausted(ticker))
    BY <1>9 DEF SettleJob, CronSet, CronRemove, Note
  <2>4. ticker.cap \in Nat /\ ticker.job.fires \in Nat
    BY <1>s, <2>1 DEF TickTask
  <2>5. ~Exhausted(ticker) => Room(ticker.job)
    BY <1>c, <2>1, <2>4 DEF Exhausted
  <2> QED
    BY <1>f, <1>i, <2>1, <2>2, <2>3, <2>5
<1> QED
  BY <1>1, <1>2, <1>3, <1>4, <1>5, <1>6, <1>7, <1>8, <1>9 DEF TickOnce

(* So does every other step: a trigger counts one more, an edit that keeps  *)
(* the cap writes back what it read, and no crash cuts a fire short.        *)
LEMMA CountStep ==
    ASSUME CapInv, CountOK, Apart', mishaps = {}, mishaps' = {}, [CronNext]_cronVars
    PROVE  CountOK'
<1> USE DEF CountOK, Agrees, Room, Before, After
<1>t. CronTypeOK /\ Apart
  BY DEF CapInv
<1>i. IdleTask.pc = "idle"
  BY DEF IdleTask
<1>c. Cardinality(fired) \in Nat
  BY FS_CardinalityType DEF CapInv
<1>1. CASE TickOnce
  BY <1>1, CountTick
<1>2. CASE FireNow
  <2>1. PICK j \in cjob, pc \in {"overlap", "seed"} :
          firing' = [pc |-> pc, job |-> j, at |-> now, run |-> {}]
    BY <1>2 DEF FireNow
  <2>2. UNCHANGED <<ticker, editor, fired, cjob>>
    BY <1>2 DEF FireNow, FiringOnly, cronStore
  <2>3. ticker' = IdleTask
    BY <1>i, <2>1 DEF Apart
  <2> QED
    BY <1>i, <2>1, <2>2, <2>3
<1>3. CASE FiringGoesOn
  <2>1. firing \in FireTask /\ firing # IdleTask
    BY <1>3, <1>i, <1>t, Busy
      DEF FiringGoesOn, FireRead, FireDecide, FireSeed, FireAppend, FireCount
  <2>2. UNCHANGED <<ticker, editor, fired>> /\ ticker = IdleTask
    BY <1>3, <1>t, <2>1 DEF FiringGoesOn, FireRead, FireDecide, FireSeed, FireAppend, FireCount,
         FiringOnly, Apart
  <2>3. firing' = IdleTask \/ firing'.job = firing.job
    BY <1>3, <2>1 DEF FiringGoesOn, FireRead, FireDecide, FireSeed, FireAppend, FireCount,
         FireTask
  <2> DEFINE k == [firing.job EXCEPT !.fires = @ + 1]
  <2>4. cjob' = cjob \/ cjob' = {k}
    BY <1>3 DEF FiringGoesOn, FireRead, FireDecide, FireSeed, FireAppend, FireCount,
         SeedSession, AppendRun, CronRunAppend, CountFire, CronSet, cronStore
  <2>5. k.spec = firing.job.spec /\ k.fires = firing.job.fires + 1 /\ firing.job.fires \in Nat
    BY <2>1 DEF FireTask, CronJob
  <2> HIDE DEF k
  <2>6. Agrees(firing.job) /\ Room(firing.job)
    BY <2>1
  <2>7. Agrees(k) /\ Room(k)
    BY <1>c, <2>5, <2>6
  <2> QED
    BY <1>i, <2>1, <2>2, <2>3, <2>4, <2>6, <2>7
<1>4. CASE EditRead
  <2>1. PICK j \in cjob, s \in CronSpecs, paused \in BOOLEAN :
          /\ editor' = [pc |-> "write",
                        job |-> [j EXCEPT !.spec = s, !.paused = paused,
                                          !.next = IF paused THEN 0 ELSE NextAfter(s, now)]]
          /\ s.repeat = j.spec.repeat
    BY <1>4 DEF EditRead, Note
  <2>2. UNCHANGED <<ticker, firing, fired, cjob>>
    BY <1>4 DEF EditRead, EditorOnly, cronStore
  <2>3. ticker' = IdleTask
    BY <1>i, <2>1 DEF Apart
  <2> DEFINE n == IF paused THEN 0 ELSE NextAfter(s, now)
             k == [j EXCEPT !.spec = s, !.paused = paused, !.next = n]
  <2>4. editor'.job = k
    BY <2>1
  <2> HIDE DEF n
  <2>5. k.spec = s /\ k.fires = j.fires
    BY <1>t DEF CronTypeOK, CronJob
  <2> HIDE DEF k
  <2>6. Agrees(j) /\ Room(j)
    BY <1>i, <2>2, <2>3
  <2>7. Agrees(k) /\ Room(k)
    BY <2>1, <2>5, <2>6
  <2> QED
    BY <1>i, <2>2, <2>3, <2>4, <2>7
<1>5. CASE EditWrite
  <2>1. editor # IdleTask /\ editor' = IdleTask /\ editor.pc = "write"
    BY <1>5, <1>i DEF EditWrite
  <2>2. UNCHANGED <<ticker, firing, fired>> /\ cjob' \in {cjob, {editor.job}}
    BY <1>5 DEF EditWrite, EditorOnly, CronSet
  <2>3. ticker = IdleTask
    BY <1>t, <2>1 DEF Apart
  <2> QED
    BY <1>i, <2>1, <2>2, <2>3
<1>6. CASE Delete
  <2>1. UNCHANGED <<ticker, firing, editor, fired>> /\ cjob' \in {cjob, {}}
    BY <1>6 DEF Delete, EditorOnly, CronRemove
  <2> QED
    BY <2>1
<1>7. CASE \/ \E t \in 1 .. MaxTime :
               SessionStarts(t) \/ SessionSuspends(t) \/ SessionResumes(t) \/ SessionEnds(t)
           \/ CronClock
           \/ UNCHANGED cronVars
  <2>1. UNCHANGED <<ticker, firing, editor, fired, cjob>>
    BY <1>7 DEF SessionStarts, SessionSuspends, SessionResumes, SessionEnds, SessionMoves,
         Environs, CronClock, cronVars, cronStore, cronHist
  <2> QED
    BY <2>1
<1>8. CASE CronCrash
  <2>1. /\ ticker' = IdleTask /\ firing' = IdleTask /\ editor' = IdleTask
        /\ UNCHANGED <<fired, cjob>>
    BY <1>8 DEF CronCrash, Environs
  <2>2. ticker.pc \notin After
    BY <1>8 DEF CronCrash, Note
  <2> QED
    BY <1>i, <2>1, <2>2
<1> QED
  BY <1>1, <1>2, <1>3, <1>4, <1>5, <1>6, <1>7, <1>8 DEF CronNext

(* CapInv is inductive.                                                     *)
LEMMA CapInductive == CronBehaviour => []CapInv
<1>1. CronInit => Apart /\ Single /\ IsFiniteSet(fired) /\ CountOK
  <2> SUFFICES ASSUME CronInit PROVE Apart /\ Single /\ IsFiniteSet(fired) /\ CountOK
    OBVIOUS
  <2>1. IsFiniteSet(fired) /\ Cardinality(fired) = 0 /\ fired = {}
    BY FS_EmptySet DEF CronInit
  <2>2. PICK s \in CronSpecs :
          cjob = {[spec |-> s, next |-> NextAfter(s, 1), paused |-> FALSE, fires |-> 0]}
    BY DEF CronInit
  <2>3. s.repeat \in Nat
    BY CronSpecAssumption DEF CronSpec
  <2>4. ticker = IdleTask /\ firing = IdleTask /\ editor = IdleTask
    BY DEF CronInit
  <2>5. \A j \in cjob : j.spec = s /\ j.fires = 0
    BY <2>2
  <2>6. CountOK
    BY <2>1, <2>3, <2>4, <2>5 DEF CountOK, Agrees, Room, IdleTask, Before, After
  <2> QED
    BY <2>1, <2>2, <2>4, <2>6 DEF Apart, Single
<1>2. ASSUME CapInv, [CronNext]_cronVars
      PROVE  CapInv'
  <2>1. CronTypeOK' /\ Apart' /\ Single' /\ IsFiniteSet(fired')
    BY <1>2, TypeStep, ApartStep, SingleStep, FiniteStep DEF CapInv
  <2>2. ASSUME mishaps' = {} PROVE CountOK'
    <3>1. mishaps = {}
      BY <1>2, <2>2, MishapsGrow DEF CapInv
    <3> QED
      BY <1>2, <2>1, <2>2, <3>1, CountStep DEF CapInv
  <2> QED
    BY <2>1, <2>2 DEF CapInv
<1>3. CronInit /\ CronTypeOK => CapInv
  BY <1>1 DEF CapInv
<1> QED
  BY <1>2, <1>3, CronTypeCorrect, PTL DEF CronBehaviour

(* Without a tick cut short, overlapping writers or a replaced cap, fires   *)
(* on schedule never exceed the repeat cap, however many triggers, edits,   *)
(* crashes and failed calls there were.                                     *)
THEOREM CapHoldsUnlessLost == CronBehaviour => []CapUnlessLost
<1>1. CapInv => CapUnlessLost
  BY DEF CapInv, CapUnlessLost, CountOK
<1> QED
  BY <1>1, CapInductive, PTL
=============================================================================
