---------------------------- MODULE MCActivation ----------------------------
(***************************************************************************)
(* TLC instances of Activation: the environment budgets of its runs.       *)
(***************************************************************************)
EXTENDS Activation, TLC

NoEvents == [e \in EnvEvent |-> 0]

Once(events) == [e \in EnvEvent |-> IF e \in events THEN 1 ELSE 0]

CrashAndFail == Once({"crash", "fail"})
OneEdit      == Once({"edit"})
OneInterrupt == Once({"interrupt"})
Rivals       == Once({"cut", "interrupt"})
OneProcess   == [Once(EnvEvent \ {"cut", "interrupt"}) EXCEPT !["assign"] = 2]

(* One process is exposed to two of the three faults, or to several callers *)
(* at once with one input on either rail and nothing to wait for.           *)
Faults ==
    /\ budget["crash"] + budget["fail"] + budget["retry"] > 0
    /\ budget["edit"] = 1 /\ budget["assign"] = 2
    /\ \A m \in Manager : client[m].pc # "reopen"

Callers ==
    /\ budget["crash"] = 1 /\ budget["retry"] = 1
    /\ enqueued = {}
    /\ \A s \in Session : /\ parked[s] = {} /\ lastSeq[s] <= 1
                          /\ \A op \in Observe : ~HasOp(s, op)

FaultsOrCallers == Faults \/ Callers

(* Rivals meet a foreign lease or an interrupt.                             *)
CutOrInterrupt == budget["cut"] + budget["interrupt"] > 0

(* One session lives, whichever is created first, and one fault happens: a  *)
(* crash or a failed turn.                                                  *)
Solo ==
    /\ \E s \in Session : \A t \in Session \ {s} : status[t] = "absent"
    /\ budget["crash"] + budget["fail"] > 0

SoloNext == Next /\ Solo'

SoloFairSpec == Init /\ [][SoloNext]_vars /\ Fairness

(* Sound where no op is context-only.                                       *)
Symmetry == Permutations(Manager) \cup Permutations(Op)
=============================================================================
