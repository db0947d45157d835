---------------------------- MODULE DurableInbox ----------------------------
(***************************************************************************)
(* The promise of the durable inbox, without leases, claims or processes:  *)
(* inputs are accepted in order and folded into the session's conversation *)
(* in order, each exactly once, by one incarnation.  log records the pair  *)
(* of an input and the lease of the incarnation that folded it.            *)
(***************************************************************************)
EXTENDS Integers

CONSTANTS
    Session,
    Token           \* the leases incarnations run under

VARIABLES accepted, folded, log

inboxVars == <<accepted, folded, log>>

Init ==
    /\ accepted = [s \in Session |-> 0]
    /\ folded   = [s \in Session |-> 0]
    /\ log      = [s \in Session |-> {}]

Accept(s) ==
    /\ accepted' = [accepted EXCEPT ![s] = @ + 1]
    /\ UNCHANGED <<folded, log>>

(* One commit folds the inputs up to k.                                     *)
Fold(s, k, f) ==
    /\ folded[s] < k
    /\ k <= accepted[s]
    /\ folded' = [folded EXCEPT ![s] = k]
    /\ log'    = [log EXCEPT ![s] = @ \cup {<<i, f>> : i \in folded[s] + 1 .. k}]
    /\ UNCHANGED accepted

Next == \E s \in Session :
    \/ Accept(s)
    \/ \E f \in Token : \E k \in folded[s] + 1 .. accepted[s] : Fold(s, k, f)

Spec == Init /\ [][Next]_inboxVars
=============================================================================
