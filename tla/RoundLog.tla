------------------------------ MODULE RoundLog ------------------------------
(***************************************************************************)
(* The promise of a training run, without phases, clocks, evidence or      *)
(* membership: rounds are opened one at a time by an announced team, each  *)
(* over the data that follows the round before, and closed by one record   *)
(* of what team members committed.  A round may be given up; it is then    *)
(* opened again over the same data.                                        *)
(***************************************************************************)
EXTENDS Integers, FiniteSets

CONSTANTS
    Peer, Payload,
    Floor,          \* the smallest team
    Size(_)         \* how much data a round takes

VARIABLES
    round,          \* the rounds closed so far
    cursor,         \* the data they took
    team,           \* the team of the open round, none: {}
    announced,      \* the opens published
    log             \* the records published

logVars == <<round, cursor, team, announced, log>>

Init ==
    /\ round = 0
    /\ cursor = 0
    /\ team = {}
    /\ announced = {}
    /\ log = {}

(* Round r is opened over the data from c on.                               *)
Announce(r, c, members) ==
    /\ Cardinality(members) >= Floor
    /\ team' = members
    /\ announced' = announced \cup
          {[round |-> r, window |-> [start |-> c, end |-> c + Size(r)]]}

Open(members) ==
    /\ team = {}
    /\ Announce(round, cursor, members)
    /\ UNCHANGED <<round, cursor, log>>

(* A record has at most one entry of a peer, only the team's, and drops     *)
(* only members it has no entry of.                                         *)
Sound(entries, drops) ==
    /\ \A e, f \in entries : e[1] = f[1] => e = f
    /\ drops \cap {e[1] : e \in entries} = {}

(* The round is closed for good.  The next one opens at once, with those    *)
(* who are left, or later.                                                  *)
Close(entries, drops) ==
    /\ team # {}
    /\ Sound(entries, drops)
    /\ log' = log \cup {[round |-> round, entries |-> entries, drops |-> drops]}
    /\ round' = round + 1
    /\ cursor' = cursor + Size(round)
    /\ \/ team' = {} /\ UNCHANGED announced
       \/ Announce(round + 1, cursor + Size(round), team \ drops)

GiveUp ==
    /\ team' = {}
    /\ UNCHANGED <<round, cursor, announced, log>>

Next ==
    \/ \E members \in SUBSET Peer : Open(members)
    \/ \E entries \in SUBSET (team \X Payload), drops \in SUBSET team : Close(entries, drops)
    \/ GiveUp

Spec == Init /\ [][Next]_logVars
=============================================================================
