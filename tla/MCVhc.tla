------------------------------- MODULE MCVhc -------------------------------
(* Instances of the VHC coordinator.                                        *)
EXTENDS VhcCoordinator, TLC

CONSTANTS a, b, c, x

Allow(pause, attest, receipt, straggle, ready) ==
    [e \in VhcEvent |->
        CASE e = "pause" -> pause [] e = "attest" -> attest [] e = "receipt" -> receipt
          [] e = "straggle" -> straggle [] e = "ready" -> ready]

(* A pause, two attestations, a receipt, a straggler or a ready peer.       *)
Inputs == {Allow(1, 0, 0, 0, 0), Allow(0, 2, 0, 0, 0), Allow(0, 0, 1, 0, 0),
           Allow(0, 0, 0, 1, 0), Allow(0, 0, 0, 0, 1)}

APause == {Allow(1, 0, 0, 0, 0)}
=============================================================================
