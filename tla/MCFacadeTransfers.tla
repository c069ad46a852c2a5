------------------------- MODULE MCFacadeTransfers -------------------------
(* Instances of FacadeTransfers for TLC. *)
EXTENDS FacadeTransfers, TLC

CONSTANTS alice, bob, a1, a2, b1

\* Two clients of one agent.
Siblings == (a1 :> alice) @@ (a2 :> alice) @@ (b1 :> bob)
=============================================================================
