---------------------------- MODULE MCTransfers ----------------------------
(* Instances of Transfers for TLC. *)
EXTENDS Transfers, TLC

CONSTANTS alice, bob, a1, a2

\* Two sessions of one agent.
Siblings == (a1 :> alice) @@ (a2 :> alice)

\* The first transfer loses its manifest first, the second its payload.
Both == <<"manifest", "payload">>
=============================================================================
