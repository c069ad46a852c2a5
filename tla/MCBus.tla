------------------------------- MODULE MCBus -------------------------------
(* Instances of Bus for TLC. *)
EXTENDS Bus, TLC

CONSTANTS alice, bob, a1, a2, b1

\* One session per agent: the leader at the gateway.
Leaders == (a1 :> alice) @@ (b1 :> bob)

\* Two sessions of alice, one of bob.
Siblings == (a1 :> alice) @@ (a2 :> alice) @@ (b1 :> bob)

\* alice's two sessions can change places.
SiblingSymmetry == Permutations({a1, a2})
=============================================================================
