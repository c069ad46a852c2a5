------------------------------ MODULE MCFacade ------------------------------
(* Instances of Facade for TLC. *)
EXTENDS Facade, TLC

CONSTANTS alice, bob, a1, a2, b1, t1, t2

\* One client per agent.
Leaders == (a1 :> alice) @@ (b1 :> bob)

\* A local bridge beside a client of the same agent.
Mixed == (a1 :> alice) @@ (a2 :> alice) @@ (b1 :> bob)

\* The worker threads are alike.
ThreadSymmetry == Permutations({t1, t2})
=============================================================================
