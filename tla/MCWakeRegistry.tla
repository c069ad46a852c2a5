--------------------------- MODULE MCWakeRegistry ---------------------------
(***************************************************************************)
(* An instance of WakeRegistry: two profiles that may agree on a secret or *)
(* not, lack one, override it for the wake route, or listen on an address  *)
(* the bridge refuses.                                                     *)
(***************************************************************************)
EXTENDS WakeRegistry

CONSTANTS a1, alice, bob

Directories == <<alice, bob>>

Webhook(secret, route, host) ==
    [enabled |-> TRUE, secret |-> secret, route |-> route, host |-> host]

Settings ==
    {Webhook("k1", "", "public"), Webhook("k1", "k2", "public"), Webhook("k2", "", "any"),
     [Webhook("k1", "", "public") EXCEPT !.enabled = FALSE]}
=============================================================================
