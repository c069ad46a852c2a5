--------------------------- MODULE MCRateLimiter ---------------------------
(* Instances of RateLimiter for TLC. *)
EXTENDS RateLimiter, TLC

\* The global limit is the wider one, as in the defaults (200 and 60 per minute).
Limits == ("global" :> 2) @@ ("send" :> 1)
=============================================================================
