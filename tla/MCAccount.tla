----------------------------- MODULE MCAccount -----------------------------
(* One account, one or two requests in flight.                             *)
EXTENDS Account

CONSTANTS r1, r2

=============================================================================
