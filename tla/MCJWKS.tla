------------------------------- MODULE MCJWKS -------------------------------
(* Three callers, so that one can queue behind another that waits itself.    *)
EXTENDS JWKS

CONSTANTS c1, c2, c3

=============================================================================
