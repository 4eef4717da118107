------------------------------ MODULE MCBridge -----------------------------
(***************************************************************************)
(* Streams of two events and two ticks; bodies of up to four units with    *)
(* chunks and limits of up to four; one session that lasts two of four     *)
(* ticks of the clock, asked for by a socket of two messages and by one    *)
(* request beside it.                                                      *)
(***************************************************************************)
EXTENDS Bridge

CONSTANTS sock, req, s1

MCRequest == {sock, req}
MCSid == {s1}

=============================================================================
