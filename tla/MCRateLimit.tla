---------------------------- MODULE MCRateLimit -----------------------------
(* Two callers that share a key, and one of another key whose requests sweep *)
(* the windows.                                                              *)
EXTENDS RateLimit, TLC

CONSTANTS t1, t2, t3, k1, k2

MCKeyOf == (t1 :> k1) @@ (t2 :> k1) @@ (t3 :> k2)

Symmetry == Permutations({t1, t2})

=============================================================================
