------------------------------ MODULE Limiter -------------------------------
(***************************************************************************)
(* What the rate limiter promises the calls that pass through it: each key *)
(* has a budget of Limit grants, only the passage of time renews it, and a *)
(* caller is refused only when the budget of its key is used up.           *)
(***************************************************************************)
EXTENDS Naturals

CONSTANTS Caller, Key, Limit

VARIABLES
  keyOf,     \* the key of each caller, which the limiter is told
  granted,   \* grants to each key since its budget was last renewed
  refused    \* the callers whose last request was refused

Renewed(expired) == [k \in Key |-> IF k \in expired THEN 0 ELSE granted[k]]

LimiterInit == granted = [k \in Key |-> 0] /\ refused = {}

\* A slip: one call too many.
GrantOneMore(c, expired) ==
  /\ Renewed(expired)[keyOf[c]] <= Limit
  /\ granted' = [Renewed(expired) EXCEPT ![keyOf[c]] = @ + 1]
  /\ refused' = refused \ {c}

\* A call is let through; the budgets in expired are renewed with it.
Grant(c, expired) ==
  /\ Renewed(expired)[keyOf[c]] < Limit
  /\ granted' = [Renewed(expired) EXCEPT ![keyOf[c]] = @ + 1]
  /\ refused' = refused \ {c}

Deny(c, expired) ==
  /\ Renewed(expired)[keyOf[c]] = Limit
  /\ granted' = Renewed(expired)
  /\ refused' = refused \cup {c}

LimiterNext == \E c \in Caller, expired \in SUBSET Key : Grant(c, expired) \/ Deny(c, expired)

LimiterSpec == LimiterInit /\ [][LimiterNext]_<<granted, refused>>

=============================================================================
