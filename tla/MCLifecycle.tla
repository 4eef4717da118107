---------------------------- MODULE MCLifecycle -----------------------------
(* One call of each kind, and every configuration that starts servers.       *)
EXTENDS Lifecycle

CONSTANTS direct, gateway, route

MCConfig ==
  {c \in [DisableGRPC : BOOLEAN, DisableHTTP : BOOLEAN, Separate : BOOLEAN, ShutdownTimeout : BOOLEAN] :
     ~(c.DisableGRPC /\ c.DisableHTTP)}

=============================================================================
