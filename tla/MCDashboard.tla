----------------------------- MODULE MCDashboard -----------------------------
EXTENDS Dashboard, TLC

CONSTANTS u1, u2, b1, b2

Owners == b1 :> u1 @@ b2 :> u1
=============================================================================
