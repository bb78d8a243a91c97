------------------------------ MODULE MCFailover ------------------------------
(* Failover for TLC: the role assignment of the run. *)
EXTENDS Failover

\* Two primaries, a secondary and a fallback.
AllRoles == <<1, 1, 2, 3>>
===============================================================================
