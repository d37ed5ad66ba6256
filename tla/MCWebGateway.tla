---------------------------- MODULE MCWebGateway -----------------------------
(* Two polls that may overlap, and a session that keeps two events.      *)
EXTENDS WebGateway

CONSTANTS p1, p2

MCPolls == {p1, p2}
=============================================================================
