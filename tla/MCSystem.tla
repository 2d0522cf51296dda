------------------------------ MODULE MCSystem ------------------------------
(* A system for TLC: two endpoints, so that one can fail to start or stop
   while the other does, and one member of every other kind. *)
EXTENDS System

CONSTANTS h1, s1, a1, e1, e2
MCHosts == {h1}
MCServices == {s1}
MCApplications == {a1}
MCEndpoints == {e1, e2}
=============================================================================
