------------------------------- MODULE MCViewPath -------------------------------
(* Two packets instead of five in the round of punches, counters modulo 20, one *)
(* duplicated datagram; two requests, two challenges; two tickets, sessions,    *)
(* viewers.                                                                     *)
EXTENDS ViewPath, TLC
===============================================================================
