----------------------------- MODULE MCMediaGateway ----------------------------
(* Instances of MediaGateway for TLC.  Safety and liveness share one run, so   *)
(* no symmetry is used.                                                        *)
EXTENDS MediaGateway
===============================================================================
