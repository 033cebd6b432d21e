----------------------------- MODULE MCConfigStore -----------------------------
(* An instance of ConfigStore for TLC: two cameras, two ports, two requests at  *)
(* a time.                                                                      *)
EXTENDS ConfigStore, TLC

MCSymmetry == Permutations(Calls)
===============================================================================
