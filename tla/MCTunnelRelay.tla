----------------------------- MODULE MCTunnelRelay -----------------------------
(* Instance of TunnelRelay for TLC: channels so short that every sender meets  *)
(* a full one, one client that talks both ways and one that only receives, but *)
(* enough to fill its channel and to hold up dh_reader behind it.              *)
EXTENDS TunnelRelay

MCMaxUp   == <<1, 0>>
MCMaxDown == <<1, 2>>
===============================================================================
