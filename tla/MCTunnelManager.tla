---------------------------- MODULE MCTunnelManager ----------------------------
(* Instance of TunnelManager for TLC: calls 1..N of start or stop on two       *)
(* cameras that were given the same local port (nothing in the JSON            *)
(* configuration forbids it), so tunnels of one camera and of two compete.     *)
EXTENDS TunnelManager, TLC

CONSTANTS c1, c2, p1

MCPortOf == (c1 :> p1) @@ (c2 :> p1)

Rank(q) == (IF q.camera = c1 THEN 0 ELSE 2) + (IF q.op = "start" THEN 0 ELSE 1)

\* Calls are interchangeable: keep one of the initial states that differ only in
\* which call asks for what.
MCInit == Init /\ \A r, s \in Requests : r < s => Rank(request[r]) <= Rank(request[s])

MCSpec == MCInit /\ [][Next]_vars /\ Fairness
===============================================================================
