------------------------------ MODULE RealmStreams ------------------------------
(* What a running tunnel promises each local client, whatever its tasks and     *)
(* channels do: the chunks that dh_reader took off the socket for the client's  *)
(* realm, each once and in the order they came, until the client's writer ends. *)
(* What the network loses before the socket is nobody's promise.                *)
EXTENDS Naturals, Sequences

CONSTANT Clients

VARIABLES
    stream,     \* "none", "run", "ended"
    taken,      \* how many chunks came for the client
    delivered   \* the chunks written to it

vars == <<stream, taken, delivered>>

Init ==
    /\ stream = [c \in Clients |-> "none"]
    /\ taken = [c \in Clients |-> 0]
    /\ delivered = [c \in Clients |-> <<>>]

Open(c) ==
    /\ stream[c] = "none"
    /\ stream' = [stream EXCEPT ![c] = "run"]
    /\ UNCHANGED <<taken, delivered>>

Take(c) ==
    /\ taken' = [taken EXCEPT ![c] = @ + 1]
    /\ UNCHANGED <<stream, delivered>>

\* The next chunk, which must have come.
Hand(c) ==
    /\ stream[c] = "run" /\ Len(delivered[c]) < taken[c]
    /\ delivered' = [delivered EXCEPT ![c] = Append(@, Len(@) + 1)]
    /\ UNCHANGED <<stream, taken>>

\* A stream that has ended is not opened again.
Close(c) ==
    /\ stream[c] = "run"
    /\ stream' = [stream EXCEPT ![c] = "ended"]
    /\ UNCHANGED <<taken, delivered>>

Next == \E c \in Clients : Open(c) \/ Take(c) \/ Hand(c) \/ Close(c)

Spec == Init /\ [][Next]_vars
===============================================================================
