------------------------------ MODULE MCRecordings -----------------------------
(* Instances of Recordings for TLC.  A call is an archive or a cleanup by what   *)
(* it does, and its slot serves one request after another.  The range requests   *)
(* for a recording are evaluated beside it, for every file of up to MaxBytes     *)
(* bytes and with a U64 that the bounds of a range reach and pass.               *)
EXTENDS Recordings, RangeRequest

MaxBytes == 5

\* Every range request, and the request without one, gets the bytes it asks for.
ASSUME RangesServed ==
    \A size \in 1..MaxBytes :
        /\ ServesWhole(size)
        /\ \A first, last \in 0..(MaxBytes + 2) :
               ServesWanted(first, last, size) /\ ServesWanted(first, Open, size)
===============================================================================
