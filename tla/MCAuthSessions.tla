----------------------------- MODULE MCAuthSessions ----------------------------
(* An instance of AuthSessions for TLC: two requests in flight, three session   *)
(* tokens, so that two refreshes of one login can both draw one, and one API    *)
(* token.  Requests are interchangeable, and so are tokens.                     *)
EXTENDS AuthSessions, TLC

MCSymmetry == Permutations(Calls) \cup Permutations(Tokens)
===============================================================================
