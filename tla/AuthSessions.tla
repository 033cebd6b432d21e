------------------------------ MODULE AuthSessions ------------------------------
(* Authentication in src/web.rs: the sessions map in memory over the           *)
(* auth_sessions table of camrelay-storage, and the API tokens.                *)
(*                                                                             *)
(* A call is one HTTP request; the calls of Calls run at the same time, each   *)
(* slot serving one request after the other.  A step ends where the handler    *)
(* awaits the storage, or between two locks if another call can tell.  Every   *)
(* storage operation may fail, a client that disconnects drops its call at an  *)
(* await, and a restart drops all calls and the map.  With database = FALSE    *)
(* there is no storage (JSON mode) and the map is all there is.                *)
(*                                                                             *)
(* Roles are what is_admin_role makes of them: owner and admin are "admin",    *)
(* the others "viewer".  A row that expires is like one find_session fails to  *)
(* read, which Find allows at any time; nothing else looks at expires_at.      *)
(* Left out: passwords (verify_user says yes, or nothing happens), the table   *)
(* of users (nobody's role changes), and audit_events, which is written after  *)
(* a response and read by no decision.                                         *)
EXTENDS Naturals

CONSTANTS
    Calls,      \* slots for requests in flight
    Tokens,     \* session tokens, each drawn at most once; bounds the logins
    ApiTokens,  \* tokens of the api_tokens table or of tokens.json
    Users,      \* the roles users of the table have
    None        \* no token

ASSUME SessionAssumption ==
    /\ Users \subseteq {"admin", "viewer"}
    /\ Tokens \cap ApiTokens = {}
    /\ None \notin Tokens \cup ApiTokens

VARIABLES
    database,   \* whether SQLite is in use; chosen at the start
    rows,       \* auth_sessions: the tokens that have a row
    cache,      \* keys of the sessions map
    role,       \* the principal of a session token: its role
    enabled,    \* API tokens that are enabled and have not expired
    op,         \* what each call asks for
    pc,         \* how far each call is
    tok,        \* the token it presents
    new,        \* the token it has drawn
    origin,     \* history: the token of the login or the API token a token stems from
    account,    \* history: role of the user who logged in; "misread" if user_role
                \* failed
    known,      \* history: tokens a response has delivered
    ended       \* history: origins logged out, or lost with a response or a restart

store   == <<database, rows, cache, role, enabled>>
call    == <<op, pc, tok, new>>
history == <<origin, account, known, ended>>
sessionVars == <<store, call, history>>

Roles    == {"admin", "viewer"}
Accounts == {"admin", "viewer", "misread"}
Steps    == {"idle", "find", "fill", "tokens", "serve", "rotate", "swap", "erase"}

SessionInit ==
    /\ database \in BOOLEAN
    /\ rows = {} /\ cache = {} /\ enabled = ApiTokens
    /\ role = [t \in Tokens |-> "viewer"] /\ account = [t \in Tokens |-> "viewer"]
    /\ op = [s \in Calls |-> "request"] /\ pc = [s \in Calls |-> "idle"]
    /\ tok = [s \in Calls |-> None] /\ new = [s \in Calls |-> None]
    /\ origin = [t \in Tokens |-> None]
    /\ known = {} /\ ended = {}

Fresh(t)  == origin[t] = None
Origin(t) == IF t \in ApiTokens THEN t ELSE origin[t]
RoleOf(t) == IF t \in ApiTokens THEN "admin" ELSE role[t]

Goto(s, p) == pc' = [pc EXCEPT ![s] = p]

\* The call is over and its slot is free again.
Finish(s) ==
    /\ Goto(s, "idle") /\ op' = [op EXCEPT ![s] = "request"]
    /\ tok' = [tok EXCEPT ![s] = None] /\ new' = [new EXCEPT ![s] = None]

Present(s, t) == tok' = [tok EXCEPT ![s] = t]

-------------------------------------------------------------------------------
(* login *)

\* Nobody knows the token before the response, so one step stands for the three
\* of the handler.  user_role is a second query: when it fails the role falls
\* back to owner.  Without SQLite the only user is the owner.  A client that
\* disconnects leaves a row behind; a login that fails leaves nothing.
Login(s) ==
    \E t \in Tokens, u \in (IF database THEN Users \cup {"misread"} ELSE {"admin"}) :
        /\ pc[s] = "idle" /\ Fresh(t)
        /\ origin' = [origin EXCEPT ![t] = t]
        /\ account' = [account EXCEPT ![t] = u]
        /\ role' = [role EXCEPT ![t] = IF u = "viewer" THEN u ELSE "admin"]
        /\ rows' = IF database THEN rows \cup {t} ELSE rows
        /\ \/ cache' = cache \cup {t} /\ known' = known \cup {t}
           \/ database /\ UNCHANGED <<cache, known>>
    /\ UNCHANGED <<database, enabled, call, ended>>

-------------------------------------------------------------------------------
(* authenticate_token, shared by auth_middleware, refresh_session, current_user *)

\* Where an authenticated call goes on.
Continue(o) == IF o = "request" THEN "serve"
               ELSE IF database THEN "rotate" ELSE "swap"

\* The map is asked first, and is not asked how old its entry is.
Begin(s, o, t) ==
    /\ pc[s] = "idle" /\ t \in known \cup ApiTokens
    /\ op' = [op EXCEPT ![s] = o]
    /\ Present(s, t)
    /\ Goto(s, IF t \in cache THEN Continue(o)
               ELSE IF database THEN "find" ELSE "tokens")
    /\ UNCHANGED <<store, new, history>>

\* find_session compares the expiry; an error counts as no row.
Find(s) ==
    /\ pc[s] = "find"
    /\ \/ tok[s] \in rows /\ Goto(s, "fill")
       \/ Goto(s, "tokens")
    /\ UNCHANGED <<store, op, tok, new, history>>

\* The answer of the storage goes into the map, whatever happened meanwhile.
Fill(s) ==
    /\ pc[s] = "fill"
    /\ cache' = cache \cup {tok[s]}
    /\ Goto(s, Continue(op[s]))
    /\ UNCHANGED <<database, rows, role, enabled, op, tok, new, history>>

\* Mutant: the principal of an API token is put into the map as well.
TokenListCached(s) ==
    /\ pc[s] = "tokens"
    /\ \/ /\ tok[s] \in enabled /\ cache' = cache \cup {tok[s]}
          /\ Goto(s, Continue(op[s])) /\ UNCHANGED <<op, tok, new>>
       \/ (database \/ tok[s] \notin enabled) /\ Finish(s) /\ UNCHANGED cache
    /\ UNCHANGED <<database, rows, role, enabled, history>>

\* list_api_tokens and token_is_valid; an error of the storage is a 401.
TokenList(s) ==
    /\ pc[s] = "tokens"
    /\ \/ tok[s] \in enabled /\ Goto(s, Continue(op[s])) /\ UNCHANGED <<op, tok, new>>
       \/ (database \/ tok[s] \notin enabled) /\ Finish(s)
    /\ UNCHANGED <<store, history>>

\* The handler behind auth_middleware: only an admin gets through with a request
\* that changes something, here the API tokens.
Serve(s) ==
    /\ pc[s] = "serve"
    /\ \/ UNCHANGED enabled
       \/ /\ RoleOf(tok[s]) = "admin"
          /\ \E k \in ApiTokens : enabled' \in {enabled \ {k}, enabled \cup {k}}
    /\ Finish(s)
    /\ UNCHANGED <<database, rows, cache, role, history>>

-------------------------------------------------------------------------------
(* refresh_session *)

\* t takes the place of the token the call presents.
Succeed(s, t) ==
    /\ Fresh(t)
    /\ new' = [new EXCEPT ![s] = t]
    /\ origin' = [origin EXCEPT ![t] = Origin(tok[s])]
    /\ role' = [role EXCEPT ![t] = RoleOf(tok[s])]

\* Mutant: DELETE and INSERT without a look at rows_affected.
RotateUnchecked(s) ==
    \E t \in Tokens :
        /\ pc[s] = "rotate" /\ Succeed(s, t)
        /\ rows' = (rows \ {tok[s]}) \cup {t}
        /\ Goto(s, "swap") /\ UNCHANGED <<op, tok>>
        /\ UNCHANGED <<database, cache, enabled, account, known, ended>>

\* Mutant: the insert fails after the delete was committed.
RotateTorn(s) ==
    /\ pc[s] = "rotate"
    /\ \/ \E t \in Tokens :
            /\ tok[s] \in rows /\ Succeed(s, t)
            /\ rows' = (rows \ {tok[s]}) \cup {t}
            /\ Goto(s, "swap") /\ UNCHANGED <<op, tok>>
       \/ rows' = rows \ {tok[s]} /\ Finish(s) /\ UNCHANGED <<role, origin>>
    /\ UNCHANGED <<database, cache, enabled, account, known, ended>>

\* rotate_session: one transaction moves the row, or finds none and the call is
\* a 401, or fails and changes nothing.  The expiry of the old row is not looked at.
Rotate(s) ==
    /\ pc[s] = "rotate"
    /\ \/ \E t \in Tokens :
            /\ tok[s] \in rows /\ Succeed(s, t)
            /\ rows' = (rows \ {tok[s]}) \cup {t}
            /\ Goto(s, "swap") /\ UNCHANGED <<op, tok>>
       \/ Finish(s) /\ UNCHANGED <<rows, role, origin>>
    /\ UNCHANGED <<database, cache, enabled, account, known, ended>>

\* The map, the old token out and the new one in: between the two locks nobody
\* knows the new one.  Without SQLite the principal is carried over as it is.
Swap(s) ==
    /\ pc[s] = "swap"
    /\ \E t \in Tokens :
         /\ IF database THEN t = new[s] /\ UNCHANGED <<origin, role>>
            ELSE /\ Fresh(t)
                 /\ origin' = [origin EXCEPT ![t] = Origin(tok[s])]
                 /\ role' = [role EXCEPT ![t] = RoleOf(tok[s])]
         /\ cache' = (cache \ {tok[s]}) \cup {t} /\ known' = known \cup {t}
    /\ Finish(s)
    /\ UNCHANGED <<database, rows, enabled, account, ended>>

-------------------------------------------------------------------------------
(* logout *)

\* The map first; nobody has to be authenticated for it.
Logout(s, t) ==
    /\ pc[s] = "idle" /\ t \in known
    /\ cache' = cache \ {t}
    /\ ended' = ended \cup {origin[t]}
    /\ IF database THEN Goto(s, "erase") /\ Present(s, t) ELSE UNCHANGED <<pc, tok>>
    /\ UNCHANGED <<database, rows, role, enabled, op, new, origin, account, known>>

\* delete_session; an error is ignored, and the answer is 204 all the same.
Erase(s) ==
    /\ pc[s] = "erase"
    /\ rows' \in {rows, rows \ {tok[s]}}
    /\ Finish(s)
    /\ UNCHANGED <<database, cache, role, enabled, history>>

-------------------------------------------------------------------------------
(* The client goes away, the process restarts. *)

\* Origins whose newest token only this call knows.
InHand(s) == IF pc[s] = "swap" THEN {Origin(tok[s])} ELSE {}

\* At an await the handler is dropped.  The storage may have done its part.
Disconnect(s) ==
    /\ database /\ pc[s] \in Steps \ {"idle"}
    /\ ended' = ended \cup InHand(s)
    /\ Finish(s)
    /\ UNCHANGED <<store, origin, account, known>>

Restart ==
    /\ cache' = {}
    /\ op' = [s \in Calls |-> "request"] /\ pc' = [s \in Calls |-> "idle"]
    /\ tok' = [s \in Calls |-> None] /\ new' = [s \in Calls |-> None]
    /\ ended' = IF database THEN ended \cup UNION {InHand(s) : s \in Calls}
                ELSE Tokens \cup ApiTokens
    /\ UNCHANGED <<database, rows, role, enabled, origin, account, known>>

-------------------------------------------------------------------------------
SessionStep(s) ==
    \/ Login(s)
    \/ \E o \in {"request", "refresh"}, t \in Tokens \cup ApiTokens : Begin(s, o, t)
    \/ Find(s) \/ Fill(s) \/ TokenList(s)
    \/ Rotate(s) \/ Swap(s)
    \/ \E t \in Tokens : Logout(s, t)
    \/ Erase(s)
    \/ Disconnect(s)

SessionNext == (\E s \in Calls : SessionStep(s) \/ Serve(s)) \/ Restart

SessionSpec == SessionInit /\ [][SessionNext]_sessionVars

-------------------------------------------------------------------------------
Token == Tokens \cup ApiTokens

SessionTypeOK ==
    /\ database \in BOOLEAN
    /\ rows \subseteq Tokens /\ cache \subseteq Tokens
    /\ role \in [Tokens -> Roles] /\ account \in [Tokens -> Accounts]
    /\ enabled \subseteq ApiTokens
    /\ op \in [Calls -> {"request", "refresh"}] /\ pc \in [Calls -> Steps]
    /\ tok \in [Calls -> Token \cup {None}] /\ new \in [Calls -> Tokens \cup {None}]
    /\ origin \in [Tokens -> Token \cup {None}]
    /\ known \subseteq Tokens
    /\ ended \subseteq Token

\* A session of SQLite that has lost its row, to a logout whose delete went through,
\* is over for good: neither its token nor a successor that a refresh under way
\* draws for it ever has a row again.  (The map may still accept the token, until
\* a restart: a lookup under way puts it back.)
RevokedStaysRevoked ==
    [][ \A o \in Tokens :
          origin[o] # None /\ (\A t \in rows : origin[t] # o)
              => \A t \in rows' : origin'[t] # o ]_sessionVars

\* However refreshes of one session race with each other, with its logout and
\* with failures, a login leaves at most one row in the table.
SessionDoesNotFork == \A t, u \in rows : origin[t] = origin[u] => t = u

\* A user who neither logged out nor lost a response of refresh holds a token
\* that is in the map or in the table, unless a refresh is about to deliver it:
\* a failed or a beaten refresh costs nobody the session.
SessionKept ==
    \A o \in known \ ended :
        origin[o] = o =>
            \/ \E t \in known : origin[t] = o /\ t \in cache \cup rows
            \/ \E s \in Calls : o \in InHand(s)

\* With SQLite no session stems from an API token, which could be revoked while
\* the session lives on, and a session has the role of the user who logged in,
\* unless reading that role failed at the login.
PrincipalIsJustified ==
    database => \A t \in cache \cup rows :
        /\ origin[t] \in Tokens
        /\ account[origin[t]] = "misread" \/ role[t] = account[origin[t]]
===============================================================================
