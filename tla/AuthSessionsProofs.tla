--------------------------- MODULE AuthSessionsProofs ---------------------------
(* Proofs about AuthSessions, for every set of requests in flight, of tokens and *)
(* of users.                                                                     *)
EXTENDS AuthSessions, TLAPS

-------------------------------------------------------------------------------
(* What the properties rest on. *)

\* A call has a token that some response has delivered, or an API token.
Holding ==
    \A s \in Calls :
        /\ pc[s] = "idle" => tok[s] = None
        /\ pc[s] # "idle" => tok[s] \in known \cup ApiTokens
        /\ pc[s] \in {"fill", "erase"} => tok[s] \in known

\* Without SQLite no call waits for the storage.
JsonMode ==
    ~database => /\ rows = {}
                 /\ \A s \in Calls : pc[s] \in {"idle", "tokens", "serve", "swap"}

\* Every token in use has an origin, and an origin is its own.
Drawn ==
    /\ \A t \in known \cup rows \cup cache : origin[t] # None
    /\ \A t \in Tokens : origin[t] \in Tokens => origin[origin[t]] = origin[t]

\* Between the transaction of a refresh and its response the new token has the
\* row of the old one, and only this call knows it.
Carried ==
    database =>
        \A s \in Calls : pc[s] = "swap" =>
            /\ new[s] \in rows \ known
            /\ origin[new[s]] = Origin(tok[s])
            /\ tok[s] \notin rows
            /\ \A x \in Calls \ {s} : pc[x] = "swap" => new[x] # new[s]

Justified(t) ==
    /\ origin[t] \in Tokens
    /\ account[origin[t]] = "misread" \/ role[t] = account[origin[t]]

\* What is in the table, in the map or about to be put into the map.
Principals ==
    database => /\ \A t \in cache \cup rows : Justified(t)
                /\ \A s \in Calls : pc[s] = "fill" => Justified(tok[s])

\* The session of a login is where a restart finds it, or in the hand of a refresh.
Alive(o) ==
    \/ \E t \in known : origin[t] = o /\ t \in (IF database THEN rows ELSE cache)
    \/ \E s \in Calls : o \in InHand(s)

Survives ==
    /\ \A o \in known \ ended : origin[o] = o => Alive(o)
    /\ \A s \in Calls : pc[s] = "erase" => origin[tok[s]] \in ended

SessionInv ==
    /\ SessionTypeOK /\ Holding /\ JsonMode /\ Drawn /\ Carried
    /\ SessionDoesNotFork /\ Principals /\ Survives

-------------------------------------------------------------------------------
(* One lemma per action; under each, one step per part of the invariant. *)

\* A login adds one token nobody has seen.
LEMMA LoginInv ==
    ASSUME SessionInv, NEW s \in Calls, Login(s)
    PROVE  SessionInv'
<1>1. SessionTypeOK'
  BY SessionAssumption
  DEF SessionTypeOK, Token, Roles, Accounts, Login, call, SessionInv
<1>2. Holding'
  BY DEF Holding, Login, call, SessionInv
<1>3. JsonMode'
  BY DEF JsonMode, Login, call, SessionInv
<1>4. Drawn'
  BY SessionAssumption DEF Drawn, SessionTypeOK, Login, SessionInv
<1>5. Carried'
  BY SessionAssumption DEF Carried, Drawn, Origin, Login, Fresh, call, SessionInv
<1>6. SessionDoesNotFork'
  <2>1. PICK t \in Tokens :
          /\ origin[t] = None /\ origin' = [origin EXCEPT ![t] = t]
          /\ rows' \in {rows, rows \cup {t}}
    BY DEF Login, Fresh
  <2>2. \A u \in rows : origin'[u] = origin[u] /\ origin[u] # t
    BY <2>1 DEF SessionInv, SessionTypeOK, Drawn
  <2> QED
    BY <2>1, <2>2 DEF SessionInv, SessionTypeOK, SessionDoesNotFork
<1>7. Principals'
  <2>1. PICK t \in Tokens, a \in Accounts :
          /\ origin[t] = None /\ origin' = [origin EXCEPT ![t] = t]
          /\ account' = [account EXCEPT ![t] = a]
          /\ role' = [role EXCEPT ![t] = IF a = "viewer" THEN a ELSE "admin"]
          /\ rows' \subseteq rows \cup {t} /\ cache' \subseteq cache \cup {t}
          /\ UNCHANGED <<database, pc, tok>>
    BY SessionAssumption DEF Login, Fresh, Accounts, call
  <2>2. Justified(t)'
    BY <2>1 DEF Justified, Accounts, SessionInv, SessionTypeOK
  <2>3. ASSUME NEW u \in known \cup cache \cup rows, Justified(u) PROVE Justified(u)'
    BY <2>1, <2>3 DEF Justified, SessionInv, SessionTypeOK, Drawn
  <2> QED
    BY <2>1, <2>2, <2>3 DEF SessionInv, Principals, Holding
<1>8. Survives'
  BY DEF Survives, Drawn, Holding, Alive, InHand, Origin, Login, Fresh, call,
         SessionInv
<1> QED
  BY <1>1, <1>2, <1>3, <1>4, <1>5, <1>6, <1>7, <1>8 DEF SessionInv

\* A call takes its token from those a response has delivered.
LEMMA BeginInv ==
    ASSUME SessionInv, NEW s \in Calls, NEW o \in {"request", "refresh"},
           NEW t \in Tokens \cup ApiTokens, Begin(s, o, t)
    PROVE  SessionInv'
<1>1. SessionTypeOK'
  BY DEF SessionTypeOK, Token, Steps, Begin, Present, Goto, Continue, store,
         history, SessionInv
<1>2. Holding'
  BY DEF Holding, SessionTypeOK, Begin, Present, Goto, Continue, history, SessionInv
<1>3. JsonMode'
  BY DEF JsonMode, Begin, Goto, Continue, store, history, SessionInv
<1>4. Drawn'
  BY DEF Drawn, Begin, store, history, SessionInv
<1>5. Carried'
  BY DEF Carried, Origin, Begin, Present, Goto, Continue, store, history, SessionInv
<1>6. SessionDoesNotFork'
  BY DEF SessionDoesNotFork, Begin, store, history, SessionInv
<1>7. Principals'
  BY DEF Principals, Justified, Begin, Present, Goto, Continue, store, history,
         SessionInv
<1>8. Survives'
  BY DEF Survives, Alive, InHand, Origin, Begin, Present, Goto, Continue, store,
         history, SessionInv
<1> QED
  BY <1>1, <1>2, <1>3, <1>4, <1>5, <1>6, <1>7, <1>8 DEF SessionInv

\* Only a token that still has a row goes on to the map.
LEMMA FindInv ==
    ASSUME SessionInv, NEW s \in Calls, Find(s)
    PROVE  SessionInv'
<1>1. SessionTypeOK'
  BY DEF SessionTypeOK, Steps, Find, Goto, store, history, SessionInv
<1>2. Holding'
  BY SessionAssumption DEF Holding, SessionTypeOK, Find, Goto, history, SessionInv
<1>3. JsonMode'
  BY DEF JsonMode, Find, store, SessionInv
<1>4. Drawn'
  BY DEF Drawn, Find, store, history, SessionInv
<1>5. Carried'
  BY DEF Carried, SessionTypeOK, Origin, Find, Goto, store, history, SessionInv
<1>6. SessionDoesNotFork'
  BY DEF SessionDoesNotFork, Find, store, history, SessionInv
<1>7. Principals'
  BY DEF Principals, SessionTypeOK, Justified, Find, Goto, store, history, SessionInv
<1>8. Survives'
  BY DEF Survives, SessionTypeOK, Alive, InHand, Origin, Find, Goto, store, history,
         SessionInv
<1> QED
  BY <1>1, <1>2, <1>3, <1>4, <1>5, <1>6, <1>7, <1>8 DEF SessionInv

\* The late answer of the storage is about a token that is justified.
LEMMA FillInv ==
    ASSUME SessionInv, NEW s \in Calls, Fill(s)
    PROVE  SessionInv'
<1>1. SessionTypeOK'
  BY DEF SessionTypeOK, Holding, Steps, Fill, Goto, Continue, history, SessionInv
<1>2. Holding'
  BY DEF Holding, Fill, Goto, Continue, history, SessionInv
<1>3. JsonMode'
  BY DEF JsonMode, Fill, SessionInv
<1>4. Drawn'
  BY DEF Drawn, Holding, Fill, history, SessionInv
<1>5. Carried'
  BY DEF Carried, Origin, Fill, Goto, Continue, history, SessionInv
<1>6. SessionDoesNotFork'
  BY DEF SessionDoesNotFork, Fill, history, SessionInv
<1>7. Principals'
  BY DEF Principals, Justified, Fill, Goto, history, SessionInv
<1>8. Survives'
  BY DEF Survives, Alive, InHand, Origin, Fill, Goto, Continue, history, SessionInv
<1> QED
  BY <1>1, <1>2, <1>3, <1>4, <1>5, <1>6, <1>7, <1>8 DEF SessionInv

\* The list of API tokens touches neither the map nor the table.
LEMMA TokenListInv ==
    ASSUME SessionInv, NEW s \in Calls, TokenList(s)
    PROVE  SessionInv'
<1>1. SessionTypeOK'
  BY DEF SessionTypeOK, Steps, TokenList, Goto, Finish, Continue, store, history,
         SessionInv
<1>2. Holding'
  BY DEF Holding, SessionTypeOK, TokenList, Goto, Finish, Continue, history,
         SessionInv
<1>3. JsonMode'
  BY DEF JsonMode, SessionTypeOK, TokenList, Goto, Finish, Continue, store, SessionInv
<1>4. Drawn'
  BY DEF Drawn, TokenList, store, history, SessionInv
<1>5. Carried'
  BY DEF Carried, SessionTypeOK, Origin, TokenList, Goto, Finish, Continue, store,
         history, SessionInv
<1>6. SessionDoesNotFork'
  BY DEF SessionDoesNotFork, TokenList, store, history, SessionInv
<1>7. Principals'
  BY DEF Principals, SessionTypeOK, Justified, TokenList, Goto, Finish, Continue,
         store, history, SessionInv
<1>8. Survives'
  BY DEF Survives, SessionTypeOK, Alive, InHand, Origin, TokenList, Goto, Finish,
         Continue, store, history, SessionInv
<1> QED
  BY <1>1, <1>2, <1>3, <1>4, <1>5, <1>6, <1>7, <1>8 DEF SessionInv

\* A handler behind the middleware changes API tokens only.
LEMMA ServeInv ==
    ASSUME SessionInv, NEW s \in Calls, Serve(s)
    PROVE  SessionInv'
<1>1. SessionTypeOK'
  BY DEF SessionTypeOK, Steps, Serve, Finish, Goto, history, SessionInv
<1>2. Holding'
  BY DEF Holding, SessionTypeOK, Serve, Finish, Goto, history, SessionInv
<1>3. JsonMode'
  BY DEF JsonMode, Serve, Finish, Goto, SessionInv
<1>4. Drawn'
  BY DEF Drawn, Serve, history, SessionInv
<1>5. Carried'
  BY DEF Carried, Origin, Serve, Finish, Goto, history, SessionInv
<1>6. SessionDoesNotFork'
  BY DEF SessionDoesNotFork, Serve, history, SessionInv
<1>7. Principals'
  BY DEF Principals, Justified, Serve, Finish, Goto, history, SessionInv
<1>8. Survives'
  BY DEF Survives, Alive, InHand, Origin, Serve, Finish, Goto, history, SessionInv
<1> QED
  BY <1>1, <1>2, <1>3, <1>4, <1>5, <1>6, <1>7, <1>8 DEF SessionInv

\* The transaction moves the row of the old token to the new one.
LEMMA RotateInv ==
    ASSUME SessionInv, NEW s \in Calls, Rotate(s)
    PROVE  SessionInv'
<1>1. SessionTypeOK'
  BY SessionAssumption
  DEF SessionTypeOK, Steps, Origin, RoleOf, Rotate, Succeed, Goto, Finish,
      SessionInv
<1>2. Holding'
  BY DEF Holding, SessionTypeOK, Rotate, Goto, Finish, SessionInv
<1>3. JsonMode'
  BY DEF JsonMode, Rotate, SessionInv
<1>4. Drawn'
  BY SessionAssumption
  DEF Drawn, SessionTypeOK, Origin, Fresh, Rotate, Succeed, SessionInv
<1>5. Carried'
  BY SessionAssumption
  DEF Carried, SessionTypeOK, Holding, Drawn, Origin, Rotate, Succeed, Fresh, Goto,
      Finish, SessionInv
<1>6. SessionDoesNotFork'
  <2>1. CASE rows' = rows /\ origin' = origin
    BY <2>1 DEF SessionInv, SessionDoesNotFork
  <2>2. CASE \E t \in Tokens : /\ tok[s] \in rows /\ Succeed(s, t)
                              /\ rows' = (rows \ {tok[s]}) \cup {t}
    <3>1. PICK t \in Tokens :
            /\ tok[s] \in rows /\ origin[t] = None
            /\ origin' = [origin EXCEPT ![t] = origin[tok[s]]]
            /\ rows' = (rows \ {tok[s]}) \cup {t}
      BY <2>2, SessionAssumption DEF Succeed, Fresh, Origin, SessionInv, SessionTypeOK
    <3>2. \A u \in rows \ {tok[s]} : origin'[u] = origin[u] /\ origin[u] # origin[tok[s]]
      BY <3>1 DEF SessionInv, Drawn, SessionDoesNotFork
    <3> QED
      BY <3>1 DEF SessionInv, SessionTypeOK, SessionDoesNotFork
  <2> QED
    BY <2>1, <2>2 DEF Rotate
<1>7. Principals'
  <2>1. CASE UNCHANGED <<rows, role, origin>>
    BY <2>1 DEF SessionInv, SessionTypeOK, Principals, Justified, Rotate, Goto, Finish
  <2>2. CASE \E t \in Tokens : /\ tok[s] \in rows /\ Succeed(s, t)
                              /\ rows' = (rows \ {tok[s]}) \cup {t}
                              /\ Goto(s, "swap") /\ tok' = tok
    <3>1. PICK t \in Tokens :
            /\ tok[s] \in rows /\ origin[t] = None
            /\ origin' = [origin EXCEPT ![t] = origin[tok[s]]]
            /\ role' = [role EXCEPT ![t] = role[tok[s]]]
            /\ rows' = (rows \ {tok[s]}) \cup {t}
            /\ pc' = [pc EXCEPT ![s] = "swap"] /\ tok' = tok
      BY <2>2, SessionAssumption
      DEF Succeed, Fresh, Origin, RoleOf, Goto, SessionInv, SessionTypeOK
    <3>2. UNCHANGED <<database, cache, account>>
      BY DEF Rotate
    <3>3. ASSUME NEW u \in known \cup cache \cup rows, Justified(u) PROVE Justified(u)'
      BY <3>1, <3>2, <3>3 DEF Justified, SessionInv, Drawn
    <3>4. database => Justified(t)'
      BY <3>1, <3>2 DEF Justified, SessionInv, SessionTypeOK, Principals
    <3> QED
      BY <3>1, <3>2, <3>3, <3>4 DEF SessionInv, Principals, Holding
  <2> QED
    BY <2>1, <2>2 DEF Rotate
<1>8. Survives'
  BY SessionAssumption
  DEF Survives, SessionTypeOK, Drawn, Holding, Alive, InHand, Origin, Rotate,
      Succeed, Fresh, Goto, Finish, SessionInv
<1> QED
  BY <1>1, <1>2, <1>3, <1>4, <1>5, <1>6, <1>7, <1>8 DEF SessionInv

\* The new token takes over in the map what the old one was.
LEMMA SwapInv ==
    ASSUME SessionInv, NEW s \in Calls, Swap(s)
    PROVE  SessionInv'
<1>1. SessionTypeOK'
  BY DEF SessionTypeOK, Holding, Roles, Steps, Origin, RoleOf, Swap, Finish,
         Goto, SessionInv
<1>2. Holding'
  BY DEF Holding, SessionTypeOK, Swap, Finish, Goto, SessionInv
<1>3. JsonMode'
  BY DEF JsonMode, Swap, Finish, Goto, SessionInv
<1>4. Drawn'
  <2>1. PICK t \in Tokens :
          /\ cache' = (cache \ {tok[s]}) \cup {t} /\ known' = known \cup {t}
          /\ IF database THEN t = new[s] /\ origin' = origin
             ELSE origin[t] = None /\ origin' = [origin EXCEPT ![t] = Origin(tok[s])]
    BY DEF Swap, Fresh
  <2>2. pc[s] = "swap" /\ rows' = rows
    BY DEF Swap
  <2>3. /\ tok[s] \in known \cup ApiTokens
        /\ Origin(tok[s]) \in Token
        /\ Origin(tok[s]) \in Tokens => origin[Origin(tok[s])] = Origin(tok[s])
    BY <2>2, SessionAssumption DEF SessionInv, SessionTypeOK, Holding, Drawn, Origin
  <2>4. CASE database
    BY <2>1, <2>2, <2>3, <2>4, SessionAssumption DEF SessionInv, Drawn, Carried
  <2>5. CASE ~database
    <3>1. \A u \in Tokens : u # t => origin'[u] = origin[u]
      BY <2>1 DEF SessionInv, SessionTypeOK
    <3>2. origin'[t] = Origin(tok[s]) /\ Origin(tok[s]) # t /\ Origin(tok[s]) # None
      BY <2>1, <2>3, <2>5, SessionAssumption DEF SessionInv, SessionTypeOK, Token
    <3>3. \A u \in Tokens : origin[u] # t
      BY <2>1, <2>5, SessionAssumption DEF SessionInv, Drawn
    <3>4. \A u \in Tokens : origin'[u] \in Tokens => origin'[origin'[u]] = origin'[u]
      BY <2>3, <3>1, <3>2, <3>3 DEF SessionInv, Drawn
    <3> QED
      BY <2>1, <2>2, <2>3, <3>2, SessionAssumption
      DEF SessionInv, SessionTypeOK, Drawn
  <2> QED
    BY <2>4, <2>5
<1>5. Carried'
  BY DEF Carried, SessionTypeOK, Origin, Swap, Finish, Goto, SessionInv
<1>6. SessionDoesNotFork'
  BY DEF SessionDoesNotFork, SessionTypeOK, Drawn, Swap, Fresh, SessionInv
<1>7. Principals'
  BY DEF Principals, Carried, Justified, Swap, Finish, Goto, SessionInv
<1>8. Survives'
  BY SessionAssumption
  DEF Survives, SessionTypeOK, Holding, Carried, JsonMode, Alive, InHand, Origin,
      Swap, Finish, Goto, Fresh, SessionInv
<1> QED
  BY <1>1, <1>2, <1>3, <1>4, <1>5, <1>6, <1>7, <1>8 DEF SessionInv

\* A logout takes the token out of the map and ends its session.
LEMMA LogoutInv ==
    ASSUME SessionInv, NEW s \in Calls, NEW t \in Tokens, Logout(s, t)
    PROVE  SessionInv'
<1>1. SessionTypeOK'
  BY DEF SessionTypeOK, Drawn, Token, Steps, Logout, Present, Goto, SessionInv
<1>2. Holding'
  BY DEF Holding, SessionTypeOK, Logout, Present, Goto, SessionInv
<1>3. JsonMode'
  BY DEF JsonMode, Logout, SessionInv
<1>4. Drawn'
  BY DEF Drawn, Logout, SessionInv
<1>5. Carried'
  BY DEF Carried, SessionTypeOK, Origin, Logout, Present, Goto, SessionInv
<1>6. SessionDoesNotFork'
  BY DEF SessionDoesNotFork, Logout, SessionInv
<1>7. Principals'
  BY DEF Principals, SessionTypeOK, Justified, Logout, Present, Goto, SessionInv
<1>8. Survives'
  BY DEF Survives, SessionTypeOK, Alive, InHand, Origin, Logout, Present, Goto,
         SessionInv
<1> QED
  BY <1>1, <1>2, <1>3, <1>4, <1>5, <1>6, <1>7, <1>8 DEF SessionInv

\* The row of a token that a logout took out of the map goes away.
LEMMA EraseInv ==
    ASSUME SessionInv, NEW s \in Calls, Erase(s)
    PROVE  SessionInv'
<1>1. SessionTypeOK'
  BY DEF SessionTypeOK, Steps, Erase, Finish, Goto, history, SessionInv
<1>2. Holding'
  BY DEF Holding, SessionTypeOK, Erase, Finish, Goto, history, SessionInv
<1>3. JsonMode'
  BY DEF JsonMode, Erase, history, SessionInv
<1>4. Drawn'
  BY DEF Drawn, Holding, Erase, history, SessionInv
<1>5. Carried'
  BY DEF Carried, Holding, Origin, Erase, Finish, Goto, history, SessionInv
<1>6. SessionDoesNotFork'
  BY DEF SessionDoesNotFork, Erase, history, SessionInv
<1>7. Principals'
  BY DEF Principals, Justified, Erase, Finish, Goto, history, SessionInv
<1>8. Survives'
  BY DEF Survives, SessionTypeOK, Alive, InHand, Origin, Erase, Finish, Goto,
         history, SessionInv
<1> QED
  BY <1>1, <1>2, <1>3, <1>4, <1>5, <1>6, <1>7, <1>8 DEF SessionInv

\* A call that is dropped leaves the store as it is.
LEMMA DisconnectInv ==
    ASSUME SessionInv, NEW s \in Calls, Disconnect(s)
    PROVE  SessionInv'
<1>1. SessionTypeOK'
  BY SessionAssumption
  DEF SessionTypeOK, Holding, Drawn, Steps, Origin, Disconnect, Finish, Goto,
      store, InHand, SessionInv
<1>2. Holding'
  BY DEF Holding, SessionTypeOK, Disconnect, Finish, Goto, SessionInv
<1>3. JsonMode'
  BY DEF JsonMode, Disconnect, store
<1>4. Drawn'
  BY DEF Drawn, Disconnect, store, SessionInv
<1>5. Carried'
  BY DEF Carried, SessionTypeOK, Origin, Disconnect, Finish, Goto, store, SessionInv
<1>6. SessionDoesNotFork'
  BY DEF SessionDoesNotFork, Disconnect, store, SessionInv
<1>7. Principals'
  BY DEF Principals, SessionTypeOK, Justified, Disconnect, Finish, Goto, store,
         SessionInv
<1>8. Survives'
  BY DEF Survives, SessionTypeOK, Alive, InHand, Origin, Disconnect, Finish, Goto,
         store, SessionInv
<1> QED
  BY <1>1, <1>2, <1>3, <1>4, <1>5, <1>6, <1>7, <1>8 DEF SessionInv

\* A restart empties the map; the table has every session that is not ended.
LEMMA RestartInv ==
    ASSUME SessionInv, Restart
    PROVE  SessionInv'
<1>1. SessionTypeOK'
  BY DEF SessionTypeOK, Holding, Drawn, Token, Steps, Origin, Restart, InHand,
         SessionInv
<1>2. Holding'
  BY DEF Holding, Restart
<1>3. JsonMode'
  BY DEF JsonMode, Restart, SessionInv
<1>4. Drawn'
  BY DEF Drawn, Restart, SessionInv
<1>5. Carried'
  BY DEF Carried, Restart
<1>6. SessionDoesNotFork'
  BY DEF SessionDoesNotFork, Restart, SessionInv
<1>7. Principals'
  BY DEF Principals, Justified, Restart, SessionInv
<1>8. Survives'
  BY DEF Survives, SessionTypeOK, Alive, Restart, SessionInv
<1> QED
  BY <1>1, <1>2, <1>3, <1>4, <1>5, <1>6, <1>7, <1>8 DEF SessionInv

\* The invariant is about sessionVars alone.
LEMMA StutterInv ==
    ASSUME SessionInv, UNCHANGED sessionVars
    PROVE  SessionInv'
BY DEF SessionInv, SessionTypeOK, Holding, JsonMode, Drawn, Carried,
       SessionDoesNotFork, Principals, Survives, Justified, Alive, InHand, Origin,
       sessionVars, store, call, history

\* The invariant holds at the start.
LEMMA InitInv == SessionInit => SessionInv
BY SessionAssumption
DEF SessionInit, SessionInv, SessionTypeOK, Holding, JsonMode, Drawn, Carried,
    SessionDoesNotFork, Principals, Survives, Roles, Accounts,
    Steps

\* Every step keeps the invariant.
LEMMA NextInv == SessionInv /\ [SessionNext]_sessionVars => SessionInv'
<1> SUFFICES ASSUME SessionInv, [SessionNext]_sessionVars PROVE SessionInv'
  OBVIOUS
<1>1. ASSUME NEW s \in Calls, SessionStep(s) PROVE SessionInv'
  BY <1>1, LoginInv, BeginInv, FindInv, FillInv, TokenListInv, RotateInv, SwapInv,
     LogoutInv, EraseInv, DisconnectInv
  DEF SessionStep
<1>2. ASSUME NEW s \in Calls, Serve(s) PROVE SessionInv'
  BY <1>2, ServeInv
<1> QED
  BY <1>1, <1>2, RestartInv, StutterInv DEF SessionNext

\* Every reachable state of the sessions satisfies the invariant.
THEOREM SessionsHold == SessionSpec => []SessionInv
BY InitInv, NextInv, PTL DEF SessionSpec

-------------------------------------------------------------------------------
(* The properties. *)

\* The variables of the session store and of the requests keep their types.
THEOREM SessionsTyped == SessionSpec => []SessionTypeOK
<1>1. SessionInv => SessionTypeOK
  BY DEF SessionInv
<1> QED
  BY <1>1, SessionsHold, PTL

\* A session that has lost its row never has one again, whichever token it goes by
\* and whatever refresh was under way: a row moves from a token that has one, or is
\* that of a new login.
THEOREM RevokedForGood == SessionSpec => RevokedStaysRevoked
<1>1. ASSUME SessionInv, [SessionNext]_sessionVars, NEW o \in Tokens,
             origin[o] # None, \A t \in rows : origin[t] # o
      PROVE  \A t \in rows' : origin'[t] # o
  <2>1. ASSUME rows' \subseteq rows, origin' = origin
        PROVE  \A t \in rows' : origin'[t] # o
    BY <1>1, <2>1
  <2>2. ASSUME NEW s \in Calls, Login(s) PROVE \A t \in rows' : origin'[t] # o
    <3>1. PICK t \in Tokens : /\ origin[t] = None
                             /\ origin' = [origin EXCEPT ![t] = t]
                             /\ rows' \subseteq rows \cup {t}
      BY <2>2 DEF Login, Fresh
    <3> QED
      BY <1>1, <3>1 DEF SessionInv, SessionTypeOK
  <2>3. ASSUME NEW s \in Calls, Rotate(s) PROVE \A t \in rows' : origin'[t] # o
    <3>1. CASE \E t \in Tokens : /\ tok[s] \in rows /\ Succeed(s, t)
                                /\ rows' = (rows \ {tok[s]}) \cup {t}
      <4>1. PICK t \in Tokens : /\ tok[s] \in rows
                               /\ origin' = [origin EXCEPT ![t] = origin[tok[s]]]
                               /\ rows' = (rows \ {tok[s]}) \cup {t}
        BY <1>1, <3>1, SessionAssumption DEF Succeed, Origin, SessionInv, SessionTypeOK
      <4> QED
        BY <1>1, <4>1 DEF SessionInv, SessionTypeOK
    <3> QED
      BY <2>1, <2>3, <3>1 DEF Rotate
  <2>4. ASSUME NEW s \in Calls, Swap(s) PROVE \A t \in rows' : origin'[t] # o
    BY <1>1, <2>1, <2>4 DEF Swap, SessionInv, JsonMode
  <2>5. ASSUME NEW s \in Calls, \/ Find(s) \/ Fill(s) \/ TokenList(s) \/ Serve(s)
                               \/ Erase(s) \/ Disconnect(s)
        PROVE  \A t \in rows' : origin'[t] # o
    BY <2>1, <2>5 DEF Find, Fill, TokenList, Serve, Erase, Disconnect, store, history
  <2>6. ASSUME NEW s \in Calls, NEW a \in {"request", "refresh"},
               NEW t \in Tokens \cup ApiTokens, Begin(s, a, t)
        PROVE  \A u \in rows' : origin'[u] # o
    BY <2>1, <2>6 DEF Begin, store, history
  <2>7. ASSUME NEW s \in Calls, NEW t \in Tokens, Logout(s, t)
        PROVE  \A u \in rows' : origin'[u] # o
    BY <2>1, <2>7 DEF Logout
  <2>8. CASE Restart \/ UNCHANGED sessionVars
    BY <2>1, <2>8 DEF Restart, sessionVars, store, history
  <2> QED
    BY <1>1, <2>2, <2>3, <2>4, <2>5, <2>6, <2>7, <2>8 DEF SessionNext, SessionStep
<1>2. SessionInv /\ [SessionNext]_sessionVars
        => [ \A o \in Tokens :
               origin[o] # None /\ (\A t \in rows : origin[t] # o)
                   => \A t \in rows' : origin'[t] # o ]_sessionVars
  BY <1>1
<1> QED
  BY <1>2, SessionsHold, PTL DEF SessionSpec, RevokedStaysRevoked

\* The transaction of rotate_session keeps a login to one row in the table, for any
\* number of refreshes that race.
THEOREM NoFork == SessionSpec => []SessionDoesNotFork
<1>1. SessionInv => SessionDoesNotFork
  BY DEF SessionInv
<1> QED
  BY <1>1, SessionsHold, PTL

\* A user who did not log out and lost no response of a refresh keeps the session:
\* a refresh that fails or is beaten takes nothing away.
THEOREM SessionsKept == SessionSpec => []SessionKept
<1>1. SessionInv => SessionKept
  BY DEF SessionInv, Survives, Alive, SessionKept
<1> QED
  BY <1>1, SessionsHold, PTL

\* With SQLite a session that the map or the table accepts stems from a login and
\* has the role of that user.
THEOREM PrincipalsJustified == SessionSpec => []PrincipalIsJustified
<1>1. SessionInv => PrincipalIsJustified
  BY DEF SessionInv, Principals, Justified, PrincipalIsJustified
<1> QED
  BY <1>1, SessionsHold, PTL
===============================================================================
