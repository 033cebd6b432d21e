----------------------------- MODULE ViewPathProofs -----------------------------
(* Proofs about ViewPath: the connection of ffmpeg through the proxy, whatever   *)
(* camera and tunnel do, for every number of requests and challenges; the        *)
(* sessions of the viewers, for every number of tickets, sessions and viewers;   *)
(* and the handshake with the provider, for every width of its counters and      *)
(* whatever the network loses, repeats and reorders.                             *)
EXTENDS ViewPath, SequenceTheorems, FiniteSetTheorems, TLAPS

-------------------------------------------------------------------------------
(* What NonceCountOnce rests on: the order of signatures. *)

AuthState == [challenge: Nat, count: Nat]
Request   == [n: Nat, auth: AuthState]
Kinds     == {"challenge", "ok", "error", "frame"}
Answer    == [n: Nat, kind: Kinds, challenge: Nat]

ProxyTypes ==
    /\ auth \in AuthState /\ given \in Seq(Nat)
    /\ toCam \in Seq(Request) /\ toProxy \in Seq(Answer)
    /\ shown \in Seq(AuthState) /\ asked \in Nat

\* The signatures the camera has been shown.
Seen == {shown[i] : i \in 1..Len(shown)}

\* a was signed earlier than b.
Before(a, b) == a.challenge < b.challenge \/ (a.challenge = b.challenge /\ a.count < b.count)
AtMost(a, b) == a = b \/ Before(a, b)

\* A challenge on its way is one nobody has answered, and later ones are later.
ChallengesNew ==
    /\ auth.challenge <= Len(given)
    /\ \A i \in 1..Len(toProxy) :
         /\ toProxy[i].challenge <= Len(given)
         /\ toProxy[i].kind = "challenge" =>
              /\ auth.challenge < toProxy[i].challenge
              /\ \A j \in 1..(i - 1) :
                   toProxy[j].kind = "challenge" => toProxy[j].challenge < toProxy[i].challenge

\* Requests reach the camera in the order in which they were signed.
SignedInOrder ==
    /\ \A a \in Seen : AtMost(a, auth)
    /\ \A i \in 1..Len(toCam) :
         /\ AtMost(toCam[i].auth, auth)
         /\ toCam[i].auth # NoAuth =>
              /\ \A a \in Seen : Before(a, toCam[i].auth)
              /\ \A j \in 1..(i - 1) : Before(toCam[j].auth, toCam[i].auth)

\* A signature belongs to a challenge.
Placed(a) == a = NoAuth \/ a.challenge >= 1

AllPlaced ==
    /\ Placed(auth) /\ \A i \in 1..Len(toCam) : Placed(toCam[i].auth)
    /\ \A a \in Seen : a.challenge >= 1

\* No signature is shown twice.
ShownOnce == \A i, j \in 1..Len(shown) : shown[i] = shown[j] => i = j

NonceInv == ProxyTypes /\ ChallengesNew /\ SignedInOrder /\ AllPlaced /\ ShownOnce

-------------------------------------------------------------------------------
(* Queues *)

\* What is taken off the front of a queue.
LEMMA Popped ==
    ASSUME NEW S, NEW q \in Seq(S), q # <<>>
    PROVE  /\ Head(q) \in S /\ Head(q) = q[1] /\ Tail(q) \in Seq(S)
           /\ Len(q) \in Nat \ {0} /\ Len(Tail(q)) = Len(q) - 1
           /\ \A i \in 1..Len(Tail(q)) : Tail(q)[i] = q[i + 1]
BY HeadTailProperties, EmptySeq

\* What is put at its end.
LEMMA Pushed ==
    ASSUME NEW S, NEW q \in Seq(S), NEW e \in S
    PROVE  /\ Append(q, e) \in Seq(S) /\ Len(q) \in Nat /\ Len(Append(q, e)) = Len(q) + 1
           /\ \A i \in 1..(Len(q) + 1) : Append(q, e)[i] = IF i <= Len(q) THEN q[i] ELSE e
BY AppendProperties, LenProperties

\* One queue behind the other.
LEMMA Joined ==
    ASSUME NEW S, NEW q \in Seq(S), NEW r \in Seq(S)
    PROVE  /\ q \o r \in Seq(S)
           /\ Len(q) \in Nat /\ Len(r) \in Nat /\ Len(q \o r) = Len(q) + Len(r)
           /\ \A i \in 1..Len(q) : (q \o r)[i] = q[i]
           /\ \A i \in (Len(q) + 1)..(Len(q) + Len(r)) :
                i - Len(q) \in 1..Len(r) /\ (q \o r)[i] = r[i - Len(q)]
<1>1. Len(q) \in Nat /\ Len(r) \in Nat
  BY LenProperties
<1>2. /\ q \o r \in Seq(S) /\ Len(q \o r) = Len(q) + Len(r)
      /\ \A i \in 1..(Len(q) + Len(r)) :
           (q \o r)[i] = IF i <= Len(q) THEN q[i] ELSE r[i - Len(q)]
  BY ConcatProperties
<1>3. \A i \in (Len(q) + 1)..(Len(q) + Len(r)) :
        i - Len(q) \in 1..Len(r) /\ i \in 1..(Len(q) + Len(r)) /\ ~(i <= Len(q))
  BY <1>1
<1>4. \A i \in 1..Len(q) : i \in 1..(Len(q) + Len(r)) /\ i <= Len(q)
  BY <1>1
<1> QED
  BY <1>1, <1>2, <1>3, <1>4

-------------------------------------------------------------------------------
(* Steps keep NonceInv. *)

\* The order of signatures.
LEMMA SignedLater ==
    ASSUME NEW a \in AuthState, NEW b \in AuthState, NEW c \in AuthState,
           AtMost(a, b), Before(b, c)
    PROVE  Before(a, c) /\ c # NoAuth
BY DEF AtMost, Before, AuthState, NoAuth

\* The signatures shown are signatures, and the next one is one more.
LEMMA SeenTypes == ProxyTypes => Seen \subseteq AuthState
BY ElementOfSeq DEF ProxyTypes, Seen

LEMMA SeenGrows ==
    ASSUME NEW a \in AuthState, shown \in Seq(AuthState), shown' = Append(shown, a),
           ShownOnce, a \notin Seen
    PROVE  /\ shown' \in Seq(AuthState) /\ Seen' = Seen \cup {a} /\ ShownOnce'
<1>1. /\ shown' \in Seq(AuthState) /\ Len(shown) \in Nat /\ Len(shown') = Len(shown) + 1
      /\ \A i \in 1..(Len(shown) + 1) : shown'[i] = IF i <= Len(shown) THEN shown[i] ELSE a
  BY Pushed
<1>2. 1..Len(shown') = 1..Len(shown) \cup {Len(shown) + 1}
  BY <1>1
<1>3. /\ \A i \in 1..Len(shown) : shown'[i] = shown[i]
      /\ shown'[Len(shown) + 1] = a
  BY <1>1
<1>4. Seen' = Seen \cup {a}
  BY <1>2, <1>3 DEF Seen
<1>5. ShownOnce'
  BY <1>2, <1>3 DEF ShownOnce, Seen
<1> QED
  BY <1>1, <1>4, <1>5

\* A request is sent with a signature of its own, or without one.
LEMMA SendInOrder ==
    ASSUME NonceInv, NEW b \in AuthState,
           auth' = b, toCam' = Append(toCam, [n |-> asked, auth |-> b]), shown' = shown,
           \/ b = auth /\ b = NoAuth
           \/ Before(auth, b) /\ b.challenge >= 1
    PROVE  SignedInOrder' /\ AllPlaced' /\ toCam' \in Seq(Request)
<1>1. /\ toCam \in Seq(Request) /\ Seen \subseteq AuthState /\ auth \in AuthState
      /\ [n |-> asked, auth |-> b] \in Request /\ Seen' = Seen
  BY SeenTypes DEF NonceInv, ProxyTypes, Request, Seen
<1>2. /\ toCam' \in Seq(Request) /\ Len(toCam) \in Nat /\ Len(toCam') = Len(toCam) + 1
      /\ \A i \in 1..(Len(toCam) + 1) :
           toCam'[i] = IF i <= Len(toCam) THEN toCam[i] ELSE [n |-> asked, auth |-> b]
  BY <1>1, Pushed
<1>3. ASSUME NEW i \in 1..Len(toCam)
      PROVE  toCam[i].auth \in AuthState /\ AtMost(toCam[i].auth, auth)
  <2>1. toCam[i] \in Request
    BY <1>1, ElementOfSeq
  <2> QED
    BY <2>1 DEF NonceInv, SignedInOrder, Request
<1>4. \A a \in Seen : AtMost(a, auth)
  BY DEF NonceInv, SignedInOrder
<1>5. ASSUME NEW a \in AuthState, AtMost(a, auth)
      PROVE  AtMost(a, b) /\ (b # NoAuth => Before(a, b))
  BY <1>1, <1>5, SignedLater DEF AtMost
<1>6. ASSUME NEW i \in 1..Len(toCam')
      PROVE  /\ AtMost(toCam'[i].auth, b)
             /\ toCam'[i].auth # NoAuth =>
                  /\ \A a \in Seen : Before(a, toCam'[i].auth)
                  /\ \A j \in 1..(i - 1) : Before(toCam'[j].auth, toCam'[i].auth)
  <2>1. CASE i <= Len(toCam)
    <3>1. /\ i \in 1..Len(toCam) /\ toCam'[i] = toCam[i]
          /\ \A j \in 1..(i - 1) : j \in 1..Len(toCam) /\ toCam'[j] = toCam[j]
      BY <1>2, <2>1
    <3>2. AtMost(toCam[i].auth, b)
      BY <1>3, <1>5, <3>1
    <3> QED
      BY <3>1, <3>2 DEF NonceInv, SignedInOrder
  <2>2. CASE i = Len(toCam) + 1
    <3>1. toCam'[i].auth = b
      BY <1>2, <2>2
    <3>2. \A j \in 1..(i - 1) : j \in 1..Len(toCam) /\ toCam'[j] = toCam[j]
      BY <1>2, <2>2
    <3> QED
      BY <1>1, <1>3, <1>4, <1>5, <3>1, <3>2 DEF AtMost
  <2> QED
    BY <1>2, <2>1, <2>2
<1>7. AllPlaced'
  <2>1. \A i \in 1..Len(toCam) : toCam'[i] = toCam[i]
    BY <1>2
  <2>2. toCam'[Len(toCam) + 1].auth = b /\ 1..Len(toCam') = 1..Len(toCam) \cup {Len(toCam) + 1}
    BY <1>2
  <2> QED
    BY <1>1, <2>1, <2>2 DEF AllPlaced, Placed, NonceInv
<1>8. SignedInOrder'
  BY <1>1, <1>2, <1>4, <1>5, <1>6 DEF SignedInOrder
<1> QED
  BY <1>2, <1>7, <1>8

\* The proxy takes an answer off its queue.
LEMMA TakeInOrder ==
    ASSUME NonceInv, toProxy # <<>>, toProxy' = Tail(toProxy), given' = given,
           \/ auth' = auth
           \/ Head(toProxy).kind = "challenge" /\ auth'.challenge = Head(toProxy).challenge
    PROVE  ChallengesNew' /\ toProxy' \in Seq(Answer)
<1>1. /\ toProxy[1] = Head(toProxy) /\ toProxy' \in Seq(Answer)
      /\ Len(toProxy) \in Nat \ {0} /\ Len(toProxy') = Len(toProxy) - 1
      /\ \A i \in 1..Len(toProxy') : toProxy'[i] = toProxy[i + 1]
  BY Popped DEF NonceInv, ProxyTypes
<1>2. auth'.challenge <= Len(given)
  BY <1>1 DEF NonceInv, ChallengesNew
<1>3. ASSUME NEW i \in 1..Len(toProxy')
      PROVE  /\ toProxy'[i].challenge <= Len(given)
             /\ toProxy'[i].kind = "challenge" =>
                  /\ auth'.challenge < toProxy'[i].challenge
                  /\ \A j \in 1..(i - 1) :
                       toProxy'[j].kind = "challenge" => toProxy'[j].challenge < toProxy'[i].challenge
  <2>1. i + 1 \in 1..Len(toProxy) /\ toProxy'[i] = toProxy[i + 1]
    BY <1>1
  <2>2. \A j \in 1..(i - 1) : j + 1 \in 1..((i + 1) - 1) /\ toProxy'[j] = toProxy[j + 1]
    BY <1>1, <2>1
  <2>3. 1 \in 1..((i + 1) - 1)
    BY <2>1
  <2> QED
    BY <1>1, <2>1, <2>2, <2>3 DEF NonceInv, ChallengesNew
<1> QED
  BY <1>1, <1>2, <1>3 DEF ChallengesNew

\* The proxy signs with the next count of the challenge it has, if it has one.
LEMMA ReadRequestInv ==
    ASSUME NonceInv, ReadRequest
    PROVE  NonceInv'
<1>1. CASE auth' = auth /\ toCam' = toCam
  BY <1>1 DEF ReadRequest, NonceInv, ProxyTypes, ChallengesNew, SignedInOrder, AllPlaced,
              ShownOnce, Seen, AtMost
<1>2. CASE /\ auth' = IF auth = NoAuth THEN auth ELSE Counted(auth)
           /\ toCam' = Append(toCam, [n |-> asked, auth |-> auth'])
  <2>1. /\ auth' \in AuthState /\ auth'.challenge = auth.challenge
        /\ \/ auth' = auth /\ auth' = NoAuth
           \/ Before(auth, auth') /\ auth'.challenge >= 1
    BY <1>2 DEF Counted, Before, AuthState, NonceInv, ProxyTypes, AllPlaced, Placed
  <2>2. UNCHANGED <<toProxy, given, shown, asked>>
    BY DEF ReadRequest
  <2>3. SignedInOrder' /\ AllPlaced' /\ toCam' \in Seq(Request)
    BY <1>2, <2>1, <2>2, SendInOrder
  <2>4. ChallengesNew'
    BY <2>1, <2>2 DEF NonceInv, ChallengesNew
  <2> QED
    BY <2>1, <2>2, <2>3, <2>4 DEF NonceInv, ProxyTypes, ShownOnce
<1> QED
  BY <1>1, <1>2 DEF ReadRequest

\* A challenge starts a count of its own; the answer that brings it leaves the queue.
LEMMA ReadAnswerInv ==
    ASSUME NonceInv, ReadAnswer
    PROVE  NonceInv'
<1>1. /\ toProxy # <<>> /\ toProxy' = Tail(toProxy)
      /\ UNCHANGED <<given, shown, asked>>
  BY DEF ReadAnswer
<1>2. CASE UNCHANGED <<auth, toCam>>
  BY <1>1, <1>2, TakeInOrder
  DEF NonceInv, ProxyTypes, SignedInOrder, AllPlaced, ShownOnce, Seen, AtMost
<1>3. CASE /\ Head(toProxy).kind = "challenge"
           /\ auth' = Counted([challenge |-> Head(toProxy).challenge, count |-> 0])
           /\ toCam' = Append(toCam, [n |-> asked, auth |-> auth'])
  <2>1. Head(toProxy) \in Answer /\ Head(toProxy) = toProxy[1] /\ 1 \in 1..Len(toProxy)
    BY <1>1, Popped DEF NonceInv, ProxyTypes
  <2>2. auth.challenge < Head(toProxy).challenge
    BY <1>3, <2>1 DEF NonceInv, ChallengesNew
  <2>3. auth' \in AuthState /\ auth'.challenge = Head(toProxy).challenge /\ Before(auth, auth')
        /\ auth'.challenge >= 1
    <3>1. /\ auth.challenge \in Nat /\ Head(toProxy).challenge \in Nat
      BY <2>1 DEF AuthState, Answer, NonceInv, ProxyTypes
    <3>2. auth' = [challenge |-> Head(toProxy).challenge, count |-> 1]
      BY <1>3 DEF Counted
    <3> QED
      BY <2>2, <3>1, <3>2 DEF Before, AuthState
  <2>4. SignedInOrder' /\ AllPlaced' /\ toCam' \in Seq(Request)
    BY <1>1, <1>3, <2>3, SendInOrder
  <2>5. ChallengesNew' /\ toProxy' \in Seq(Answer)
    BY <1>1, <1>3, <2>3, TakeInOrder
  <2> QED
    BY <1>1, <2>3, <2>4, <2>5 DEF NonceInv, ProxyTypes, ShownOnce
<1> QED
  BY <1>2, <1>3 DEF ReadAnswer, Challenged

\* The camera has the next signature before it.
LEMMA CameraInv ==
    ASSUME NonceInv, Camera
    PROVE  NonceInv'
<1> DEFINE r == Head(toCam)
<1>1. /\ toCam # <<>> /\ UNCHANGED <<auth, asked>>
  BY DEF Camera
<1>0. given \in Seq(Nat) /\ Len(given) \in Nat
  BY LenProperties DEF NonceInv, ProxyTypes
<1>2. /\ r \in Request /\ r = toCam[1] /\ Tail(toCam) \in Seq(Request)
      /\ Len(toCam) \in Nat \ {0} /\ Len(Tail(toCam)) = Len(toCam) - 1
      /\ \A i \in 1..Len(Tail(toCam)) : Tail(toCam)[i] = toCam[i + 1]
  BY <1>1, Popped DEF NonceInv, ProxyTypes
<1> DEFINE Outcome(kinds) ==
      /\ Reply(r, kinds)
      /\ \/ kinds = <<"challenge">> /\ \E n \in Nat : given' = Append(given, n)
         \/ given' = given /\ \A i \in 1..Len(kinds) : kinds[i] # "challenge"
<1>3. \E kinds \in Seq(Kinds) : Outcome(kinds)
  <2>1. CASE (\E n \in Nonces : given' = Append(given, n)) /\ Reply(r, <<"challenge">>)
    <3>1. <<"challenge">> \in Seq(Kinds)
      BY DEF Kinds
    <3>2. Nonces \subseteq Nat
      BY <1>0, ElementOfSeq, LenProperties DEF Nonces
    <3> QED
      BY <2>1, <3>1, <3>2
  <2>2. ASSUME NEW k \in {"ok", "error"}, given' = given, Reply(r, <<k>>)
        PROVE  \E kinds \in Seq(Kinds) : Outcome(kinds)
    <3>1. <<k>> \in Seq(Kinds) /\ \A i \in 1..Len(<<k>>) : <<k>>[i] # "challenge"
      BY DEF Kinds
    <3> QED
      BY <2>2, <3>1
  <2>3. CASE given' = given /\ Reply(r, <<"frame", "ok">>)
    <3>1. /\ <<"frame", "ok">> \in Seq(Kinds)
          /\ \A i \in 1..Len(<<"frame", "ok">>) : <<"frame", "ok">>[i] # "challenge"
      BY DEF Kinds
    <3> QED
      BY <2>3, <3>1
  <2> HIDE DEF Outcome
  <2> QED
    BY <2>1, <2>2, <2>3 DEF Camera
<1> PICK kinds \in Seq(Kinds) : Outcome(kinds)
  BY <1>3
<1>4. /\ toCam' = Tail(toCam)
      /\ shown' = IF r.auth = NoAuth THEN shown ELSE Append(shown, r.auth)
      /\ toProxy' = toProxy \o [i \in DOMAIN kinds |->
                                 [n |-> r.n, kind |-> kinds[i], challenge |-> Len(given')]]
  BY DEF Reply
<1>5. /\ given' \in Seq(Nat) /\ Len(given') \in Nat /\ Len(given) <= Len(given')
      /\ \/ kinds = <<"challenge">> /\ Len(given') = Len(given) + 1
         \/ given' = given /\ \A i \in 1..Len(kinds) : kinds[i] # "challenge"
  <2>1. CASE kinds = <<"challenge">> /\ \E n \in Nat : given' = Append(given, n)
    <3>1. PICK n \in Nat : given' = Append(given, n)
      BY <2>1
    <3>2. given' \in Seq(Nat) /\ Len(given') = Len(given) + 1
      BY <1>0, <3>1, Pushed
    <3> QED
      BY <1>0, <2>1, <3>2
  <2>2. CASE given' = given /\ \A i \in 1..Len(kinds) : kinds[i] # "challenge"
    BY <1>0, <2>2
  <2> QED
    BY <2>1, <2>2
<1>13. toProxy \in Seq(Answer) /\ r.n \in Nat
  BY <1>2 DEF NonceInv, ProxyTypes, Request
<1>11. /\ r.auth \in AuthState /\ 1 \in 1..Len(toCam)
       /\ r.auth # NoAuth => r.auth.challenge >= 1 /\ r.auth \notin Seen
  <2>1. 1 \in 1..Len(toCam) /\ r.auth \in AuthState
    BY <1>2 DEF Request
  <2>2. r.auth # NoAuth => r.auth \notin Seen
    BY <1>2, <2>1 DEF NonceInv, SignedInOrder, Before, AuthState
  <2> QED
    BY <1>2, <2>1, <2>2 DEF NonceInv, AllPlaced, Placed
<1>12. /\ shown' \in Seq(AuthState) /\ ShownOnce'
       /\ Seen' = Seen \cup (IF r.auth = NoAuth THEN {} ELSE {r.auth})
  <2>1. CASE r.auth = NoAuth
    BY <1>4, <2>1 DEF NonceInv, ProxyTypes, ShownOnce, Seen
  <2>2. CASE r.auth # NoAuth
    BY <1>4, <1>11, <2>2, SeenGrows DEF NonceInv, ProxyTypes
  <2> QED
    BY <2>1, <2>2
<1>6. /\ toProxy' \in Seq(Answer) /\ Len(toProxy) \in Nat /\ Len(kinds) \in Nat
      /\ Len(toProxy') = Len(toProxy) + Len(kinds)
      /\ \A i \in 1..Len(toProxy) : toProxy'[i] = toProxy[i]
      /\ \A i \in (Len(toProxy) + 1)..(Len(toProxy) + Len(kinds)) :
           /\ i - Len(toProxy) \in 1..Len(kinds)
           /\ toProxy'[i] = [n |-> r.n, kind |-> kinds[i - Len(toProxy)], challenge |-> Len(given')]
  <2> HIDE DEF r, Outcome
  <2> DEFINE m == Len(given')
             added == [i \in DOMAIN kinds |-> [n |-> r.n, kind |-> kinds[i], challenge |-> m]]
  <2>1. toProxy' = toProxy \o added /\ m \in Nat
    BY <1>4, <1>5
  <2>2. /\ Len(kinds) \in Nat /\ DOMAIN kinds = 1..Len(kinds)
        /\ \A i \in 1..Len(kinds) : kinds[i] \in Kinds
    BY ElementOfSeq, LenProperties
  <2>3. \A i \in 1..Len(kinds) :
          added[i] = [n |-> r.n, kind |-> kinds[i], challenge |-> m]
    BY <2>2
  <2>4. added \in [1..Len(kinds) -> Answer]
    <3> HIDE DEF m
    <3> QED
      BY <1>13, <2>1, <2>2 DEF Answer
  <2> HIDE DEF added
  <2>5. added \in Seq(Answer) /\ Len(added) = Len(kinds)
    BY <2>2, <2>4, LenProperties
  <2>6. /\ toProxy \o added \in Seq(Answer)
        /\ Len(toProxy) \in Nat /\ Len(toProxy \o added) = Len(toProxy) + Len(added)
        /\ \A i \in 1..Len(toProxy) : (toProxy \o added)[i] = toProxy[i]
        /\ \A i \in (Len(toProxy) + 1)..(Len(toProxy) + Len(added)) :
             /\ i - Len(toProxy) \in 1..Len(added)
             /\ (toProxy \o added)[i] = added[i - Len(toProxy)]
    BY <1>13, <2>5, Joined
  <2> QED
    BY <2>1, <2>2, <2>3, <2>5, <2>6
<1>7. ProxyTypes'
  BY <1>1, <1>2, <1>4, <1>5, <1>6, <1>12, <1>13 DEF NonceInv, ProxyTypes, Request
<1>8. ChallengesNew'
  <2>1. /\ auth.challenge <= Len(given) /\ auth.challenge \in Nat /\ Len(given) <= Len(given')
        /\ \A i \in 1..Len(toProxy) : toProxy[i].challenge <= Len(given) /\ toProxy[i].challenge \in Nat
    <3>1. \A i \in 1..Len(toProxy) : toProxy[i] \in Answer
      BY <1>13, ElementOfSeq
    <3>2. auth.challenge <= Len(given) /\ \A i \in 1..Len(toProxy) : toProxy[i].challenge <= Len(given)
      BY DEF NonceInv, ChallengesNew
    <3>3. auth \in AuthState
      BY DEF NonceInv, ProxyTypes
    <3>4. Len(given) <= Len(given')
      BY <1>1, <1>5
    <3> QED
      BY <3>1, <3>2, <3>3, <3>4 DEF AuthState, Answer
  <2> SUFFICES ASSUME NEW i \in 1..Len(toProxy')
               PROVE  /\ toProxy'[i].challenge <= Len(given')
                      /\ toProxy'[i].kind = "challenge" =>
                           /\ auth.challenge < toProxy'[i].challenge
                           /\ \A j \in 1..(i - 1) :
                                toProxy'[j].kind = "challenge" =>
                                  toProxy'[j].challenge < toProxy'[i].challenge
    BY <1>1, <1>5, <2>1 DEF ChallengesNew
  <2>2. CASE i <= Len(toProxy)
    <3>1. /\ i \in 1..Len(toProxy) /\ toProxy'[i] = toProxy[i]
          /\ \A j \in 1..(i - 1) : toProxy'[j] = toProxy[j]
      BY <1>6, <2>2
    <3>2. toProxy[i].challenge <= Len(given')
      BY <1>5, <2>1, <3>1
    <3> QED
      BY <3>1, <3>2 DEF NonceInv, ChallengesNew
  <2>3. CASE i > Len(toProxy)
    <3>1. /\ i - Len(toProxy) \in 1..Len(kinds)
          /\ toProxy'[i] = [n |-> r.n, kind |-> kinds[i - Len(toProxy)], challenge |-> Len(given')]
      <4>1. i \in (Len(toProxy) + 1)..(Len(toProxy) + Len(kinds))
        BY <1>6, <2>3
      <4> QED
        BY <1>6, <4>1
    <3>2. CASE kinds = <<"challenge">> /\ Len(given') = Len(given) + 1
      <4>1. i = Len(toProxy) + 1
        BY <1>6, <3>1, <3>2
      <4>2. \A j \in 1..(i - 1) : toProxy'[j] = toProxy[j] /\ j \in 1..Len(toProxy)
        BY <1>6, <4>1
      <4> QED
        <5>1. toProxy'[i].challenge = Len(given') /\ Len(given) < Len(given')
          BY <1>0, <3>1, <3>2
        <5>2. ASSUME NEW j \in 1..(i - 1) PROVE toProxy'[j].challenge < Len(given')
          <6>1. toProxy[j].challenge <= Len(given) /\ toProxy[j].challenge \in Nat
            BY <2>1, <4>2
          <6> QED
            BY <1>0, <1>5, <4>2, <5>1, <6>1
        <5>3. auth.challenge < Len(given') /\ Len(given') <= Len(given')
          BY <1>0, <1>5, <2>1, <5>1
        <5> QED
          BY <5>1, <5>2, <5>3
    <3>3. CASE given' = given /\ \A k \in 1..Len(kinds) : kinds[k] # "challenge"
      BY <1>5, <3>1, <3>3
    <3> QED
      BY <3>2, <3>3
  <2> QED
    BY <1>6, <2>2, <2>3
<1>9. SignedInOrder'
  <2>1. \A a \in Seen' : AtMost(a, auth)
    BY <1>2, <1>4, <1>11, <1>12 DEF NonceInv, SignedInOrder
  <2>2. ASSUME NEW i \in 1..Len(toCam')
        PROVE  /\ AtMost(toCam'[i].auth, auth)
               /\ toCam'[i].auth # NoAuth =>
                    /\ \A a \in Seen' : Before(a, toCam'[i].auth)
                    /\ \A j \in 1..(i - 1) : Before(toCam'[j].auth, toCam'[i].auth)
    <3>1. /\ i + 1 \in 1..Len(toCam) /\ toCam'[i] = toCam[i + 1]
          /\ 1 \in 1..((i + 1) - 1)
          /\ \A j \in 1..(i - 1) : j + 1 \in 1..((i + 1) - 1) /\ toCam'[j] = toCam[j + 1]
      BY <1>2, <1>4
    <3> QED
      BY <1>2, <1>4, <1>11, <1>12, <3>1 DEF NonceInv, SignedInOrder
  <2> QED
    BY <1>1, <2>1, <2>2 DEF SignedInOrder
<1>10. AllPlaced'
  <2>1. \A i \in 1..Len(toCam') : i + 1 \in 1..Len(toCam) /\ toCam'[i] = toCam[i + 1]
    BY <1>2, <1>4
  <2> QED
    BY <1>1, <1>11, <1>12, <2>1 DEF NonceInv, AllPlaced
<1> QED
  BY <1>7, <1>8, <1>9, <1>10, <1>12 DEF NonceInv

\* No challenge yet.
LEMMA NonceInvInit == RtspInit => NonceInv
BY DEF RtspInit, NonceInv, ProxyTypes, ChallengesNew, SignedInOrder, AllPlaced, Placed,
       ShownOnce, Seen, NoAuth, AuthState, Request, Answer, AtMost

\* Only the proxy signs and only the camera challenges.
LEMMA NonceInvNext == NonceInv /\ [RtspNext]_rtspVars => NonceInv'
<1> SUFFICES ASSUME NonceInv, [RtspNext]_rtspVars PROVE NonceInv'
  OBVIOUS
<1>1. CASE /\ UNCHANGED <<auth, toCam, toProxy, given, shown>>
           /\ asked' \in {asked, asked + 1}
  <2>1. ProxyTypes' /\ Seen' = Seen
    BY <1>1 DEF NonceInv, ProxyTypes, Seen
  <2>2. ChallengesNew' /\ ShownOnce'
    BY <1>1 DEF NonceInv, ChallengesNew, ShownOnce
  <2>3. SignedInOrder' /\ AllPlaced'
    BY <1>1, <2>1 DEF NonceInv, SignedInOrder, AllPlaced
  <2> QED
    BY <2>1, <2>2, <2>3 DEF NonceInv
<1> QED
  BY <1>1, ReadRequestInv, ReadAnswerInv, CameraInv
  DEF RtspNext, ProxyStep, ClientConnect, ClientAsk, ClientClose, ReadEnd, MediaEnds,
      TunnelCloses, rtspVars

\* The signatures with one nonce and one count belong to different challenges, and
\* these gave that nonce.
LEMMA NonceCounted == NonceInv => NonceCountOnce
<1> SUFFICES ASSUME NonceInv, NEW j \in DOMAIN shown
             PROVE  LET Same == {i \in DOMAIN shown :
                                   /\ given[shown[i].challenge] = given[shown[j].challenge]
                                   /\ shown[i].count = shown[j].count}
                        Gave == {c \in DOMAIN given : given[c] = given[shown[j].challenge]}
                    IN Cardinality(Same) <= Cardinality(Gave)
  BY DEF NonceCountOnce
<1> DEFINE Same == {i \in DOMAIN shown : /\ given[shown[i].challenge] = given[shown[j].challenge]
                                         /\ shown[i].count = shown[j].count}
           Gave == {c \in DOMAIN given : given[c] = given[shown[j].challenge]}
           Origin == [i \in Same |-> shown[i].challenge]
<1>1. /\ DOMAIN shown = 1..Len(shown) /\ DOMAIN given = 1..Len(given)
      /\ Len(given) \in Nat /\ \A i \in DOMAIN shown : shown[i] \in AuthState
  BY LenProperties, ElementOfSeq DEF NonceInv, ProxyTypes
<1>2. \A i \in DOMAIN shown : shown[i].challenge \in DOMAIN given
  <2> TAKE i \in DOMAIN shown
  <2>1. shown[i] \in AuthState /\ shown[i] \in Seen
    BY <1>1 DEF Seen
  <2>2. shown[i].challenge >= 1 /\ AtMost(shown[i], auth) /\ auth.challenge <= Len(given)
        /\ auth \in AuthState
    BY <2>1 DEF NonceInv, AllPlaced, SignedInOrder, ChallengesNew, ProxyTypes
  <2> QED
    BY <1>1, <2>1, <2>2 DEF AtMost, Before, AuthState
<1>3. Origin \in Injection(Same, Gave)
  <2>1. Origin \in [Same -> Gave]
    BY <1>2
  <2>2. ASSUME NEW i \in Same, NEW k \in Same, Origin[i] = Origin[k]
        PROVE  i = k
    <3>1. shown[i].challenge = shown[k].challenge /\ shown[i].count = shown[k].count
      BY <2>2
    <3>2. shown[i] = shown[k]
      BY <1>1, <3>1 DEF AuthState
    <3> QED
      BY <1>1, <3>2 DEF NonceInv, ShownOnce
  <2> QED
    BY <2>1, <2>2 DEF Injection, IsInjective
<1>4. IsFiniteSet(Gave)
  <2>1. IsFiniteSet(1..Len(given))
    BY <1>1, FS_Interval
  <2> QED
    BY <1>1, <2>1, FS_Subset
<1> HIDE DEF Same, Gave, Origin
<1>5. Cardinality(Same) <= Cardinality(Gave)
  BY <1>3, <1>4, FS_Injection
<1> QED
  BY <1>5 DEF Same, Gave

-------------------------------------------------------------------------------
(* What AnswersInOrder rests on: one request at a time. *)

\* The request the client waits for is in one place, at most.
Outstanding ==
    /\ Len(toCam) + Len(toProxy) <= 1
    /\ \A i \in 1..Len(toCam) : toCam[i].n = asked
    /\ \A i \in 1..Len(toProxy) : toProxy[i].n = asked /\ toProxy[i].kind # "frame"
    /\ ~waiting \/ taken < asked => toCam = <<>> /\ toProxy = <<>>

\* What the client has got, and how far the proxy is.
Answered ==
    /\ taken \in Nat /\ taken <= asked /\ waiting \in BOOLEAN
    /\ taken < asked \/ conn \in {"await", "retry"} => waiting
    /\ conn \in {"await", "retry"} => taken = asked
    /\ waiting => asked >= 1
    /\ delivered \in Seq(Nat)
    /\ Len(delivered) = IF waiting THEN asked - 1 ELSE asked
    /\ \A i \in 1..Len(delivered) : delivered[i] = i

OrderInv == ~eager => Outstanding /\ Answered

\* A queue of one.
LEMMA Single ==
    ASSUME NEW S, NEW e \in S
    PROVE  /\ Append(<<>>, e) \in Seq(S) /\ Len(Append(<<>>, e)) = 1
           /\ \A i \in 1..1 : Append(<<>>, e)[i] = e
OBVIOUS

\* A queue of length 0 is the empty one.
LEMMA EmptyQueues ==
    ASSUME ProxyTypes
    PROVE  /\ Len(toCam) \in Nat /\ Len(toProxy) \in Nat
           /\ Len(toCam) = 0 <=> toCam = <<>>
           /\ Len(toProxy) = 0 <=> toProxy = <<>>
BY EmptySeq, LenProperties DEF ProxyTypes

\* A request is read only when nothing of an earlier one is under way.
LEMMA OrderReadRequest ==
    ASSUME ProxyTypes, OrderInv, ReadRequest
    PROVE  OrderInv'
<1> SUFFICES ASSUME ~eager PROVE Outstanding' /\ Answered'
  BY DEF OrderInv, ReadRequest
<1>1. /\ conn = "read" /\ taken < asked /\ taken' = asked
      /\ UNCHANGED <<toProxy, asked, waiting, delivered>>
  BY DEF ReadRequest
<1>2. Outstanding /\ Answered /\ waiting /\ toCam = <<>> /\ toProxy = <<>>
  BY <1>1 DEF OrderInv, Outstanding, Answered
<1>3. Answered'
  BY <1>1, <1>2 DEF Answered, ProxyTypes
<1>4. CASE toCam' = toCam
  <2>1. toCam' = <<>> /\ toProxy' = <<>> /\ Len(<<>>) = 0
    BY <1>1, <1>2, <1>4, EmptySeq
  <2> QED
    BY <1>3, <2>1 DEF Outstanding
<1>5. CASE \E a : toCam' = Append(toCam, [n |-> asked, auth |-> a])
  <2>1. PICK a : toCam' = Append(toCam, [n |-> asked, auth |-> a])
    BY <1>5
  <2>2. /\ Len(toCam') = 1 /\ \A i \in 1..1 : toCam'[i] = [n |-> asked, auth |-> a]
    BY <1>2, <2>1, Single
  <2>3. Len(toProxy') = 0
    BY <1>1, <1>2, EmptySeq
  <2> QED
    BY <1>1, <1>2, <2>2, <2>3 DEF Outstanding, Answered, ProxyTypes
<1> QED
  BY <1>3, <1>4, <1>5 DEF ReadRequest

\* What comes back is the answer to that request: it is sent again or handed over.
LEMMA OrderReadAnswer ==
    ASSUME ProxyTypes, OrderInv, ReadAnswer
    PROVE  OrderInv'
<1> SUFFICES ASSUME ~eager PROVE Outstanding' /\ Answered'
  BY DEF OrderInv, ReadAnswer
<1>1. /\ conn \in {"await", "retry"} /\ toProxy # <<>> /\ toProxy' = Tail(toProxy)
      /\ UNCHANGED <<asked, taken>>
  BY DEF ReadAnswer
<1>2. Outstanding /\ Answered /\ waiting /\ taken = asked /\ asked \in Nat
  BY <1>1 DEF OrderInv, Outstanding, Answered, ProxyTypes
<1>3. /\ Head(toProxy) = toProxy[1] /\ Len(toProxy) \in Nat \ {0}
      /\ Tail(toProxy) \in Seq(Answer) /\ Len(Tail(toProxy)) = Len(toProxy) - 1
  BY <1>1, Popped DEF ProxyTypes
<1>4. /\ Len(toProxy) = 1 /\ toCam = <<>>
      /\ Head(toProxy).n = asked /\ Head(toProxy).kind # "frame"
  BY <1>2, <1>3, EmptyQueues DEF Outstanding
<1>5. toProxy' = <<>> /\ Len(toProxy') = 0
  BY <1>1, <1>3, <1>4, EmptySeq
<1>6. CASE Forward(Head(toProxy)) /\ UNCHANGED <<auth, toCam>>
  <2>1. /\ waiting' = FALSE /\ delivered' = Append(delivered, asked)
        /\ conn' \in {"media", "read"} /\ toCam' = <<>> /\ Len(toCam') = 0
    BY <1>4, <1>6, EmptySeq DEF Forward
  <2>2. /\ delivered \in Seq(Nat) /\ Len(delivered) = asked - 1
        /\ \A i \in 1..Len(delivered) : delivered[i] = i
    BY <1>2 DEF Answered
  <2>3. /\ delivered' \in Seq(Nat) /\ Len(delivered') = asked
        /\ \A i \in 1..asked :
             delivered'[i] = IF i <= Len(delivered) THEN delivered[i] ELSE asked
    BY <1>2, <2>1, <2>2, Pushed
  <2>4. \A i \in 1..asked : delivered'[i] = i
    BY <1>2, <2>2, <2>3
  <2>5. Answered'
    <3>1. taken' = asked' /\ asked' \in Nat /\ asked' = asked /\ conn' \notin {"await", "retry"}
      BY <1>1, <1>2, <2>1
    <3>2. ~waiting' /\ waiting' \in BOOLEAN
      BY <2>1, Zenon
    <3>3. taken' \in Nat /\ taken' <= asked' /\ ~(taken' < asked')
      BY <3>1
    <3> QED
      BY <2>1, <2>3, <2>4, <3>1, <3>2, <3>3 DEF Answered
  <2>6. Outstanding'
    BY <1>5, <2>1 DEF Outstanding
  <2> QED
    BY <2>5, <2>6
<1>7. CASE UNCHANGED <<waiting, delivered>>
  <2>1. Answered'
    BY <1>1, <1>2, <1>7 DEF Answered
  <2>2. CASE toCam' = toCam
    <3>1. toCam' = <<>> /\ Len(toCam') = 0
      BY <1>4, <2>2, EmptySeq
    <3>2. Len(toCam') + Len(toProxy') <= 1
      BY <1>5, <3>1
    <3>3. \A i : i \notin 1..Len(toCam') /\ i \notin 1..Len(toProxy')
      BY <1>5, <3>1
    <3> QED
      BY <1>5, <2>1, <3>1, <3>2, <3>3 DEF Outstanding
  <2>3. CASE \E a : toCam' = Append(toCam, [n |-> asked, auth |-> a])
    <3>1. PICK a : toCam' = Append(toCam, [n |-> asked, auth |-> a])
      BY <2>3
    <3>2. Len(toCam') = 1 /\ \A i \in 1..1 : toCam'[i] = [n |-> asked, auth |-> a]
      BY <1>4, <3>1, Single
    <3> QED
      BY <1>1, <1>2, <1>5, <1>7, <2>1, <3>2 DEF Outstanding
  <2> QED
    BY <1>7, <2>1, <2>2, <2>3 DEF ReadAnswer, Forward
<1> QED
  BY <1>6, <1>7 DEF ReadAnswer

\* A camera that is not eager answers a request once.
LEMMA OrderCamera ==
    ASSUME ProxyTypes, OrderInv, Camera
    PROVE  OrderInv'
<1> DEFINE r == Head(toCam)
<1> SUFFICES ASSUME ~eager' PROVE Outstanding' /\ Answered'
  BY DEF OrderInv
<1>1. PICK k \in {"challenge", "ok", "error"} : Reply(r, <<k>>) /\ eager' = eager
  BY DEF Camera
<1>2. /\ toCam # <<>> /\ UNCHANGED <<conn, asked, taken, waiting, delivered>>
  BY DEF Camera
<1>3. Outstanding /\ Answered /\ asked \in Nat
  BY <1>1 DEF OrderInv, ProxyTypes
<1>4. /\ r \in Request /\ r = toCam[1] /\ Tail(toCam) \in Seq(Request)
      /\ Len(toCam) \in Nat \ {0} /\ Len(Tail(toCam)) = Len(toCam) - 1
  BY <1>2, Popped DEF ProxyTypes
<1>5. Len(toCam) = 1 /\ toProxy = <<>> /\ r.n = asked
  BY <1>3, <1>4, EmptyQueues DEF Outstanding
<1>6. toCam' = <<>> /\ Len(toCam') = 0
  BY <1>1, <1>4, <1>5, EmptySeq DEF Reply
<1>7. toProxy' = <<[n |-> asked, kind |-> k, challenge |-> Len(given')]>>
  <2>1. toProxy' = <<>> \o [i \in DOMAIN <<k>> |->
                              [n |-> asked, kind |-> <<k>>[i], challenge |-> Len(given')]]
    BY <1>1, <1>5 DEF Reply
  <2>2. [i \in DOMAIN <<k>> |-> [n |-> asked, kind |-> <<k>>[i], challenge |-> Len(given')]]
          = <<[n |-> asked, kind |-> k, challenge |-> Len(given')]>>
    OBVIOUS
  <2> QED
    BY <2>1, <2>2
<1>8. /\ Len(toProxy') = 1
      /\ \A i \in 1..1 : toProxy'[i] = [n |-> asked, kind |-> k, challenge |-> Len(given')]
  BY <1>7
<1>9. Answered'
  BY <1>2, <1>3 DEF Answered
<1>10. Outstanding'
  BY <1>2, <1>3, <1>5, <1>6, <1>8 DEF Outstanding
<1> QED
  BY <1>9, <1>10

\* Nothing is asked and nothing is under way.
LEMMA OrderInvInit == RtspInit => OrderInv
<1> SUFFICES ASSUME RtspInit PROVE Outstanding /\ Answered
  BY DEF OrderInv
<1>1. toCam = <<>> /\ toProxy = <<>> /\ delivered = <<>> /\ Len(<<>>) = 0 /\ <<>> \in Seq(Nat)
  BY EmptySeq DEF RtspInit
<1>2. Outstanding
  BY <1>1 DEF Outstanding
<1>3. Answered
  <2>1. /\ taken = 0 /\ asked = 0 /\ waiting = FALSE /\ conn = "none"
        /\ Len(delivered) = 0 /\ delivered \in Seq(Nat)
    BY <1>1 DEF RtspInit
  <2>2. ~waiting /\ waiting \in BOOLEAN
    BY <2>1, Zenon
  <2>3. taken \in Nat /\ taken <= asked /\ ~(taken < asked) /\ 1..Len(delivered) = {}
    BY <2>1
  <2> QED
    BY <2>1, <2>2, <2>3 DEF Answered
<1> QED
  BY <1>2, <1>3

\* The other steps leave the queues alone.
LEMMA OrderInvNext == ProxyTypes /\ OrderInv /\ [RtspNext]_rtspVars => OrderInv'
<1> SUFFICES ASSUME ProxyTypes, OrderInv, [RtspNext]_rtspVars PROVE OrderInv'
  OBVIOUS
<1>1. CASE UNCHANGED <<toCam, toProxy, asked, taken, waiting, delivered, eager>>
           /\ (conn' \in {"await", "retry"} => conn' = conn)
  BY <1>1 DEF OrderInv, Outstanding, Answered
<1>2. CASE ClientAsk
  BY <1>2 DEF ClientAsk, OrderInv, Outstanding, Answered, ProxyTypes
<1> QED
  BY <1>1, <1>2, OrderReadRequest, OrderReadAnswer, OrderCamera
  DEF RtspNext, ProxyStep, ClientConnect, ClientClose, ReadEnd, MediaEnds, TunnelCloses,
      rtspVars

\* As many answers as were delivered, each at its place.
LEMMA OrderGives == OrderInv => AnswersInOrder
<1> SUFFICES ASSUME ~eager, OrderInv PROVE delivered = [i \in 1..Len(delivered) |-> i]
  BY DEF AnswersInOrder
<1>1. delivered \in [1..Len(delivered) -> Nat]
  BY LenProperties DEF OrderInv, Answered
<1> QED
  BY <1>1 DEF OrderInv, Answered

-------------------------------------------------------------------------------
(* What RemoteAccounted rests on. *)

\* The ticket a call works for has been issued.
CallsTicketed ==
    \A v \in Viewers : call[v].at # "none" =>
        call[v].ticket \in Tickets /\ grant[call[v].ticket] # "none"

\* A call with a session in hand knows which, and a POST has opened it itself.
OpenedOwned ==
    \A v \in Viewers :
        /\ call[v].at \in {"opened", "answer", "delete"} =>
             call[v].id \in Ids /\ remote[call[v].id] # "none"
        /\ call[v].at \in {"opened", "answer"} => owner[call[v].id] = call[v].ticket

\* A session in the map has been opened, and under that ticket.
EntriesOwned ==
    \A i \in Ids : entry[i] # NoTicket =>
        /\ remote[i] # "none"
        /\ entry[i] = owner[i]

\* The ticket a session was opened with has been issued.
OwnersTicketed ==
    \A i \in Ids : remote[i] # "none" =>
        owner[i] \in Tickets /\ grant[owner[i]] # "none"

\* A session has one POST, which tells the viewer its id last; until then nobody can
\* take its entry out, only the deadline.
ToldOnce ==
    /\ \A i \in known : remote[i] # "none"
    /\ \A v \in Viewers : call[v].at \in {"opened", "answer"} =>
         /\ call[v].id \notin known
         /\ \A w \in Viewers \ {v} :
              call[w].at \in {"opened", "answer"} => call[w].id # call[v].id
         /\ call[v].at = "answer" => \/ entry[call[v].id] = owner[call[v].id]
                                   \/ grant[owner[call[v].id]] = "expired"

ViewerInv ==
    /\ WhepTypeOK /\ CallsTicketed /\ OpenedOwned /\ EntriesOwned /\ OwnersTicketed
    /\ ToldOnce /\ RemoteAccounted

\* The definitions the invariant is made of.
LEMMA ViewerInvInit == WhepInit => ViewerInv
BY DEF WhepInit, NoCall, ViewerInv, WhepTypeOK, CallsTicketed, OpenedOwned,
       EntriesOwned, OwnersTicketed, ToldOnce, RemoteAccounted

\* The deadline of a ticket excuses all its sessions at once.
LEMMA TicketInv ==
    ASSUME ViewerInv, TicketStep
    PROVE  ViewerInv'
<1>1. WhepTypeOK'
  BY DEF ViewerInv, WhepTypeOK, TicketStep, IssueTicket, Issue, Expire
<1>2. CallsTicketed'
  BY DEF ViewerInv, CallsTicketed, WhepTypeOK, TicketStep, IssueTicket, Issue, Expire
<1>3. OpenedOwned'
  BY DEF ViewerInv, OpenedOwned, TicketStep, IssueTicket, Issue, Expire
<1>4. EntriesOwned'
  BY DEF ViewerInv, EntriesOwned, TicketStep, IssueTicket, Issue, Expire
<1>5. OwnersTicketed'
  BY DEF ViewerInv, OwnersTicketed, WhepTypeOK, TicketStep, IssueTicket, Issue, Expire
<1>6. RemoteAccounted'
  BY DEF ViewerInv, RemoteAccounted, WhepTypeOK, OwnersTicketed, TicketStep,
         IssueTicket, Issue, Expire
<1>7. ToldOnce'
  <2>1. /\ UNCHANGED <<entry, call, remote, owner, known>>
        /\ \A t \in Tickets : grant[t] = "expired" => grant'[t] = "expired"
    BY DEF ViewerInv, WhepTypeOK, TicketStep, IssueTicket, Issue, Expire, Granted
  <2>2. \A v \in Viewers : call[v].at = "answer" => owner[call[v].id] \in Tickets
    BY DEF ViewerInv, OpenedOwned, OwnersTicketed
  <2> QED
    BY <2>1, <2>2 DEF ViewerInv, ToldOnce
<1> QED
  BY <1>1, <1>2, <1>3, <1>4, <1>5, <1>6, <1>7 DEF ViewerInv

\* A POST starts with a ticket that was issued.
LEMMA PostBeginInv ==
    ASSUME ViewerInv, NEW v \in Viewers, NEW t \in Tickets, PostBegin(v, t)
    PROVE  ViewerInv'
<1>1. WhepTypeOK'
  BY DEF ViewerInv, WhepTypeOK, PostBegin, Enter
<1>2. CallsTicketed'
  BY DEF ViewerInv, CallsTicketed, PostBegin, Enter, Granted
<1>3. OpenedOwned'
  BY DEF ViewerInv, OpenedOwned, PostBegin, Enter
<1>4. EntriesOwned'
  BY DEF ViewerInv, EntriesOwned, PostBegin
<1>5. OwnersTicketed'
  BY DEF ViewerInv, OwnersTicketed, PostBegin
<1>6. RemoteAccounted'
  BY DEF ViewerInv, RemoteAccounted, PostBegin, Enter, At
<1>7. ToldOnce'
  BY DEF ViewerInv, ToldOnce, WhepTypeOK, OpenedOwned,
         PostBegin, Enter, Granted, At
<1> QED
  BY <1>1, <1>2, <1>3, <1>4, <1>5, <1>6, <1>7 DEF ViewerInv

\* A session that nobody has opened before gets its owner.
LEMMA PostMadeInv ==
    ASSUME ViewerInv, NEW v \in Viewers, NEW i \in Ids, PostMade(v, i)
    PROVE  ViewerInv'
<1>1. WhepTypeOK'
  <2>1. call[v] \in [at: {"none", "post", "opened", "answer", "patch", "delete"},
                     ticket: Tickets \cup {NoTicket}, id: Ids \cup {NoId}]
    BY DEF ViewerInv, WhepTypeOK
  <2>2. /\ call' = [call EXCEPT ![v] = [call[v] EXCEPT !.at = "opened", !.id = i]]
        /\ remote' = [remote EXCEPT ![i] = "open"]
        /\ owner' = [owner EXCEPT ![i] = call[v].ticket]
        /\ UNCHANGED <<grant, entry, known, lost>>
    BY DEF PostMade, PostOpens
  <2>3. [call[v] EXCEPT !.at = "opened", !.id = i]
          \in [at: {"none", "post", "opened", "answer", "patch", "delete"},
               ticket: Tickets \cup {NoTicket}, id: Ids \cup {NoId}]
    BY <2>1
  <2> QED
    BY <2>1, <2>2, <2>3 DEF ViewerInv, WhepTypeOK
<1>2. CallsTicketed'
  BY DEF ViewerInv, CallsTicketed, WhepTypeOK, PostMade, PostOpens, At
<1>3. OpenedOwned'
  BY DEF ViewerInv, OpenedOwned, WhepTypeOK, PostMade, PostOpens
<1>4. EntriesOwned'
  BY DEF ViewerInv, EntriesOwned, PostMade, PostOpens
<1>5. OwnersTicketed'
  BY DEF ViewerInv, OwnersTicketed, WhepTypeOK, CallsTicketed, PostMade, PostOpens, At
<1>6. RemoteAccounted'
  BY DEF ViewerInv, RemoteAccounted, WhepTypeOK, OwnersTicketed, PostMade, PostOpens
<1>7. ToldOnce'
  BY DEF ViewerInv, ToldOnce, WhepTypeOK, OpenedOwned,
         PostMade, PostOpens, At
<1> QED
  BY <1>1, <1>2, <1>3, <1>4, <1>5, <1>6, <1>7 DEF ViewerInv

\* A POST without a session leaves nothing behind.
LEMMA PostFailsInv ==
    ASSUME ViewerInv, NEW v \in Viewers, PostFails(v)
    PROVE  ViewerInv'
<1>1. WhepTypeOK'
  BY DEF ViewerInv, WhepTypeOK, PostFails, Return, NoCall
<1>2. CallsTicketed'
  BY DEF ViewerInv, CallsTicketed, PostFails, Return, NoCall
<1>3. OpenedOwned'
  BY DEF ViewerInv, OpenedOwned, PostFails, Return, NoCall
<1>4. EntriesOwned'
  BY DEF ViewerInv, EntriesOwned, PostFails
<1>5. OwnersTicketed'
  BY DEF ViewerInv, OwnersTicketed, PostFails
<1>6. RemoteAccounted'
  BY DEF ViewerInv, RemoteAccounted, PostFails, Return, At
<1>7. ToldOnce'
  BY DEF ViewerInv, ToldOnce, WhepTypeOK, OpenedOwned,
         PostFails, Return, NoCall, At
<1> QED
  BY <1>1, <1>2, <1>3, <1>4, <1>5, <1>6, <1>7 DEF ViewerInv

\* What retain throws out belongs to tickets that have expired.
LEMMA PostEntersInv ==
    ASSUME ViewerInv, NEW v \in Viewers, PostEnters(v)
    PROVE  ViewerInv'
<1>1. WhepTypeOK'
  <2>1. call[v] \in [at: {"none", "post", "opened", "answer", "patch", "delete"},
                     ticket: Tickets \cup {NoTicket}, id: Ids \cup {NoId}]
    BY DEF ViewerInv, WhepTypeOK
  <2>2. /\ call' = [call EXCEPT ![v] = [call[v] EXCEPT !.at = "answer"]]
        /\ entry' \in [Ids -> Tickets \cup {NoTicket}]
        /\ UNCHANGED <<grant, remote, owner, known, lost>>
    BY <2>1 DEF ViewerInv, WhepTypeOK, PostEnters, Pruned
  <2>3. [call[v] EXCEPT !.at = "answer"]
          \in [at: {"none", "post", "opened", "answer", "patch", "delete"},
               ticket: Tickets \cup {NoTicket}, id: Ids \cup {NoId}]
    BY <2>1
  <2> QED
    BY <2>2, <2>3 DEF ViewerInv, WhepTypeOK
<1>2. CallsTicketed'
  BY DEF ViewerInv, CallsTicketed, WhepTypeOK, PostEnters, At
<1>3. OpenedOwned'
  BY DEF ViewerInv, OpenedOwned, WhepTypeOK, PostEnters, At
<1>4. EntriesOwned'
  BY DEF ViewerInv, EntriesOwned, OpenedOwned, PostEnters, Pruned, At
<1>5. OwnersTicketed'
  BY DEF ViewerInv, OwnersTicketed, PostEnters
<1>6. RemoteAccounted'
  BY DEF ViewerInv, RemoteAccounted, WhepTypeOK, EntriesOwned, OpenedOwned,
         OwnersTicketed, PostEnters, Pruned, At, Granted
<1>7. ToldOnce'
  <2>1. /\ call[v].at = "opened" /\ UNCHANGED <<grant, remote, owner, known>>
        /\ call' = [call EXCEPT ![v].at = "answer"]
        /\ entry' = [Pruned EXCEPT ![call[v].id] = call[v].ticket]
    BY DEF PostEnters, At
  <2>2. call \in [Viewers -> [at: {"none", "post", "opened", "answer", "patch", "delete"},
                              ticket: Tickets \cup {NoTicket}, id: Ids \cup {NoId}]]
    BY DEF ViewerInv, WhepTypeOK
  <2>3. /\ \A w \in Viewers \ {v} : call'[w] = call[w]
        /\ call'[v].at = "answer" /\ call'[v].id = call[v].id
    BY <2>1, <2>2
  <2>4. call[v].id \in Ids /\ owner[call[v].id] = call[v].ticket
    BY <2>1 DEF ViewerInv, OpenedOwned
  <2>5. entry'[call[v].id] = owner[call[v].id]
    BY <2>1, <2>4 DEF Pruned
  <2>6. ASSUME NEW w \in Viewers \ {v}, call[w].at = "answer"
        PROVE  \/ entry'[call[w].id] = owner[call[w].id]
               \/ grant[owner[call[w].id]] = "expired"
    <3>1. call[w].id \in Ids /\ owner[call[w].id] \in Tickets /\ call[w].id # call[v].id
          /\ grant[owner[call[w].id]] \in {"valid", "expired"}
      BY <2>1, <2>6 DEF ViewerInv, OpenedOwned, OwnersTicketed, ToldOnce, WhepTypeOK
    <3>2. entry'[call[w].id] = Pruned[call[w].id]
      BY <2>1, <3>1 DEF Pruned
    <3>3. entry[call[w].id] = owner[call[w].id] \/ grant[owner[call[w].id]] = "expired"
      BY <2>6 DEF ViewerInv, ToldOnce
    <3> QED
      BY <3>1, <3>2, <3>3, WhepAssumption DEF Pruned, Granted
  <2>7. \A w \in Viewers : /\ call'[w].id = call[w].id
                           /\ call'[w].at \in {"opened", "answer"} <=> call[w].at \in {"opened", "answer"}
    BY <2>1, <2>3
  <2> QED
    BY <2>1, <2>3, <2>5, <2>6, <2>7 DEF ViewerInv, ToldOnce
<1> QED
  BY <1>1, <1>2, <1>3, <1>4, <1>5, <1>6, <1>7 DEF ViewerInv

\* The answer gives the viewer the id of an entry, unless retain has thrown it out.
LEMMA PostReturnsInv ==
    ASSUME ViewerInv, NEW v \in Viewers, PostReturns(v)
    PROVE  ViewerInv'
<1>1. WhepTypeOK'
  BY DEF ViewerInv, WhepTypeOK, OpenedOwned, PostReturns, Return, NoCall, At
<1>2. CallsTicketed'
  BY DEF ViewerInv, CallsTicketed, PostReturns, Return, NoCall
<1>3. OpenedOwned'
  BY DEF ViewerInv, OpenedOwned, PostReturns, Return, NoCall
<1>4. EntriesOwned'
  BY DEF ViewerInv, EntriesOwned, PostReturns
<1>5. OwnersTicketed'
  BY DEF ViewerInv, OwnersTicketed, PostReturns
<1>6. RemoteAccounted'
  BY DEF ViewerInv, RemoteAccounted, ToldOnce, WhepTypeOK, PostReturns, Return, At
<1>7. ToldOnce'
  BY DEF ViewerInv, ToldOnce, WhepTypeOK, OpenedOwned,
         PostReturns, Return, NoCall, At
<1> QED
  BY <1>1, <1>2, <1>3, <1>4, <1>5, <1>6, <1>7 DEF ViewerInv

\* An entry whose id nobody gets is on record.
LEMMA PostUnansweredInv ==
    ASSUME ViewerInv, NEW v \in Viewers, PostUnanswered(v)
    PROVE  ViewerInv'
<1>1. WhepTypeOK'
  BY DEF ViewerInv, WhepTypeOK, OpenedOwned, PostUnanswered, Return, NoCall, At
<1>2. CallsTicketed'
  BY DEF ViewerInv, CallsTicketed, PostUnanswered, Return, NoCall
<1>3. OpenedOwned'
  BY DEF ViewerInv, OpenedOwned, PostUnanswered, Return, NoCall
<1>4. EntriesOwned'
  BY DEF ViewerInv, EntriesOwned, PostUnanswered
<1>5. OwnersTicketed'
  BY DEF ViewerInv, OwnersTicketed, PostUnanswered
<1>6. RemoteAccounted'
  BY DEF ViewerInv, RemoteAccounted, PostUnanswered, Return, At
<1>7. ToldOnce'
  BY DEF ViewerInv, ToldOnce, WhepTypeOK, OpenedOwned,
         PostUnanswered, Return, NoCall, At
<1> QED
  BY <1>1, <1>2, <1>3, <1>4, <1>5, <1>6, <1>7 DEF ViewerInv

\* A session without a usable location is on record.
LEMMA PostMisplacedInv ==
    ASSUME ViewerInv, NEW v \in Viewers, PostMisplaced(v)
    PROVE  ViewerInv'
<1>1. WhepTypeOK'
  BY DEF ViewerInv, WhepTypeOK, OpenedOwned, PostMisplaced, Return, NoCall, At
<1>2. CallsTicketed'
  BY DEF ViewerInv, CallsTicketed, PostMisplaced, Return, NoCall
<1>3. OpenedOwned'
  BY DEF ViewerInv, OpenedOwned, PostMisplaced, Return, NoCall
<1>4. EntriesOwned'
  BY DEF ViewerInv, EntriesOwned, PostMisplaced
<1>5. OwnersTicketed'
  BY DEF ViewerInv, OwnersTicketed, PostMisplaced
<1>6. RemoteAccounted'
  BY DEF ViewerInv, RemoteAccounted, PostMisplaced, Return
<1>7. ToldOnce'
  BY DEF ViewerInv, ToldOnce, WhepTypeOK, OpenedOwned,
         PostMisplaced, Return, NoCall, At
<1> QED
  BY <1>1, <1>2, <1>3, <1>4, <1>5, <1>6, <1>7 DEF ViewerInv

\* A PATCH is made for a session that is in the map.
LEMMA PatchBeginInv ==
    ASSUME ViewerInv, NEW v \in Viewers, NEW t \in Tickets, NEW i \in Ids, PatchBegin(v, t, i)
    PROVE  ViewerInv'
<1>1. WhepTypeOK'
  BY DEF ViewerInv, WhepTypeOK, PatchBegin, Enter
<1>2. CallsTicketed'
  BY DEF ViewerInv, CallsTicketed, PatchBegin, Enter, Found, Granted
<1>3. OpenedOwned'
  BY DEF ViewerInv, OpenedOwned, PatchBegin, Enter
<1>4. EntriesOwned'
  BY DEF ViewerInv, EntriesOwned, PatchBegin
<1>5. OwnersTicketed'
  BY DEF ViewerInv, OwnersTicketed, PatchBegin
<1>6. RemoteAccounted'
  BY DEF ViewerInv, RemoteAccounted, PatchBegin, Enter, At
<1>7. ToldOnce'
  BY DEF ViewerInv, ToldOnce, WhepTypeOK, OpenedOwned,
         PatchBegin, Enter, Found, Granted, At
<1> QED
  BY <1>1, <1>2, <1>3, <1>4, <1>5, <1>6, <1>7 DEF ViewerInv

\* A PATCH that returns leaves the map alone.
LEMMA PatchReturnsInv ==
    ASSUME ViewerInv, NEW v \in Viewers, PatchReturns(v)
    PROVE  ViewerInv'
<1>1. WhepTypeOK'
  BY DEF ViewerInv, WhepTypeOK, PatchReturns, Return, NoCall
<1>2. CallsTicketed'
  BY DEF ViewerInv, CallsTicketed, PatchReturns, Return, NoCall
<1>3. OpenedOwned'
  BY DEF ViewerInv, OpenedOwned, PatchReturns, Return, NoCall
<1>4. EntriesOwned'
  BY DEF ViewerInv, EntriesOwned, PatchReturns
<1>5. OwnersTicketed'
  BY DEF ViewerInv, OwnersTicketed, PatchReturns
<1>6. RemoteAccounted'
  BY DEF ViewerInv, RemoteAccounted, PatchReturns, Return, At
<1>7. ToldOnce'
  BY DEF ViewerInv, ToldOnce, WhepTypeOK, OpenedOwned,
         PatchReturns, Return, NoCall, At
<1> QED
  BY <1>1, <1>2, <1>3, <1>4, <1>5, <1>6, <1>7 DEF ViewerInv

\* The session leaves the map for the hands of the call.
LEMMA DeleteBeginInv ==
    ASSUME ViewerInv, NEW v \in Viewers, NEW t \in Tickets, NEW i \in Ids, DeleteBegin(v, t, i)
    PROVE  ViewerInv'
<1>1. WhepTypeOK'
  BY DEF ViewerInv, WhepTypeOK, DeleteBegin, Enter
<1>2. CallsTicketed'
  BY DEF ViewerInv, CallsTicketed, DeleteBegin, Enter, Found, Granted
<1>3. OpenedOwned'
  BY WhepAssumption
  DEF ViewerInv, OpenedOwned, EntriesOwned, DeleteBegin, Enter, Found
<1>4. EntriesOwned'
  BY DEF ViewerInv, EntriesOwned, DeleteBegin
<1>5. OwnersTicketed'
  BY DEF ViewerInv, OwnersTicketed, DeleteBegin
<1>6. RemoteAccounted'
  BY DEF ViewerInv, RemoteAccounted, WhepTypeOK, DeleteBegin, Enter, At
<1>7. ToldOnce'
  BY DEF ViewerInv, ToldOnce, WhepTypeOK, OpenedOwned,
         DeleteBegin, Enter, Found, Granted, At
<1> QED
  BY <1>1, <1>2, <1>3, <1>4, <1>5, <1>6, <1>7 DEF ViewerInv

\* A session that MediaMTX has closed is nobody's concern.
LEMMA DeleteReturnsInv ==
    ASSUME ViewerInv, NEW v \in Viewers, DeleteReturns(v)
    PROVE  ViewerInv'
<1>1. WhepTypeOK'
  BY DEF ViewerInv, WhepTypeOK, DeleteReturns, Return, NoCall
<1>2. CallsTicketed'
  BY DEF ViewerInv, CallsTicketed, DeleteReturns, Return, NoCall
<1>3. OpenedOwned'
  BY DEF ViewerInv, OpenedOwned, DeleteReturns, Return, NoCall
<1>4. EntriesOwned'
  BY DEF ViewerInv, EntriesOwned, DeleteReturns
<1>5. OwnersTicketed'
  BY DEF ViewerInv, OwnersTicketed, OpenedOwned, DeleteReturns, At
<1>6. RemoteAccounted'
  BY DEF ViewerInv, RemoteAccounted, WhepTypeOK, DeleteReturns, Return
<1>7. ToldOnce'
  BY DEF ViewerInv, ToldOnce, WhepTypeOK, OpenedOwned,
         DeleteReturns, Return, NoCall, At
<1> QED
  BY <1>1, <1>2, <1>3, <1>4, <1>5, <1>6, <1>7 DEF ViewerInv

\* A DELETE that MediaMTX refuses or never gets is on record.
LEMMA DeleteFailsInv ==
    ASSUME ViewerInv, NEW v \in Viewers, DeleteFails(v)
    PROVE  ViewerInv'
<1>1. WhepTypeOK'
  BY DEF ViewerInv, WhepTypeOK, OpenedOwned, DeleteFails, Return, NoCall, At
<1>2. CallsTicketed'
  BY DEF ViewerInv, CallsTicketed, DeleteFails, Return, NoCall
<1>3. OpenedOwned'
  BY DEF ViewerInv, OpenedOwned, DeleteFails, Return, NoCall
<1>4. EntriesOwned'
  BY DEF ViewerInv, EntriesOwned, DeleteFails
<1>5. OwnersTicketed'
  BY DEF ViewerInv, OwnersTicketed, DeleteFails
<1>6. RemoteAccounted'
  BY DEF ViewerInv, RemoteAccounted, DeleteFails, Return
<1>7. ToldOnce'
  BY DEF ViewerInv, ToldOnce, WhepTypeOK, OpenedOwned,
         DeleteFails, Return, NoCall, At
<1> QED
  BY <1>1, <1>2, <1>3, <1>4, <1>5, <1>6, <1>7 DEF ViewerInv

\* A viewer that leaves in the middle of a POST or a DELETE is on record.
LEMMA LeaveInv ==
    ASSUME ViewerInv, NEW v \in Viewers, ViewerLeaves(v)
    PROVE  ViewerInv'
<1>1. WhepTypeOK'
  BY DEF ViewerInv, WhepTypeOK, OpenedOwned, ViewerLeaves, Return, NoCall, At
<1>2. CallsTicketed'
  BY DEF ViewerInv, CallsTicketed, ViewerLeaves, Return, NoCall
<1>3. OpenedOwned'
  BY DEF ViewerInv, OpenedOwned, ViewerLeaves, Return, NoCall
<1>4. EntriesOwned'
  BY DEF ViewerInv, EntriesOwned, ViewerLeaves
<1>5. OwnersTicketed'
  BY DEF ViewerInv, OwnersTicketed, ViewerLeaves
<1>6. RemoteAccounted'
  BY DEF ViewerInv, RemoteAccounted, ViewerLeaves, Return, At
<1>7. ToldOnce'
  BY DEF ViewerInv, ToldOnce, WhepTypeOK, OpenedOwned,
         ViewerLeaves, Return, NoCall, At
<1> QED
  BY <1>1, <1>2, <1>3, <1>4, <1>5, <1>6, <1>7 DEF ViewerInv

\* MediaMTX ends only sessions that are open.
LEMMA RemoteEndsInv ==
    ASSUME ViewerInv, NEW i \in Ids, RemoteEnds(i)
    PROVE  ViewerInv'
<1>1. WhepTypeOK'
  BY DEF ViewerInv, WhepTypeOK, RemoteEnds
<1>2. CallsTicketed'
  BY DEF ViewerInv, CallsTicketed, RemoteEnds
<1>3. OpenedOwned'
  BY DEF ViewerInv, OpenedOwned, RemoteEnds
<1>4. EntriesOwned'
  BY DEF ViewerInv, EntriesOwned, RemoteEnds
<1>5. OwnersTicketed'
  BY DEF ViewerInv, OwnersTicketed, RemoteEnds
<1>6. RemoteAccounted'
  BY DEF ViewerInv, RemoteAccounted, RemoteEnds
<1>7. ToldOnce'
  BY DEF ViewerInv, ToldOnce, WhepTypeOK, OpenedOwned,
         RemoteEnds
<1> QED
  BY <1>1, <1>2, <1>3, <1>4, <1>5, <1>6, <1>7 DEF ViewerInv

\* The tunnel and the gateway touch none of this.
LEMMA ElsewhereInv ==
    ASSUME ViewerInv, UNCHANGED whepVars
    PROVE  ViewerInv'
BY DEF ViewerInv, WhepTypeOK, CallsTicketed, OpenedOwned, EntriesOwned,
       OwnersTicketed, ToldOnce, RemoteAccounted, whepVars

\* One lemma for each step of a viewer.
LEMMA ViewerInvNext == ViewerInv /\ [ViewNext]_viewVars => ViewerInv'
<1> SUFFICES ASSUME ViewerInv, [ViewNext]_viewVars PROVE ViewerInv'
  OBVIOUS
<1>1. CASE TunnelStep \/ GatewayStep \/ UNCHANGED viewVars
  BY <1>1, ElsewhereInv DEF TunnelStep, GatewayStep, viewVars
<1>2. ASSUME NEW v \in Viewers, PostStep(v) PROVE ViewerInv'
  BY <1>2, PostBeginInv, PostMadeInv, PostFailsInv, PostEntersInv, PostReturnsInv,
     PostUnansweredInv, PostMisplacedInv
  DEF PostStep
<1>3. ASSUME NEW v \in Viewers, SessionStep(v) PROVE ViewerInv'
  BY <1>3, PatchBeginInv, DeleteBeginInv, PatchReturnsInv, DeleteReturnsInv,
     DeleteFailsInv, LeaveInv
  DEF SessionStep
<1> QED
  BY <1>1, <1>2, <1>3, TicketInv, RemoteEndsInv DEF ViewNext, ViewerStep

-------------------------------------------------------------------------------
(* What RtspTypeOK rests on: a camera that was eager leaves nothing to challenge. *)

\* After an eager answer there is nothing left to ask, so that nothing is signed.
EagerEnds ==
    /\ asked = Requests /\ taken = asked /\ toCam = <<>> /\ Len(toProxy) <= 2
    /\ \A i \in 1..Len(toProxy) : toProxy[i].kind # "challenge"

ProxyBounds ==
    /\ conn \in {"none", "read", "await", "retry", "media", "closed"}
    /\ conn \in {"await", "retry"} => taken >= 1
    /\ taken \in 0..asked /\ asked <= Requests /\ Len(given) <= MaxChallenges
    /\ auth.count <= taken
    /\ eager => EagerEnds

\* Nothing has been signed at first.
LEMMA BoundsInit == RtspInit => ProxyBounds
BY RtspAssumption DEF RtspInit, ProxyBounds, NoAuth

\* A request is read once, and signed once more than before.
LEMMA BoundsReadRequest ==
    ASSUME NonceInv, OrderInv, ProxyBounds, ReadRequest
    PROVE  ProxyBounds'
<1>1. /\ conn = "read" /\ taken < asked /\ taken' = asked
      /\ conn' \in {"await", "closed"} /\ UNCHANGED <<asked, given, eager>>
      /\ auth \in AuthState /\ asked \in Nat /\ ~eager
      /\ auth' = auth \/ auth' = Counted(auth)
  BY DEF ReadRequest, NonceInv, ProxyTypes, ProxyBounds, EagerEnds
<1>2. auth'.count <= taken'
  BY <1>1 DEF Counted, AuthState, ProxyBounds
<1> QED
  BY <1>1, <1>2 DEF ProxyBounds

\* An answer to a challenge starts its count at one.
LEMMA BoundsReadAnswer ==
    ASSUME NonceInv, OrderInv, ProxyBounds, ReadAnswer
    PROVE  ProxyBounds'
<1>1. /\ conn \in {"await", "retry"} /\ toProxy # <<>> /\ toProxy' = Tail(toProxy)
      /\ UNCHANGED <<asked, taken, given, eager>> /\ taken >= 1
      /\ conn' \in {"retry", "closed", "media", "read"}
  BY DEF ReadAnswer, Forward, ProxyBounds
<1>2. /\ Head(toProxy) \in Answer /\ Head(toProxy) = toProxy[1]
      /\ Len(toProxy) \in Nat \ {0} /\ Len(toProxy') = Len(toProxy) - 1
      /\ \A i \in 1..Len(toProxy') : toProxy'[i] = toProxy[i + 1]
  BY <1>1, Popped DEF NonceInv, ProxyTypes
<1>3. \/ UNCHANGED <<auth, toCam>>
      \/ /\ Head(toProxy).kind = "challenge"
         /\ auth' = Counted([challenge |-> Head(toProxy).challenge, count |-> 0])
  BY DEF ReadAnswer, Challenged
<1>4. auth'.count <= taken'
  BY <1>1, <1>3 DEF Counted, ProxyBounds
<1>5. eager => EagerEnds'
  <2> SUFFICES ASSUME eager PROVE EagerEnds'
    OBVIOUS
  <2>1. EagerEnds /\ Head(toProxy).kind # "challenge"
    BY <1>2 DEF ProxyBounds, EagerEnds
  <2>2. \A i \in 1..Len(toProxy') : i + 1 \in 1..Len(toProxy)
    BY <1>2
  <2> QED
    BY <1>1, <1>2, <1>3, <2>1, <2>2 DEF EagerEnds
<1> QED
  BY <1>1, <1>4, <1>5 DEF ProxyBounds

\* The eager answer is the last thing the camera has to say.
LEMMA BoundsCamera ==
    ASSUME NonceInv, OrderInv, ProxyBounds, Camera
    PROVE  ProxyBounds'
<1>1. /\ toCam # <<>> /\ ~eager
      /\ UNCHANGED <<conn, auth, asked, taken, waiting>>
  BY DEF Camera, ProxyBounds, EagerEnds
<1>2. Len(given') <= MaxChallenges
  <2>1. given \in Seq(Nat) /\ Len(given) \in Nat
    BY LenProperties DEF NonceInv, ProxyTypes
  <2>2. \A n : given' = Append(given, n) => Len(given') = Len(given) + 1
    BY <2>1, AppendProperties
  <2> QED
    BY <2>1, <2>2, RtspAssumption DEF Camera, ProxyBounds
<1>3. ASSUME eager' PROVE EagerEnds'
  <2>1. Reply(Head(toCam), <<"frame", "ok">>) /\ Head(toCam).n = Requests
    BY <1>1, <1>3 DEF Camera
  <2>2. Outstanding /\ Answered
    BY <1>1 DEF OrderInv
  <2>3. /\ Head(toCam) = toCam[1] /\ Len(toCam) \in Nat \ {0}
        /\ Tail(toCam) \in Seq(Request) /\ Len(Tail(toCam)) = Len(toCam) - 1
    BY <1>1, Popped DEF NonceInv, ProxyTypes
  <2>4. /\ Len(toCam) = 1 /\ toProxy = <<>> /\ asked = Requests /\ taken = asked
    BY <1>1, <2>1, <2>2, <2>3, EmptyQueues
    DEF Outstanding, Answered, NonceInv, ProxyTypes, ProxyBounds
  <2>5. toCam' = <<>>
    BY <2>1, <2>3, <2>4, EmptySeq DEF Reply
  <2>6. toProxy' = <<[n |-> Head(toCam).n, kind |-> "frame", challenge |-> Len(given')],
                     [n |-> Head(toCam).n, kind |-> "ok", challenge |-> Len(given')]>>
    <3>1. toProxy' = <<>> \o [i \in DOMAIN <<"frame", "ok">> |->
                [n |-> Head(toCam).n, kind |-> <<"frame", "ok">>[i], challenge |-> Len(given')]]
      BY <2>1, <2>4 DEF Reply
    <3>2. [i \in DOMAIN <<"frame", "ok">> |->
                [n |-> Head(toCam).n, kind |-> <<"frame", "ok">>[i], challenge |-> Len(given')]]
            = <<[n |-> Head(toCam).n, kind |-> "frame", challenge |-> Len(given')],
                [n |-> Head(toCam).n, kind |-> "ok", challenge |-> Len(given')]>>
      OBVIOUS
    <3> QED
      BY <3>1, <3>2
  <2> QED
    BY <1>1, <2>4, <2>5, <2>6 DEF EagerEnds
<1> QED
  BY <1>1, <1>2, <1>3 DEF ProxyBounds

\* Every step of the proxy keeps the bounds.
LEMMA BoundsNext ==
    ASSUME NonceInv, OrderInv, ProxyBounds, [RtspNext]_rtspVars
    PROVE  ProxyBounds'
<1>1. CASE /\ UNCHANGED <<auth, toCam, toProxy, asked, taken, given, eager>>
           /\ conn' \in {conn, "read", "closed"}
  BY <1>1 DEF ProxyBounds, EagerEnds
<1>2. CASE ClientAsk
  BY <1>2, RtspAssumption DEF ClientAsk, ProxyBounds, EagerEnds, NonceInv, ProxyTypes
<1> QED
  BY <1>1, <1>2, BoundsReadRequest, BoundsReadAnswer, BoundsCamera
  DEF RtspNext, ProxyStep, ClientConnect, ClientClose, ReadEnd, MediaEnds, TunnelCloses,
      rtspVars

\* The bounds are those of the type invariant.
LEMMA BoundsGive == NonceInv /\ OrderInv /\ ProxyBounds => RtspTypeOK
<1> SUFFICES ASSUME NonceInv, OrderInv, ProxyBounds PROVE RtspTypeOK
  OBVIOUS
<1>1. /\ auth \in AuthState /\ Len(given) \in Nat /\ asked \in Nat
      /\ auth.challenge <= Len(given)
  BY LenProperties DEF NonceInv, ProxyTypes, ChallengesNew
<1>2. auth.challenge \in 0..Len(given) /\ auth.count \in 0..(2 * Requests)
  BY <1>1, RtspAssumption DEF AuthState, ProxyBounds
<1>3. Len(toCam) + Len(toProxy) <= 2
  <2>1. Len(toCam) \in Nat /\ Len(toProxy) \in Nat /\ (toCam = <<>> => Len(toCam) = 0)
    BY EmptyQueues DEF NonceInv
  <2> QED
    BY <2>1 DEF ProxyBounds, EagerEnds, OrderInv, Outstanding
<1>4. \A d \in {toProxy[i] : i \in DOMAIN toProxy} :
         d.kind \in {"challenge", "ok", "error", "frame"}
  <2>1. \A i \in DOMAIN toProxy : toProxy[i] \in Answer
    BY ElementOfSeq, LenProperties DEF NonceInv, ProxyTypes
  <2> QED
    BY <2>1 DEF Answer, Kinds
<1> QED
  BY <1>1, <1>2, <1>3, <1>4, RtspAssumption DEF RtspTypeOK, ProxyBounds

-------------------------------------------------------------------------------
(* The requests of the handshake and their answers. *)

Asks == {"probe", "online", "relays", "probeDevice", "channel", "agent", "start",
         "relayChannel", "sync", "sign", "punch", "punches", "deviceSync", "auth", "close"}

Peers == {"none", "main", "p2psrv", "relay", "agent", "device"}

\* The kinds of datagram that answer a request.
KindsOf(ask) ==
    CASE ask = "channel" -> {"trying", "dh", "refused"}
      [] ask \in {"sync", "deviceSync"} -> {"sync"}
      [] ask \in {"sign", "auth"} -> {"empty", "command"}
      [] ask = "close" -> {"empty"}
      [] ask \in {"punch", "punches"} -> {"raw", "short"}
      [] OTHER -> {"dh", "refused"}

\* Requests with an answer that may be left over when the handshake goes on.
Loose == {"channel", "sign", "punch", "punches", "auth"}

Datagram ==
    {d \in [sock : 1..2, from : Peers, re : Asks, n : Nat \ {0},
            kind : {"dh", "trying", "refused", "raw", "short", "sync", "command", "empty"}] :
       /\ d.kind \in KindsOf(d.re)
       /\ d.kind \in {"sync", "command", "empty"} => d.n \in 1..2}

\* What Plan says, in the order of the handshake.
LEMMA PlanIs ==
    /\ Final = 16
    /\ \A j \in 1..16 :
         /\ Plan[j].sock \in 1..2 /\ Plan[j].ask \in Asks /\ Plan[j].at \in Peers
         /\ Plan[j].want = "later" <=> j = 5
         /\ Plan[j].want = "channel" <=> j = 8
         /\ Plan[j].want = "packet" <=> j = 10
         /\ Plan[j].want = "command" <=> j \in {11, 15}
         /\ Plan[j].want = "raw" <=> j = 12
         /\ Plan[j].want = "raws" <=> j = 13
         /\ Plan[j].want = "sync" <=> j = 14
         /\ Plan[j].want = "empty" <=> j = 16
         /\ Plan[j].want \in {"any", "field"} <=> j \in {1, 2, 3, 4, 6, 7, 9}
BY DEF Final, Plan, Ask, Asks, Peers

\* Which request a step of the plan makes.
LEMMA AskIs ==
    \A j \in 1..16 :
         /\ Plan[j].ask = "channel" <=> j \in {5, 8}
         /\ Plan[j].ask = "sync" <=> j = 10
         /\ Plan[j].ask = "sign" <=> j = 11
         /\ Plan[j].ask = "punch" <=> j = 12
         /\ Plan[j].ask = "punches" <=> j = 13
         /\ Plan[j].ask = "deviceSync" <=> j = 14
         /\ Plan[j].ask = "auth" <=> j = 15
         /\ Plan[j].ask = "close" <=> j = 16
         /\ Plan[j].sock = 1 <=> j \in {1, 2, 3, 5, 8, 12, 13, 14, 15, 16}
         /\ Plan[j].sock = 2 <=> j \in {4, 6, 7, 9, 10, 11}
BY DEF Plan, Ask

\* What a request can be answered with.
LEMMA RepliesAre ==
    ASSUME NEW ask \in Asks, NEW r \in Replies(ask)
    PROVE  /\ \A i \in DOMAIN r : /\ r[i].kind \in KindsOf(ask) /\ r[i].n \in Nat \ {0}
                                  /\ r[i].kind \in {"sync", "command", "empty"} =>
                                       r[i].n \in 1..2
           /\ ask \notin Loose => DOMAIN r = {1}
BY P2PAssumption DEF Asks, Replies, KindsOf, Loose, Packet

-------------------------------------------------------------------------------
(* Types *)

Session == [sent : 0..(Width - 1), recv : 0..(Width - 1), count : 0..(Width - 1),
            id : 0..(Width - 1), rmid : 0..(Width - 1)]

HandshakeTypes ==
    /\ step \in 1..17 /\ phase \in {"send", "read", "again", "ok", "running", "failed"}
    /\ step = 17 <=> phase \in {"ok", "running"}
    /\ dups \in 0..MaxDups /\ left \in Int
    /\ peer \in [1..2 -> Peers]
    /\ inbox \in [1..2 -> Seq(Datagram)] /\ air \subseteq Datagram
    /\ sess \in Session /\ dev \in Session

\* The counters stay below their width.
LEMMA Wraps ==
    ASSUME NEW x \in 0..(Width - 1), NEW b \in Nat
    PROVE  (x + b) % Width \in 0..(Width - 1) /\ x % Width = x
BY P2PAssumption

\* A new session is one.
LEMMA NewTyped == NewSession \in Session
BY P2PAssumption DEF NewSession, Session

\* A sent packet moves the counter of what was sent, and wraps it.
LEMMA SendTyped ==
    ASSUME NEW x \in Session, NEW body \in {"sync", "command", "empty"}
    PROVE  /\ AfterSend(x, body) \in Session
           /\ AfterSend(x, body).recv = x.recv
           /\ AfterSend(x, body).sent = (x.sent + BodyLen[body]) % Width
<1>1. /\ (x.sent + BodyLen[body]) % Width \in 0..(Width - 1)
      /\ (x.id + 1) % Width \in 0..(Width - 1) /\ (x.count + 1) % Width \in 0..(Width - 1)
  BY Wraps DEF Session, BodyLen
<1> QED
  BY <1>1 DEF Session, AfterSend

\* A packet that is read moves the counter of what was received.
LEMMA RecvTyped ==
    ASSUME NEW x \in Session, NEW body \in {"sync", "command", "empty"}, NEW n \in 0..2
    PROVE  /\ AfterRecv(x, body, n) \in Session
           /\ AfterRecv(x, body, n).sent = x.sent
           /\ AfterRecv(x, body, n).recv = (x.recv + BodyLen[body]) % Width
<1>1. (x.recv + BodyLen[body]) % Width \in 0..(Width - 1) /\ n \in 0..(Width - 1)
  BY Wraps, P2PAssumption DEF Session, BodyLen
<1> QED
  BY <1>1 DEF Session, AfterRecv

\* The device gets a command and answers with what Replies says.
LEMMA DeviceTyped ==
    ASSUME HandshakeTypes, NEW ask \in Asks, OnDevice(ask), NEW r \in Replies(ask)
    PROVE  DeviceAfter(ask, r) \in Session
<1>1. BodyOf(ask) \in {"sync", "command", "empty"}
  BY DEF BodyOf
<1>2. AfterRecv(dev, BodyOf(ask), 0) \in Session
  BY <1>1, RecvTyped DEF HandshakeTypes
<1>3. r[1].kind \in {"sync", "command", "empty"}
  BY DEF OnDevice, Replies, Packet
<1>4. Len(r) = 1 \/ r[2].kind \in {"sync", "command", "empty"}
  BY DEF OnDevice, Replies, Packet
<1> QED
  BY <1>2, <1>3, <1>4, SendTyped DEF DeviceAfter

\* Before it ends the handshake is at a step of Plan.
LEMMA AtStep ==
    ASSUME HandshakeTypes, phase \in {"send", "read", "again"}
    PROVE  step \in 1..16 /\ Now.ask \in Asks /\ Now.sock \in 1..2 /\ Now.at \in Peers
<1>1. step \in 1..16
  BY DEF HandshakeTypes
<1> QED
  BY <1>1, PlanIs DEF Now

\* The types hold at first.
LEMMA TypesInit == P2PInit => HandshakeTypes
<1> SUFFICES ASSUME P2PInit PROVE HandshakeTypes
  OBVIOUS
<1>1. <<>> \in Seq(Datagram)
  BY EmptySeq
<1>2. NoMail \in [1..2 -> Seq(Datagram)] /\ NoPeer \in [1..2 -> Peers]
  BY <1>1 DEF NoMail, NoPeer, Peers
<1> QED
  BY <1>2, NewTyped, P2PAssumption DEF P2PInit, HandshakeTypes

\* The datagrams that a request brings about.
LEMMA TypesSend ==
    ASSUME HandshakeTypes, Send
    PROVE  HandshakeTypes'
<1>1. step \in 1..16 /\ Now.ask \in Asks /\ Now.sock \in 1..2 /\ Now.at \in Peers
  BY AtStep DEF Send
<1>2. air' \subseteq Datagram
  <2>1. CASE \E r \in Replies(Now.ask) :
               air' = air \cup {[sock |-> Now.sock, from |-> Now.at, re |-> Now.ask,
                                 n |-> r[i].n, kind |-> r[i].kind] : i \in DOMAIN r}
    <3>1. PICK r \in Replies(Now.ask) :
               air' = air \cup {[sock |-> Now.sock, from |-> Now.at, re |-> Now.ask,
                                 n |-> r[i].n, kind |-> r[i].kind] : i \in DOMAIN r}
      BY <2>1
    <3>2. ASSUME NEW i \in DOMAIN r
          PROVE  [sock |-> Now.sock, from |-> Now.at, re |-> Now.ask,
                  n |-> r[i].n, kind |-> r[i].kind] \in Datagram
      <4>1. r[i].kind \in KindsOf(Now.ask) /\ r[i].n \in Nat \ {0}
            /\ (r[i].kind \in {"sync", "command", "empty"} => r[i].n \in 1..2)
        BY <1>1, RepliesAre
      <4>2. r[i].kind \in {"dh", "trying", "refused", "raw", "short", "sync", "command", "empty"}
        BY <4>1 DEF KindsOf
      <4> QED
        BY <1>1, <4>1, <4>2 DEF Datagram
    <3> QED
      BY <3>1, <3>2 DEF HandshakeTypes
  <2> QED
    BY <2>1 DEF Send, HandshakeTypes
<1>3. sess' \in Session
  <2>1. SessionFor(Now.ask) \in Session /\ BodyOf(Now.ask) \in {"sync", "command", "empty"}
    BY NewTyped DEF SessionFor, BodyOf, HandshakeTypes
  <2> QED
    BY <2>1, SendTyped DEF Send, HandshakeTypes
<1>4. dev' \in Session
  BY <1>1, DeviceTyped DEF Send, HandshakeTypes
<1>5. peer' \in [1..2 -> Peers]
  BY <1>1 DEF Send, HandshakeTypes
<1>6. /\ step' \in 1..17 /\ phase' \in {"send", "read"} /\ step' # 17 /\ left' \in Int
  <2>1. Now.want = "later" => step # 16
    BY <1>1, PlanIs DEF Now
  <2>2. step' \in 1..16 /\ phase' \in {"send", "read"}
    <3>1. \/ step' = step /\ phase' = "read"
          \/ Now.want = "later" /\ step' = step + 1 /\ phase' = "send"
      BY DEF Send
    <3> QED
      BY <1>1, <2>1, <3>1
  <2>3. left' \in Int
    BY P2PAssumption DEF Send, HandshakeTypes
  <2> QED
    BY <2>2, <2>3
<1>7. dups' \in 0..MaxDups /\ inbox' \in [1..2 -> Seq(Datagram)]
  BY DEF Send, HandshakeTypes
<1> QED
  BY <1>2, <1>3, <1>4, <1>5, <1>6, <1>7 DEF HandshakeTypes

\* What is read was received.
LEMMA ReadsHead ==
    ASSUME HandshakeTypes, Read
    PROVE  /\ step \in 1..16 /\ Now.sock \in 1..2 /\ Now.ask \in Asks
           /\ inbox[Now.sock] \in Seq(Datagram) /\ inbox[Now.sock] # <<>>
           /\ Len(inbox[Now.sock]) \in Nat \ {0}
           /\ Head(inbox[Now.sock]) = inbox[Now.sock][1]
           /\ Head(inbox[Now.sock]) \in Datagram
           /\ inbox' = [inbox EXCEPT ![Now.sock] = Tail(inbox[Now.sock])]
           /\ Tail(inbox[Now.sock]) \in Seq(Datagram)
           /\ Len(Tail(inbox[Now.sock])) = Len(inbox[Now.sock]) - 1
           /\ \A i \in 1..Len(Tail(inbox[Now.sock])) :
                Tail(inbox[Now.sock])[i] = inbox[Now.sock][i + 1]
<1>1. step \in 1..16 /\ Now.sock \in 1..2 /\ Now.ask \in Asks
  BY AtStep DEF Read
<1>2. /\ inbox[Now.sock] \in Seq(Datagram) /\ inbox[Now.sock] # <<>>
      /\ inbox' = [inbox EXCEPT ![Now.sock] = Tail(inbox[Now.sock])]
  BY <1>1 DEF Read, HandshakeTypes
<1> QED
  BY <1>1, <1>2, Popped

\* A read keeps the types.
LEMMA TypesRead ==
    ASSUME HandshakeTypes, Read
    PROVE  HandshakeTypes'
<1> DEFINE d == Head(inbox[Now.sock])
<1>1. sess' \in Session
  <2>1. d \in Datagram
    BY ReadsHead
  <2>2. d.kind \in DOMAIN BodyLen => d.kind \in {"sync", "command", "empty"} /\ d.n \in 0..2
    BY <2>1 DEF BodyLen, Datagram
  <2> QED
    BY <2>2, RecvTyped DEF Read, HandshakeTypes
<1>2. inbox' \in [1..2 -> Seq(Datagram)]
  BY ReadsHead DEF HandshakeTypes
<1>3. /\ step' \in 1..17 /\ phase' \in {"send", "again", "ok", "failed"}
      /\ step' = 17 <=> phase' = "ok"
  <2>1. step \in 1..16 /\ (Finished <=> step = 16)
    BY ReadsHead, PlanIs DEF Finished
  <2>2. \/ phase' = "again" /\ step' = step
        \/ phase' = (IF Finished THEN "ok" ELSE "send") /\ step' = step + 1
        \/ phase' = "failed" /\ step' = step
    BY DEF Read
  <2> QED
    BY <2>1, <2>2
<1>4. left' \in Int /\ UNCHANGED <<peer, air, dups, dev>>
  BY DEF Read, HandshakeTypes
<1> QED
  BY <1>1, <1>2, <1>3, <1>4 DEF HandshakeTypes

\* The network moves datagrams, and copies them.
LEMMA TypesNetwork ==
    ASSUME HandshakeTypes, Arrive \/ Lose \/ Duplicate
    PROVE  HandshakeTypes'
<1>1. \A d \in air : d.sock \in 1..2
  BY DEF HandshakeTypes, Datagram
<1>2. \A d \in air : [inbox EXCEPT ![d.sock] = Append(@, d)] \in [1..2 -> Seq(Datagram)]
  BY <1>1, Pushed DEF HandshakeTypes
<1>3. inbox' \in [1..2 -> Seq(Datagram)]
  <2>1. inbox' = inbox \/ \E d \in air : inbox' = [inbox EXCEPT ![d.sock] = Append(@, d)]
    BY DEF Arrive, Lose, Duplicate
  <2> QED
    BY <1>2, <2>1 DEF HandshakeTypes
<1>4. air' \subseteq Datagram /\ dups' \in 0..MaxDups
  BY P2PAssumption DEF Arrive, Lose, Duplicate, HandshakeTypes
<1>5. UNCHANGED <<step, phase, left, peer, sess, dev>>
  BY DEF Arrive, Lose, Duplicate
<1> QED
  BY <1>3, <1>4, <1>5 DEF HandshakeTypes

\* Every step of the handshake keeps the types.
LEMMA TypesNext ==
    ASSUME HandshakeTypes, [P2PNext]_p2pVars
    PROVE  HandshakeTypes'
<1>1. CASE SendFails \/ Timeout
  BY <1>1 DEF SendFails, Timeout, HandshakeTypes
<1>2. CASE TakeOver
  <2>1. NoMail \in [1..2 -> Seq(Datagram)] /\ NoPeer \in [1..2 -> Peers]
    BY EmptySeq DEF NoMail, NoPeer, Peers
  <2> QED
    BY <1>2, <2>1, NewTyped, P2PAssumption DEF TakeOver, HandshakeTypes
<1>3. CASE UNCHANGED p2pVars
  BY <1>3 DEF p2pVars, HandshakeTypes
<1> QED
  BY <1>1, <1>2, <1>3, TypesSend, TypesRead, TypesNetwork DEF P2PNext, Progress

\* They are those of the type invariant.
LEMMA TypesGive == HandshakeTypes => P2PTypeOK
<1> SUFFICES ASSUME HandshakeTypes PROVE P2PTypeOK
  OBVIOUS
<1>1. \A x \in {sess, dev} : \A f \in DOMAIN NewSession : x[f] \in 0..(Width - 1)
  <2>1. ASSUME NEW x \in Session
        PROVE  \A f \in DOMAIN NewSession : x[f] \in 0..(Width - 1)
    BY DEF Session, NewSession
  <2> QED
    BY <2>1 DEF HandshakeTypes
<1> QED
  BY <1>1, PlanIs DEF HandshakeTypes, P2PTypeOK
-------------------------------------------------------------------------------
(* What is on its way. *)

\* The requests that have been sent.
Sent == {j \in 1..16 : j < step \/ (j = step /\ phase # "send")}

Answers(d, requests) == \E j \in requests : Plan[j].ask = d.re /\ Plan[j].sock = d.sock

\* Every datagram answers a request that was made, on the socket that made it.
InFlight ==
    Waiting => /\ \A d \in air : Answers(d, Sent)
               /\ \A s \in 1..2 : \A i \in 1..Len(inbox[s]) :
                    inbox[s][i].sock = s /\ Answers(inbox[s][i], Sent)

\* What has been sent stays sent.
LEMMA SentOn ==
    ASSUME step \in Nat, step' \in Nat,
           \/ step' > step
           \/ step' = step /\ (phase # "send" => phase' # "send")
    PROVE  /\ Sent \subseteq Sent'
           /\ \A d : Answers(d, Sent) => Answers(d, Sent')
<1>1. Sent \subseteq Sent'
  BY DEF Sent
<1> QED
  BY <1>1 DEF Answers

\* A step that brings no new datagram.
LEMMA FlightGoesOn ==
    ASSUME HandshakeTypes, InFlight, Waiting, step' \in Nat,
           \/ step' > step
           \/ step' = step /\ (phase # "send" => phase' # "send"),
           air' \subseteq air,
           \A s \in 1..2 : \A i \in 1..Len(inbox'[s]) :
              \/ inbox'[s][i] \in air /\ inbox'[s][i].sock = s
              \/ \E k \in 1..Len(inbox[s]) : inbox'[s][i] = inbox[s][k]
    PROVE  InFlight'
<1>1. step \in Nat
  BY DEF HandshakeTypes
<1>2. \A d : Answers(d, Sent) => Answers(d, Sent')
  BY <1>1, SentOn
<1>3. ASSUME NEW d \in air' PROVE Answers(d, Sent')
  BY <1>2 DEF InFlight
<1>4. ASSUME NEW s \in 1..2, NEW i \in 1..Len(inbox'[s])
      PROVE  inbox'[s][i].sock = s /\ Answers(inbox'[s][i], Sent')
  <2>1. CASE inbox'[s][i] \in air /\ inbox'[s][i].sock = s
    BY <1>2, <2>1 DEF InFlight
  <2>2. CASE \E k \in 1..Len(inbox[s]) : inbox'[s][i] = inbox[s][k]
    BY <1>2, <2>2 DEF InFlight
  <2> QED
    BY <2>1, <2>2
<1> QED
  BY <1>3, <1>4 DEF InFlight

\* A read takes the first datagram of one socket; the others move up.
LEMMA ReadMoves ==
    ASSUME HandshakeTypes, Read
    PROVE  /\ air' = air /\ Waiting
           /\ \A s \in 1..2 : \A i \in 1..Len(inbox'[s]) :
                IF s = Now.sock
                THEN i + 1 \in 1..Len(inbox[s]) /\ inbox'[s][i] = inbox[s][i + 1]
                ELSE i \in 1..Len(inbox[s]) /\ inbox'[s][i] = inbox[s][i]
<1>1. air' = air /\ Waiting
  BY DEF Read, Waiting
<1>2. ASSUME NEW s \in 1..2, NEW i \in 1..Len(inbox'[s])
      PROVE  IF s = Now.sock
             THEN i + 1 \in 1..Len(inbox[s]) /\ inbox'[s][i] = inbox[s][i + 1]
             ELSE i \in 1..Len(inbox[s]) /\ inbox'[s][i] = inbox[s][i]
  <2>1. CASE s = Now.sock
    <3>1. inbox'[s] = Tail(inbox[s])
      BY <2>1, ReadsHead DEF HandshakeTypes
    <3>2. i \in 1..Len(Tail(inbox[s])) /\ i + 1 \in 1..Len(inbox[s])
      BY <2>1, <3>1, ReadsHead
    <3> QED
      BY <2>1, <3>1, <3>2, ReadsHead
  <2>2. CASE s # Now.sock
    BY <2>2, ReadsHead DEF HandshakeTypes
  <2> QED
    BY <2>1, <2>2
<1> QED
  BY <1>1, <1>2

\* What a step of the network leaves in a socket: what was there, in its place, and
\* possibly one datagram more.
LEMMA NetworkMoves ==
    ASSUME HandshakeTypes, Arrive \/ Lose \/ Duplicate
    PROVE  /\ air' \subseteq air
           /\ UNCHANGED <<step, phase, sess, dev, mistaken>>
           /\ \A s \in 1..2 : \A i \in 1..Len(inbox'[s]) :
                \/ i \in 1..Len(inbox[s]) /\ inbox'[s][i] = inbox[s][i]
                \/ inbox'[s][i] \in air /\ inbox'[s][i].sock = s /\ i = Len(inbox[s]) + 1
<1>1. air' \subseteq air /\ UNCHANGED <<step, phase, sess, dev, mistaken>>
  BY DEF Arrive, Lose, Duplicate
<1>2. CASE inbox' = inbox
  BY <1>1, <1>2, LenProperties DEF HandshakeTypes
<1>3. CASE \E d \in air : inbox' = [inbox EXCEPT ![d.sock] = Append(@, d)]
  <2>1. PICK d \in air : inbox' = [inbox EXCEPT ![d.sock] = Append(@, d)]
    BY <1>3
  <2>2. d \in Datagram /\ d.sock \in 1..2
    BY DEF HandshakeTypes, Datagram
  <2>3. ASSUME NEW s \in 1..2, NEW i \in 1..Len(inbox'[s])
        PROVE  \/ i \in 1..Len(inbox[s]) /\ inbox'[s][i] = inbox[s][i]
               \/ inbox'[s][i] \in air /\ inbox'[s][i].sock = s /\ i = Len(inbox[s]) + 1
    <3>1. CASE s = d.sock
      <4>1. inbox[s] \in Seq(Datagram) /\ inbox'[s] = Append(inbox[s], d)
        BY <2>1, <2>2, <3>1 DEF HandshakeTypes
      <4>2. /\ Len(inbox[s]) \in Nat /\ Len(inbox'[s]) = Len(inbox[s]) + 1
            /\ \A k \in 1..(Len(inbox[s]) + 1) :
                 inbox'[s][k] = IF k <= Len(inbox[s]) THEN inbox[s][k] ELSE d
        BY <2>2, <4>1, Pushed
      <4>3. i \in 1..Len(inbox[s]) \/ i = Len(inbox[s]) + 1
        BY <4>2
      <4> QED
        BY <3>1, <4>2, <4>3
    <3>2. CASE s # d.sock
      BY <2>1, <2>2, <3>2 DEF HandshakeTypes
    <3> QED
      BY <3>1, <3>2
  <2> QED
    BY <1>1, <2>3
<1> QED
  BY <1>2, <1>3 DEF Arrive, Lose, Duplicate

\* What a request brings.
LEMMA SendMoves ==
    ASSUME HandshakeTypes, Send
    PROVE  /\ inbox' = inbox /\ Waiting
           /\ air \subseteq air'
           /\ \A d \in air' \ air : d.re = Now.ask /\ d.sock = Now.sock
           /\ Now.ask \notin Loose => \A d, e \in air' \ air : d = e
           /\ \/ step' = step /\ phase' = "read"
              \/ step' = step + 1 /\ phase' = "send" /\ step = 5
<1>1. step \in 1..16 /\ Now.ask \in Asks /\ inbox' = inbox /\ Waiting
  BY AtStep DEF Send, Waiting
<1>2. \/ step' = step /\ phase' = "read"
      \/ step' = step + 1 /\ phase' = "send" /\ step = 5
  BY <1>1, PlanIs DEF Send, Now
<1>3. CASE \E r \in Replies(Now.ask) :
             air' = air \cup {[sock |-> Now.sock, from |-> Now.at, re |-> Now.ask,
                               n |-> r[i].n, kind |-> r[i].kind] : i \in DOMAIN r}
  <2>1. PICK r \in Replies(Now.ask) :
             air' = air \cup {[sock |-> Now.sock, from |-> Now.at, re |-> Now.ask,
                               n |-> r[i].n, kind |-> r[i].kind] : i \in DOMAIN r}
    BY <1>3
  <2>2. Now.ask \notin Loose => DOMAIN r = {1}
    BY <1>1, RepliesAre
  <2>3. \A d \in air' \ air : d.re = Now.ask /\ d.sock = Now.sock
    BY <2>1
  <2>4. Now.ask \notin Loose => \A d, e \in air' \ air : d = e
    BY <2>1, <2>2
  <2> QED
    BY <1>1, <1>2, <2>1, <2>3, <2>4
<1>4. CASE air' = air
  BY <1>1, <1>2, <1>4
<1> QED
  BY <1>3, <1>4 DEF Send

\* Every step leaves in flight only answers to what has been asked.
LEMMA FlightNext ==
    ASSUME HandshakeTypes, HandshakeTypes', InFlight, [P2PNext]_p2pVars
    PROVE  InFlight'
<1>1. CASE Send
  <2>1. step \in 1..16 /\ Now.ask = Plan[step].ask /\ Now.sock = Plan[step].sock
        /\ phase = "send" /\ Waiting
    BY <1>1, AtStep DEF Send, Now, Waiting
  <2>2. \A d : Answers(d, Sent) => Answers(d, Sent')
    BY <1>1, <2>1, SendMoves, SentOn
  <2>3. step \in Sent'
    BY <1>1, <2>1, SendMoves DEF Sent
  <2>4. ASSUME NEW d \in air' PROVE Answers(d, Sent')
    <3>1. CASE d \in air
      BY <2>1, <2>2, <3>1 DEF InFlight
    <3>2. CASE d \notin air
      <4>1. d.re = Plan[step].ask /\ d.sock = Plan[step].sock
        BY <1>1, <2>1, <3>2, SendMoves
      <4> QED
        BY <2>3, <4>1 DEF Answers
    <3> QED
      BY <3>1, <3>2
  <2>5. inbox' = inbox
    BY <1>1, SendMoves
  <2> QED
    BY <2>1, <2>2, <2>4, <2>5 DEF InFlight
<1>2. CASE Read
  <2>1. \/ step' > step
        \/ step' = step /\ (phase # "send" => phase' # "send")
    BY <1>2 DEF Read, HandshakeTypes
  <2>2. step' \in Nat
    BY DEF HandshakeTypes
  <2> QED
    BY <1>2, <2>1, <2>2, ReadMoves, FlightGoesOn
<1>3. CASE Arrive \/ Lose \/ Duplicate
  <2>1. step' = step /\ phase' = phase /\ step' \in Nat
    BY <1>3, NetworkMoves DEF HandshakeTypes
  <2> QED
    BY <1>3, <2>1, NetworkMoves, FlightGoesOn DEF InFlight, Waiting
<1>4. CASE SendFails \/ Timeout \/ TakeOver
  BY <1>4 DEF SendFails, Timeout, TakeOver, InFlight, Waiting
<1>5. CASE UNCHANGED p2pVars
  BY <1>5 DEF p2pVars, InFlight, Waiting, Sent
<1> QED
  BY <1>1, <1>2, <1>3, <1>4, <1>5 DEF P2PNext, Progress

\* Nothing is in flight at first.
LEMMA FlightInit == P2PInit => InFlight
BY DEF P2PInit, InFlight, NoMail

-------------------------------------------------------------------------------
(* OwnAnswers: as long as nothing was duplicated, a request that has one answer   *)
(* finds no other datagram on its socket that it could take.                      *)

\* The request whose answer is awaited.
Open == IF phase = "send" THEN {} ELSE {Now.ask}

OneAnswer ==
    Waiting /\ dups = 0 =>
       /\ \A d \in air : d.re \in Loose \cup Open
       /\ \A s \in 1..2 : \A i \in 1..Len(inbox[s]) : inbox[s][i].re \in Loose \cup Open
       /\ \A d, e \in air : d.re \notin Loose /\ e.re \notin Loose => d = e
       /\ \A s, t \in 1..2 : \A i \in 1..Len(inbox[s]) : \A j \in 1..Len(inbox[t]) :
             inbox[s][i].re \notin Loose /\ inbox[t][j].re \notin Loose => s = t /\ i = j
       /\ \A d \in air : \A s \in 1..2 : \A i \in 1..Len(inbox[s]) :
             d.re \in Loose \/ inbox[s][i].re \in Loose

NoneMistaken ==
    phase # "running" /\ dups = 0 => mistaken \subseteq {"punch", "punches", "close"}

\* A request takes its own answer: the kind of the datagram, the socket it came on
\* and the requests made so far leave no other.
LEMMA OwnKind ==
    ASSUME step \in 1..16, NEW d \in Datagram, d.sock = Now.sock, phase # "send",
           Answers(d, Sent), d.re \in Loose \cup {Now.ask}, Accepts(d),
           Now.ask \notin {"punch", "punches", "close"}
    PROVE  d.re = Now.ask
<1>1. PICK j \in 1..16 : /\ j <= step
                         /\ Plan[j].ask = d.re /\ Plan[j].sock = Plan[step].sock
  BY DEF Answers, Sent, Now
<1>2. d.kind \in KindsOf(d.re)
  BY DEF Datagram
<1>3. Now.ask = Plan[step].ask /\ Now.want = Plan[step].want
  BY DEF Now
<1>4. step \notin {12, 13, 16}
  BY <1>3, AskIs
<1>5. CASE Now.want \in {"field", "channel", "command"}
  <2>1. Now.want = "channel" => Now.ask = "channel"
    <3>1. Now.want = "channel" => step = 8
      BY DEF Now, Plan, Ask
    <3> QED
      BY <1>3, <3>1, AskIs
  <2> QED
    BY <1>5, <2>1 DEF Accepts
<1>6. CASE Now.want = "any"
  <2>1. step \in {1, 4, 7, 9}
    BY <1>6 DEF Now, Plan, Ask
  <2>2. d.kind \in {"dh", "trying"}
    BY <1>6 DEF Accepts
  <2>3. CASE d.re \in Loose
    <3>1. d.re = "channel"
      BY <1>2, <2>2, <2>3 DEF KindsOf, Loose
    <3>2. j \in {5, 8}
      BY <1>1, <3>1, AskIs
    <3>3. step \in {7, 9}
      BY <1>1, <2>1, <3>2
    <3>4. Plan[j].sock # Plan[step].sock
      BY <3>2, <3>3 DEF Plan, Ask
    <3> QED
      BY <1>1, <3>4
  <2> QED
    BY <2>3
<1>7. CASE Now.want = "packet"
  <2>1. step = 10
    BY <1>7 DEF Now, Plan, Ask
  <2>2. d.kind \in {"sync", "command", "empty"}
    BY <1>7 DEF Accepts, BodyLen
  <2>3. CASE d.re \in Loose
    <3>1. d.re \in {"sign", "auth"}
      BY <1>2, <2>2, <2>3 DEF KindsOf, Loose
    <3>2. j \in {11, 15}
      BY <1>1, <3>1, AskIs
    <3> QED
      BY <1>1, <2>1, <3>2
  <2> QED
    BY <2>3
<1>8. CASE Now.want = "sync"
  <2>1. d.kind = "sync"
    BY <1>8 DEF Accepts
  <2>2. d.re \notin Loose
    BY <1>2, <2>1 DEF KindsOf, Loose
  <2> QED
    BY <2>2
<1>9. Now.want \in {"field", "channel", "command", "any", "packet", "sync"}
  <2>1. Now.want # "later"
    BY DEF Accepts, Datagram
  <2> QED
    BY <1>4, <2>1 DEF Now, Plan, Ask
<1> QED
  BY <1>5, <1>6, <1>7, <1>8, <1>9

\* The datagram that is taken for the answer is the answer.
LEMMA TakesOwn ==
    ASSUME HandshakeTypes, InFlight, OneAnswer, Read, dups = 0,
           Accepts(Head(inbox[Now.sock])),
           Now.ask \notin {"punch", "punches", "close"}
    PROVE  Head(inbox[Now.sock]).re = Now.ask
<1>1. /\ step \in 1..16 /\ Head(inbox[Now.sock]) \in Datagram
      /\ Head(inbox[Now.sock]) = inbox[Now.sock][1]
      /\ Now.sock \in 1..2 /\ 1 \in 1..Len(inbox[Now.sock])
  BY ReadsHead
<1>2. Waiting /\ phase # "send"
  BY DEF Read, Waiting
<1>3. /\ inbox[Now.sock][1].sock = Now.sock /\ Answers(inbox[Now.sock][1], Sent)
      /\ inbox[Now.sock][1].re \in Loose \cup {Now.ask}
  BY <1>1, <1>2 DEF InFlight, OneAnswer, Open
<1> QED
  BY <1>1, <1>2, <1>3, OwnKind

\* The read that ends with this step leaves nothing that a later one could mistake.
LEMMA OneAnswerRead ==
    ASSUME HandshakeTypes, InFlight, OneAnswer, NoneMistaken, Read
    PROVE  OneAnswer' /\ NoneMistaken'
<1> DEFINE d == Head(inbox[Now.sock])
<1>1. /\ step \in 1..16 /\ d = inbox[Now.sock][1] /\ Now.sock \in 1..2
      /\ 1 \in 1..Len(inbox[Now.sock]) /\ Waiting /\ phase \in {"read", "again"}
      /\ dups' = dups /\ air' = air
  BY ReadsHead DEF Read, Waiting
<1>2. \A s \in 1..2 : \A i \in 1..Len(inbox'[s]) :
        \E k \in 1..Len(inbox[s]) :
           /\ inbox'[s][i] = inbox[s][k]
           /\ k = IF s = Now.sock THEN i + 1 ELSE i
  BY ReadMoves
<1>3. ASSUME dups = 0 PROVE NoneMistaken'
  <2>1. mistaken \subseteq {"punch", "punches", "close"}
    BY <1>1, <1>3 DEF NoneMistaken
  <2>2. CASE ~Skips(d) /\ Accepts(d)
    <3>1. mistaken' \subseteq mistaken \cup {Now.ask}
      BY <2>2 DEF Read
    <3>2. Now.ask \notin {"punch", "punches", "close"} => mistaken' = mistaken
      BY <1>3, <2>2, TakesOwn DEF Read
    <3> QED
      BY <2>1, <3>1, <3>2 DEF NoneMistaken
  <2>3. CASE Skips(d) \/ ~Accepts(d)
    BY <2>1, <2>3 DEF Read, NoneMistaken
  <2> QED
    BY <2>2, <2>3
<1>4. ASSUME Waiting', dups = 0 PROVE OneAnswer'
  <2>1. /\ \A s \in 1..2 : \A i \in 1..Len(inbox[s]) : inbox[s][i].re \in Loose \cup {Now.ask}
        /\ \A e \in air : e.re \in Loose \cup {Now.ask}
    BY <1>1, <1>4 DEF OneAnswer, Open
  <2>2. CASE phase' = "send" /\ Now.ask \notin Loose
    <3>1. ~Skips(d) /\ Accepts(d) /\ Now.ask # "close"
      <4>1. ~Skips(d) /\ Accepts(d) /\ ~Finished
        BY <2>2 DEF Read
      <4> QED
        BY <1>1, <4>1, AskIs, PlanIs DEF Finished, Now
    <3>2. d.re = Now.ask
      BY <1>4, <2>2, <3>1, TakesOwn DEF Loose
    <3>3. /\ \A e \in air : e.re \in Loose
          /\ \A s \in 1..2 : \A i \in 1..Len(inbox[s]) :
               s # Now.sock \/ i # 1 => inbox[s][i].re \in Loose
      BY <1>1, <1>4, <2>2, <3>2 DEF OneAnswer
    <3>4. ASSUME NEW s \in 1..2, NEW i \in 1..Len(inbox'[s])
          PROVE  inbox'[s][i].re \in Loose
      <4>1. PICK k \in 1..Len(inbox[s]) : /\ inbox'[s][i] = inbox[s][k]
                                         /\ k = IF s = Now.sock THEN i + 1 ELSE i
        BY <1>2
      <4>2. s # Now.sock \/ k # 1
        BY <4>1
      <4> QED
        BY <3>3, <4>1, <4>2
    <3> QED
      BY <1>1, <3>3, <3>4 DEF OneAnswer
  <2>3. CASE phase' # "send" \/ Now.ask \in Loose
    <3>1. Loose \cup {Now.ask} \subseteq Loose \cup Open'
      <4>1. CASE phase' = "again"
        BY <1>1, <4>1 DEF Open, Now, Read
      <4>2. phase' \in {"send", "again"}
        BY <1>4 DEF Waiting, Read
      <4> QED
        BY <2>3, <4>1, <4>2
    <3>2. \A s, t \in 1..2 : \A i \in 1..Len(inbox'[s]) : \A j \in 1..Len(inbox'[t]) :
             inbox'[s][i].re \notin Loose /\ inbox'[t][j].re \notin Loose => s = t /\ i = j
      <4>1. \A s, t \in 1..2 : \A i \in 1..Len(inbox[s]) : \A j \in 1..Len(inbox[t]) :
             inbox[s][i].re \notin Loose /\ inbox[t][j].re \notin Loose => s = t /\ i = j
        BY <1>1, <1>4 DEF OneAnswer
      <4>2. ASSUME NEW s \in 1..2, NEW t \in 1..2,
                   NEW i \in 1..Len(inbox'[s]), NEW j \in 1..Len(inbox'[t]),
                   inbox'[s][i].re \notin Loose, inbox'[t][j].re \notin Loose
            PROVE  s = t /\ i = j
        <5>1. PICK k \in 1..Len(inbox[s]) : /\ inbox'[s][i] = inbox[s][k]
                                           /\ k = IF s = Now.sock THEN i + 1 ELSE i
          BY <1>2
        <5>2. PICK m \in 1..Len(inbox[t]) : /\ inbox'[t][j] = inbox[t][m]
                                           /\ m = IF t = Now.sock THEN j + 1 ELSE j
          BY <1>2
        <5>3. s = t /\ k = m
          BY <4>1, <4>2, <5>1, <5>2
        <5> QED
          BY <5>1, <5>2, <5>3
      <4> QED
        BY <4>2
    <3>3. \A s \in 1..2 : \A i \in 1..Len(inbox'[s]) : inbox'[s][i].re \in Loose \cup {Now.ask}
      <4>1. \A s \in 1..2 : \A i \in 1..Len(inbox'[s]) :
              \E k \in 1..Len(inbox[s]) : inbox'[s][i] = inbox[s][k]
        BY <1>2
      <4> QED
        BY <2>1, <4>1
    <3>4. /\ \A e, f \in air : e.re \notin Loose /\ f.re \notin Loose => e = f
          /\ \A e \in air : \A s \in 1..2 : \A i \in 1..Len(inbox'[s]) :
               e.re \in Loose \/ inbox'[s][i].re \in Loose
      <4>1. /\ \A e, f \in air : e.re \notin Loose /\ f.re \notin Loose => e = f
            /\ \A e \in air : \A s \in 1..2 : \A i \in 1..Len(inbox[s]) :
                 e.re \in Loose \/ inbox[s][i].re \in Loose
        BY <1>1, <1>4 DEF OneAnswer
      <4>2. ASSUME NEW e \in air, NEW s \in 1..2, NEW i \in 1..Len(inbox'[s])
            PROVE  e.re \in Loose \/ inbox'[s][i].re \in Loose
        <5>1. PICK k \in 1..Len(inbox[s]) : inbox'[s][i] = inbox[s][k]
          BY <1>2
        <5> QED
          BY <4>1, <5>1
      <4> QED
        BY <4>1, <4>2
    <3> QED
      BY <1>1, <2>1, <3>1, <3>2, <3>3, <3>4 DEF OneAnswer
  <2> QED
    BY <2>2, <2>3
<1>5. CASE dups # 0
  BY <1>1, <1>5 DEF OneAnswer, NoneMistaken
<1> QED
  BY <1>3, <1>4, <1>5 DEF OneAnswer, HandshakeTypes

\* A send opens one request, after the last was answered.
LEMMA OneAnswerSend ==
    ASSUME HandshakeTypes, OneAnswer, Send
    PROVE  OneAnswer'
<1>1. /\ Open = {} /\ dups' = dups /\ inbox' = inbox /\ Waiting
  BY SendMoves DEF Open, Send
<1>2. ASSUME dups = 0 PROVE OneAnswer'
  <2>1. /\ \A d \in air : d.re \in Loose
        /\ \A s \in 1..2 : \A i \in 1..Len(inbox[s]) : inbox[s][i].re \in Loose
    BY <1>1, <1>2 DEF OneAnswer
  <2>2. Now.ask \in Loose \cup Open'
    <3>1. CASE step' = step /\ phase' = "read"
      BY <3>1 DEF Open, Now
    <3>2. CASE step = 5
      BY <3>2, AskIs DEF Now, Loose
    <3> QED
      BY <3>1, <3>2, SendMoves
  <2>3. \A d \in air' \ air : d.re = Now.ask
    BY SendMoves
  <2>4. \A d, e \in air' : d.re \notin Loose /\ e.re \notin Loose => d = e
    BY <2>1, <2>3, SendMoves
  <2>5. \A d \in air' : d.re \in Loose \cup Open'
    BY <2>1, <2>2, <2>3
  <2> QED
    BY <1>1, <2>1, <2>4, <2>5 DEF OneAnswer
<1> QED
  BY <1>1, <1>2 DEF OneAnswer

\* A datagram that arrives moves from the air to its socket.
LEMMA OneAnswerArrive ==
    ASSUME HandshakeTypes, OneAnswer, Waiting, Arrive
    PROVE  OneAnswer'
<1>1. PICK d \in air : /\ air' = air \ {d}
                       /\ \/ inbox' = inbox
                          \/ inbox' = [inbox EXCEPT ![d.sock] = Append(@, d)]
  BY DEF Arrive
<1>2. UNCHANGED <<step, phase, dups>>
  BY DEF Arrive
<1>3. Open' = Open
  BY <1>2 DEF Open, Now
<1>4. \A s \in 1..2 : \A i \in 1..Len(inbox'[s]) :
         \/ i \in 1..Len(inbox[s]) /\ inbox'[s][i] = inbox[s][i]
         \/ inbox'[s][i] = d /\ s = d.sock /\ i = Len(inbox[s]) + 1
  <2>1. CASE inbox' = inbox
    BY <2>1
  <2>2. CASE inbox' = [inbox EXCEPT ![d.sock] = Append(@, d)]
    <3>1. d \in Datagram /\ d.sock \in 1..2
      BY DEF HandshakeTypes, Datagram
    <3>2. ASSUME NEW s \in 1..2, NEW i \in 1..Len(inbox'[s])
          PROVE  \/ i \in 1..Len(inbox[s]) /\ inbox'[s][i] = inbox[s][i]
                 \/ inbox'[s][i] = d /\ s = d.sock /\ i = Len(inbox[s]) + 1
      <4>1. CASE s = d.sock
        <5>1. inbox[s] \in Seq(Datagram) /\ inbox'[s] = Append(inbox[s], d)
          BY <2>2, <3>1, <4>1 DEF HandshakeTypes
        <5>2. /\ Len(inbox[s]) \in Nat /\ Len(inbox'[s]) = Len(inbox[s]) + 1
              /\ \A k \in 1..(Len(inbox[s]) + 1) :
                   inbox'[s][k] = IF k <= Len(inbox[s]) THEN inbox[s][k] ELSE d
          BY <3>1, <5>1, Pushed
        <5>3. i \in 1..Len(inbox[s]) \/ i = Len(inbox[s]) + 1
          BY <5>2
        <5> QED
          BY <4>1, <5>2, <5>3
      <4>2. CASE s # d.sock
        BY <2>2, <3>1, <4>2 DEF HandshakeTypes
      <4> QED
        BY <4>1, <4>2
    <3> QED
      BY <3>2
  <2> QED
    BY <1>1, <2>1, <2>2
<1>5. ASSUME dups = 0 PROVE OneAnswer'
  <2>1. /\ \A e \in air : e.re \in Loose \cup Open
        /\ \A s \in 1..2 : \A i \in 1..Len(inbox[s]) : inbox[s][i].re \in Loose \cup Open
        /\ \A e, f \in air : e.re \notin Loose /\ f.re \notin Loose => e = f
        /\ \A s, t \in 1..2 : \A i \in 1..Len(inbox[s]) : \A j \in 1..Len(inbox[t]) :
              inbox[s][i].re \notin Loose /\ inbox[t][j].re \notin Loose => s = t /\ i = j
        /\ \A e \in air : \A s \in 1..2 : \A i \in 1..Len(inbox[s]) :
              e.re \in Loose \/ inbox[s][i].re \in Loose
    BY <1>5 DEF OneAnswer
  <2>2. \A s \in 1..2 : \A i \in 1..Len(inbox'[s]) : inbox'[s][i].re \in Loose \cup Open
    BY <1>4, <2>1
  <2>3. ASSUME NEW s \in 1..2, NEW t \in 1..2,
               NEW i \in 1..Len(inbox'[s]), NEW j \in 1..Len(inbox'[t]),
               inbox'[s][i].re \notin Loose, inbox'[t][j].re \notin Loose
        PROVE  s = t /\ i = j
    <3>1. \/ i \in 1..Len(inbox[s]) /\ inbox'[s][i] = inbox[s][i]
          \/ inbox'[s][i] = d /\ s = d.sock /\ i = Len(inbox[s]) + 1
      BY <1>4
    <3>2. \/ j \in 1..Len(inbox[t]) /\ inbox'[t][j] = inbox[t][j]
          \/ inbox'[t][j] = d /\ t = d.sock /\ j = Len(inbox[t]) + 1
      BY <1>4
    <3>3. CASE i \in 1..Len(inbox[s]) /\ inbox'[s][i] = inbox[s][i]
      <4>1. CASE j \in 1..Len(inbox[t]) /\ inbox'[t][j] = inbox[t][j]
        BY <2>1, <2>3, <3>3, <4>1
      <4>2. CASE inbox'[t][j] = d
        BY <2>1, <2>3, <3>3, <4>2
      <4> QED
        BY <3>2, <4>1, <4>2
    <3>4. CASE inbox'[s][i] = d /\ s = d.sock /\ i = Len(inbox[s]) + 1
      <4>1. CASE j \in 1..Len(inbox[t]) /\ inbox'[t][j] = inbox[t][j]
        BY <2>1, <2>3, <3>4, <4>1
      <4>2. CASE inbox'[t][j] = d /\ t = d.sock /\ j = Len(inbox[t]) + 1
        BY <3>4, <4>2
      <4> QED
        BY <3>2, <4>1, <4>2
    <3> QED
      BY <3>1, <3>3, <3>4
  <2>4. \A e \in air' : \A s \in 1..2 : \A i \in 1..Len(inbox'[s]) :
           e.re \in Loose \/ inbox'[s][i].re \in Loose
    BY <1>1, <1>4, <2>1
  <2>5. /\ \A e \in air' : e.re \in Loose \cup Open
        /\ \A e, f \in air' : e.re \notin Loose /\ f.re \notin Loose => e = f
    BY <1>1, <2>1
  <2> QED
    BY <1>3, <2>2, <2>3, <2>4, <2>5 DEF OneAnswer
<1> QED
  BY <1>2, <1>5 DEF OneAnswer

\* Every step keeps at most one answer to take.
LEMMA OneAnswerNext ==
    ASSUME HandshakeTypes, InFlight, OneAnswer, NoneMistaken, [P2PNext]_p2pVars
    PROVE  OneAnswer' /\ NoneMistaken'
<1>1. CASE Send
  BY <1>1, OneAnswerSend DEF Send, NoneMistaken
<1>2. CASE Read
  BY <1>2, OneAnswerRead
<1>3. CASE Waiting /\ Arrive
  BY <1>3, OneAnswerArrive DEF Arrive, NoneMistaken
<1>4. CASE Lose
  BY <1>4 DEF Lose, OneAnswer, NoneMistaken, Waiting, Open, Now
<1>5. CASE Duplicate
  BY <1>5 DEF Duplicate, OneAnswer, NoneMistaken, HandshakeTypes
<1>6. CASE SendFails \/ Timeout \/ TakeOver
  BY <1>6 DEF SendFails, Timeout, TakeOver, OneAnswer, NoneMistaken, Waiting
<1>7. CASE UNCHANGED p2pVars
  BY <1>7 DEF p2pVars, OneAnswer, NoneMistaken, Waiting, Open, Now
<1> QED
  BY <1>1, <1>2, <1>3, <1>4, <1>5, <1>6, <1>7 DEF P2PNext, Progress

\* There is none at first.
LEMMA OneAnswerInit == P2PInit => OneAnswer /\ NoneMistaken
BY DEF P2PInit, OneAnswer, NoneMistaken, NoMail

\* No answer has been mistaken for another.
LEMMA NoneMistakenGives == NoneMistaken => OwnAnswers
BY DEF NoneMistaken, OwnAnswers

-------------------------------------------------------------------------------
(* CountersAgree: what each end has counted at each step of the second handshake, *)
(* with the device.                                                               *)

\* The byte counts after the Sync, after the first command and after the last.
S1 == 4 % Width
S2 == (S1 + 12) % Width
S3 == (S2 + 12) % Width

Both(x, sent, recv) == x.sent = sent /\ x.recv = recv

\* Requests of which an answer is on its way.
AnswersOut == {ask \in Asks : \/ \E d \in air : d.re = ask
                            \/ \E s \in 1..2 : \E i \in 1..Len(inbox[s]) : inbox[s][i].re = ask}

Counting ==
    /\ phase \in {"send", "read", "again"} =>
         /\ step < 14 \/ (step = 14 /\ phase = "send") => dev = NewSession
         /\ step = 14 /\ phase # "send" =>
              /\ Both(sess, S1, 0)
              /\ dev = NewSession \/ Both(dev, S1, S1)
              /\ "deviceSync" \in AnswersOut => Both(dev, S1, S1)
         /\ step = 15 /\ phase = "send" => Both(sess, S1, S1) /\ Both(dev, S1, S1)
         /\ step = 15 /\ phase # "send" =>
              /\ Both(sess, S2, S1)
              /\ Both(dev, S1, S1) \/ Both(dev, S2, S2)
              /\ "auth" \in AnswersOut => Both(dev, S2, S2)
         /\ step = 16 /\ phase = "send" => Both(sess, S2, S2) /\ Both(dev, S2, S2)
         /\ step = 16 /\ phase # "send" =>
              Both(sess, S3, S2) /\ dev.sent = S2 /\ dev.recv \in {S2, S3}
    /\ phase = "ok" =>
         Both(sess, S3, S2) /\ dev.sent = S2 /\ dev.recv \in {S2, S3}

\* A counter that wrapped is found again.
LEMMA SteppedBack ==
    ASSUME NEW x \in 0..(Width - 1)
    PROVE  (((x + 12) % Width) - 12) % Width = x
BY P2PAssumption

\* What the two ends count, step by step.
LEMMA SumsAre ==
    /\ S1 \in 0..(Width - 1) /\ S2 \in 0..(Width - 1) /\ S3 \in 0..(Width - 1)
    /\ (0 + 4) % Width = S1 /\ (S1 + 12) % Width = S2 /\ (S2 + 12) % Width = S3
    /\ (S1 + 0) % Width = S1 /\ (S2 + 0) % Width = S2
    /\ (S3 - 12) % Width = S2
<1>1. S1 \in 0..(Width - 1) /\ (0 + 4) % Width = S1
  BY P2PAssumption DEF S1
<1>2. S2 \in 0..(Width - 1) /\ (S1 + 12) % Width = S2
  BY <1>1, Wraps DEF S2
<1>3. S3 \in 0..(Width - 1) /\ (S2 + 12) % Width = S3
  BY <1>2, Wraps DEF S3
<1>4. (S3 - 12) % Width = S2
  BY <1>2, <1>3, SteppedBack
<1>5. S1 + 0 = S1 /\ S2 + 0 = S2 /\ S1 % Width = S1 /\ S2 % Width = S2
  BY <1>1, <1>2, Wraps
<1> QED
  BY <1>1, <1>2, <1>3, <1>4, <1>5

\* What is answered is only ever what was asked, on the socket of the request.
LEMMA OutAsked ==
    ASSUME HandshakeTypes, InFlight, Waiting, NEW ask \in AnswersOut
    PROVE  \E j \in Sent : Plan[j].ask = ask
<1>1. CASE \E d \in air : d.re = ask
  BY <1>1 DEF InFlight, Answers
<1>2. CASE \E s \in 1..2 : \E i \in 1..Len(inbox[s]) : inbox[s][i].re = ask
  BY <1>2 DEF InFlight, Answers
<1> QED
  BY <1>1, <1>2 DEF AnswersOut

\* A step that sends nothing brings no new answer.
LEMMA NothingNew ==
    ASSUME HandshakeTypes, Read \/ Arrive \/ Lose \/ Duplicate
    PROVE  AnswersOut' \subseteq AnswersOut
<1>1. air' \subseteq air
  BY ReadMoves, NetworkMoves
<1>2. ASSUME NEW s \in 1..2, NEW i \in 1..Len(inbox'[s])
      PROVE  \/ inbox'[s][i] \in air
             \/ \E k \in 1..Len(inbox[s]) : inbox'[s][i] = inbox[s][k]
  BY ReadMoves, NetworkMoves
<1>3. ASSUME NEW ask \in AnswersOut' PROVE ask \in AnswersOut
  <2>1. ask \in Asks
    BY DEF AnswersOut
  <2>2. CASE \E d \in air' : d.re = ask
    BY <1>1, <2>1, <2>2 DEF AnswersOut
  <2>3. CASE \E s \in 1..2 : \E i \in 1..Len(inbox'[s]) : inbox'[s][i].re = ask
    BY <1>2, <2>1, <2>3 DEF AnswersOut
  <2> QED
    BY <2>2, <2>3 DEF AnswersOut
<1> QED
  BY <1>3

\* Both ends start from zero.
LEMMA CountingInit == P2PInit => Counting
BY DEF P2PInit, Counting

\* The peers of the relay leave the counters of the device alone.
LEMMA DeviceSteps ==
    ASSUME step \in 1..16
    PROVE  /\ OnDevice(Now.ask) <=> step \in 14..16
           /\ step = 14 => Now.ask = "deviceSync" /\ Now.want = "sync" /\ Now.sock = 1
           /\ step = 15 => Now.ask = "auth" /\ Now.want = "command" /\ Now.sock = 1
           /\ step = 16 => Now.ask = "close" /\ Now.want = "empty" /\ Now.sock = 1
           /\ step \in 14..16 => InPtcp(Now.ask)
           /\ Now.want = "later" <=> step = 5
<1>1. CASE step \in 14..16
  BY <1>1 DEF Now, Plan, Ask, OnDevice, InPtcp
<1>2. CASE step \in 1..13
  <2>1. Now.ask \notin {"deviceSync", "auth", "close"}
    BY <1>2, AskIs DEF Now
  <2> QED
    BY <1>2, <2>1, PlanIs DEF Now, OnDevice
<1> QED
  BY <1>1, <1>2

\* The device counts what the session sends it.
LEMMA CountingSend ==
    ASSUME HandshakeTypes, InFlight, Counting, Send
    PROVE  Counting'
<1>1. /\ step \in 1..16 /\ phase = "send" /\ Waiting
      /\ \/ step' = step /\ phase' = "read"
         \/ step' = step + 1 /\ phase' = "send" /\ step = 5
  BY AtStep, SendMoves DEF Send
<1>2. CASE step < 14
  <2>1. dev' = dev /\ dev = NewSession
    BY <1>1, <1>2, DeviceSteps DEF Send, Counting
  <2> QED
    BY <1>1, <1>2, <2>1 DEF Counting
<1>3. CASE step = 14
  <2>1. dev = NewSession /\ NewSession \in Session
    BY <1>1, <1>3, NewTyped DEF Counting
  <2>2. sess' = AfterSend(NewSession, "sync")
    BY <1>1, <1>3, DeviceSteps DEF Send, SessionFor, BodyOf
  <2>3. Both(sess', S1, 0)
    BY <2>1, <2>2, SendTyped, SumsAre DEF Both, NewSession, BodyLen
  <2>4. "deviceSync" \notin AnswersOut
    <3>1. \A j \in Sent : Plan[j].ask # "deviceSync"
      BY <1>1, <1>3, AskIs DEF Sent
    <3> QED
      BY <1>1, <3>1, OutAsked
  <2>5. CASE \E r \in Replies(Now.ask) : dev' = DeviceAfter(Now.ask, r)
    <3>1. dev' = AfterSend(AfterRecv(NewSession, "sync", 0), "sync")
      BY <1>1, <1>3, <2>1, <2>5, DeviceSteps DEF Replies, DeviceAfter, BodyOf, Packet
    <3>2. AfterRecv(NewSession, "sync", 0) \in Session
      BY <2>1, RecvTyped
    <3>3. Both(dev', S1, S1)
      BY <2>1, <3>1, <3>2, RecvTyped, SendTyped, SumsAre DEF Both, NewSession, BodyLen
    <3> QED
      BY <1>1, <1>3, <2>3, <3>3 DEF Counting
  <2>6. CASE UNCHANGED <<air, dev>>
    <3>1. AnswersOut' = AnswersOut
      BY <2>6, SendMoves DEF AnswersOut
    <3> QED
      BY <1>1, <1>3, <2>1, <2>3, <2>4, <2>6, <3>1 DEF Counting
  <2> QED
    BY <1>1, <1>3, <2>5, <2>6, DeviceSteps DEF Send
<1>4. CASE step = 15
  <2>1. Both(sess, S1, S1) /\ Both(dev, S1, S1) /\ sess \in Session /\ dev \in Session
    BY <1>1, <1>4 DEF Counting, HandshakeTypes
  <2>2. sess' = AfterSend(sess, "command")
    BY <1>1, <1>4, DeviceSteps DEF Send, SessionFor, BodyOf
  <2>3. Both(sess', S2, S1)
    BY <2>1, <2>2, SendTyped, SumsAre DEF Both, BodyLen
  <2>4. "auth" \notin AnswersOut
    <3>1. \A j \in Sent : Plan[j].ask # "auth"
      BY <1>1, <1>4, AskIs DEF Sent
    <3> QED
      BY <1>1, <3>1, OutAsked
  <2>5. CASE \E r \in Replies(Now.ask) : dev' = DeviceAfter(Now.ask, r)
    <3> DEFINE got == AfterRecv(dev, "command", 0)
    <3>1. got \in Session /\ got.sent = S1 /\ got.recv = S2
      BY <2>1, RecvTyped, SumsAre DEF Both, BodyLen
    <3>2. \/ dev' = AfterSend(got, "command")
          \/ dev' = AfterSend(AfterSend(got, "empty"), "command")
      BY <1>1, <1>4, <2>5, DeviceSteps DEF Replies, DeviceAfter, BodyOf, Packet
    <3> HIDE DEF got
    <3>3. Both(AfterSend(got, "command"), S2, S2)
      BY <3>1, SendTyped, SumsAre DEF Both, BodyLen
    <3>4. /\ AfterSend(got, "empty") \in Session
          /\ AfterSend(got, "empty").sent = S1 /\ AfterSend(got, "empty").recv = S2
      BY <3>1, SendTyped, SumsAre DEF BodyLen
    <3>5. Both(AfterSend(AfterSend(got, "empty"), "command"), S2, S2)
      BY <3>4, SendTyped, SumsAre DEF Both, BodyLen
    <3> QED
      BY <1>1, <1>4, <2>3, <3>2, <3>3, <3>5 DEF Counting
  <2>6. CASE UNCHANGED <<air, dev>>
    <3>1. AnswersOut' = AnswersOut
      BY <2>6, SendMoves DEF AnswersOut
    <3> QED
      BY <1>1, <1>4, <2>1, <2>3, <2>4, <2>6, <3>1 DEF Counting
  <2> QED
    BY <1>1, <1>4, <2>5, <2>6, DeviceSteps DEF Send
<1>5. CASE step = 16
  <2>1. Both(sess, S2, S2) /\ Both(dev, S2, S2) /\ sess \in Session /\ dev \in Session
    BY <1>1, <1>5 DEF Counting, HandshakeTypes
  <2>2. sess' = AfterSend(sess, "command")
    BY <1>1, <1>5, DeviceSteps DEF Send, SessionFor, BodyOf
  <2>3. Both(sess', S3, S2)
    BY <2>1, <2>2, SendTyped, SumsAre DEF Both, BodyLen
  <2>4. CASE \E r \in Replies(Now.ask) : dev' = DeviceAfter(Now.ask, r)
    <3> DEFINE got == AfterRecv(dev, "command", 0)
    <3>1. got \in Session /\ got.sent = S2 /\ got.recv = S3
      BY <2>1, RecvTyped, SumsAre DEF Both, BodyLen
    <3>2. dev' = AfterSend(got, "empty")
      BY <1>1, <1>5, <2>4, DeviceSteps DEF Replies, DeviceAfter, BodyOf, Packet
    <3> HIDE DEF got
    <3>3. dev'.sent = S2 /\ dev'.recv = S3
      BY <3>1, <3>2, SendTyped, SumsAre DEF BodyLen
    <3> QED
      BY <1>1, <1>5, <2>3, <3>3 DEF Counting
  <2>5. CASE UNCHANGED <<air, dev>>
    BY <1>1, <1>5, <2>1, <2>3, <2>5 DEF Counting, Both
  <2> QED
    BY <1>1, <1>5, <2>4, <2>5, DeviceSteps DEF Send
<1> QED
  BY <1>1, <1>2, <1>3, <1>4, <1>5

\* The session counts what it reads of the device.
LEMMA CountingRead ==
    ASSUME HandshakeTypes, InFlight, Counting, Read
    PROVE  Counting'
<1> DEFINE d == Head(inbox[Now.sock])
<1>1. /\ step \in 1..16 /\ phase \in {"read", "again"} /\ Waiting
      /\ d \in Datagram /\ dev' = dev /\ (Finished <=> step = 16)
      /\ \/ Skips(d) /\ phase' = "again" /\ step' = step
         \/ /\ ~Skips(d) /\ Accepts(d) /\ step' = step + 1
            /\ phase' = IF Finished THEN "ok" ELSE "send"
         \/ phase' = "failed"
  BY ReadsHead, PlanIs DEF Read, Waiting, Finished
<1>2. /\ d = inbox[Now.sock][1] /\ Now.sock \in 1..2 /\ 1 \in 1..Len(inbox[Now.sock])
      /\ d.kind \in KindsOf(d.re) /\ d.re \in Asks /\ d.n \in Nat
      /\ d.kind \in {"sync", "command", "empty"} => d.n \in 0..2
  BY <1>1, ReadsHead DEF Datagram
<1>3. d.re \in AnswersOut
  BY <1>2 DEF AnswersOut
<1>4. d.sock = Now.sock /\ Answers(d, Sent)
  BY <1>1, <1>2 DEF InFlight
<1>5. AnswersOut' \subseteq AnswersOut
  BY NothingNew
<1>6. step \in 14..16 => sess' = IF d.kind \in DOMAIN BodyLen
                                 THEN AfterRecv(sess, d.kind, d.n) ELSE sess
  BY <1>1, DeviceSteps DEF Read
<1> HIDE DEF d
<1>7. CASE phase' = "failed"
  BY <1>7 DEF Counting
<1>8. CASE step < 14 /\ phase' # "failed"
  BY <1>1, <1>8 DEF Counting
<1>9. CASE step = 14 /\ phase' # "failed"
  <2>1. ~Skips(d) /\ Accepts(d) /\ step' = 15 /\ phase' = "send"
    BY <1>1, <1>9, DeviceSteps DEF Skips
  <2>2. d.kind = "sync"
    BY <1>1, <1>9, <2>1, DeviceSteps DEF Accepts
  <2>3. d.re = "deviceSync"
    <3>1. d.re \in {"sync", "deviceSync"}
      BY <1>2, <2>2 DEF KindsOf
    <3>2. ASSUME d.re = "sync" PROVE FALSE
      <4>1. PICK j \in 1..16 : Plan[j].ask = "sync" /\ Plan[j].sock = d.sock
        BY <1>4, <3>2 DEF Answers, Sent
      <4>2. j = 10
        BY <4>1, AskIs
      <4>3. Plan[10].sock # 1 /\ Now.sock = 1
        BY <1>1, <1>9, DeviceSteps DEF Plan, Ask
      <4> QED
        BY <1>4, <4>1, <4>2, <4>3
    <3> QED
      BY <3>1, <3>2
  <2>4. Both(sess, S1, 0) /\ Both(dev, S1, S1) /\ sess \in Session
    BY <1>1, <1>3, <1>9, <2>3 DEF Counting, HandshakeTypes
  <2>5. sess' = AfterRecv(sess, "sync", d.n) /\ d.n \in 0..2
    BY <1>2, <1>6, <1>9, <2>2 DEF BodyLen
  <2>6. Both(sess', S1, S1)
    BY <2>4, <2>5, RecvTyped, SumsAre DEF Both, BodyLen
  <2> QED
    BY <1>1, <2>1, <2>4, <2>6 DEF Counting
<1>10. CASE step = 15 /\ phase' # "failed"
  <2>1. Both(sess, S2, S1) /\ sess \in Session
        /\ (Both(dev, S1, S1) \/ Both(dev, S2, S2))
        /\ ("auth" \in AnswersOut => Both(dev, S2, S2))
    BY <1>1, <1>10 DEF Counting, HandshakeTypes
  <2>2. CASE Skips(d) /\ phase' = "again" /\ step' = step
    <3>1. d.kind = "empty"
      BY <1>1, <1>10, <2>2, DeviceSteps DEF Skips
    <3>2. sess' = AfterRecv(sess, "empty", d.n) /\ d.n \in 0..2
      BY <1>2, <1>6, <1>10, <3>1 DEF BodyLen
    <3>3. Both(sess', S2, S1)
      BY <2>1, <3>2, RecvTyped, SumsAre DEF Both, BodyLen
    <3> QED
      BY <1>1, <1>5, <1>10, <2>1, <2>2, <3>3 DEF Counting
  <2>3. CASE ~Skips(d) /\ Accepts(d) /\ step' = step + 1 /\ phase' = "send"
    <3>1. d.kind = "command" /\ d.re = "auth"
      BY <1>1, <1>10, <2>3, DeviceSteps DEF Accepts
    <3>2. sess' = AfterRecv(sess, "command", d.n) /\ d.n \in 0..2
      BY <1>2, <1>6, <1>10, <3>1 DEF BodyLen
    <3>3. Both(sess', S2, S2) /\ Both(dev, S2, S2)
      BY <1>3, <2>1, <3>1, <3>2, RecvTyped, SumsAre DEF Both, BodyLen
    <3> QED
      BY <1>1, <1>10, <2>3, <3>3 DEF Counting
  <2> QED
    BY <1>1, <1>10, <2>2, <2>3
<1>11. CASE step = 16 /\ phase' # "failed"
  <2>1. ~Skips(d) /\ Accepts(d) /\ step' = 17 /\ phase' = "ok"
    BY <1>1, <1>11, DeviceSteps DEF Skips
  <2>2. d.kind = "empty"
    BY <1>1, <1>11, <2>1, DeviceSteps DEF Accepts
  <2>3. Both(sess, S3, S2) /\ dev.sent = S2 /\ dev.recv \in {S2, S3} /\ sess \in Session
    BY <1>1, <1>11 DEF Counting, HandshakeTypes
  <2>4. sess' = AfterRecv(sess, "empty", d.n) /\ d.n \in 0..2
    BY <1>2, <1>6, <1>11, <2>2 DEF BodyLen
  <2>5. Both(sess', S3, S2)
    BY <2>3, <2>4, RecvTyped, SumsAre DEF Both, BodyLen
  <2> QED
    BY <1>1, <2>1, <2>3, <2>5 DEF Counting
<1> QED
  BY <1>1, <1>7, <1>8, <1>9, <1>10, <1>11

\* Every step of the handshake keeps the counts.
LEMMA CountingNext ==
    ASSUME HandshakeTypes, InFlight, Counting, [P2PNext]_p2pVars
    PROVE  Counting'
<1>1. CASE Arrive \/ Lose \/ Duplicate
  <2>1. AnswersOut' \subseteq AnswersOut /\ UNCHANGED <<step, phase, sess, dev>>
    BY <1>1, NothingNew, NetworkMoves
  <2> QED
    BY <2>1 DEF Counting
<1>2. CASE SendFails \/ Timeout \/ TakeOver
  BY <1>2 DEF SendFails, Timeout, TakeOver, Counting
<1>3. CASE UNCHANGED p2pVars
  BY <1>3 DEF p2pVars, Counting, AnswersOut
<1> QED
  BY <1>1, <1>2, <1>3, CountingSend, CountingRead DEF P2PNext, Progress

\* A finished handshake leaves the counters crosswise equal.
LEMMA CountingGives == Counting => CountersAgree
BY SumsAre DEF Counting, CountersAgree, Both, BodyLen

-------------------------------------------------------------------------------
(* The theorems *)

\* Only GatewayStep is about the proxy.
LEMMA ProxyNext ==
    ASSUME NonceInv, OrderInv, [ViewNext]_viewVars
    PROVE  NonceInv' /\ OrderInv'
<1>1. [RtspNext]_rtspVars
  BY DEF ViewNext, TunnelStep, GatewayStep, ViewerStep, viewVars
<1> QED
  BY <1>1, NonceInvNext, OrderInvNext DEF NonceInv

\* Both hold in every state of the composition.
LEMMA ProxyAlways == ViewSpec => [](NonceInv /\ OrderInv)
<1>1. ViewInit => NonceInv /\ OrderInv
  BY NonceInvInit, OrderInvInit DEF ViewInit
<1>2. (NonceInv /\ OrderInv) /\ [ViewNext]_viewVars => (NonceInv /\ OrderInv)'
  BY ProxyNext
<1> QED
  BY <1>1, <1>2, PTL DEF ViewSpec

\* However often the camera challenges, with whatever nonces, it is shown a nonce
\* with one count at most as often as it gave that nonce.
THEOREM NoReplay == ViewSpec => []NonceCountOnce
BY NonceCounted, ProxyAlways, PTL

\* A client of the proxy gets one answer for each request, in their order, unless
\* the camera sends a frame before its answer to PLAY.
THEOREM AnswersOrdered == ViewSpec => []AnswersInOrder
BY OrderGives, ProxyAlways, PTL

\* However many viewers post, patch and delete at once, expire and leave, a session
\* open at MediaMTX is one its viewer can still delete, or one of the listed
\* failures accounts for it.
THEOREM SessionsAccounted == ViewSpec => []RemoteAccounted
<1>1. ViewInit => ViewerInv
  BY ViewerInvInit DEF ViewInit
<1>2. ViewerInv => RemoteAccounted
  BY DEF ViewerInv
<1> QED
  BY <1>1, <1>2, ViewerInvNext, PTL DEF ViewSpec

-------------------------------------------------------------------------------
(* The handshake, and the three parts together *)

HandshakeInv == HandshakeTypes /\ InFlight /\ OneAnswer /\ NoneMistaken /\ Counting

\* Only TunnelStep is about the handshake.
LEMMA HandshakeNext ==
    ASSUME HandshakeInv, [ViewNext]_viewVars
    PROVE  HandshakeInv'
<1>1. [P2PNext]_p2pVars
  BY DEF ViewNext, TunnelStep, GatewayStep, ViewerStep, viewVars
<1> QED
  BY <1>1, TypesNext, FlightNext, OneAnswerNext, CountingNext DEF HandshakeInv

\* What holds of the handshake always does, whatever the rest of the view does.
LEMMA HandshakeAlways == ViewSpec => []HandshakeInv
<1>1. ViewInit => HandshakeInv
  BY TypesInit, FlightInit, OneAnswerInit, CountingInit DEF ViewInit, HandshakeInv
<1> QED
  BY <1>1, HandshakeNext, PTL DEF ViewSpec

\* Without a duplicate, the handshake that succeeds has read the answer to each of
\* its requests, and not one that was left over, although no CSeq is compared.
THEOREM EachItsOwnAnswer == ViewSpec => []OwnAnswers
<1>1. HandshakeInv => OwnAnswers
  BY NoneMistakenGives DEF HandshakeInv
<1> QED
  BY <1>1, HandshakeAlways, PTL

\* Whatever is lost, reordered and duplicated, and whatever the width of the
\* counters, the session handed to the tunnel has counted what the device has.
THEOREM CountersStartEqual == ViewSpec => []CountersAgree
<1>1. HandshakeInv => CountersAgree
  BY CountingGives DEF HandshakeInv
<1> QED
  BY <1>1, HandshakeAlways, PTL

\* Before the tunnel is Running nothing is connected, no ticket issued, no session
\* opened.
NobodyYet ==
    ~Running => /\ conn = "none"
                /\ grant = [t \in Tickets |-> "none"]
                /\ entry = [i \in Ids |-> NoTicket]
                /\ call = [v \in Viewers |-> NoCall]
                /\ remote = [i \in Ids |-> "none"]

\* A tunnel that is Running stays so: the handshake is over.
LEMMA RunningOn ==
    ASSUME Running, [ViewNext]_viewVars
    PROVE  Running'
BY DEF Running, ViewNext, TunnelStep, GatewayStep, ViewerStep, viewVars, p2pVars, P2PNext,
       Progress, Waiting, Send, Read, Timeout, TakeOver, SendFails

\* A viewer without a ticket, a call and a session can take no step.
LEMMA NobodyMoves ==
    ASSUME NobodyYet, ~Running, WhepTypeOK
    PROVE  ~ViewerStep
<1>1. /\ conn = "none" /\ \A t \in Tickets : grant[t] = "none"
      /\ \A i \in Ids : remote[i] = "none"
      /\ \A v \in Viewers : call[v].at = "none"
  BY DEF NobodyYet, NoCall
<1>2. ~TicketStep
  BY <1>1 DEF TicketStep, IssueTicket, Expire, Granted
<1>3. ASSUME NEW v \in Viewers PROVE ~PostStep(v) /\ ~SessionStep(v)
  <2>1. ~PostStep(v)
    BY <1>1 DEF PostStep, PostBegin, PostMade, Playing, PostFails, PostEnters,
                PostReturns, PostUnanswered, PostMisplaced,
                Granted, At
  <2>2. ~SessionStep(v)
    BY <1>1 DEF SessionStep, PatchBegin, DeleteBegin, PatchReturns, DeleteReturns,
                DeleteFails, ViewerLeaves, Found, Granted, At
  <2> QED
    BY <2>1, <2>2
<1>4. \A i \in Ids : ~RemoteEnds(i)
  BY <1>1 DEF RemoteEnds
<1> QED
  BY <1>2, <1>3, <1>4 DEF ViewerStep

\* No viewer comes before the stream.
LEMMA NobodyYetNext ==
    ASSUME NobodyYet, WhepTypeOK, [ViewNext]_viewVars
    PROVE  NobodyYet'
<1>1. CASE Running
  BY <1>1, RunningOn DEF NobodyYet
<1>2. CASE ~Running
  <2>1. UNCHANGED <<rtspVars, whepVars>>
    BY <1>2, NobodyMoves DEF ViewNext, TunnelStep, GatewayStep, viewVars
  <2> QED
    BY <1>2, <2>1 DEF NobodyYet, rtspVars, whepVars
<1> QED
  BY <1>1, <1>2

\* All three parts keep to their values, and to their order.
THEOREM ViewTypes == ViewSpec => []ViewTypeOK
<1> DEFINE Inv == /\ HandshakeInv /\ NonceInv /\ OrderInv /\ ProxyBounds /\ ViewerInv
                  /\ NobodyYet
<1>1. ViewInit => Inv
  <2>1. ViewInit => NobodyYet
    BY DEF ViewInit, RtspInit, WhepInit, NobodyYet
  <2> QED
    BY <2>1, TypesInit, FlightInit, OneAnswerInit, CountingInit, NonceInvInit, OrderInvInit,
       BoundsInit, ViewerInvInit
    DEF ViewInit, HandshakeInv
<1>2. Inv /\ [ViewNext]_viewVars => Inv'
  <2> SUFFICES ASSUME Inv, [ViewNext]_viewVars PROVE Inv'
    OBVIOUS
  <2>1. [RtspNext]_rtspVars /\ WhepTypeOK
    BY DEF ViewNext, TunnelStep, GatewayStep, ViewerStep, viewVars, ViewerInv
  <2>2. ProxyBounds'
    BY <2>1, BoundsNext
  <2> QED
    BY <2>1, <2>2, HandshakeNext, ProxyNext, ViewerInvNext, NobodyYetNext
<1>3. Inv => ViewTypeOK
  BY TypesGive, BoundsGive DEF HandshakeInv, ViewerInv, NobodyYet, ViewTypeOK
<1> HIDE DEF Inv
<1> QED
  BY <1>1, <1>2, <1>3, PTL DEF ViewSpec
=================================================================================
