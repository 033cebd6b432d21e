------------------------------- MODULE RtspProxy --------------------------------
(* proxy_connection of src/rtsp_proxy.rs: one connection between an RTSP client *)
(* (ffmpeg), which sends one request after the other without credentials, and   *)
(* the camera behind the local port of its tunnel.  The proxy answers the       *)
(* camera's challenges, and turns into a copy loop once PLAY has succeeded.     *)
(*                                                                              *)
(* Client and camera are external.  The camera takes requests in order, answers *)
(* each, and may challenge any of them, with a nonce of its own choice that it   *)
(* may have given before.  A camera that is eager sends a frame of media before *)
(* its answer to PLAY.  Left out: Basic, which needs no nonce, and the text of  *)
(* headers.                                                                     *)
EXTENDS Naturals, Sequences, FiniteSets

CONSTANTS
    Requests,     \* requests of the client, the last one is PLAY
    MaxChallenges \* bound on the challenges of the camera

ASSUME RtspAssumption == Requests \in Nat /\ MaxChallenges \in Nat

VARIABLES
    conn,       \* "none", "read", "await", "retry", "media", "closed"
    auth,       \* AuthState: which challenge of the camera, and the nonce count
    toCam,      \* requests on their way to the camera
    toProxy,    \* answers on their way back
    asked,      \* the last request of the client
    waiting,    \* the client waits for its answer
    taken,      \* the last request the proxy has read
    eof,        \* the tunnel has closed this connection
    given,      \* the nonces of the camera's challenges, in their order
    shown,      \* history: the signatures the camera has been shown
    eager,      \* history: a frame came before the answer to PLAY
    delivered   \* history: the requests whose answers the client has got

rtspVars == <<conn, auth, toCam, toProxy, asked, waiting, taken, eof, given, shown,
              eager, delivered>>

NoAuth == [challenge |-> 0, count |-> 0]

RtspInit ==
    /\ conn = "none" /\ auth = NoAuth
    /\ toCam = <<>> /\ toProxy = <<>>
    /\ asked = 0 /\ taken = 0 /\ waiting = FALSE /\ eof = FALSE
    /\ given = <<>> /\ shown = <<>> /\ eager = FALSE
    /\ delivered = <<>>

Playing == conn = "media"
Closed  == conn = "closed"

-------------------------------------------------------------------------------
(* The client *)

\* The proxy connects to the local port of the tunnel, or cannot.
ClientConnect ==
    /\ conn = "none" /\ conn' \in {"read", "closed"}
    /\ UNCHANGED <<auth, toCam, toProxy, asked, waiting, taken, eof, given, shown,
                   eager, delivered>>

\* The next request, once the last one has been answered.
ClientAsk ==
    /\ conn = "read" /\ ~waiting /\ asked < Requests
    /\ asked' = asked + 1 /\ waiting' = TRUE
    /\ UNCHANGED <<conn, auth, toCam, toProxy, taken, eof, given, shown, eager,
                   delivered>>

\* The client goes away; the proxy notices when it reads or writes next.
ClientClose ==
    /\ conn \in {"read", "media"} /\ conn' = "closed"
    /\ UNCHANGED <<auth, toCam, toProxy, asked, waiting, taken, eof, given, shown,
                   eager, delivered>>

-------------------------------------------------------------------------------
(* The proxy *)

\* Mutant: the count of the stored state stays as it is.
CountedNot(state) == state

\* make_authorized_request counts up before it signs.
Counted(state) == [state EXCEPT !.count = @ + 1]

\* A request of the client, with credentials once there was a challenge; a write
\* after the tunnel has closed fails, or is not noticed.
ReadRequest ==
    /\ conn = "read" /\ taken < asked /\ taken' = asked
    /\ LET signed == IF auth = NoAuth THEN auth ELSE Counted(auth) IN
         \/ /\ auth' = signed
            /\ toCam' = Append(toCam, [n |-> asked, auth |-> signed])
            /\ conn' = "await"
         \/ eof /\ conn' = "closed" /\ UNCHANGED <<auth, toCam>>
    /\ UNCHANGED <<toProxy, asked, waiting, eof, given, shown, eager, delivered>>

\* The answer goes to the client, whatever it is.
Forward(d) ==
    /\ IF d.kind = "frame" THEN UNCHANGED <<waiting, delivered>>
       ELSE waiting' = FALSE /\ delivered' = Append(delivered, d.n)
    /\ conn' = IF asked = Requests /\ d.kind = "ok" THEN "media" ELSE "read"

Challenged(d) == d.kind = "challenge" /\ conn = "await"

\* Mutant: the challenge goes to the client, and is answered all the same.
ReadAnswerTwice ==
    /\ conn \in {"await", "retry"} /\ toProxy # <<>>
    /\ toProxy' = Tail(toProxy)
    /\ LET d == Head(toProxy) IN
         IF Challenged(d)
         THEN /\ auth' = Counted([challenge |-> d.challenge, count |-> 0])
              /\ toCam' = Append(toCam, [n |-> asked, auth |-> auth'])
              /\ Forward(d)
         ELSE Forward(d) /\ UNCHANGED <<auth, toCam>>
    /\ UNCHANGED <<asked, taken, eof, given, shown, eager>>

\* Mutant: a challenge that comes back for the retry is kept from the client.
ReadAnswerSilent ==
    /\ conn \in {"await", "retry"} /\ toProxy # <<>>
    /\ toProxy' = Tail(toProxy)
    /\ LET d == Head(toProxy) IN
         IF d.kind = "challenge"
         THEN /\ IF conn = "await"
                 THEN /\ auth' = Counted([challenge |-> d.challenge, count |-> 0])
                      /\ toCam' = Append(toCam, [n |-> asked, auth |-> auth'])
                      /\ conn' = "retry"
                 ELSE conn' = "read" /\ UNCHANGED <<auth, toCam>>
              /\ UNCHANGED <<waiting, delivered>>
         ELSE Forward(d) /\ UNCHANGED <<auth, toCam>>
    /\ UNCHANGED <<asked, taken, eof, given, shown, eager>>

\* One frame from the camera is the answer.  A 401 with a challenge is answered
\* once; the second answer goes to the client.  An algorithm other than MD5 ends
\* the connection.
ReadAnswer ==
    /\ conn \in {"await", "retry"} /\ toProxy # <<>>
    /\ toProxy' = Tail(toProxy)
    /\ LET d == Head(toProxy) IN
         IF Challenged(d)
         THEN /\ \/ /\ auth' = Counted([challenge |-> d.challenge, count |-> 0])
                    /\ toCam' = Append(toCam, [n |-> asked, auth |-> auth'])
                    /\ conn' = "retry"
                 \/ conn' = "closed" /\ UNCHANGED <<auth, toCam>>
              /\ UNCHANGED <<waiting, delivered>>
         ELSE Forward(d) /\ UNCHANGED <<auth, toCam>>
    /\ UNCHANGED <<asked, taken, eof, given, shown, eager>>

\* read_rtsp_frame takes the end of the stream for an empty frame: nothing is
\* written to the client, and the next request is waited for.
ReadEnd ==
    /\ conn \in {"await", "retry"} /\ toProxy = <<>> /\ eof
    /\ conn' = "read"
    /\ UNCHANGED <<auth, toCam, toProxy, asked, waiting, taken, eof, given, shown,
                   eager, delivered>>

\* copy_bidirectional ends when the tunnel closes the connection.
MediaEnds ==
    /\ conn = "media" /\ eof /\ conn' = "closed"
    /\ UNCHANGED <<auth, toCam, toProxy, asked, waiting, taken, eof, given, shown, eager,
                   delivered>>

-------------------------------------------------------------------------------
(* The camera and the tunnel *)

Reply(r, kinds) ==
    /\ toCam' = Tail(toCam)
    /\ toProxy' = toProxy \o [i \in DOMAIN kinds |->
                               [n |-> r.n, kind |-> kinds[i], challenge |-> Len(given')]]
    /\ shown' = IF r.auth = NoAuth THEN shown ELSE Append(shown, r.auth)

\* A nonce it has given before, or a new one.
Nonces == {given[i] : i \in DOMAIN given} \cup {Len(given) + 1}

Camera ==
    /\ toCam # <<>> /\ ~eof
    /\ LET r == Head(toCam) IN
         \/ /\ Len(given) < MaxChallenges /\ \E n \in Nonces : given' = Append(given, n)
            /\ Reply(r, <<"challenge">>) /\ UNCHANGED eager
         \/ UNCHANGED <<given, eager>> /\ \E k \in {"ok", "error"} : Reply(r, <<k>>)
         \/ r.n = Requests /\ UNCHANGED given /\ Reply(r, <<"frame", "ok">>)
            /\ eager' = TRUE
    /\ UNCHANGED <<conn, auth, asked, waiting, taken, eof, delivered>>

\* The tunnel ends, or the camera does, and the connection to it.
TunnelCloses ==
    /\ conn # "none" /\ ~Closed /\ ~eof
    /\ eof' = TRUE
    /\ UNCHANGED <<conn, auth, toCam, toProxy, asked, waiting, taken, given, shown,
                   eager, delivered>>

ProxyStep == ReadRequest \/ ReadAnswer \/ ReadEnd \/ MediaEnds
RtspNext  == ClientConnect \/ ClientAsk \/ ClientClose \/ ProxyStep \/ Camera \/ TunnelCloses

RtspSpec     == RtspInit /\ [][RtspNext]_rtspVars
RtspFairSpec == RtspSpec /\ WF_rtspVars(ProxyStep) /\ WF_rtspVars(Camera)
-------------------------------------------------------------------------------
RtspTypeOK ==
    /\ conn \in {"none", "read", "await", "retry", "media", "closed"}
    /\ auth.challenge \in 0..Len(given) /\ auth.count \in 0..(2 * Requests)
    /\ asked \in 0..Requests /\ taken \in 0..asked
    /\ Len(toCam) + Len(toProxy) <= 2
    /\ Len(given) <= MaxChallenges
    /\ \A d \in {toProxy[i] : i \in DOMAIN toProxy} :
          d.kind \in {"challenge", "ok", "error", "frame"}

\* The client gets the answers to its requests, one for each and in their order:
\* the challenges the proxy answers itself shift nothing, unless the camera sends
\* a frame of media before its answer to PLAY.
AnswersInOrder == eager \/ delivered = [i \in 1..Len(delivered) |-> i]

\* The camera is shown a nonce with one count at most as often as it has given that
\* nonce in a challenge.  One that never repeats a nonce sees no pair twice, which
\* it would refuse as a replay; one that does is shown it again with count 1, as
\* every challenge starts the count anew (rtsp_proxy.rs:121).
NonceCountOnce ==
    \A j \in DOMAIN shown :
        Cardinality({i \in DOMAIN shown :
                       /\ given[shown[i].challenge] = given[shown[j].challenge]
                       /\ shown[i].count = shown[j].count})
          <= Cardinality({c \in DOMAIN given : given[c] = given[shown[j].challenge]})

\* A request of the client is answered, or its connection ends, unless the tunnel
\* closed the connection before the answer (the proxy takes that for an empty
\* frame, and both wait for each other) or the camera was eager (its answer stays
\* unread for the same reason).
ClientIsAnswered == waiting ~> (~waiting \/ Closed \/ eof \/ eager)
===============================================================================
