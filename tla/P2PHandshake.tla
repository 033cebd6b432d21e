------------------------------ MODULE P2PHandshake ------------------------------
(* p2p_handshake of src/dh.rs with the session counters of src/ptcp.rs: the     *)
(* requests that run_tunnel makes, one after the other and none of them twice,  *)
(* before a tunnel is Running.                                                  *)
(*                                                                              *)
(* Two UDP sockets, connected to one peer after the other.  The peers are       *)
(* external: they answer each request that reaches them.  The network loses,    *)
(* delays, reorders and duplicates datagrams; a socket drops a datagram of      *)
(* another peer than the one it is connected to when it arrives, and keeps      *)
(* those that arrived before.  No answer is compared with the CSeq of its       *)
(* request.  Left out: relay_mode (run_tunnel passes false), digests, and what  *)
(* is in a body beyond the field a step needs.                                  *)
EXTENDS Integers, Sequences

CONSTANTS
    Punches,    \* packets read in the second round with the device: 5
    Width,      \* the counters are modulo 2^32
    MaxDups     \* bound on the datagrams that are duplicated

ASSUME P2PAssumption == Punches \in Nat \ {0} /\ Width \in Nat /\ Width > 2 /\ MaxDups \in Nat

VARIABLES
    step,       \* the position in Plan; Len(Plan) + 1 when it has returned Ok
    phase,      \* "send", "read", "again" (a second read of the step), "ok",
                \* "running" (the tunnel has the session), "failed"
    left,       \* packets still to be read in this step
    peer,       \* what the two sockets are connected to
    inbox,      \* datagrams received and not yet read
    air,        \* datagrams on their way here
    dups,       \* how many have been duplicated
    sess,       \* the PTCPSession
    dev,        \* the counters of the device
    mistaken    \* history: requests for whose answer another datagram was taken

p2pVars == <<step, phase, left, peer, inbox, air, dups, sess, dev, mistaken>>

\* One request each: the socket, the peer, and how the answer is read.
Ask(sock, to, ask, want) == [sock |-> sock, to |-> to, at |-> to, ask |-> ask, want |-> want]

Plan == <<
    Ask(1, "main", "probe", "any"),
    Ask(1, "main", "online", "field"),              \* body/US
    Ask(1, "main", "relays", "field"),              \* body/Address
    Ask(2, "p2psrv", "probeDevice", "any"),
    Ask(1, "main", "channel", "later"),
    Ask(2, "relay", "agent", "field"),              \* body/Token, body/Agent
    Ask(2, "agent", "start", "any"),
    Ask(1, "main", "channel", "channel"),           \* body/PubAddr of the request above
    [Ask(2, "main", "relayChannel", "any") EXCEPT !.at = "agent"],
    Ask(2, "agent", "sync", "packet"),
    Ask(2, "agent", "sign", "command"),
    Ask(1, "device", "punch", "raw"),
    Ask(1, "device", "punches", "raws"),
    Ask(1, "device", "deviceSync", "sync"),
    Ask(1, "device", "auth", "command"),
    Ask(1, "device", "close", "empty") >>

Final == Len(Plan)
Now  == Plan[step]

-------------------------------------------------------------------------------
(* PTCPSession and PTCPBody::len *)

BodyLen == [sync |-> 4, command |-> 12, empty |-> 0]

NewSession == [sent |-> 0, recv |-> 0, count |-> 0, id |-> 0, rmid |-> 0]

AfterSend(x, body) ==
    [x EXCEPT !.sent = (@ + BodyLen[body]) % Width,
              !.id = (@ + 1) % Width,
              !.count = IF body = "command" THEN (@ + 1) % Width ELSE @]

AfterRecv(x, body, lmid) ==
    [x EXCEPT !.recv = (@ + BodyLen[body]) % Width, !.rmid = lmid]

-------------------------------------------------------------------------------
(* The peers: what a request that arrives is answered with. *)

Packet(n, body) == [n |-> n, kind |-> body]

Replies(ask) ==
    CASE ask = "channel" -> {<<Packet(1, "trying"), Packet(2, "dh")>>,
                             <<Packet(1, "dh")>>, <<Packet(1, "refused")>>}
      [] ask \in {"sync", "deviceSync"} -> {<<Packet(1, "sync")>>}
      [] ask \in {"sign", "auth"} -> {<<Packet(1, "command")>>,
                                      <<Packet(1, "empty"), Packet(2, "command")>>}
      [] ask = "close" -> {<<Packet(1, "empty")>>}
      [] ask = "punch" -> {<<Packet(1, "raw")>>, <<Packet(1, "short")>>}
      [] ask = "punches" -> {[i \in 1..Punches |-> Packet(i, "raw")]}
      [] OTHER -> {<<Packet(1, "dh")>>, <<Packet(1, "refused")>>}

OnDevice(ask) == ask \in {"deviceSync", "auth", "close"}
InPtcp(ask)   == ask \in {"sync", "sign"} \/ OnDevice(ask)
BodyOf(ask)   == IF ask \in {"sync", "deviceSync"} THEN "sync" ELSE "command"

\* The device counts what it receives, and the one or two packets it answers with,
\* as PTCPSession does.
DeviceAfter(ask, replies) ==
    LET first == AfterSend(AfterRecv(dev, BodyOf(ask), 0), replies[1].kind)
    IN IF Len(replies) = 1 THEN first ELSE AfterSend(first, replies[2].kind)

-------------------------------------------------------------------------------
\* Neither socket is connected; nothing has been received.
NoPeer == [s \in 1..2 |-> "none"]
NoMail == [s \in 1..2 |-> <<>>]

P2PInit ==
    /\ step = 1 /\ phase = "send" /\ left = 0
    /\ peer = NoPeer /\ inbox = NoMail /\ air = {}
    /\ dups = 0 /\ sess = NewSession /\ dev = NewSession
    /\ mistaken = {}

\* Mutant: the session with the relay agent is used on with the device.
SessionKeptOn(ask) == sess

\* The device gets a session of its own.
SessionFor(ask) == IF ask = "deviceSync" THEN NewSession ELSE sess

\* Connect the socket, send the request.  It is lost, or arrives and is answered.
\* The request of relayChannel goes to main, but socket2 is back at the agent
\* before anything is read.
Send ==
    /\ phase = "send"
    /\ IF Now.want = "channel"       \* nothing is sent: the answer was asked for before
       THEN UNCHANGED <<peer, sess, air, dev>>
       ELSE /\ peer' = [peer EXCEPT ![Now.sock] = Now.at]
            /\ sess' = IF ~InPtcp(Now.ask) THEN sess
                       ELSE AfterSend(SessionFor(Now.ask), BodyOf(Now.ask))
            /\ \/ \E replies \in Replies(Now.ask) :
                    /\ air' = air \cup {[sock |-> Now.sock, from |-> Now.at, re |-> Now.ask,
                                         n |-> replies[i].n, kind |-> replies[i].kind] :
                                        i \in DOMAIN replies}
                    /\ dev' = IF OnDevice(Now.ask) THEN DeviceAfter(Now.ask, replies)
                              ELSE dev
               \/ UNCHANGED <<air, dev>>
    /\ IF Now.want = "later" THEN step' = step + 1 /\ UNCHANGED <<phase, left>>
       ELSE /\ phase' = "read" /\ UNCHANGED step
            /\ left' = IF Now.want = "raws" THEN Punches ELSE 1
    /\ UNCHANGED <<inbox, dups, mistaken>>

\* A connect, the bind of the second socket or a send fails.
SendFails ==
    /\ phase = "send" /\ phase' = "failed"
    /\ UNCHANGED <<step, left, peer, inbox, air, dups, sess, dev, mistaken>>

\* What the read of this step makes of datagram d: dh_read takes any answer with
\* a code below 300, and then required_body_value looks for the field of the step.
Accepts(d) ==
    CASE Now.want = "any"     -> d.kind \in {"dh", "trying"}
      [] Now.want = "field"   -> d.kind = "dh" /\ d.re = Now.ask
      [] Now.want = "channel" -> d.kind = "dh" /\ d.re = "channel"
      [] Now.want = "packet"  -> d.kind \in DOMAIN BodyLen
      [] Now.want = "command" -> d.kind = "command" /\ d.re = Now.ask
      [] Now.want = "raw"     -> d.kind # "short"    \* under 20 bytes
      [] Now.want = "raws"    -> TRUE
      [] OTHER                -> d.kind = Now.want

\* Read and go on with the same step: code 100 once, Empty packets as many as come.
Skips(d) ==
    \/ Now.want = "channel" /\ d.kind = "trying" /\ phase = "read"
    \/ Now.want = "command" /\ d.kind = "empty"
    \/ Now.want = "raws" /\ left > 1

Finished == step = Final

Read ==
    /\ phase \in {"read", "again"}
    /\ LET d == Head(inbox[Now.sock]) IN
         /\ inbox[Now.sock] # <<>>
         /\ inbox' = [inbox EXCEPT ![Now.sock] = Tail(@)]
         /\ sess' = IF InPtcp(Now.ask) /\ d.kind \in DOMAIN BodyLen
                    THEN AfterRecv(sess, d.kind, d.n) ELSE sess
         /\ \/ /\ Skips(d)
               /\ phase' = "again" /\ left' = left - (IF Now.want = "raws" THEN 1 ELSE 0)
               /\ UNCHANGED <<step, mistaken>>
            \/ /\ ~Skips(d) /\ Accepts(d)
               /\ mistaken' = IF d.re = Now.ask THEN mistaken ELSE mistaken \cup {Now.ask}
               /\ step' = step + 1 /\ left' = 0
               /\ phase' = IF Finished THEN "ok" ELSE "send"
            \/ /\ ~Skips(d) /\ ~Accepts(d)
               /\ phase' = "failed" /\ UNCHANGED <<step, left, mistaken>>
    /\ UNCHANGED <<peer, air, dups, dev>>

\* Mutant: the relay is asked once more to start before the handshake gives up.
TimeoutRetries ==
    /\ phase \in {"read", "again"} /\ inbox[Now.sock] = <<>>
    /\ phase' = IF Now.ask = "start" THEN "send" ELSE "failed"
    /\ UNCHANGED <<step, left, peer, inbox, air, dups, sess, dev, mistaken>>

\* Mutant: a read waits for as long as it takes.
TimeoutNever == FALSE /\ UNCHANGED p2pVars

\* Nothing came for 8 seconds (5 in the rounds of punch): run_tunnel reports it.
Timeout ==
    /\ phase \in {"read", "again"} /\ inbox[Now.sock] = <<>>
    /\ phase' = "failed"
    /\ UNCHANGED <<step, left, peer, inbox, air, dups, sess, dev, mistaken>>

\* run_tunnel goes on with the session: the camera is Running.  What the sockets
\* still get is dh_reader's.
TakeOver ==
    /\ phase = "ok" /\ phase' = "running"
    /\ peer' = NoPeer /\ inbox' = NoMail /\ air' = {}
    /\ dups' = 0 /\ sess' = NewSession /\ dev' = NewSession /\ mistaken' = {}
    /\ UNCHANGED <<step, left>>

\* The network.
Arrive ==
    \E d \in air :
        /\ air' = air \ {d}
        /\ inbox' = IF peer[d.sock] = d.from
                    THEN [inbox EXCEPT ![d.sock] = Append(@, d)] ELSE inbox
        /\ UNCHANGED <<step, phase, left, peer, dups, sess, dev, mistaken>>

Lose ==
    \E d \in air :
        /\ air' = air \ {d}
        /\ UNCHANGED <<step, phase, left, peer, inbox, dups, sess, dev, mistaken>>

\* A second copy arrives, the first is still on its way.
Duplicate ==
    \E d \in air :
        /\ dups < MaxDups /\ dups' = dups + 1
        /\ peer[d.sock] = d.from
        /\ inbox' = [inbox EXCEPT ![d.sock] = Append(@, d)]
        /\ UNCHANGED <<step, phase, left, peer, air, sess, dev, mistaken>>

Progress == Send \/ Read \/ Timeout \/ TakeOver
Waiting  == phase \in {"send", "read", "again"}
P2PNext  == Progress \/ SendFails \/ (Waiting /\ (Arrive \/ Lose \/ Duplicate))

P2PSpec     == P2PInit /\ [][P2PNext]_p2pVars
P2PFairSpec == P2PSpec /\ WF_p2pVars(Progress)

-------------------------------------------------------------------------------
P2PTypeOK ==
    /\ step \in 1..(Final + 1) /\ phase \in {"send", "read", "again", "ok", "running", "failed"}
    /\ step = Final + 1 <=> phase \in {"ok", "running"}
    /\ dups \in 0..MaxDups
    /\ \A x \in {sess, dev} : \A f \in DOMAIN NewSession : x[f] \in 0..(Width - 1)

\* The handshake that succeeds has taken no answer for that of another request,
\* although nothing compares the CSeq, as long as no datagram was duplicated;
\* except where any datagram of the device will do: the two rounds of punches, into
\* which a late "100 Trying" fits, and the last read, which any empty packet ends.
OwnAnswers ==
    phase = "ok" /\ dups = 0 => mistaken \subseteq {"punch", "punches", "close"}

\* The session that a successful handshake hands to the tunnel has received
\* exactly the bytes the device has sent, and the device has received all that was
\* sent to it, or all but the last command: the counters of the two ends, modulo
\* their width, start out equal, whatever was lost, reordered or duplicated.
CountersAgree ==
    phase = "ok" => /\ sess.recv = dev.sent
                    /\ dev.recv \in {sess.sent, (sess.sent - BodyLen["command"]) % Width}

\* A handshake ends, with a session or with an error that run_tunnel reports, and
\* does not leave the camera at Starting for ever, although the answer to sign and to
\* auth is awaited through Empty packets, each with a timeout of its own: as long as
\* the device sends a bounded number of these, which the loops do not limit.
HandshakeEnds == <>(phase \in {"ok", "failed"})
===============================================================================
