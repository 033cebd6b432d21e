------------------------------ MODULE TunnelRelay ------------------------------
(* One running tunnel: the accept loop of run_tunnel (src/tunnel.rs) and the   *)
(* tasks of src/process.rs that relay between local TCP clients and the        *)
(* device's PTCP session over UDP.                                             *)
(*                                                                             *)
(* A client is one local connection, named by its realm: the random u32 that   *)
(* the accept loop draws, taken to be fresh.  Device and network are external: *)
(* datagrams keep their order and may be lost, and PTCP retransmits nothing.   *)
(* The chunks of a realm are numbered as dh_reader takes them off the socket;  *)
(* those a client sends are anonymous.  Left out: the packet counters, the     *)
(* acknowledgements the reader sends, and the packets it ignores (Empty, Sync, *)
(* replies to a heartbeat, a DISC of the device).                              *)
EXTENDS Naturals, Sequences

CONSTANTS
    Clients,      \* local connections, each made at most once
    EventCap,     \* capacity of the channel into dh_writer (128 in the code)
    ChannelCap,   \* capacity of a realm's channel to its client (128)
    MaxUp,        \* bound: chunks each client sends
    MaxDown,      \* bound: chunks the device sends on each realm
    WireCap       \* bound: datagrams in flight, each way

ASSUME RelayAssumption ==
    /\ EventCap \in Nat \ {0} /\ ChannelCap \in Nat \ {0} /\ WireCap \in Nat \ {0}
    /\ MaxUp \in [Clients -> Nat] /\ MaxDown \in [Clients -> Nat]

VARIABLES
    acceptor,   \* place of the accept loop and the client it works for
    oneshot,    \* conn_channels entry of each realm
    up,         \* process_reader of each client: client to device
    sentUp,     \* chunks a client has sent
    events,     \* mpsc channel into dh_writer
    writer,     \* dh_writer
    toDevice,   \* datagrams to the device
    device,     \* the device's end of each realm
    sentDown,   \* chunks the device has sent on a realm
    toRelay,    \* datagrams from the device
    reader,     \* dh_reader and the packet it dispatches
    channel,    \* mpsc channel of each realm, from dh_reader
    down,       \* process_writer of each client: device to client
    upLog,      \* history: what dh_writer took for each realm
    taken,      \* history: how many chunks dh_reader took for each realm
    delivered,  \* history: the chunks written to each client
    mishap      \* history: a datagram lost, a relay task dead, a bind refused

client  == <<acceptor, oneshot, up, sentUp>>
outward == <<events, writer, toDevice, upLog>>
remote  == <<device, sentDown>>
inward  == <<toRelay, reader, channel, down, taken, delivered>>
vars    == <<client, outward, remote, inward, mishap>>

Event(k, c) == [kind |-> k, realm |-> c]
Heartbeat   == [kind |-> "heartbeat"]
Accepting   == [pc |-> "accept"]
Reading     == [pc |-> "read"]

Init ==
    /\ acceptor = Accepting /\ reader = Reading /\ writer = "run"
    /\ oneshot = [c \in Clients |-> "none"]
    /\ up = [c \in Clients |-> "none"] /\ sentUp = [c \in Clients |-> 0]
    /\ down = [c \in Clients |-> "none"] /\ channel = [c \in Clients |-> <<>>]
    /\ events = <<>> /\ toDevice = <<>> /\ toRelay = <<>>
    /\ device = [c \in Clients |-> "none"] /\ sentDown = [c \in Clients |-> 0]
    /\ upLog = [c \in Clients |-> <<>>]
    /\ taken = [c \in Clients |-> 0] /\ delivered = [c \in Clients |-> <<>>]
    /\ mishap = FALSE

\* A datagram is sent once and may get lost.
Transmit(wire, d) ==
    \/ Len(wire) < WireCap /\ wire' = Append(wire, d) /\ UNCHANGED mishap
    \/ wire' = wire /\ mishap' = TRUE

-------------------------------------------------------------------------------
(* run_tunnel: the accept loop serves one new connection at a time. *)

\* Both maps get their entry before the device hears of the realm.
Accept(c) ==
    /\ acceptor = Accepting /\ oneshot[c] = "none"
    /\ acceptor' = [pc |-> "connect", client |-> c]
    /\ oneshot' = [oneshot EXCEPT ![c] = "registered"]
    /\ UNCHANGED <<up, sentUp, outward, remote, inward, mishap>>

AcceptFails ==
    /\ acceptor = Accepting
    /\ acceptor' = [pc |-> "ended"]
    /\ mishap' = TRUE
    /\ UNCHANGED <<oneshot, up, sentUp, outward, remote, inward>>

\* send on the event channel waits for room, and fails once dh_writer is gone.
SendConnect(c) ==
    /\ acceptor = [pc |-> "connect", client |-> c]
    /\ \/ /\ writer = "run" /\ Len(events) < EventCap
          /\ events' = Append(events, Event("connect", c))
          /\ acceptor' = [pc |-> "await", client |-> c]
       \/ /\ writer = "stopped"
          /\ acceptor' = [pc |-> "ended"]
          /\ UNCHANGED events
    /\ UNCHANGED <<oneshot, up, sentUp, writer, toDevice, upLog, remote, inward, mishap>>

\* Mutant: the client is bridged without waiting for the device.
BridgeAtOnce(c) ==
    /\ acceptor = [pc |-> "await", client |-> c]
    /\ acceptor' = Accepting
    /\ up' = [up EXCEPT ![c] = "read"]
    /\ down' = [down EXCEPT ![c] = "run"]
    /\ UNCHANGED <<oneshot, sentUp, outward, remote, toRelay, reader, channel,
                   taken, delivered, mishap>>

\* Mutant: one task runs both directions of a client, the second after the first.
BridgeInTurn(c) ==
    /\ acceptor = [pc |-> "await", client |-> c] /\ oneshot[c] = "fired"
    /\ acceptor' = Accepting
    /\ up' = [up EXCEPT ![c] = "read"]
    /\ UNCHANGED <<oneshot, sentUp, outward, remote, inward, mishap>>

\* No timeout: the loop waits here until dh_reader fires the oneshot.
Bridge(c) ==
    /\ acceptor = [pc |-> "await", client |-> c] /\ oneshot[c] = "fired"
    /\ acceptor' = Accepting
    /\ up' = [up EXCEPT ![c] = "read"]
    /\ down' = [down EXCEPT ![c] = "run"]
    /\ UNCHANGED <<oneshot, sentUp, outward, remote, toRelay, reader, channel,
                   taken, delivered, mishap>>

\* Mutant: an unbounded channel.
BeatUnbounded ==
    /\ writer = "run" /\ Len(events) <= EventCap
    /\ events' = Append(events, Heartbeat)
    /\ UNCHANGED <<client, writer, toDevice, upLog, remote, inward, mishap>>

\* The heartbeat task, which ends by itself when dh_writer is gone.
Beat ==
    /\ writer = "run" /\ Len(events) < EventCap
    /\ events' = Append(events, Heartbeat)
    /\ UNCHANGED <<client, writer, toDevice, upLog, remote, inward, mishap>>

-------------------------------------------------------------------------------
(* process_reader *)

ReadChunk(c) ==
    /\ up[c] = "read" /\ sentUp[c] < MaxUp[c]
    /\ up' = [up EXCEPT ![c] = "data"]
    /\ sentUp' = [sentUp EXCEPT ![c] = @ + 1]
    /\ UNCHANGED <<acceptor, oneshot, outward, remote, inward, mishap>>

\* The client closed its side, or reading failed.
ReadEnd(c) ==
    /\ up[c] = "read"
    /\ up' = [up EXCEPT ![c] = "disconnect"]
    /\ UNCHANGED <<acceptor, oneshot, sentUp, outward, remote, inward, mishap>>

\* Mutant: the loop goes on after it has announced the disconnection.
PushAndGoOn(c) ==
    /\ up[c] \in {"data", "disconnect"}
    /\ \/ /\ writer = "run" /\ Len(events) < EventCap
          /\ events' = Append(events, Event(up[c], c))
          /\ up' = [up EXCEPT ![c] = "read"]
       \/ /\ writer = "stopped"
          /\ up' = [up EXCEPT ![c] = "ended"]
          /\ UNCHANGED events
    /\ UNCHANGED <<acceptor, oneshot, sentUp, writer, toDevice, upLog, remote,
                   inward, mishap>>

Push(c) ==
    /\ up[c] \in {"data", "disconnect"}
    /\ \/ /\ writer = "run" /\ Len(events) < EventCap
          /\ events' = Append(events, Event(up[c], c))
          /\ up' = [up EXCEPT ![c] = IF @ = "data" THEN "read" ELSE "ended"]
       \/ /\ writer = "stopped"
          /\ up' = [up EXCEPT ![c] = "ended"]
          /\ UNCHANGED events
    /\ UNCHANGED <<acceptor, oneshot, sentUp, writer, toDevice, upLog, remote,
                   inward, mishap>>

-------------------------------------------------------------------------------
(* dh_writer: one datagram per event. *)

Write ==
    /\ writer = "run" /\ events # <<>>
    /\ events' = Tail(events)
    /\ LET e == Head(events) IN
         IF e = Heartbeat
         THEN UNCHANGED <<toDevice, upLog, mishap>>
         ELSE /\ Transmit(toDevice, e)
              /\ upLog' = [upLog EXCEPT ![e.realm] = Append(@, e.kind)]
    /\ UNCHANGED <<client, writer, remote, inward>>

\* The socket refuses a datagram: the loop breaks and its receiver is dropped.
WriteFails ==
    /\ writer = "run" /\ events # <<>>
    /\ writer' = "stopped" /\ events' = <<>> /\ mishap' = TRUE
    /\ UNCHANGED <<client, toDevice, upLog, remote, inward>>

-------------------------------------------------------------------------------
(* The device *)

Answer ==
    /\ toDevice # <<>>
    /\ toDevice' = Tail(toDevice)
    /\ LET e == Head(toDevice) IN
       \/ /\ e.kind = "connect"
          /\ device' = [device EXCEPT ![e.realm] = "connected"]
          /\ Transmit(toRelay, Event("conn", e.realm))
       \/ /\ e.kind = "connect"
          /\ device' = [device EXCEPT ![e.realm] = "closed"]
          /\ toRelay' \in {toRelay, Append(toRelay, Event("refused", e.realm))}
          /\ Len(toRelay') <= WireCap /\ mishap' = TRUE
       \/ /\ e.kind = "data"
          /\ UNCHANGED <<device, toRelay, mishap>>
       \/ /\ e.kind = "disconnect"
          /\ device' = [device EXCEPT ![e.realm] = "closed"]
          /\ UNCHANGED <<toRelay, mishap>>
    /\ UNCHANGED <<client, events, writer, upLog, sentDown, reader, channel, down,
                   taken, delivered>>

Stream(c) ==
    /\ device[c] = "connected" /\ sentDown[c] < MaxDown[c]
    /\ sentDown' = [sentDown EXCEPT ![c] = @ + 1]
    /\ Transmit(toRelay, Event("data", c))
    /\ UNCHANGED <<client, outward, device, reader, channel, down, taken, delivered>>

-------------------------------------------------------------------------------
(* dh_reader *)

\* Takes a packet off the socket and acknowledges it.
Read ==
    /\ reader = Reading /\ toRelay # <<>>
    /\ toRelay' = Tail(toRelay)
    /\ LET p == Head(toRelay) IN
         /\ reader' = [pc |-> "dispatch", packet |-> p]
         /\ taken' = IF p.kind = "data"
                     THEN [taken EXCEPT ![p.realm] = @ + 1] ELSE taken
    /\ UNCHANGED <<client, outward, remote, channel, down, delivered, mishap>>

\* No packet for 8 seconds, a malformed one, a socket error, a failed
\* acknowledgement: the loop breaks for good.
ReadFails ==
    /\ reader = Reading
    /\ reader' = [pc |-> "stopped"] /\ mishap' = TRUE
    /\ UNCHANGED <<client, outward, remote, toRelay, channel, down, taken, delivered>>

\* A status other than CONN is passed over: the accept loop waits on.
Confirm ==
    /\ reader.pc = "dispatch" /\ reader.packet.kind \in {"conn", "refused"}
    /\ reader' = Reading
    /\ LET c == reader.packet.realm IN
         oneshot' = IF reader.packet.kind = "conn" /\ oneshot[c] = "registered"
                    THEN [oneshot EXCEPT ![c] = "fired"] ELSE oneshot
    /\ UNCHANGED <<acceptor, up, sentUp, outward, remote, toRelay, channel, down,
                   taken, delivered, mishap>>

\* Mutant: try_send, which drops the chunk when the channel is full.
ForwardOrDrop ==
    /\ reader.pc = "dispatch" /\ reader.packet.kind = "data"
    /\ reader' = Reading
    /\ LET c == reader.packet.realm IN
       \/ /\ down[c] # "ended" /\ Len(channel[c]) < ChannelCap
          /\ channel' = [channel EXCEPT ![c] = Append(@, taken[c])]
       \/ /\ down[c] = "ended" \/ Len(channel[c]) >= ChannelCap
          /\ UNCHANGED channel
    /\ UNCHANGED <<client, outward, remote, toRelay, down, taken, delivered, mishap>>

\* send on a realm's channel waits for room, so one slow client holds up the
\* packets of every realm; it fails once the client's process_writer is gone.
Forward ==
    /\ reader.pc = "dispatch" /\ reader.packet.kind = "data"
    /\ reader' = Reading
    /\ LET c == reader.packet.realm IN
       \/ /\ down[c] # "ended" /\ Len(channel[c]) < ChannelCap
          /\ channel' = [channel EXCEPT ![c] = Append(@, taken[c])]
       \/ /\ down[c] = "ended"
          /\ UNCHANGED channel
    /\ UNCHANGED <<client, outward, remote, toRelay, down, taken, delivered, mishap>>

-------------------------------------------------------------------------------
(* process_writer *)

Deliver(c) ==
    /\ down[c] = "run" /\ channel[c] # <<>>
    /\ channel' = [channel EXCEPT ![c] = Tail(@)]
    /\ delivered' = [delivered EXCEPT ![c] = Append(@, Head(channel[c]))]
    /\ UNCHANGED <<client, outward, remote, toRelay, reader, down, taken, mishap>>

\* Mutant: the loop goes on after a chunk that could not be written.
DeliverSkips(c) ==
    /\ down[c] = "run" /\ channel[c] # <<>>
    /\ channel' = [channel EXCEPT ![c] = Tail(@)]
    /\ UNCHANGED <<client, outward, remote, toRelay, reader, down, taken, delivered, mishap>>

\* The client is gone: only a write finds out, and drops the channel's receiver.
DeliverFails(c) ==
    /\ down[c] = "run" /\ channel[c] # <<>>
    /\ down' = [down EXCEPT ![c] = "ended"]
    /\ channel' = [channel EXCEPT ![c] = <<>>]
    /\ UNCHANGED <<client, outward, remote, toRelay, reader, taken, delivered, mishap>>

-------------------------------------------------------------------------------
Next ==
    \/ \E c \in Clients :
         \/ Accept(c) \/ SendConnect(c) \/ Bridge(c)
         \/ ReadChunk(c) \/ ReadEnd(c) \/ Push(c)
         \/ Stream(c)
         \/ Deliver(c) \/ DeliverFails(c)
    \/ AcceptFails \/ Beat
    \/ Write \/ WriteFails
    \/ Answer
    \/ Read \/ ReadFails \/ Confirm \/ Forward

Spec == Init /\ [][Next]_vars

\* Every task is polled while it can go on, the device answers what reaches it,
\* and a client reads what is written to it or goes away.  mpsc queues its
\* blocked senders in order, so a send that keeps finding room in between goes
\* through (strong fairness).
Fairness ==
    /\ \A c \in Clients :
         /\ SF_vars(SendConnect(c)) /\ SF_vars(Push(c))
         /\ WF_vars(Bridge(c))
         /\ WF_vars(Deliver(c) \/ DeliverFails(c))
    /\ WF_vars(Write \/ WriteFails) /\ WF_vars(Answer)
    /\ WF_vars(Read) /\ WF_vars(Confirm) /\ WF_vars(Forward)

FairSpec == Spec /\ Fairness

-------------------------------------------------------------------------------
Datagrams(K) == [kind : K, realm : Clients]
EventKind    == {"connect", "data", "disconnect"}
PacketKind   == {"conn", "refused", "data"}

TypeOK ==
    /\ acceptor \in [pc : {"accept", "ended"}]
                     \cup [pc : {"connect", "await"}, client : Clients]
    /\ oneshot \in [Clients -> {"none", "registered", "fired"}]
    /\ up \in [Clients -> {"none", "read", "data", "disconnect", "ended"}]
    /\ sentUp \in [Clients -> Nat]
    /\ \A c \in Clients : sentUp[c] <= MaxUp[c] /\ sentDown[c] <= MaxDown[c]
    /\ events \in Seq(Datagrams(EventKind) \cup {Heartbeat})
    /\ Len(events) <= EventCap
    /\ writer \in {"run", "stopped"}
    /\ toDevice \in Seq(Datagrams(EventKind))
    /\ device \in [Clients -> {"none", "connected", "closed"}]
    /\ sentDown \in [Clients -> Nat]
    /\ toRelay \in Seq(Datagrams(PacketKind))
    /\ reader \in [pc : {"read", "stopped"}] \cup [pc : {"dispatch"}, packet : Datagrams(PacketKind)]
    /\ channel \in [Clients -> Seq(Nat)]
    /\ \A c \in Clients : Len(channel[c]) <= ChannelCap
    /\ down \in [Clients -> {"none", "run", "ended"}]
    /\ upLog \in [Clients -> Seq(EventKind)]
    /\ taken \in [Clients -> Nat]
    /\ delivered \in [Clients -> Seq(Nat)]
    /\ mishap \in BOOLEAN

\* The chunk of a realm that dh_reader has in its hands: the last one it took.
InHand(c) ==
    IF reader.pc = "dispatch" /\ reader.packet = Event("data", c)
    THEN <<taken[c]>> ELSE <<>>

\* Behind the UDP socket nothing is dropped, doubled, reordered or given to
\* another client: until a client's writer ends, the chunks dh_reader took for a
\* realm are what the client got, then what its channel holds, then what is in
\* hand, however full the channels are.
NothingLost ==
    \A c \in Clients :
        down[c] # "ended" =>
            delivered[c] \o channel[c] \o InHand(c) = [i \in 1..taken[c] |-> i]

\* The device sees each realm opened once and first, and nothing after its end,
\* although three kinds of task feed the one event channel.
RealmProtocol ==
    \A c \in Clients : \A i \in 1..Len(upLog[c]) :
        /\ upLog[c][i] = "connect" <=> i = 1
        /\ upLog[c][i] = "disconnect" => i = Len(upLog[c])

\* Bytes of a client leave only for a realm that the device has answered for.
DataAfterConfirm ==
    \A c \in Clients : \A i \in 1..Len(upLog[c]) :
        upLog[c][i] = "data" => device[c] # "none"

Streams == INSTANCE RealmStreams WITH stream <- down

\* However the tasks of the tunnel interleave, and with datagrams lost and tasks
\* dead, each client sees what RealmStreams promises it: the stream of its realm
\* without a gap, a repetition or a chunk of another, and none after its end.
StreamsKept == Streams!Spec

\* The accept loop, which serves nobody else meanwhile and has no timeout, gets
\* its confirmation unless a datagram was lost, a task died or the device
\* refused: the packets of other clients, fast or slow, cannot keep it away.
AwaitEnds ==
    \A c \in Clients :
        acceptor = [pc |-> "await", client |-> c]
            ~> (acceptor # [pc |-> "await", client |-> c] \/ mishap)

\* The full channel of one client delays dh_reader, and with it every realm, but
\* the two never wait for each other for good.
ReaderMovesOn == reader.pc = "dispatch" ~> (reader.pc # "dispatch" \/ mishap)
===============================================================================
