--------------------------- MODULE TunnelRelayProofs ---------------------------
(* Proofs about TunnelRelay for every set of clients, every capacity and every  *)
(* number of chunks: its types, that nothing is lost behind the socket, the     *)
(* protocol of a realm, that it implements RealmStreams, and that no task waits *)
(* for what is not coming.                                                      *)
EXTENDS TunnelRelay, SequenceTheorems, TLAPS

USE RelayAssumption

Upto(n) == [i \in 1..n |-> i]

-------------------------------------------------------------------------------
(* Sequences *)

LEMMA UptoIsSeq ==
    ASSUME NEW n \in Nat
    PROVE  Upto(n) \in Seq(Nat) /\ Len(Upto(n)) = n /\ \A i \in 1..n : Upto(n)[i] = i
<1>1. Upto(n) \in [1..n -> Nat]
  BY DEF Upto
<1>2. Upto(n) \in Seq(Nat)
  BY <1>1
<1> QED
  BY <1>1, <1>2, LenProperties DEF Upto

\* One chunk more in hand.
LEMMA UptoStep ==
    ASSUME NEW n \in Nat, NEW s \in Seq(Nat), s = Upto(n)
    PROVE  s \o <<n + 1>> = Upto(n + 1)
<1>1. <<n + 1>> \in Seq(Nat) /\ Len(<<n + 1>>) = 1 /\ <<n + 1>>[1] = n + 1
  OBVIOUS
<1>2. /\ s \o <<n + 1>> \in Seq(Nat)
      /\ Len(s \o <<n + 1>>) = n + 1
      /\ \A i \in 1..(n + 1) : (s \o <<n + 1>>)[i] = IF i <= n THEN s[i] ELSE <<n + 1>>[i - n]
  BY <1>1, UptoIsSeq, ConcatProperties
<1>3. \A i \in 1..(n + 1) : (s \o <<n + 1>>)[i] = Upto(n + 1)[i]
  <2> SUFFICES ASSUME NEW i \in 1..(n + 1) PROVE (s \o <<n + 1>>)[i] = i
    BY DEF Upto
  <2>1. CASE i <= n
    BY <1>2, <2>1 DEF Upto
  <2>2. CASE ~(i <= n)
    <3>1. i = n + 1 /\ i - n = 1
      BY <2>2
    <3> QED
      BY <1>1, <1>2, <2>2, <3>1
  <2> QED
    BY <2>1, <2>2
<1>4. Upto(n + 1) \in Seq(Nat) /\ Len(Upto(n + 1)) = n + 1
  BY UptoIsSeq
<1> HIDE DEF Upto
<1> QED
  BY <1>2, <1>3, <1>4, SeqEqual

\* The chunk in hand goes to the end of the channel.
LEMMA PutInChannel ==
    ASSUME NEW d \in Seq(Nat), NEW s \in Seq(Nat), NEW x \in Nat
    PROVE  d \o Append(s, x) \o <<>> = d \o s \o <<x>>
<1>1. Append(s, x) = s \o <<x>> /\ <<x>> \in Seq(Nat)
  BY AppendIsConcat
<1>2. d \o Append(s, x) \in Seq(Nat)
  BY <1>1, ConcatProperties
<1>3. d \o Append(s, x) \o <<>> = d \o Append(s, x)
  BY <1>2, ConcatEmptySeq
<1>4. d \o (s \o <<x>>) = (d \o s) \o <<x>>
  BY <1>1, ConcatAssociative
<1> QED
  BY <1>1, <1>3, <1>4

\* The head of the channel goes to the client.
LEMMA TakeFromChannel ==
    ASSUME NEW d \in Seq(Nat), NEW s \in Seq(Nat), s # <<>>
    PROVE  Append(d, Head(s)) \o Tail(s) = d \o s
<1>1. Head(s) \in Nat /\ Tail(s) \in Seq(Nat)
  BY HeadTailProperties
<1>2. <<Head(s)>> \in Seq(Nat) /\ Append(d, Head(s)) = d \o <<Head(s)>>
  BY <1>1, AppendIsConcat
<1>3. (d \o <<Head(s)>>) \o Tail(s) = d \o (<<Head(s)>> \o Tail(s))
  BY SMTT(20), <1>1, <1>2, ConcatAssociative
<1>4. <<Head(s)>> \o Tail(s) = s
  <2>1. <<Head(s)>> \o Tail(s) \in Seq(Nat) /\ Len(<<Head(s)>> \o Tail(s)) = Len(s)
    BY <1>1, <1>2, ConcatProperties, HeadTailProperties, LenProperties
  <2>2. \A i \in 1..Len(s) : (<<Head(s)>> \o Tail(s))[i] = s[i]
    BY <1>1, <1>2, ConcatProperties, HeadTailProperties, LenProperties
  <2> QED
    BY <2>1, <2>2, SeqEqual
<1> QED
  BY <1>2, <1>3, <1>4

-------------------------------------------------------------------------------
(* Types *)

\* What the queues hold, and what their ends return.
LEMMA QueueEnds ==
    ASSUME NEW S, NEW s \in Seq(S), s # <<>>
    PROVE  Head(s) \in S /\ Tail(s) \in Seq(S) /\ Len(Tail(s)) <= Len(s) /\ Len(Tail(s)) \in Nat
BY HeadTailProperties, LenProperties

LEMMA QueueGrows ==
    ASSUME NEW S, NEW s \in Seq(S), NEW e \in S
    PROVE  Append(s, e) \in Seq(S) /\ Len(Append(s, e)) = Len(s) + 1 /\ Len(s) \in Nat
BY AppendProperties, LenProperties

\* A queue, place by place.
LEMMA QueuePut ==
    ASSUME NEW S, NEW q \in Seq(S), NEW e \in S
    PROVE  /\ Append(q, e) \in Seq(S) /\ Len(q) \in Nat /\ Len(Append(q, e)) = Len(q) + 1
           /\ \A i \in 1..Len(q) : Append(q, e)[i] = q[i]
           /\ Append(q, e)[Len(q) + 1] = e
BY AppendProperties, LenProperties

LEMMA AppendNotEmpty ==
    ASSUME NEW S, NEW q \in Seq(S), NEW e \in S
    PROVE  Append(q, e) # <<>>
<1>1. Len(Append(q, e)) = Len(q) + 1 /\ Len(q) \in Nat
  BY QueuePut
<1>2. Len(<<>>) = 0
  BY EmptySeq
<1> QED
  BY <1>1, <1>2

LEMMA QueueTaken ==
    ASSUME NEW S, NEW q \in Seq(S), q # <<>>
    PROVE  /\ Head(q) = q[1] /\ Len(q) \in Nat \ {0} /\ Len(Tail(q)) = Len(q) - 1
           /\ \A i \in 1..Len(Tail(q)) : i + 1 \in 2..Len(q) /\ Tail(q)[i] = q[i + 1]
BY HeadTailProperties, EmptySeq

\* A datagram is transmitted or lost.
LEMMA Transmitted ==
    ASSUME NEW S, NEW q \in Seq(S), NEW d \in S, NEW r, r = Append(q, d) \/ r = q
    PROVE  \A i \in 1..Len(r) : (i \in 1..Len(q) /\ r[i] = q[i]) \/ r[i] = d
<1>1. CASE r = q
  BY <1>1
<1>2. CASE r = Append(q, d)
  <2>1. /\ Len(q) \in Nat /\ Len(r) = Len(q) + 1 /\ r[Len(q) + 1] = d
        /\ \A i \in 1..Len(q) : r[i] = q[i]
    BY <1>2, QueuePut
  <2>2. \A i \in 1..Len(r) : i \in 1..Len(q) \/ i = Len(q) + 1
    BY <2>1
  <2> QED
    BY <2>1, <2>2
<1> QED
  BY <1>1, <1>2

\* Events of two realms, or of two kinds, are two events, and none is a heartbeat.
LEMMA EventsDiffer ==
    /\ \A c, d, k, m : Event(k, c) = Event(m, d) <=> k = m /\ c = d
    /\ \A c, k : Event(k, c) # Heartbeat
<1>1. \A c, d, k, m : Event(k, c) = Event(m, d) <=> k = m /\ c = d
  BY DEF Event
<1>2. ASSUME NEW c, NEW k PROVE Event(k, c) # Heartbeat
  <2>1. "realm" \in DOMAIN Event(k, c) /\ "realm" \notin DOMAIN Heartbeat
    BY DEF Event, Heartbeat
  <2> QED
    BY <2>1
<1> QED
  BY <1>1, <1>2

\* Every datagram and event is well formed.
LEMMA EventForms ==
    ASSUME NEW c \in Clients
    PROVE  /\ \A k \in EventKind : Event(k, c) \in Datagrams(EventKind)
           /\ \A k \in PacketKind : Event(k, c) \in Datagrams(PacketKind)
           /\ \A K : Heartbeat \notin Datagrams(K)
BY DEF Event, Datagrams, Heartbeat

AnyEvent == Datagrams(EventKind) \cup {Heartbeat}

LEMMA EventsPut ==
    ASSUME TypeOK, NEW e \in AnyEvent, Len(events) < EventCap, events' = Append(events, e)
    PROVE  events' \in Seq(AnyEvent) /\ Len(events') <= EventCap
<1>1. events \in Seq(AnyEvent)
  BY DEF TypeOK, AnyEvent
<1> QED
  BY <1>1, QueueGrows

\* A wire keeps to its datagrams, lost or not.
LEMMA WireType ==
    ASSUME TypeOK
    PROVE  /\ \A d \in Datagrams(EventKind) :
                Transmit(toDevice, d) =>
                    toDevice' \in Seq(Datagrams(EventKind)) /\ mishap' \in BOOLEAN
           /\ \A d \in Datagrams(PacketKind) :
                Transmit(toRelay, d) =>
                    toRelay' \in Seq(Datagrams(PacketKind)) /\ mishap' \in BOOLEAN
<1>1. /\ toDevice \in Seq(Datagrams(EventKind)) /\ toRelay \in Seq(Datagrams(PacketKind))
      /\ mishap \in BOOLEAN
  BY DEF TypeOK
<1>2. ASSUME NEW d \in Datagrams(EventKind), Transmit(toDevice, d)
      PROVE  toDevice' \in Seq(Datagrams(EventKind)) /\ mishap' \in BOOLEAN
  <2>1. Append(toDevice, d) \in Seq(Datagrams(EventKind))
    BY <1>1, QueueGrows
  <2> QED
    BY <1>1, <1>2, <2>1 DEF Transmit
<1>3. ASSUME NEW d \in Datagrams(PacketKind), Transmit(toRelay, d)
      PROVE  toRelay' \in Seq(Datagrams(PacketKind)) /\ mishap' \in BOOLEAN
  <2>1. Append(toRelay, d) \in Seq(Datagrams(PacketKind))
    BY <1>1, QueueGrows
  <2> QED
    BY <1>1, <1>3, <2>1 DEF Transmit
<1> QED
  BY <1>2, <1>3

\* The channel of one client changes.
LEMMA ChannelType ==
    ASSUME TypeOK, NEW c \in Clients, NEW s \in Seq(Nat), Len(s) <= ChannelCap,
           channel' = [channel EXCEPT ![c] = s]
    PROVE  /\ channel' \in [Clients -> Seq(Nat)]
           /\ \A d \in Clients : Len(channel'[d]) <= ChannelCap
<1>1. /\ channel \in [Clients -> Seq(Nat)]
      /\ \A d \in Clients : Len(channel[d]) <= ChannelCap
  BY DEF TypeOK
<1> QED
  BY <1>1

\* The packet in hand is one of the device's.
LEMMA InHandType ==
    ASSUME TypeOK, reader.pc = "dispatch"
    PROVE  reader.packet \in Datagrams(PacketKind) /\ reader.packet.realm \in Clients
<1>1. reader \in [pc : {"dispatch"}, packet : Datagrams(PacketKind)]
  BY DEF TypeOK
<1> QED
  BY <1>1 DEF Datagrams

LEMMA TypeInit == Init => TypeOK
<1> SUFFICES ASSUME Init PROVE TypeOK
  OBVIOUS
<1>1. Len(<<>>) = 0 /\ \A S : <<>> \in Seq(S)
  BY EmptySeq
<1>2. /\ channel \in [Clients -> Seq(Nat)] /\ delivered \in [Clients -> Seq(Nat)]
      /\ upLog \in [Clients -> Seq(EventKind)]
      /\ \A c \in Clients : channel[c] = <<>>
  BY <1>1 DEF Init
<1>3. /\ events \in Seq(Datagrams(EventKind) \cup {Heartbeat})
      /\ toDevice \in Seq(Datagrams(EventKind)) /\ toRelay \in Seq(Datagrams(PacketKind))
      /\ Len(events) <= EventCap /\ \A c \in Clients : Len(channel[c]) <= ChannelCap
  BY <1>1, <1>2 DEF Init
<1>4. /\ sentUp \in [Clients -> Nat] /\ sentDown \in [Clients -> Nat]
      /\ \A c \in Clients : sentUp[c] <= MaxUp[c] /\ sentDown[c] <= MaxDown[c]
  BY DEF Init
<1>5. mishap \in BOOLEAN
  BY DEF Init
<1> QED
  BY <1>2, <1>3, <1>4, <1>5 DEF Init, TypeOK, Accepting, Reading

\* The accept loop and the readers of the clients.
LEMMA TypeClient ==
    ASSUME TypeOK, NEW c \in Clients,
           Accept(c) \/ SendConnect(c) \/ Bridge(c) \/ ReadChunk(c) \/ ReadEnd(c) \/ Push(c)
    PROVE  TypeOK'
<1>1. CASE Accept(c)
  BY <1>1 DEF TypeOK, Accept, Accepting, outward, remote, inward
<1>2. CASE SendConnect(c)
  <2>1. Event("connect", c) \in AnyEvent
    BY EventForms DEF EventKind, AnyEvent
  <2>2. events \in Seq(AnyEvent) /\ Len(events) <= EventCap
    BY DEF TypeOK, AnyEvent
  <2>3. events' \in Seq(AnyEvent) /\ Len(events') <= EventCap
    <3>1. CASE Len(events) < EventCap /\ events' = Append(events, Event("connect", c))
      BY <2>1, <3>1, EventsPut
    <3>2. CASE UNCHANGED events
      BY <2>2, <3>2
    <3> QED
      BY <1>2, <3>1, <3>2 DEF SendConnect
  <2> QED
    BY SMTT(20), <1>2, <2>3 DEF TypeOK, AnyEvent, SendConnect, remote, inward
<1>3. CASE Bridge(c)
  BY <1>3 DEF TypeOK, Bridge, Accepting, outward, remote
<1>4. CASE ReadChunk(c)
  <2>1. sentUp' \in [Clients -> Nat] /\ \A d \in Clients : sentUp'[d] <= MaxUp[d]
    BY <1>4 DEF TypeOK, ReadChunk
  <2> QED
    BY <1>4, <2>1 DEF TypeOK, ReadChunk, outward, remote, inward
<1>5. CASE ReadEnd(c)
  BY <1>5 DEF TypeOK, ReadEnd, outward, remote, inward
<1>6. CASE Push(c)
  <2>1. Event(up[c], c) \in AnyEvent
    BY <1>6, EventForms DEF Push, EventKind, AnyEvent
  <2>2. events \in Seq(AnyEvent) /\ Len(events) <= EventCap
    BY DEF TypeOK, AnyEvent
  <2>3. events' \in Seq(AnyEvent) /\ Len(events') <= EventCap
    <3>1. CASE Len(events) < EventCap /\ events' = Append(events, Event(up[c], c))
      BY <2>1, <3>1, EventsPut
    <3>2. CASE UNCHANGED events
      BY <2>2, <3>2
    <3> QED
      BY <1>6, <3>1, <3>2 DEF Push
  <2>4. up' \in [Clients -> {"none", "read", "data", "disconnect", "ended"}]
    <3>1. up \in [Clients -> {"none", "read", "data", "disconnect", "ended"}]
      BY DEF TypeOK
    <3>2. up' = [up EXCEPT ![c] = "read"] \/ up' = [up EXCEPT ![c] = "ended"]
      BY <1>6, <3>1 DEF Push
    <3> QED
      BY <3>1, <3>2
  <2> QED
    BY <1>6, <2>3, <2>4 DEF TypeOK, AnyEvent, Push, remote, inward
<1> QED
  BY <1>1, <1>2, <1>3, <1>4, <1>5, <1>6

\* dh_writer.
LEMMA TypeWrite == ASSUME TypeOK, Write PROVE TypeOK'
<1> DEFINE e == Head(events)
<1>1. events \in Seq(AnyEvent) /\ Len(events) <= EventCap /\ events # <<>>
  BY DEF TypeOK, AnyEvent, Write
<1>2. e \in AnyEvent /\ events' \in Seq(AnyEvent) /\ Len(events') <= EventCap
  <2>1. Tail(events) \in Seq(AnyEvent) /\ Head(events) \in AnyEvent
        /\ Len(Tail(events)) <= Len(events) /\ Len(Tail(events)) \in Nat /\ Len(events) \in Nat
    BY <1>1, QueueEnds, LenProperties
  <2> QED
    BY <1>1, <2>1 DEF Write
<1>3. CASE e = Heartbeat
  BY <1>2, <1>3 DEF TypeOK, AnyEvent, Write, client, remote, inward
<1>4. CASE e # Heartbeat
  <2>1. e \in Datagrams(EventKind)
    BY <1>2, <1>4 DEF AnyEvent
  <2>2. e.kind \in EventKind /\ e.realm \in Clients
    BY <2>1 DEF Datagrams
  <2>3. toDevice' \in Seq(Datagrams(EventKind)) /\ mishap' \in BOOLEAN
    BY <1>4, <2>1, WireType DEF Write
  <2>4. upLog' \in [Clients -> Seq(EventKind)]
    <3>1. upLog \in [Clients -> Seq(EventKind)]
      BY DEF TypeOK
    <3>2. Append(upLog[e.realm], e.kind) \in Seq(EventKind)
      BY <2>2, <3>1, QueueGrows
    <3>3. upLog' = [upLog EXCEPT ![e.realm] = Append(upLog[e.realm], e.kind)]
      BY <1>4, <3>1 DEF Write
    <3> HIDE DEF e
    <3> QED
      BY <2>2, <3>1, <3>2, <3>3
  <2> QED
    BY <1>2, <2>3, <2>4 DEF TypeOK, AnyEvent, Write, client, remote, inward
<1> QED
  BY <1>3, <1>4

\* The heartbeat, the device, and the failures of the tasks.
LEMMA TypeOutward ==
    ASSUME TypeOK, AcceptFails \/ Beat \/ WriteFails \/ Answer
    PROVE  TypeOK'
<1>1. CASE AcceptFails
  BY <1>1 DEF TypeOK, AcceptFails, outward, remote, inward
<1>2. CASE Beat
  <2>1. events' \in Seq(AnyEvent) /\ Len(events') <= EventCap
    BY <1>2, EventsPut DEF Beat, AnyEvent
  <2> QED
    BY <1>2, <2>1 DEF TypeOK, AnyEvent, Beat, client, remote, inward
<1>3. CASE WriteFails
  <2>1. events' \in Seq(AnyEvent) /\ Len(events') <= EventCap
    BY <1>3, EmptySeq DEF WriteFails
  <2> QED
    BY <1>3, <2>1 DEF TypeOK, AnyEvent, WriteFails, client, remote, inward
<1>4. CASE Answer
  <2> DEFINE e == Head(toDevice)
  <2>1. toDevice \in Seq(Datagrams(EventKind)) /\ toDevice # <<>> /\ mishap \in BOOLEAN
        /\ toRelay \in Seq(Datagrams(PacketKind))
        /\ device \in [Clients -> {"none", "connected", "closed"}]
    BY <1>4 DEF TypeOK, Answer
  <2>2. e \in Datagrams(EventKind) /\ toDevice' \in Seq(Datagrams(EventKind))
    BY <1>4, <2>1, QueueEnds DEF Answer
  <2>3. e.realm \in Clients
    BY <2>2 DEF Datagrams
  <2>4. /\ Event("conn", e.realm) \in Datagrams(PacketKind)
        /\ Event("refused", e.realm) \in Datagrams(PacketKind)
    BY <2>3, EventForms DEF PacketKind
  <2>5. device' \in [Clients -> {"none", "connected", "closed"}]
    BY <1>4, <2>1 DEF Answer
  <2>6. toRelay' \in Seq(Datagrams(PacketKind)) /\ mishap' \in BOOLEAN
    <3>1. Append(toRelay, Event("refused", e.realm)) \in Seq(Datagrams(PacketKind))
      BY <2>1, <2>4, AppendProperties
    <3> HIDE DEF e
    <3>2. \/ Transmit(toRelay, Event("conn", e.realm))
          \/ toRelay' = toRelay /\ (mishap' = TRUE \/ mishap' = mishap)
          \/ toRelay' = Append(toRelay, Event("refused", e.realm)) /\ mishap' = TRUE
      BY <1>4 DEF Answer, e
    <3> QED
      BY <2>1, <2>4, <3>1, <3>2, WireType
  <2> QED
    BY <1>4, <2>2, <2>5, <2>6 DEF TypeOK, Answer, client
<1> QED
  BY <1>1, <1>2, <1>3, <1>4

LEMMA TypeStream == ASSUME TypeOK, NEW c \in Clients, Stream(c) PROVE TypeOK'
<1>1. Event("data", c) \in Datagrams(PacketKind)
  BY EventForms DEF PacketKind
<1>2. toRelay' \in Seq(Datagrams(PacketKind)) /\ mishap' \in BOOLEAN
  BY <1>1, WireType DEF Stream
<1>3. sentDown' \in [Clients -> Nat] /\ \A d \in Clients : sentDown'[d] <= MaxDown[d]
  BY DEF TypeOK, Stream
<1> QED
  BY <1>2, <1>3 DEF TypeOK, Stream, client, outward

\* dh_reader.
LEMMA TypeReader ==
    ASSUME TypeOK, Read \/ ReadFails \/ Confirm \/ Forward
    PROVE  TypeOK'
<1>1. CASE Read
  <2> DEFINE p == Head(toRelay)
  <2>1. toRelay \in Seq(Datagrams(PacketKind)) /\ toRelay # <<>> /\ taken \in [Clients -> Nat]
    BY <1>1 DEF TypeOK, Read
  <2>2. p \in Datagrams(PacketKind) /\ toRelay' \in Seq(Datagrams(PacketKind))
    BY <1>1, <2>1, QueueEnds DEF Read
  <2>3. taken' \in [Clients -> Nat]
    <3>1. p.realm \in Clients
      BY <2>2 DEF Datagrams
    <3> QED
      BY <1>1, <2>1, <3>1 DEF Read
  <2>4. reader' \in [pc : {"dispatch"}, packet : Datagrams(PacketKind)]
    BY <1>1, <2>2 DEF Read
  <2> QED
    BY <1>1, <2>2, <2>3, <2>4 DEF TypeOK, Read, client, outward, remote
<1>2. CASE ReadFails
  BY <1>2 DEF TypeOK, ReadFails, client, outward, remote
<1>3. CASE Confirm
  BY <1>3 DEF TypeOK, Confirm, Reading, outward, remote
<1>4. CASE Forward
  <2> DEFINE d == reader.packet.realm
  <2>1. d \in Clients
    BY <1>4, InHandType DEF Forward
  <2>2. channel' \in [Clients -> Seq(Nat)] /\ \A x \in Clients : Len(channel'[x]) <= ChannelCap
    <3>1. CASE UNCHANGED channel
      BY <3>1 DEF TypeOK
    <3>2. CASE Len(channel[d]) < ChannelCap
               /\ channel' = [channel EXCEPT ![d] = Append(channel[d], taken[d])]
      <4>1. channel[d] \in Seq(Nat) /\ taken[d] \in Nat
        BY <2>1 DEF TypeOK
      <4>2. Append(channel[d], taken[d]) \in Seq(Nat)
            /\ Len(Append(channel[d], taken[d])) <= ChannelCap
        BY <3>2, <4>1, QueueGrows
      <4> QED
        BY <2>1, <3>2, <4>2, ChannelType
    <3>3. channel \in [Clients -> Seq(Nat)]
      BY DEF TypeOK
    <3> QED
      BY <1>4, <2>1, <3>1, <3>2, <3>3 DEF Forward
  <2> QED
    BY <1>4, <2>2 DEF TypeOK, Forward, Reading, client, outward, remote
<1> QED
  BY <1>1, <1>2, <1>3, <1>4

\* process_writer.
LEMMA TypeDeliver ==
    ASSUME TypeOK, NEW c \in Clients, Deliver(c) \/ DeliverFails(c)
    PROVE  TypeOK'
<1>0. channel[c] \in Seq(Nat) /\ Len(channel[c]) <= ChannelCap /\ delivered[c] \in Seq(Nat)
      /\ channel \in [Clients -> Seq(Nat)] /\ delivered \in [Clients -> Seq(Nat)]
  BY DEF TypeOK
<1>1. CASE Deliver(c)
  <2>1. channel[c] # <<>>
    BY <1>1 DEF Deliver
  <2>2. Head(channel[c]) \in Nat /\ Tail(channel[c]) \in Seq(Nat)
        /\ Len(Tail(channel[c])) <= ChannelCap
    BY <1>0, <2>1, QueueEnds, LenProperties
  <2>3. channel' \in [Clients -> Seq(Nat)] /\ \A x \in Clients : Len(channel'[x]) <= ChannelCap
    BY <1>0, <1>1, <2>2, ChannelType DEF Deliver
  <2>4. Append(delivered[c], Head(channel[c])) \in Seq(Nat)
    BY <1>0, <2>2, QueueGrows
  <2>5. delivered' \in [Clients -> Seq(Nat)]
    BY <1>0, <1>1, <2>4 DEF Deliver
  <2> QED
    BY <1>1, <2>3, <2>5 DEF TypeOK, Deliver, client, outward, remote
<1>2. CASE DeliverFails(c)
  <2>1. <<>> \in Seq(Nat) /\ Len(<<>>) <= ChannelCap
    BY EmptySeq
  <2>2. channel' = [channel EXCEPT ![c] = <<>>]
    BY <1>2 DEF DeliverFails
  <2>3. channel' \in [Clients -> Seq(Nat)] /\ \A x \in Clients : Len(channel'[x]) <= ChannelCap
    BY <2>1, <2>2, ChannelType
  <2> QED
    BY <1>2, <2>3 DEF TypeOK, DeliverFails, client, outward, remote
<1> QED
  BY <1>1, <1>2

LEMMA TypeStep == TypeOK /\ [Next]_vars => TypeOK'
<1> SUFFICES ASSUME TypeOK, [Next]_vars PROVE TypeOK'
  OBVIOUS
<1>1. CASE UNCHANGED vars
  BY <1>1 DEF vars, TypeOK, client, outward, remote, inward
<1> QED
  BY <1>1, TypeClient, TypeWrite, TypeOutward, TypeStream, TypeReader, TypeDeliver DEF Next

\* Every variable of the relay keeps to its values, and no channel outgrows its
\* capacity, whoever sends into it.
THEOREM TypeCorrect == Spec => []TypeOK
<1> QED
  BY TypeInit, TypeStep, PTL DEF Spec

-------------------------------------------------------------------------------
(* The accept loop serves a client once. *)

Serves(c) == acceptor \in {[pc |-> "connect", client |-> c], [pc |-> "await", client |-> c]}

\* A realm whose entry is not there, or whose client is being connected, has no
\* writer yet: otherwise a writer that has ended could run again, after chunks
\* were thrown away.
Served(c) ==
    /\ oneshot[c] = "none" => down[c] = "none"
    /\ Serves(c) => down[c] = "none" /\ oneshot[c] # "none"

ServedOnce == \A c \in Clients : Served(c)

LEMMA ServedInit == Init => ServedOnce
<1> SUFFICES ASSUME Init, NEW c \in Clients PROVE Served(c)
  BY DEF ServedOnce
<1>1. ~Serves(c)
  BY DEF Init, Serves, Accepting
<1>2. down[c] = "none"
  BY DEF Init
<1> QED
  BY <1>1, <1>2 DEF Served

LEMMA ServedStep == TypeOK /\ ServedOnce /\ [Next]_vars => ServedOnce'
<1> SUFFICES ASSUME TypeOK, ServedOnce, [Next]_vars, NEW c \in Clients
             PROVE  Served(c)'
  BY DEF ServedOnce
<1>0. /\ oneshot \in [Clients -> {"none", "registered", "fired"}]
      /\ down \in [Clients -> {"none", "run", "ended"}]
      /\ Served(c)
  BY DEF TypeOK, ServedOnce
<1>1. ASSUME NEW d \in Clients, Accept(d) PROVE Served(c)'
  <2>1. oneshot[d] = "none" /\ oneshot' = [oneshot EXCEPT ![d] = "registered"] /\ down' = down
    BY <1>1 DEF Accept, inward
  <2>2. CASE d = c
    BY <1>0, <2>1, <2>2 DEF Served
  <2>3. CASE d # c
    <3>1. acceptor' = [pc |-> "connect", client |-> d]
      BY <1>1 DEF Accept
    <3>2. ~Serves(c)'
      BY <2>3, <3>1 DEF Serves
    <3> QED
      BY <1>0, <2>1, <2>3, <3>2 DEF Served
  <2> QED
    BY <2>2, <2>3
<1>2. ASSUME NEW d \in Clients, SendConnect(d) PROVE Served(c)'
  BY <1>0, <1>2 DEF SendConnect, inward, Serves, Served
<1>3. ASSUME NEW d \in Clients, Bridge(d) PROVE Served(c)'
  <2>1. Serves(d) /\ oneshot[d] # "none" /\ ~Serves(c)'
    BY <1>3 DEF Bridge, Serves, Accepting
  <2> QED
    BY <1>0, <1>3, <2>1 DEF Bridge, Served, Serves
<1>4. ASSUME AcceptFails PROVE Served(c)'
  BY <1>0, <1>4 DEF AcceptFails, Serves, Served, inward
<1>5. ASSUME Confirm PROVE Served(c)'
  BY <1>0, <1>5 DEF Confirm, Serves, Served, inward
<1>6. ASSUME NEW d \in Clients, DeliverFails(d) PROVE Served(c)'
  BY <1>0, <1>6 DEF DeliverFails, Serves, Served, client
<1>7. ASSUME UNCHANGED <<acceptor, oneshot, down>> PROVE Served(c)'
  BY <1>0, <1>7 DEF Serves, Served
<1>8. ASSUME NEW d \in Clients,
             ReadChunk(d) \/ ReadEnd(d) \/ Push(d) \/ Stream(d) \/ Deliver(d)
      PROVE  UNCHANGED <<acceptor, oneshot, down>>
  BY <1>8 DEF ReadChunk, ReadEnd, Push, Stream, Deliver, client, inward
<1>9. ASSUME Beat \/ Write \/ WriteFails \/ Answer \/ Read \/ ReadFails \/ Forward
      PROVE  UNCHANGED <<acceptor, oneshot, down>>
  BY <1>9 DEF Beat, Write, WriteFails, Answer, Read, ReadFails, Forward, client, inward
<1>10. CASE UNCHANGED vars
  BY <1>7, <1>10 DEF vars, client, inward
<1> QED
  BY <1>1, <1>2, <1>3, <1>4, <1>5, <1>6, <1>7, <1>8, <1>9, <1>10 DEF Next

-------------------------------------------------------------------------------
(* Nothing is lost. *)

Whole(c) == delivered[c] \o channel[c] \o InHand(c) = Upto(taken[c])

LEMMA WholeIsAll == NothingLost <=> \A c \in Clients : down[c] # "ended" => Whole(c)
BY DEF NothingLost, Whole, Upto

LEMMA SequencesType ==
    ASSUME TypeOK, NEW c \in Clients
    PROVE  /\ delivered[c] \in Seq(Nat) /\ channel[c] \in Seq(Nat) /\ taken[c] \in Nat
           /\ delivered[c] \o channel[c] \in Seq(Nat)
           /\ (delivered[c] \o channel[c]) \o <<>> = delivered[c] \o channel[c]
<1>1. delivered[c] \in Seq(Nat) /\ channel[c] \in Seq(Nat) /\ taken[c] \in Nat
  BY DEF TypeOK
<1>2. delivered[c] \o channel[c] \in Seq(Nat)
  BY <1>1, ConcatProperties
<1> QED
  BY <1>1, <1>2, ConcatEmptySeq

\* What dh_reader holds for a client.
LEMMA InHandForms ==
    ASSUME NEW c \in Clients
    PROVE  /\ reader.pc # "dispatch" => InHand(c) = <<>>
           /\ reader.packet.kind # "data" => InHand(c) = <<>>
           /\ reader.packet.realm # c => InHand(c) = <<>>
BY DEF InHand, Event

\* A step that touches neither a client's chunks nor dh_reader.
LEMMA WholeKept ==
    ASSUME NEW c \in Clients, down[c] # "ended" => Whole(c),
           UNCHANGED <<delivered, channel, taken, reader>>,
           down'[c] # "ended" => down[c] # "ended"
    PROVE  (down[c] # "ended" => Whole(c))'
BY DEF Whole, InHand

LEMMA LostInit == Init => NothingLost
<1> SUFFICES ASSUME Init, NEW c \in Clients PROVE Whole(c)
  BY WholeIsAll
<1>1. TypeOK /\ InHand(c) = <<>>
  BY TypeInit, InHandForms DEF Init, Reading
<1>2. delivered[c] = <<>> /\ channel[c] = <<>> /\ taken[c] = 0
  BY DEF Init
<1>3. delivered[c] \o channel[c] \o InHand(c) = <<>>
  <2>1. <<>> \in Seq(Nat)
    BY EmptySeq
  <2> QED
    BY <1>1, <1>2, <2>1, ConcatEmptySeq
<1>4. Upto(0) = <<>>
  BY UptoIsSeq, EmptySeq
<1> QED
  BY <1>2, <1>3, <1>4 DEF Whole

LEMMA LostRead ==
    ASSUME TypeOK, NEW c \in Clients, down[c] # "ended" => Whole(c), Read
    PROVE  (down[c] # "ended" => Whole(c))'
<1> SUFFICES ASSUME down[c] # "ended" PROVE Whole(c)'
  BY DEF Read
<1> DEFINE p == Head(toRelay)
<1>1. InHand(c) = <<>>
  BY InHandForms DEF Read, Reading
<1>2. delivered[c] \o channel[c] = Upto(taken[c])
  BY <1>1, SequencesType DEF Whole
<1>3. delivered' = delivered /\ channel' = channel
  BY DEF Read
<1>4. p \in Datagrams(PacketKind) /\ taken \in [Clients -> Nat]
  BY QueueEnds DEF TypeOK, Read
<1>5. reader' = [pc |-> "dispatch", packet |-> p]
  BY DEF Read
<1>6. CASE p.kind = "data" /\ p.realm = c
  <2>1. p = Event("data", c)
    BY <1>4, <1>6 DEF Datagrams, Event
  <2>2. taken'[c] = taken[c] + 1
    BY <1>4, <1>6 DEF Read
  <2>3. InHand(c)' = <<taken[c] + 1>>
    BY <1>5, <2>1, <2>2 DEF InHand
  <2>4. (delivered[c] \o channel[c]) \o <<taken[c] + 1>> = Upto(taken[c] + 1)
    BY <1>2, SequencesType, UptoStep
  <2> QED
    BY <1>3, <2>2, <2>3, <2>4 DEF Whole
<1>7. CASE ~(p.kind = "data" /\ p.realm = c)
  <2>1. taken'[c] = taken[c]
    BY <1>4, <1>7 DEF Read
  <2>2. InHand(c)' = <<>>
    BY <1>5, <1>7 DEF InHand, Event
  <2> QED
    BY <1>2, <1>3, <2>1, <2>2, SequencesType DEF Whole
<1> QED
  BY <1>6, <1>7

LEMMA LostForward ==
    ASSUME TypeOK, NEW c \in Clients, down[c] # "ended" => Whole(c), Forward
    PROVE  (down[c] # "ended" => Whole(c))'
<1> SUFFICES ASSUME down[c] # "ended" PROVE Whole(c)'
  BY DEF Forward
<1> DEFINE d == reader.packet.realm
<1>0. d \in Clients /\ channel \in [Clients -> Seq(Nat)]
      /\ reader.packet \in Datagrams(PacketKind) /\ reader.packet.kind = "data"
      /\ reader.pc = "dispatch"
  BY InHandType DEF Forward, TypeOK
<1>1. delivered' = delivered /\ taken' = taken
  BY DEF Forward
<1>2. InHand(c)' = <<>>
  BY DEF Forward, Reading, InHand
<1>3. CASE d = c
  <2>1. reader.packet = Event("data", c)
    BY <1>0, <1>3 DEF Datagrams, Event
  <2>2. InHand(c) = <<taken[c]>>
    BY <1>0, <2>1 DEF InHand
  <2>3. channel'[c] = Append(channel[c], taken[c])
    BY <1>0, <1>3 DEF Forward
  <2>4. delivered[c] \o Append(channel[c], taken[c]) \o <<>>
            = delivered[c] \o channel[c] \o <<taken[c]>>
    BY SequencesType, PutInChannel
  <2> QED
    BY <1>1, <1>2, <2>2, <2>3, <2>4 DEF Whole
<1>4. CASE d # c
  <2>1. InHand(c) = <<>>
    BY <1>4, InHandForms
  <2>2. channel'[c] = channel[c]
    BY <1>0, <1>4 DEF Forward
  <2> QED
    BY <1>1, <1>2, <2>1, <2>2 DEF Whole
<1> QED
  BY <1>3, <1>4

LEMMA LostDeliver ==
    ASSUME TypeOK, NEW c \in Clients, down[c] # "ended" => Whole(c), NEW d \in Clients,
           Deliver(d)
    PROVE  (down[c] # "ended" => Whole(c))'
<1> SUFFICES ASSUME down[c] # "ended" PROVE Whole(c)'
  BY DEF Deliver
<1>0. channel \in [Clients -> Seq(Nat)] /\ delivered \in [Clients -> Seq(Nat)]
  BY DEF TypeOK
<1>1. reader' = reader /\ taken' = taken /\ InHand(c)' = InHand(c)
  BY DEF Deliver, InHand, client
<1>2. CASE d = c
  <2>1. channel'[c] = Tail(channel[c]) /\ delivered'[c] = Append(delivered[c], Head(channel[c]))
        /\ channel[c] # <<>>
    BY <1>0, <1>2 DEF Deliver
  <2>2. delivered'[c] \o channel'[c] = delivered[c] \o channel[c]
    BY <2>1, SequencesType, TakeFromChannel
  <2> QED
    BY <1>1, <2>2 DEF Whole
<1>3. CASE d # c
  <2>1. channel'[c] = channel[c] /\ delivered'[c] = delivered[c]
    BY <1>0, <1>3 DEF Deliver
  <2> QED
    BY <1>1, <2>1 DEF Whole
<1> QED
  BY <1>2, <1>3

LEMMA LostFailures ==
    ASSUME TypeOK, ServedOnce, NEW c \in Clients, down[c] # "ended" => Whole(c),
           \/ ReadFails \/ Confirm
           \/ \E d \in Clients : DeliverFails(d) \/ Bridge(d)
    PROVE  (down[c] # "ended" => Whole(c))'
<1>0. /\ channel \in [Clients -> Seq(Nat)]
      /\ down \in [Clients -> {"none", "run", "ended"}]
  BY DEF TypeOK
<1>1. CASE ReadFails \/ Confirm
  <2>1. InHand(c) = <<>>
    BY <1>1, InHandForms DEF ReadFails, Confirm, Reading
  <2>2. InHand(c)' = <<>>
    BY <1>1 DEF ReadFails, Confirm, Reading, InHand
  <2>3. UNCHANGED <<delivered, channel, taken, down>>
    BY <1>1 DEF ReadFails, Confirm
  <2> QED
    BY <2>1, <2>2, <2>3 DEF Whole
<1>2. ASSUME NEW d \in Clients, DeliverFails(d) PROVE (down[c] # "ended" => Whole(c))'
  <2>1. CASE d = c
    BY <1>0, <1>2, <2>1 DEF DeliverFails
  <2>2. CASE d # c
    <3>1. channel'[c] = channel[c] /\ down'[c] = down[c] /\ delivered' = delivered
          /\ taken' = taken /\ InHand(c)' = InHand(c)
      BY <1>0, <1>2, <2>2 DEF DeliverFails, InHand, client
    <3> QED
      BY <3>1 DEF Whole
  <2> QED
    BY <2>1, <2>2
<1>3. ASSUME NEW d \in Clients, Bridge(d) PROVE (down[c] # "ended" => Whole(c))'
  <2>1. down[d] = "none"
    BY <1>3 DEF Bridge, ServedOnce, Served, Serves
  <2>2. down'[c] # "ended" => down[c] # "ended"
    BY <1>0, <1>3, <2>1 DEF Bridge
  <2>3. UNCHANGED <<delivered, channel, taken, reader>>
    BY <1>3 DEF Bridge
  <2> QED
    BY <2>2, <2>3, WholeKept
<1> QED
  BY <1>1, <1>2, <1>3

LEMMA LostStep == TypeOK /\ ServedOnce /\ NothingLost /\ [Next]_vars => NothingLost'
<1> SUFFICES ASSUME TypeOK, ServedOnce, NothingLost, [Next]_vars, NEW c \in Clients
             PROVE  (down[c] # "ended" => Whole(c))'
  BY DEF NothingLost, Whole, InHand, Upto
<1>0. down[c] # "ended" => Whole(c)
  BY WholeIsAll
<1>1. ASSUME UNCHANGED <<delivered, channel, taken, reader, down>>
      PROVE  (down[c] # "ended" => Whole(c))'
  BY <1>0, <1>1, WholeKept
<1>2. ASSUME NEW d \in Clients,
             \/ Accept(d) \/ SendConnect(d) \/ ReadChunk(d) \/ ReadEnd(d) \/ Push(d) \/ Stream(d)
      PROVE  UNCHANGED <<delivered, channel, taken, reader, down>>
  BY <1>2 DEF Accept, SendConnect, ReadChunk, ReadEnd, Push, Stream, inward
<1>3. ASSUME AcceptFails \/ Beat \/ Write \/ WriteFails \/ Answer
      PROVE  UNCHANGED <<delivered, channel, taken, reader, down>>
  BY <1>3 DEF AcceptFails, Beat, Write, WriteFails, Answer, inward
<1>4. CASE UNCHANGED vars
  BY <1>1, <1>4 DEF vars, inward
<1> QED
  BY <1>0, <1>1, <1>2, <1>3, <1>4, LostRead, LostForward, LostDeliver, LostFailures DEF Next

RelayInv == TypeOK /\ ServedOnce /\ NothingLost

LEMMA RelayInvariant == Spec => []RelayInv
<1>1. Init => RelayInv
  BY TypeInit, ServedInit, LostInit DEF RelayInv
<1>2. RelayInv /\ [Next]_vars => RelayInv'
  BY TypeStep, ServedStep, LostStep DEF RelayInv
<1> QED
  BY <1>1, <1>2, PTL DEF Spec

\* Behind the socket no chunk is dropped, doubled, reordered or given to another
\* client, however full the channels are.
THEOREM NothingLostCorrect == Spec => []NothingLost
<1>1. RelayInv => NothingLost
  BY DEF RelayInv
<1> QED
  BY <1>1, RelayInvariant, PTL

-------------------------------------------------------------------------------
(* What the device sees of a realm. *)

Queued(c, k) == \E i \in 1..Len(events) : events[i] = Event(k, c)
Mine(c)      == \E k \in EventKind : Queued(c, k)

\* A client that is not connected yet has announced nothing.
Unannounced(c) ==
    /\ oneshot[c] = "none" \/ Serves(c) => up[c] = "none"
    /\ oneshot[c] = "none" \/ acceptor = [pc |-> "connect", client |-> c]
         => upLog[c] = <<>> /\ ~Mine(c)

\* In the event channel a realm has one "connect", before anything was written for
\* it; chunks of a client that runs; and a "disconnect" that nothing follows.
Ordered(c) ==
    /\ \A i \in 1..Len(events) : events[i] = Event("connect", c) =>
         upLog[c] = <<>> /\ \A j \in 1..Len(events) : events[j] = Event("connect", c) => i = j
    /\ Queued(c, "data") \/ Queued(c, "disconnect") => up[c] # "none"
    /\ \A i \in 1..Len(events) : events[i] = Event("disconnect", c) =>
         /\ up[c] = "ended"
         /\ \A j \in (i + 1)..Len(events) : \A k \in EventKind : events[j] # Event(k, c)
    /\ \A i \in 1..Len(upLog[c]) : upLog[c][i] = "disconnect" => up[c] = "ended" /\ ~Mine(c)

\* A client runs after the device has heard of its realm, and the device has heard
\* what dh_writer took.
Heard(c) ==
    /\ oneshot[c] = "fired" \/ up[c] # "none" => device[c] # "none"
    /\ \A i \in 1..Len(toRelay) : toRelay[i].realm = c => device[c] # "none"
    /\ reader.pc = "dispatch" /\ reader.packet.realm = c => device[c] # "none"
    /\ device[c] # "none" => upLog[c] # <<>>
    /\ \A i \in 1..Len(toDevice) : toDevice[i].realm = c => upLog[c] # <<>>

Protocol(c) ==
    \A i \in 1..Len(upLog[c]) :
        /\ upLog[c][i] = "connect" <=> i = 1
        /\ upLog[c][i] = "disconnect" => i = Len(upLog[c])
        /\ upLog[c][i] = "data" => device[c] # "none"

Uplink(c) == Unannounced(c) /\ Ordered(c) /\ Heard(c) /\ Protocol(c)

UplinkInv == \A c \in Clients : Uplink(c)

\* The two properties, client by client.
LEMMA ProtocolIs == (\A c \in Clients : Protocol(c)) => RealmProtocol /\ DataAfterConfirm
BY DEF Protocol, RealmProtocol, DataAfterConfirm

\* An event is put into the channel.
LEMMA OrderedPut ==
    ASSUME TypeOK, NEW c \in Clients, Ordered(c), NEW e \in AnyEvent,
           events' = Append(events, e), upLog' = upLog,
           \/ up'[c] = up[c] /\ \A k \in EventKind : e # Event(k, c)
           \/ up'[c] = up[c] /\ e = Event("connect", c) /\ upLog[c] = <<>> /\ ~Mine(c)
           \/ up'[c] # "none" /\ e = Event("data", c) /\ up[c] = "data"
           \/ up'[c] = "ended" /\ e = Event("disconnect", c) /\ up[c] = "disconnect"
    PROVE  Ordered(c)'
<1>1. events \in Seq(AnyEvent)
  BY DEF TypeOK, AnyEvent
<1>2. /\ Len(events) \in Nat /\ Len(events') = Len(events) + 1
      /\ \A i \in 1..Len(events) : events'[i] = events[i]
      /\ events'[Len(events) + 1] = e
  BY <1>1, QueuePut
<1> DEFINE L == Len(events)
<1>3. /\ \A k \in EventKind : Queued(c, k)' <=> Queued(c, k) \/ e = Event(k, c)
      /\ \A i \in 1..Len(events') : i \in 1..L \/ i = L + 1
      /\ \A i \in 1..Len(events') : \A j \in (i + 1)..Len(events') :
           \/ i \in 1..L /\ j \in (i + 1)..L /\ events'[j] = events[j]
           \/ i \in 1..L /\ j = L + 1
  BY <1>2 DEF Queued
<1>4. CASE up'[c] = up[c] /\ \A k \in EventKind : e # Event(k, c)
  BY <1>2, <1>3, <1>4 DEF Ordered, Mine, EventKind
<1>5. CASE up'[c] = up[c] /\ e = Event("connect", c) /\ upLog[c] = <<>> /\ ~Mine(c)
  <2>1. /\ \A k \in EventKind : ~Queued(c, k)
        /\ \A i \in 1..L : events'[i] \notin {Event(k, c) : k \in EventKind}
    BY <1>2, <1>5 DEF Mine, Queued
  <2>2. Len(upLog[c]) = 0 /\ upLog'[c] = <<>>
    BY <1>5, EmptySeq
  <2>3. e # Event("data", c) /\ e # Event("disconnect", c)
    BY <1>5, EventsDiffer
  <2> QED
    BY <1>2, <1>3, <1>5, <2>1, <2>2, <2>3 DEF Ordered, EventKind
<1>6. CASE up'[c] # "none" /\ e = Event("data", c) /\ up[c] = "data"
  <2>1. e # Event("connect", c) /\ e # Event("disconnect", c)
    BY <1>6, EventsDiffer
  <2>2. /\ ~Queued(c, "disconnect")
        /\ \A i \in 1..Len(upLog[c]) : upLog[c][i] # "disconnect"
    BY <1>6 DEF Ordered, Queued
  <2>3. \A i \in 1..Len(events') : events'[i] # Event("disconnect", c)
    BY <1>2, <1>3, <2>1, <2>2 DEF Queued
  <2> QED
    BY <1>2, <1>3, <1>6, <2>1, <2>2, <2>3 DEF Ordered
<1>7. CASE up'[c] = "ended" /\ e = Event("disconnect", c) /\ up[c] = "disconnect"
  <2>1. e # Event("connect", c) /\ e # Event("data", c)
    BY <1>7, EventsDiffer
  <2>2. /\ ~Queued(c, "disconnect")
        /\ \A i \in 1..Len(upLog[c]) : upLog[c][i] # "disconnect"
    BY <1>7 DEF Ordered, Queued
  <2>3. \A i \in 1..L : events'[i] # Event("disconnect", c)
    BY <1>2, <2>2 DEF Queued
  <2> QED
    BY <1>2, <1>3, <1>7, <2>1, <2>2, <2>3 DEF Ordered
<1> QED
  BY <1>4, <1>5, <1>6, <1>7

\* Nothing is put or taken.
LEMMA OrderedKept ==
    ASSUME NEW c \in Clients, Ordered(c), UNCHANGED <<events, upLog>>,
           up'[c] = up[c] \/ (up[c] \notin {"none", "ended"} /\ up'[c] # "none") \/ up[c] = "none"
    PROVE  Ordered(c)'
BY DEF Ordered, Queued, Mine

\* dh_writer takes the first event.
LEMMA WriteForms ==
    ASSUME TypeOK, Write, NEW c \in Clients
    PROVE  /\ events \in Seq(AnyEvent) /\ events # <<>> /\ upLog[c] \in Seq(EventKind)
           /\ Len(events') = Len(events) - 1 /\ Len(events) \in Nat \ {0}
           /\ Head(events) = events[1] /\ Head(events) \in AnyEvent
           /\ \A i \in 1..Len(events') : i + 1 \in 2..Len(events) /\ events'[i] = events[i + 1]
           /\ \/ /\ upLog'[c] = upLog[c]
                 /\ \A k \in EventKind : events[1] # Event(k, c)
              \/ \E k \in EventKind : events[1] = Event(k, c) /\ upLog'[c] = Append(upLog[c], k)
<1>1. /\ events \in Seq(AnyEvent) /\ events # <<>> /\ upLog \in [Clients -> Seq(EventKind)]
      /\ events' = Tail(events)
  BY DEF TypeOK, AnyEvent, Write
<1>2. /\ Len(events') = Len(events) - 1 /\ Len(events) \in Nat \ {0}
      /\ Head(events) = events[1] /\ Head(events) \in AnyEvent
      /\ \A i \in 1..Len(events') : i + 1 \in 2..Len(events) /\ events'[i] = events[i + 1]
  BY <1>1, QueueTaken, QueueEnds
<1> DEFINE e == Head(events)
<1>3. CASE e = Heartbeat
  BY <1>1, <1>2, <1>3, EventsDiffer DEF Write
<1>4. CASE e # Heartbeat
  <2>1. e \in Datagrams(EventKind)
    BY <1>2, <1>4 DEF AnyEvent
  <2>2. e = Event(e.kind, e.realm) /\ e.kind \in EventKind /\ e.realm \in Clients
    BY <2>1 DEF Datagrams, Event
  <2>3. upLog' = [upLog EXCEPT ![e.realm] = Append(@, e.kind)]
    BY <1>4 DEF Write
  <2>4. CASE e.realm = c
    BY <1>1, <1>2, <2>2, <2>3, <2>4
  <2>5. CASE e.realm # c
    <3>1. upLog'[c] = upLog[c]
      BY <1>1, <2>2, <2>3, <2>5
    <3>2. \A k \in EventKind : e # Event(k, c)
      BY <2>2, <2>5, EventsDiffer
    <3> QED
      BY <1>1, <1>2, <3>1, <3>2
  <2> QED
    BY <2>4, <2>5
<1> QED
  BY <1>1, <1>2, <1>3, <1>4

\* What it takes is next in the protocol.
LEMMA OrderedTake ==
    ASSUME TypeOK, Write, NEW c \in Clients, Uplink(c)
    PROVE  Ordered(c)' /\ Protocol(c)'
<1>0. Ordered(c) /\ Heard(c) /\ Protocol(c) /\ up' = up /\ device' = device
  BY DEF Uplink, Write, client, remote
<1>1. /\ Len(events') = Len(events) - 1 /\ Len(events) \in Nat \ {0}
      /\ \A i \in 1..Len(events') : i + 1 \in 2..Len(events) /\ events'[i] = events[i + 1]
      /\ 1 \in 1..Len(events) /\ upLog[c] \in Seq(EventKind)
  BY WriteForms
<1>2. /\ \A k \in EventKind : Queued(c, k)' => Queued(c, k)
      /\ Mine(c)' => Mine(c)
  BY <1>1 DEF Queued, Mine
<1>3. CASE upLog'[c] = upLog[c]
  <2>1. Ordered(c)'
    <3>1. \A i \in 1..Len(events') : \A j \in (i + 1)..Len(events') :
            /\ i + 1 \in 1..Len(events) /\ j + 1 \in ((i + 1) + 1)..Len(events)
            /\ events'[j] = events[j + 1] /\ events'[i] = events[i + 1]
      BY <1>1
    <3>2. \A i, j \in 1..Len(events') :
            /\ i + 1 \in 1..Len(events) /\ j + 1 \in 1..Len(events)
            /\ events'[j] = events[j + 1] /\ events'[i] = events[i + 1]
            /\ i + 1 = j + 1 => i = j
      BY <1>1
    <3>3. \A i \in 1..Len(events') : events'[i] = Event("connect", c) =>
            /\ upLog'[c] = <<>>
            /\ \A j \in 1..Len(events') : events'[j] = Event("connect", c) => i = j
      <4> SUFFICES ASSUME NEW i \in 1..Len(events'), events'[i] = Event("connect", c)
                   PROVE  /\ upLog'[c] = <<>>
                          /\ \A j \in 1..Len(events') : events'[j] = Event("connect", c) => i = j
        OBVIOUS
      <4>1. i + 1 \in 1..Len(events) /\ events[i + 1] = Event("connect", c)
        BY <3>2
      <4>2. /\ upLog[c] = <<>>
            /\ \A j \in 1..Len(events) : events[j] = Event("connect", c) => i + 1 = j
        BY <1>0, <4>1 DEF Ordered
      <4>3. ASSUME NEW j \in 1..Len(events'), events'[j] = Event("connect", c) PROVE i = j
        <5>1. j + 1 \in 1..Len(events) /\ events[j + 1] = Event("connect", c)
          BY <3>2, <4>3
        <5>2. i + 1 = j + 1
          BY <4>2, <5>1
        <5> QED
          BY <5>2
      <4> QED
        BY <1>3, <4>2, <4>3
    <3>4. \A i \in 1..Len(events') : events'[i] = Event("disconnect", c) =>
            /\ up[c] = "ended"
            /\ \A j \in (i + 1)..Len(events') : \A k \in EventKind : events'[j] # Event(k, c)
      <4> SUFFICES ASSUME NEW i \in 1..Len(events'), events'[i] = Event("disconnect", c)
                   PROVE  /\ up[c] = "ended"
                          /\ \A j \in (i + 1)..Len(events') :
                               \A k \in EventKind : events'[j] # Event(k, c)
        OBVIOUS
      <4>1. i + 1 \in 1..Len(events) /\ events[i + 1] = Event("disconnect", c)
        BY <3>2
      <4>2. /\ up[c] = "ended"
            /\ \A j \in ((i + 1) + 1)..Len(events) :
                 \A k \in EventKind : events[j] # Event(k, c)
        BY <1>0, <4>1 DEF Ordered
      <4> QED
        BY <3>1, <4>2
    <3>5. /\ Queued(c, "data")' \/ Queued(c, "disconnect")' => up[c] # "none"
          /\ \A i \in 1..Len(upLog'[c]) :
               upLog'[c][i] = "disconnect" => up[c] = "ended" /\ ~Mine(c)'
      BY <1>0, <1>2, <1>3 DEF Ordered, EventKind
    <3> QED
      BY <1>0, <3>3, <3>4, <3>5 DEF Ordered
  <2> QED
    BY <1>0, <1>3, <2>1 DEF Protocol
<1>4. ASSUME NEW k \in EventKind, events[1] = Event(k, c), upLog'[c] = Append(upLog[c], k)
      PROVE  Ordered(c)' /\ Protocol(c)'
  <2>1. /\ Len(upLog[c]) \in Nat /\ Len(upLog'[c]) = Len(upLog[c]) + 1
        /\ \A i \in 1..Len(upLog[c]) : upLog'[c][i] = upLog[c][i]
        /\ upLog'[c][Len(upLog[c]) + 1] = k
    BY <1>1, <1>4, QueuePut
  <2>2. Queued(c, k) /\ Mine(c)
    BY <1>1, <1>4 DEF Queued, Mine
  <2>3. \A i \in 1..Len(upLog[c]) : upLog[c][i] # "disconnect"
    BY <1>0, <2>2 DEF Ordered
  <2>4. \A i \in 1..Len(events') : events'[i] # Event("connect", c)
    <3>1. CASE k = "connect"
      BY <1>0, <1>1, <1>4, <3>1 DEF Ordered
    <3>2. CASE k # "connect"
      <4>1. up[c] # "none"
        BY <1>0, <2>2, <3>2 DEF Ordered, EventKind
      <4>2. upLog[c] # <<>>
        BY <1>0, <4>1 DEF Heard
      <4>3. \A i \in 1..Len(events) : events[i] # Event("connect", c)
        BY <1>0, <4>2 DEF Ordered
      <4> QED
        BY <1>1, <4>3
    <3> QED
      BY <3>1, <3>2
  <2>5. k = "disconnect" => up[c] = "ended" /\ ~Mine(c)'
    <3> SUFFICES ASSUME k = "disconnect" PROVE up[c] = "ended" /\ ~Mine(c)'
      OBVIOUS
    <3>1. /\ up[c] = "ended"
          /\ \A j \in 2..Len(events) : \A m \in EventKind : events[j] # Event(m, c)
      BY <1>0, <1>1, <1>4 DEF Ordered
    <3> QED
      BY <1>1, <3>1 DEF Mine, Queued
  <2>6. \A i \in 1..Len(events') : events'[i] = Event("disconnect", c) =>
          /\ up[c] = "ended"
          /\ \A j \in (i + 1)..Len(events') : \A m \in EventKind : events'[j] # Event(m, c)
    <3>1. \A i \in 1..Len(events') : \A j \in (i + 1)..Len(events') :
            /\ i + 1 \in 1..Len(events) /\ j + 1 \in ((i + 1) + 1)..Len(events)
            /\ events'[j] = events[j + 1] /\ events'[i] = events[i + 1]
      BY <1>1
    <3>2. \A i \in 1..Len(events') : i + 1 \in 1..Len(events) /\ events'[i] = events[i + 1]
      BY <1>1
    <3> SUFFICES ASSUME NEW i \in 1..Len(events'), events'[i] = Event("disconnect", c)
                 PROVE  /\ up[c] = "ended"
                        /\ \A j \in (i + 1)..Len(events') :
                             \A m \in EventKind : events'[j] # Event(m, c)
      OBVIOUS
    <3>3. i + 1 \in 1..Len(events) /\ events[i + 1] = Event("disconnect", c)
      BY <3>2
    <3>4. /\ up[c] = "ended"
          /\ \A j \in ((i + 1) + 1)..Len(events) :
               \A m \in EventKind : events[j] # Event(m, c)
      BY <1>0, <3>3 DEF Ordered
    <3> QED
      BY <3>1, <3>4
  <2>7. \A i \in 1..Len(upLog'[c]) :
          \/ i \in 1..Len(upLog[c]) /\ upLog'[c][i] = upLog[c][i]
          \/ i = Len(upLog'[c]) /\ i = Len(upLog[c]) + 1 /\ upLog'[c][i] = k
    <3>1. \A i \in 1..Len(upLog'[c]) : i \in 1..Len(upLog[c]) \/ i = Len(upLog[c]) + 1
      BY <2>1
    <3> QED
      BY <2>1, <3>1
  <2>8. Ordered(c)'
    <3>1. \A i \in 1..Len(upLog'[c]) :
            upLog'[c][i] = "disconnect" => up[c] = "ended" /\ ~Mine(c)'
      BY <2>3, <2>5, <2>7
    <3>2. Queued(c, "data")' \/ Queued(c, "disconnect")' => up[c] # "none"
      BY <1>0, <1>2 DEF Ordered, EventKind
    <3> QED
      BY <1>0, <2>4, <2>6, <3>1, <3>2 DEF Ordered
  <2>9. \A i \in 1..Len(upLog'[c]) : upLog'[c][i] = "connect" <=> i = 1
    <3>1. CASE k = "connect"
      <4>1. Len(upLog[c]) = 0
        BY <1>0, <1>1, <1>4, <3>1, EmptySeq DEF Ordered
      <4> QED
        BY <2>1, <3>1, <4>1
    <3>2. CASE k # "connect"
      <4>1. up[c] # "none"
        BY <1>0, <2>2, <3>2 DEF Ordered, EventKind
      <4>2. Len(upLog[c]) # 0
        BY <1>0, <1>1, <4>1, EmptySeq DEF Heard
      <4>3. \A i \in 1..Len(upLog[c]) : upLog[c][i] = "connect" <=> i = 1
        BY <1>0 DEF Protocol
      <4>4. Len(upLog[c]) + 1 # 1 /\ 1 \in 1..Len(upLog[c])
        BY <2>1, <4>2
      <4> SUFFICES ASSUME NEW i \in 1..Len(upLog'[c])
                   PROVE  upLog'[c][i] = "connect" <=> i = 1
        OBVIOUS
      <4>5. CASE i \in 1..Len(upLog[c]) /\ upLog'[c][i] = upLog[c][i]
        BY <4>3, <4>5
      <4>6. CASE i = Len(upLog[c]) + 1 /\ upLog'[c][i] = k
        BY <3>2, <4>4, <4>6
      <4> QED
        BY <2>7, <4>5, <4>6
    <3> QED
      BY <3>1, <3>2
  <2>10. \A i \in 1..Len(upLog'[c]) : upLog'[c][i] = "data" => device'[c] # "none"
    <3>1. k = "data" => device[c] # "none"
      BY <1>0, <2>2 DEF Ordered, Heard
    <3> QED
      BY <1>0, <2>7, <3>1 DEF Protocol
  <2> QED
    <3>1. \A i \in 1..Len(upLog'[c]) : upLog'[c][i] = "disconnect" => i = Len(upLog'[c])
      BY <2>3, <2>7
    <3> QED
      BY <2>8, <2>9, <2>10, <3>1 DEF Protocol
<1> QED
  BY <1>3, <1>4, WriteForms

\* A client is connected once.
LEMMA UnannouncedStep ==
    ASSUME TypeOK, ServedOnce, NEW c \in Clients, Uplink(c), [Next]_vars
    PROVE  Unannounced(c)'
<1>0. /\ oneshot \in [Clients -> {"none", "registered", "fired"}]
      /\ up \in [Clients -> {"none", "read", "data", "disconnect", "ended"}]
      /\ Unannounced(c) /\ Heard(c) /\ (Serves(c) => oneshot[c] # "none")
  BY DEF TypeOK, Uplink, ServedOnce, Served
<1>1. ASSUME NEW d \in Clients, Accept(d) PROVE Unannounced(c)'
  <2>1. /\ oneshot[d] = "none" /\ oneshot' = [oneshot EXCEPT ![d] = "registered"]
        /\ acceptor' = [pc |-> "connect", client |-> d]
        /\ UNCHANGED <<up, upLog, events>>
    BY <1>1 DEF Accept, outward
  <2>2. Mine(c)' = Mine(c)
    BY <2>1 DEF Mine, Queued
  <2>3. CASE d = c
    BY <1>0, <2>1, <2>2, <2>3 DEF Unannounced
  <2>4. CASE d # c
    <3>1. ~Serves(c)' /\ acceptor' # [pc |-> "connect", client |-> c] /\ oneshot'[c] = oneshot[c]
      BY <1>0, <2>1, <2>4 DEF Serves
    <3> QED
      BY <1>0, <2>1, <2>2, <3>1 DEF Unannounced
  <2> QED
    BY <2>3, <2>4
<1>2. ASSUME NEW d \in Clients, SendConnect(d) PROVE Unannounced(c)'
  <2>1. /\ acceptor = [pc |-> "connect", client |-> d]
        /\ acceptor' \in {[pc |-> "await", client |-> d], [pc |-> "ended"]}
        /\ UNCHANGED <<oneshot, up, upLog>>
    BY <1>2 DEF SendConnect
  <2>2. acceptor' # [pc |-> "connect", client |-> c] /\ (Serves(c)' => Serves(c))
    BY <2>1 DEF Serves
  <2>3. CASE oneshot[c] = "none"
    <3>1. d # c
      BY <1>0, <2>1, <2>3 DEF Serves
    <3>2. ~Mine(c)'
      <4>1. ~Mine(c)
        BY <1>0, <2>3 DEF Unannounced
      <4>2. CASE UNCHANGED events
        BY <4>1, <4>2 DEF Mine, Queued
      <4>3. CASE events' = Append(events, Event("connect", d))
        <5>1. events \in Seq(AnyEvent) /\ Event("connect", d) \in AnyEvent
          BY EventForms DEF TypeOK, AnyEvent, EventKind
        <5>2. /\ Len(events) \in Nat /\ Len(events') = Len(events) + 1
              /\ \A i \in 1..Len(events) : events'[i] = events[i]
              /\ events'[Len(events) + 1] = Event("connect", d)
          BY <4>3, <5>1, QueuePut
        <5>3. \A k : Event("connect", d) # Event(k, c)
          BY <3>1, EventsDiffer
        <5>4. \A i \in 1..Len(events') : i \in 1..Len(events) \/ i = Len(events) + 1
          BY <5>2
        <5> QED
          BY <4>1, <5>2, <5>3, <5>4 DEF Mine, Queued
      <4> QED
        BY <1>2, <4>2, <4>3 DEF SendConnect
    <3> QED
      BY <1>0, <2>1, <2>2, <3>2 DEF Unannounced
  <2>4. CASE oneshot[c] # "none"
    BY <1>0, <2>1, <2>2, <2>4 DEF Unannounced
  <2> QED
    BY <2>3, <2>4
<1>3. ASSUME NEW d \in Clients, Bridge(d) PROVE Unannounced(c)'
  <2>1. /\ oneshot[d] = "fired" /\ acceptor' = Accepting
        /\ up' = [up EXCEPT ![d] = "read"] /\ UNCHANGED <<oneshot, upLog, events>>
    BY <1>3 DEF Bridge, outward
  <2>2. ~Serves(c)' /\ acceptor' # [pc |-> "connect", client |-> c] /\ Mine(c)' = Mine(c)
    BY <2>1 DEF Serves, Accepting, Mine, Queued
  <2>3. oneshot[c] = "none" => up'[c] = up[c]
    BY <1>0, <2>1
  <2> QED
    BY <1>0, <2>1, <2>2, <2>3 DEF Unannounced
<1>4. ASSUME NEW d \in Clients, ReadChunk(d) \/ ReadEnd(d) \/ Push(d) PROVE Unannounced(c)'
  <2>1. /\ up[d] # "none" /\ UNCHANGED <<acceptor, oneshot, upLog>>
        /\ \E x : up' = [up EXCEPT ![d] = x]
        /\ \/ events' = events
           \/ events' = Append(events, Event(up[d], d)) /\ up[d] \in EventKind
    <3>1. CASE ReadChunk(d) \/ ReadEnd(d)
      BY <3>1 DEF ReadChunk, ReadEnd, outward
    <3>2. CASE Push(d)
      BY <3>2 DEF Push, EventKind
    <3> QED
      BY <1>4, <3>1, <3>2
  <2>2. CASE d = c
    <3>1. oneshot[c] # "none" /\ ~Serves(c)
      BY <1>0, <2>1, <2>2 DEF Unannounced
    <3> QED
      BY <1>0, <2>1, <3>1 DEF Unannounced, Serves
  <2>3. CASE d # c
    <3>1. up'[c] = up[c]
      BY <1>0, <2>1, <2>3
    <3>2. ~Mine(c) => ~Mine(c)'
      <4>1. CASE events' = events
        BY <4>1 DEF Mine, Queued
      <4>2. CASE events' = Append(events, Event(up[d], d)) /\ up[d] \in EventKind
        <5>1. events \in Seq(AnyEvent) /\ Event(up[d], d) \in AnyEvent
          BY <4>2, EventForms DEF TypeOK, AnyEvent
        <5>2. /\ Len(events) \in Nat /\ Len(events') = Len(events) + 1
              /\ \A i \in 1..Len(events) : events'[i] = events[i]
              /\ events'[Len(events) + 1] = Event(up[d], d)
          BY <4>2, <5>1, QueuePut
        <5>3. \A k : Event(up[d], d) # Event(k, c)
          BY <2>3, EventsDiffer
        <5>4. \A i \in 1..Len(events') : i \in 1..Len(events) \/ i = Len(events) + 1
          BY <5>2
        <5> QED
          BY <5>2, <5>3, <5>4 DEF Mine, Queued
      <4> QED
        BY <2>1, <4>1, <4>2
    <3> QED
      BY <1>0, <2>1, <3>1, <3>2 DEF Unannounced, Serves
  <2> QED
    BY <2>2, <2>3
<1>5. CASE AcceptFails
  BY <1>0, <1>5 DEF AcceptFails, Unannounced, Serves, Mine, Queued, outward
<1>6. CASE Beat
  <2>1. events \in Seq(AnyEvent) /\ Heartbeat \in AnyEvent
    BY DEF TypeOK, AnyEvent
  <2>2. /\ Len(events) \in Nat /\ Len(events') = Len(events) + 1
        /\ \A i \in 1..Len(events) : events'[i] = events[i]
        /\ events'[Len(events) + 1] = Heartbeat
    BY <1>6, <2>1, QueuePut DEF Beat
  <2>3. \A i \in 1..Len(events') : i \in 1..Len(events) \/ i = Len(events) + 1
    BY <2>2
  <2>4. ~Mine(c) => ~Mine(c)'
    BY <2>2, <2>3, EventsDiffer DEF Mine, Queued
  <2> QED
    BY <1>0, <1>6, <2>4 DEF Beat, Unannounced, Serves, client
<1>7. CASE Write
  <2>1. /\ Len(events) \in Nat \ {0} /\ 1 \in 1..Len(events)
        /\ \A i \in 1..Len(events') : i + 1 \in 1..Len(events) /\ events'[i] = events[i + 1]
    <3>1. /\ Len(events) \in Nat \ {0}
          /\ \A i \in 1..Len(events') : i + 1 \in 2..Len(events) /\ events'[i] = events[i + 1]
      BY <1>7, WriteForms
    <3> QED
      BY <3>1
  <2>2. Mine(c)' => Mine(c)
    BY <2>1 DEF Mine, Queued
  <2>3. ~Mine(c) => upLog'[c] = upLog[c]
    BY <1>7, <2>1, WriteForms DEF Mine, Queued
  <2> QED
    BY <1>0, <1>7, <2>2, <2>3 DEF Write, Unannounced, Serves, client
<1>8. CASE WriteFails
  <2>1. ~Mine(c)'
    BY <1>8, EmptySeq DEF WriteFails, Mine, Queued
  <2> QED
    BY <1>0, <1>8, <2>1 DEF WriteFails, Unannounced, Serves, client
<1>9. CASE Confirm
  <2>1. UNCHANGED <<acceptor, up, upLog, events>> /\ (oneshot'[c] = "none" => oneshot[c] = "none")
    BY <1>0, <1>9 DEF Confirm, outward
  <2> QED
    BY <1>0, <2>1 DEF Unannounced, Serves, Mine, Queued
<1>10. ASSUME UNCHANGED <<acceptor, oneshot, up, upLog, events>> PROVE Unannounced(c)'
  BY <1>0, <1>10 DEF Unannounced, Serves, Mine, Queued
<1>11. ASSUME \/ Answer \/ Read \/ ReadFails \/ Forward \/ UNCHANGED vars
              \/ \E d \in Clients : Stream(d) \/ Deliver(d) \/ DeliverFails(d)
       PROVE  UNCHANGED <<acceptor, oneshot, up, upLog, events>>
  BY <1>11 DEF Answer, Read, ReadFails, Forward, Stream, Deliver, DeliverFails, vars,
               client, outward
<1> QED
  BY <1>1, <1>2, <1>3, <1>4, <1>5, <1>6, <1>7, <1>8, <1>9, <1>10, <1>11 DEF Next

\* What is in the channel stays in order, and so does what was written.
LEMMA OrderedStep ==
    ASSUME TypeOK, ServedOnce, NEW c \in Clients, Uplink(c), [Next]_vars
    PROVE  Ordered(c)' /\ Protocol(c)'
<1>0. /\ up \in [Clients -> {"none", "read", "data", "disconnect", "ended"}]
      /\ device \in [Clients -> {"none", "connected", "closed"}]
      /\ Unannounced(c) /\ Ordered(c) /\ Heard(c) /\ Protocol(c)
  BY DEF TypeOK, Uplink
<1>1. ASSUME upLog' = upLog, device[c] # "none" => device'[c] # "none" PROVE Protocol(c)'
  BY <1>0, <1>1 DEF Protocol
<1>2. ASSUME NEW d \in Clients, SendConnect(d) PROVE Ordered(c)' /\ Protocol(c)'
  <2>1. UNCHANGED <<up, upLog, device>> /\ acceptor = [pc |-> "connect", client |-> d]
    BY <1>2 DEF SendConnect, remote
  <2>2. CASE UNCHANGED events
    BY <1>0, <1>1, <2>1, <2>2, OrderedKept
  <2>3. CASE events' = Append(events, Event("connect", d))
    <3>1. Event("connect", d) \in AnyEvent
      BY EventForms DEF AnyEvent, EventKind
    <3>2. d # c => \A k \in EventKind : Event("connect", d) # Event(k, c)
      BY EventsDiffer
    <3>3. d = c => upLog[c] = <<>> /\ ~Mine(c)
      BY <1>0, <2>1 DEF Unannounced
    <3> QED
      BY <1>0, <1>1, <2>1, <2>3, <3>1, <3>2, <3>3, OrderedPut
  <2> QED
    BY <1>2, <2>2, <2>3 DEF SendConnect
<1>3. ASSUME NEW d \in Clients, Bridge(d) PROVE Ordered(c)' /\ Protocol(c)'
  <2>1. up' = [up EXCEPT ![d] = "read"] /\ UNCHANGED <<events, upLog, device>> /\ Serves(d)
    BY <1>3 DEF Bridge, outward, remote, Serves
  <2>2. d = c => up[c] = "none"
    BY <1>0, <2>1 DEF Unannounced
  <2> QED
    BY <1>0, <1>1, <2>1, <2>2, OrderedKept
<1>4. ASSUME NEW d \in Clients, ReadChunk(d) \/ ReadEnd(d) PROVE Ordered(c)' /\ Protocol(c)'
  <2>1. /\ UNCHANGED <<events, upLog, device>> /\ up[d] = "read"
        /\ up' = [up EXCEPT ![d] = "data"] \/ up' = [up EXCEPT ![d] = "disconnect"]
    BY <1>4 DEF ReadChunk, ReadEnd, outward, remote
  <2> QED
    BY <1>0, <1>1, <2>1, OrderedKept
<1>5. ASSUME NEW d \in Clients, Push(d) PROVE Ordered(c)' /\ Protocol(c)'
  <2>1. UNCHANGED <<upLog, device>> /\ up[d] \in {"data", "disconnect"}
    BY <1>5 DEF Push, remote
  <2>2. CASE UNCHANGED events /\ up' = [up EXCEPT ![d] = "ended"]
    BY <1>0, <1>1, <2>1, <2>2, OrderedKept
  <2>3. CASE /\ events' = Append(events, Event(up[d], d))
             /\ up' = [up EXCEPT ![d] = IF @ = "data" THEN "read" ELSE "ended"]
    <3>1. Event(up[d], d) \in AnyEvent
      BY <2>1, EventForms DEF AnyEvent, EventKind
    <3>2. d # c => up'[c] = up[c] /\ \A k \in EventKind : Event(up[d], d) # Event(k, c)
      BY <1>0, <2>3, EventsDiffer
    <3>3. d = c => \/ up[c] = "data" /\ up'[c] # "none"
                   \/ up[c] = "disconnect" /\ up'[c] = "ended"
      BY <1>0, <2>1, <2>3
    <3> QED
      BY <1>0, <1>1, <2>1, <2>3, <3>1, <3>2, <3>3, OrderedPut
  <2> QED
    BY <1>5, <2>2, <2>3 DEF Push
<1>6. CASE Beat
  <2>1. Heartbeat \in AnyEvent /\ \A k \in EventKind : Heartbeat # Event(k, c)
    BY EventsDiffer DEF AnyEvent
  <2> QED
    BY <1>0, <1>1, <1>6, <2>1, OrderedPut DEF Beat, client, remote
<1>7. CASE WriteFails
  <2>1. events' = <<>> /\ Len(events') = 0 /\ UNCHANGED <<up, upLog, device>>
    BY <1>7, EmptySeq DEF WriteFails, client, remote
  <2>2. ~Mine(c)' /\ \A k : ~Queued(c, k)'
    BY <2>1 DEF Mine, Queued
  <2> QED
    BY <1>0, <1>1, <2>1, <2>2 DEF Ordered
<1>8. ASSUME UNCHANGED <<events, upLog, up>>, device[c] # "none" => device'[c] # "none"
      PROVE  Ordered(c)' /\ Protocol(c)'
  BY <1>0, <1>1, <1>8, OrderedKept
<1>9. ASSUME \/ AcceptFails \/ Read \/ ReadFails \/ Confirm \/ Forward \/ UNCHANGED vars
             \/ \E d \in Clients : Accept(d) \/ Stream(d) \/ Deliver(d) \/ DeliverFails(d)
      PROVE  UNCHANGED <<events, upLog, up, device>>
  BY <1>9 DEF AcceptFails, Accept, Read, ReadFails, Confirm, Forward, Stream, Deliver,
              DeliverFails, vars, client, outward, remote
<1>10. ASSUME Answer
       PROVE  UNCHANGED <<events, upLog, up>> /\ (device[c] # "none" => device'[c] # "none")
  BY <1>0, <1>10 DEF Answer, client
<1> QED
  BY <1>2, <1>3, <1>4, <1>5, <1>6, <1>7, <1>8, <1>9, <1>10, OrderedTake DEF Next

\* Whatever reaches the relay from a realm, its device was there first.
LEMMA HeardStep ==
    ASSUME TypeOK, ServedOnce, NEW c \in Clients, Uplink(c), [Next]_vars
    PROVE  Heard(c)'
<1>0. /\ up \in [Clients -> {"none", "read", "data", "disconnect", "ended"}]
      /\ oneshot \in [Clients -> {"none", "registered", "fired"}]
      /\ device \in [Clients -> {"none", "connected", "closed"}]
      /\ toDevice \in Seq(Datagrams(EventKind)) /\ toRelay \in Seq(Datagrams(PacketKind))
      /\ upLog \in [Clients -> Seq(EventKind)]
      /\ Heard(c)
  BY DEF TypeOK, Uplink
<1>1. ASSUME NEW d \in Clients,
             Accept(d) \/ SendConnect(d) \/ ReadChunk(d) \/ ReadEnd(d) \/ Push(d) \/ Bridge(d)
      PROVE  Heard(c)'
  <2>1. UNCHANGED <<device, toRelay, reader, upLog, toDevice>>
    BY <1>1 DEF Accept, SendConnect, ReadChunk, ReadEnd, Push, Bridge, outward, remote, inward
  <2>2. oneshot'[c] = "fired" => oneshot[c] = "fired"
    BY <1>0, <1>1 DEF Accept, SendConnect, ReadChunk, ReadEnd, Push, Bridge
  <2>3. up'[c] # "none" => up[c] # "none" \/ oneshot[c] = "fired"
    BY <1>0, <1>1 DEF Accept, SendConnect, ReadChunk, ReadEnd, Push, Bridge
  <2> QED
    BY <1>0, <2>1, <2>2, <2>3 DEF Heard
<1>2. CASE Write
  <2>1. UNCHANGED <<device, toRelay, reader, up, oneshot>>
    BY <1>2 DEF Write, client, remote, inward
  <2>2. upLog[c] # <<>> => upLog'[c] # <<>>
    <3>1. CASE upLog'[c] = upLog[c]
      BY <3>1
    <3>2. ASSUME NEW k \in EventKind, upLog'[c] = Append(upLog[c], k) PROVE upLog'[c] # <<>>
      BY <1>0, <3>2, AppendNotEmpty
    <3> QED
      BY <1>2, <3>1, <3>2, WriteForms
  <2>3. \A i \in 1..Len(toDevice') : toDevice'[i].realm = c => upLog'[c] # <<>>
    <3> DEFINE e == Head(events)
    <3>1. CASE e = Heartbeat
      BY <1>0, <1>2, <2>2, <3>1 DEF Write, Heard
    <3>2. CASE e # Heartbeat
      <4>1. e \in Datagrams(EventKind)
        BY <1>2, <3>2, WriteForms DEF AnyEvent
      <4>2. toDevice' = Append(toDevice, e) \/ toDevice' = toDevice
        BY <1>2, <3>2 DEF Write, Transmit
      <4>3. \A i \in 1..Len(toDevice') : (i \in 1..Len(toDevice) /\ toDevice'[i] = toDevice[i])
                                         \/ toDevice'[i] = e
        BY <1>0, <4>1, <4>2, Transmitted
      <4>4. e.realm = c => upLog'[c] # <<>>
        <5> SUFFICES ASSUME e.realm = c PROVE upLog'[c] # <<>>
          OBVIOUS
        <5>1. upLog'[c] = Append(upLog[c], e.kind) /\ e.kind \in EventKind
          BY <1>0, <1>2, <3>2, <4>1 DEF Write, Datagrams
        <5> QED
          BY <1>0, <5>1, AppendNotEmpty
      <4> QED
        BY <1>0, <2>2, <4>3, <4>4 DEF Heard
    <3> QED
      BY <3>1, <3>2
  <2> QED
    BY <1>0, <2>1, <2>2, <2>3 DEF Heard
<1>3. CASE Answer
  <2> DEFINE e == Head(toDevice)
  <2>1. /\ toDevice # <<>> /\ toDevice' = Tail(toDevice)
        /\ UNCHANGED <<oneshot, up, reader, upLog>>
    BY <1>3 DEF Answer, client
  <2>2. /\ e \in Datagrams(EventKind) /\ e = toDevice[1] /\ 1 \in 1..Len(toDevice)
        /\ \A i \in 1..Len(toDevice') : i + 1 \in 1..Len(toDevice) /\ toDevice'[i] = toDevice[i + 1]
    BY <1>0, <2>1, QueueTaken, QueueEnds
  <2>3. e.realm \in Clients /\ Event("conn", e.realm) \in Datagrams(PacketKind)
    BY <2>2, EventForms DEF Datagrams, PacketKind
  <2>4. /\ device[c] # "none" => device'[c] # "none"
        /\ device'[c] # "none" => device[c] # "none" \/ e.realm = c
    BY <1>0, <1>3, <2>3 DEF Answer
  <2>5. \A i \in 1..Len(toRelay') : toRelay'[i].realm = c => device'[c] # "none"
    <3>1. CASE toRelay' = toRelay
      BY <1>0, <2>4, <3>1 DEF Heard
    <3>2. CASE /\ device' = [device EXCEPT ![e.realm] = "connected"]
               /\ Transmit(toRelay, Event("conn", e.realm))
      <4>1. toRelay' = Append(toRelay, Event("conn", e.realm)) \/ toRelay' = toRelay
        BY <3>2 DEF Transmit
      <4>2. \A i \in 1..Len(toRelay') : (i \in 1..Len(toRelay) /\ toRelay'[i] = toRelay[i])
                                        \/ toRelay'[i] = Event("conn", e.realm)
        BY <1>0, <2>3, <4>1, Transmitted
      <4>3. e.realm = c => device'[c] # "none"
        BY <1>0, <2>3, <3>2
      <4>4. \A i \in 1..Len(toRelay) : toRelay[i].realm = c => device'[c] # "none"
        BY <1>0, <2>4 DEF Heard
      <4>5. Event("conn", e.realm).realm = e.realm
        BY DEF Event
      <4> HIDE DEF e
      <4> QED
        BY <4>2, <4>3, <4>4, <4>5
    <3>3. CASE /\ device' = [device EXCEPT ![e.realm] = "closed"]
               /\ toRelay' = Append(toRelay, Event("refused", e.realm))
      <4>1. Event("refused", e.realm) \in Datagrams(PacketKind)
            /\ Event("refused", e.realm).realm = e.realm
        BY <2>2, EventForms DEF Datagrams, PacketKind, Event
      <4>2. \A i \in 1..Len(toRelay') : (i \in 1..Len(toRelay) /\ toRelay'[i] = toRelay[i])
                                        \/ toRelay'[i] = Event("refused", e.realm)
        BY <1>0, <3>3, <4>1, Transmitted
      <4>3. e.realm = c => device'[c] # "none"
        BY <1>0, <2>3, <3>3
      <4>4. \A i \in 1..Len(toRelay) : toRelay[i].realm = c => device'[c] # "none"
        BY <1>0, <2>4 DEF Heard
      <4> HIDE DEF e
      <4> QED
        BY <4>1, <4>2, <4>3, <4>4
    <3> QED
      BY <1>3, <3>1, <3>2, <3>3 DEF Answer
  <2>6. device'[c] # "none" => upLog'[c] # <<>>
    BY <1>0, <2>1, <2>2, <2>4 DEF Heard
  <2>7. \A i \in 1..Len(toDevice') : toDevice'[i].realm = c => upLog'[c] # <<>>
    BY <1>0, <2>1, <2>2 DEF Heard
  <2> QED
    BY <1>0, <2>1, <2>4, <2>5, <2>6, <2>7 DEF Heard
<1>4. ASSUME NEW d \in Clients, Stream(d) PROVE Heard(c)'
  <2>1. /\ UNCHANGED <<oneshot, up, reader, upLog, toDevice, device>> /\ device[d] = "connected"
        /\ toRelay' = Append(toRelay, Event("data", d)) \/ toRelay' = toRelay
    BY <1>4 DEF Stream, client, outward, Transmit
  <2>2. Event("data", d) \in Datagrams(PacketKind)
    BY EventForms DEF PacketKind
  <2>3. \A i \in 1..Len(toRelay') : (i \in 1..Len(toRelay) /\ toRelay'[i] = toRelay[i])
                                    \/ toRelay'[i] = Event("data", d)
    BY <1>0, <2>1, <2>2, Transmitted
  <2>4. \A i \in 1..Len(toRelay') : toRelay'[i].realm = c => device'[c] # "none"
    BY <1>0, <2>1, <2>3 DEF Heard, Event
  <2> QED
    BY <1>0, <2>1, <2>4 DEF Heard
<1>5. CASE Read
  <2>1. /\ UNCHANGED <<oneshot, up, upLog, toDevice, device>>
        /\ toRelay # <<>> /\ toRelay' = Tail(toRelay)
        /\ reader' = [pc |-> "dispatch", packet |-> Head(toRelay)]
    BY <1>5 DEF Read, client, outward, remote
  <2>2. /\ Head(toRelay) = toRelay[1] /\ 1 \in 1..Len(toRelay)
        /\ \A i \in 1..Len(toRelay') : i + 1 \in 1..Len(toRelay) /\ toRelay'[i] = toRelay[i + 1]
    BY <1>0, <2>1, QueueTaken
  <2> QED
    BY <1>0, <2>1, <2>2 DEF Heard
<1>6. CASE Confirm
  <2>1. /\ UNCHANGED <<up, upLog, toDevice, device, toRelay>> /\ reader' = Reading
        /\ reader.pc = "dispatch"
        /\ oneshot'[c] = "fired" => oneshot[c] = "fired" \/ reader.packet.realm = c
    BY <1>0, <1>6 DEF Confirm, outward, remote
  <2> QED
    BY <1>0, <2>1 DEF Heard, Reading
<1>7. ASSUME UNCHANGED <<oneshot, up, upLog, toDevice, device, toRelay>>,
             reader' = reader \/ reader' = Reading \/ reader' = [pc |-> "stopped"]
      PROVE  Heard(c)'
  BY <1>0, <1>7 DEF Heard, Reading
<1>8. ASSUME \/ AcceptFails \/ Beat \/ WriteFails \/ ReadFails \/ Forward \/ UNCHANGED vars
             \/ \E d \in Clients : Deliver(d) \/ DeliverFails(d)
      PROVE  /\ UNCHANGED <<oneshot, up, upLog, toDevice, device, toRelay>>
             /\ reader' = reader \/ reader' = Reading \/ reader' = [pc |-> "stopped"]
  BY <1>8 DEF AcceptFails, Beat, WriteFails, ReadFails, Forward, Deliver, DeliverFails, vars,
              client, outward, remote, inward
<1> QED
  BY <1>1, <1>2, <1>3, <1>4, <1>5, <1>6, <1>7, <1>8 DEF Next

\* At the start nothing has been said; every step keeps what was.
LEMMA UplinkInit == Init => UplinkInv
<1> SUFFICES ASSUME Init, NEW c \in Clients PROVE Uplink(c)
  BY DEF UplinkInv
<1>1. /\ events = <<>> /\ toDevice = <<>> /\ toRelay = <<>> /\ upLog[c] = <<>> /\ Len(<<>>) = 0
      /\ acceptor = Accepting /\ reader = Reading
      /\ oneshot[c] = "none" /\ up[c] = "none" /\ device[c] = "none"
  BY EmptySeq DEF Init
<1>2. ~Mine(c) /\ ~Queued(c, "data") /\ ~Queued(c, "disconnect")
  BY <1>1 DEF Mine, Queued
<1>3. Unannounced(c)
  BY <1>1, <1>2 DEF Unannounced
<1>4. Ordered(c)
  BY <1>1, <1>2 DEF Ordered
<1>5. Heard(c) /\ Protocol(c)
  BY <1>1 DEF Heard, Protocol, Reading
<1> QED
  BY <1>3, <1>4, <1>5 DEF Uplink

LEMMA UplinkStep == TypeOK /\ ServedOnce /\ UplinkInv /\ [Next]_vars => UplinkInv'
BY UnannouncedStep, OrderedStep, HeardStep DEF UplinkInv, Uplink

LEMMA UplinkAlways == Spec => []UplinkInv
<1>1. RelayInv => TypeOK /\ ServedOnce
  BY DEF RelayInv
<1> QED
  BY <1>1, UplinkInit, UplinkStep, RelayInvariant, PTL DEF Spec

\* The device sees every realm opened once and first, and nothing after its end.
THEOREM ProtocolKept == Spec => []RealmProtocol
<1>1. UplinkInv => RealmProtocol
  BY ProtocolIs DEF UplinkInv, Uplink
<1> QED
  BY <1>1, UplinkAlways, PTL

\* No chunk of a client leaves before the device has confirmed its realm.
THEOREM ConfirmedFirst == Spec => []DataAfterConfirm
<1>1. UplinkInv => DataAfterConfirm
  BY ProtocolIs DEF UplinkInv, Uplink
<1> QED
  BY <1>1, UplinkAlways, PTL

-------------------------------------------------------------------------------
(* TunnelRelay implements RealmStreams. *)

LEMMA StreamsInit == Init => Streams!Init
BY DEF Init, Streams!Init

\* A chunk that is written is the next one, and has come.
LEMMA NextChunk ==
    ASSUME TypeOK, NEW c \in Clients, Whole(c), channel[c] # <<>>
    PROVE  Head(channel[c]) = Len(delivered[c]) + 1 /\ Len(delivered[c]) < taken[c]
<1> DEFINE d == delivered[c]  s == channel[c]  h == InHand(c)
<1>1. d \in Seq(Nat) /\ s \in Seq(Nat) /\ taken[c] \in Nat /\ s # <<>> /\ h \in Seq(Nat)
      /\ d \o s \in Seq(Nat)
  BY SequencesType DEF InHand
<1>2. Len(s) \in Nat \ {0} /\ Len(d) \in Nat /\ Len(h) \in Nat
  BY <1>1, EmptySeq, LenProperties
<1>3. /\ Len(d \o s) = Len(d) + Len(s)
      /\ (d \o s)[Len(d) + 1] = s[1]
  <2> HIDE DEF d, s
  <2>1. \A i \in 1..(Len(d) + Len(s)) : (d \o s)[i] = IF i <= Len(d) THEN d[i] ELSE s[i - Len(d)]
    BY <1>1, ConcatProperties
  <2>2. Len(d) + 1 \in 1..(Len(d) + Len(s)) /\ ~(Len(d) + 1 <= Len(d))
        /\ (Len(d) + 1) - Len(d) = 1
    BY <1>2
  <2> QED
    BY <1>1, <2>1, <2>2, ConcatProperties
<1>4. /\ Len((d \o s) \o h) = Len(d) + Len(s) + Len(h)
      /\ ((d \o s) \o h)[Len(d) + 1] = (d \o s)[Len(d) + 1]
  <2> DEFINE t == d \o s
  <2>0. t \in Seq(Nat) /\ Len(t) = Len(d) + Len(s)
    BY <1>1, <1>3
  <2> HIDE DEF d, s, h, t
  <2>1. /\ Len(t \o h) = Len(t) + Len(h)
        /\ \A i \in 1..(Len(t) + Len(h)) : (t \o h)[i] = IF i <= Len(t) THEN t[i] ELSE h[i - Len(t)]
    BY <1>1, <2>0, ConcatProperties
  <2>2. Len(d) + 1 \in 1..(Len(t) + Len(h)) /\ Len(d) + 1 <= Len(t)
    BY <1>2, <2>0
  <2> QED
    BY <2>0, <2>1, <2>2 DEF t
<1>5. (d \o s) \o h = Upto(taken[c])
  BY DEF Whole
<1>6. Len(d) + Len(s) + Len(h) = taken[c]
  BY <1>1, <1>4, <1>5, UptoIsSeq
<1>7. s[1] = Len(d) + 1
  <2>1. Len(d) + 1 \in 1..taken[c]
    <3> HIDE DEF d, s, h
    <3> QED
      BY <1>1, <1>2, <1>6
  <2>2. Upto(taken[c])[Len(d) + 1] = Len(d) + 1
    BY <1>1, <2>1, UptoIsSeq
  <2> QED
    BY <1>3, <1>4, <1>5, <2>2
<1>8. Head(s) = s[1]
  BY <1>1
<1>9. Len(d) < taken[c]
  <2> HIDE DEF d, s, h
  <2> QED
    BY <1>1, <1>2, <1>6
<1> QED
  BY <1>7, <1>8, <1>9

LEMMA StreamsStep == RelayInv /\ [Next]_vars => [Streams!Next]_Streams!vars
<1> SUFFICES ASSUME TypeOK, ServedOnce, NothingLost, [Next]_vars
             PROVE  [Streams!Next]_Streams!vars
  BY DEF RelayInv
<1>0. /\ delivered \in [Clients -> Seq(Nat)] /\ taken \in [Clients -> Nat]
  BY DEF TypeOK
<1>1. ASSUME NEW c \in Clients, Bridge(c) PROVE Streams!Open(c)
  <2>1. down[c] = "none"
    BY <1>1 DEF Bridge, ServedOnce, Served, Serves
  <2> QED
    BY <1>1, <2>1 DEF Bridge, Streams!Open
<1>2. ASSUME NEW c \in Clients, Deliver(c) PROVE Streams!Hand(c)
  <2>1. Whole(c) /\ channel[c] # <<>> /\ down[c] = "run"
    BY <1>2, WholeIsAll DEF Deliver
  <2>2. Head(channel[c]) = Len(delivered[c]) + 1 /\ Len(delivered[c]) < taken[c]
    BY <2>1, NextChunk
  <2>3. /\ delivered' = [delivered EXCEPT ![c] = Append(@, Head(channel[c]))]
        /\ UNCHANGED <<down, taken>>
    BY <1>2 DEF Deliver
  <2> QED
    BY <2>1, <2>2, <2>3 DEF Streams!Hand
<1>3. ASSUME NEW c \in Clients, DeliverFails(c) PROVE Streams!Close(c)
  BY <1>3 DEF DeliverFails, Streams!Close
<1>4. ASSUME Read PROVE UNCHANGED <<down, taken, delivered>> \/ \E c \in Clients : Streams!Take(c)
  <2> DEFINE p == Head(toRelay)
  <2>1. p \in Datagrams(PacketKind)
    BY <1>4, QueueEnds DEF TypeOK, Read
  <2>2. p.realm \in Clients
    BY <2>1 DEF Datagrams
  <2>3. CASE p.kind = "data"
    BY <1>4, <2>2, <2>3 DEF Read, Streams!Take
  <2>4. CASE p.kind # "data"
    BY <1>4, <2>4 DEF Read
  <2> QED
    BY <2>3, <2>4
<1>5. ASSUME NEW d \in Clients,
             \/ Accept(d) \/ SendConnect(d) \/ ReadChunk(d) \/ ReadEnd(d) \/ Push(d) \/ Stream(d)
      PROVE  UNCHANGED <<down, taken, delivered>>
  BY <1>5 DEF Accept, SendConnect, ReadChunk, ReadEnd, Push, Stream, inward
<1>6. ASSUME \/ AcceptFails \/ Beat \/ Write \/ WriteFails \/ Answer
             \/ ReadFails \/ Confirm \/ Forward
      PROVE  UNCHANGED <<down, taken, delivered>>
  BY <1>6 DEF AcceptFails, Beat, Write, WriteFails, Answer, ReadFails, Confirm, Forward, inward
<1>7. CASE UNCHANGED vars
  BY <1>7 DEF vars, inward, Streams!vars
<1> QED
  BY <1>1, <1>2, <1>3, <1>4, <1>5, <1>6, <1>7 DEF Next, Streams!Next, Streams!vars

\* Every behaviour of the tasks of a tunnel is one that RealmStreams allows.
THEOREM StreamsCorrect == Spec => StreamsKept
<1> QED
  BY StreamsInit, StreamsStep, RelayInvariant, PTL DEF Spec, StreamsKept, Streams!Spec

-------------------------------------------------------------------------------
(* Nobody waits for what is not coming: the safety behind AwaitEnds and          *)
(* ReaderMovesOn, as long as no datagram is lost and no task has died (~mishap). *)

Holds(queue, d)  == \E i \in 1..Len(queue) : queue[i] = d
Dispatches(k, c) == reader.pc = "dispatch" /\ reader.packet = Event(k, c)
Awaits(c)        == acceptor = [pc |-> "await", client |-> c]

\* The confirmation of a realm has left the socket.
Passed(c) == oneshot[c] = "fired" \/ Dispatches("conn", c)

\* It is on its way, or the question is.
Coming(c) ==
    \/ Holds(events, Event("connect", c)) \/ Holds(toDevice, Event("connect", c))
    \/ Holds(toRelay, Event("conn", c)) \/ Passed(c)

\* A realm is registered for the client that is served; the one that fired is
\* bridged next.
Turn(c) ==
    /\ Awaits(c) => Coming(c)
    /\ oneshot[c] = "registered" => Serves(c)
    /\ oneshot[c] = "fired" /\ down[c] = "none" => Awaits(c)

\* The confirmation of a realm comes before its chunks.
ConfirmedBefore(c) ==
    /\ device[c] = "connected" => Holds(toRelay, Event("conn", c)) \/ Passed(c)
    /\ \A i \in 1..Len(toRelay) : toRelay[i] = Event("data", c) =>
         Passed(c) \/ \E j \in 1..(i - 1) : toRelay[j] = Event("conn", c)
    /\ Dispatches("data", c) => oneshot[c] = "fired"

Flow ==
    ~mishap => \A c \in Clients :
        writer = "run" /\ reader.pc # "stopped" /\ Turn(c) /\ ConfirmedBefore(c)

\* A queue holds what it held, and what was put.
LEMMA HoldsPut ==
    ASSUME NEW S, NEW q \in Seq(S), NEW e \in S
    PROVE  Holds(Append(q, e), e) /\ \A d : Holds(q, d) => Holds(Append(q, e), d)
<1>1. /\ Len(q) \in Nat /\ Len(Append(q, e)) = Len(q) + 1
      /\ \A i \in 1..Len(q) : Append(q, e)[i] = q[i]
      /\ Append(q, e)[Len(q) + 1] = e
  BY QueuePut
<1>2. Len(q) + 1 \in 1..Len(Append(q, e)) /\ \A i \in 1..Len(q) : i \in 1..Len(Append(q, e))
  BY <1>1
<1> QED
  BY <1>1, <1>2 DEF Holds

\* What is not at the head is still there when the head is taken.
LEMMA HoldsTaken ==
    ASSUME NEW S, NEW q \in Seq(S), q # <<>>, NEW d, Holds(q, d), d # Head(q)
    PROVE  Holds(Tail(q), d)
<1>1. PICK i \in 1..Len(q) : q[i] = d
  BY DEF Holds
<1>2. /\ Head(q) = q[1] /\ Len(q) \in Nat \ {0} /\ Len(Tail(q)) = Len(q) - 1
      /\ \A j \in 1..Len(Tail(q)) : Tail(q)[j] = q[j + 1]
  BY QueueTaken
<1>3. i - 1 \in 1..Len(Tail(q)) /\ (i - 1) + 1 = i
  BY <1>1, <1>2
<1> QED
  BY <1>1, <1>2, <1>3 DEF Holds

\* A mishap is never forgotten, and without one what is sent arrives on the wire.
LEMMA NoMishap ==
    ASSUME TypeOK, [Next]_vars, ~mishap'
    PROVE  /\ ~mishap /\ ~AcceptFails /\ ~WriteFails /\ ~ReadFails
           /\ \A d : Transmit(toDevice, d) => toDevice' = Append(toDevice, d)
           /\ \A d : Transmit(toRelay, d) => toRelay' = Append(toRelay, d)
<1>1. ~AcceptFails /\ ~WriteFails /\ ~ReadFails
  BY DEF AcceptFails, WriteFails, ReadFails
<1>2. /\ \A d : Transmit(toDevice, d) => ~mishap /\ toDevice' = Append(toDevice, d)
      /\ \A d : Transmit(toRelay, d) => ~mishap /\ toRelay' = Append(toRelay, d)
  BY DEF Transmit, TypeOK
<1>3. ~mishap
  <2>1. CASE Write
    BY <1>2, <2>1 DEF Write
  <2>2. CASE Answer
    BY <1>2, <2>2 DEF Answer
  <2>3. ASSUME NEW c \in Clients, Stream(c) PROVE ~mishap
    BY <1>2, <2>3 DEF Stream
  <2>4. ASSUME NEW c \in Clients,
               \/ Accept(c) \/ SendConnect(c) \/ Bridge(c) \/ ReadChunk(c) \/ ReadEnd(c)
               \/ Push(c) \/ Deliver(c) \/ DeliverFails(c)
        PROVE  ~mishap
    BY <2>4 DEF Accept, SendConnect, Bridge, ReadChunk, ReadEnd, Push, Deliver, DeliverFails
  <2>5. CASE Beat \/ Read \/ Confirm \/ Forward \/ UNCHANGED vars
    BY <2>5 DEF Beat, Read, Confirm, Forward, vars
  <2> QED
    BY <1>1, <2>1, <2>2, <2>3, <2>4, <2>5 DEF Next
<1> QED
  BY <1>1, <1>2, <1>3

\* What the proofs below look at.
Scene == <<acceptor, oneshot, down, writer, toDevice, device, toRelay, reader>>

\* More events in the channel take no turn away.
LEMMA FlowEvents ==
    ASSUME NEW c \in Clients, Turn(c), ConfirmedBefore(c), UNCHANGED Scene,
           Holds(events, Event("connect", c)) => Holds(events', Event("connect", c))
    PROVE  Turn(c)' /\ ConfirmedBefore(c)'
BY DEF Scene, Turn, ConfirmedBefore, Coming, Passed, Dispatches, Awaits, Serves, Holds

\* The steps of the accept loop.
LEMMA FlowAcceptor ==
    ASSUME TypeOK, Flow, ~mishap, ServedOnce, NEW c \in Clients, NEW d \in Clients,
           Accept(d) \/ SendConnect(d) \/ Bridge(d)
    PROVE  writer' = writer /\ reader' = reader /\ Turn(c)' /\ ConfirmedBefore(c)'
<1>0. /\ oneshot \in [Clients -> {"none", "registered", "fired"}]
      /\ down \in [Clients -> {"none", "run", "ended"}]
      /\ writer = "run" /\ Turn(c) /\ ConfirmedBefore(c)
      /\ events \in Seq(AnyEvent)
  BY DEF TypeOK, Flow, AnyEvent
<1>1. UNCHANGED <<writer, toDevice, device, toRelay, reader>>
  BY DEF Accept, SendConnect, Bridge, outward, remote, inward
<1>2. ConfirmedBefore(c)'
  <2>1. oneshot[c] = "fired" <=> oneshot'[c] = "fired"
    BY <1>0 DEF Accept, SendConnect, Bridge
  <2> QED
    BY <1>0, <1>1, <2>1 DEF ConfirmedBefore, Passed, Dispatches, Holds
<1>3. CASE Accept(d)
  <2>1. /\ acceptor = Accepting /\ acceptor' = [pc |-> "connect", client |-> d]
        /\ oneshot' = [oneshot EXCEPT ![d] = "registered"] /\ down' = down
    BY <1>3 DEF Accept, inward
  <2>2. ~Serves(c) /\ ~Awaits(c) /\ ~Awaits(c)' /\ Serves(d)'
    BY <2>1 DEF Accepting, Serves, Awaits
  <2> QED
    BY <1>0, <1>1, <1>2, <2>1, <2>2 DEF Turn
<1>4. CASE SendConnect(d)
  <2>1. /\ acceptor = [pc |-> "connect", client |-> d]
        /\ acceptor' = [pc |-> "await", client |-> d]
        /\ events' = Append(events, Event("connect", d)) /\ UNCHANGED <<oneshot, down>>
    BY <1>0, <1>4 DEF SendConnect, inward
  <2>2. Event("connect", d) \in AnyEvent
    BY EventForms DEF AnyEvent, EventKind
  <2>3. Holds(events', Event("connect", d))
    BY <1>0, <2>1, <2>2, HoldsPut
  <2>4. Awaits(c)' => c = d
    BY <2>1 DEF Awaits
  <2>5. Serves(c) => Serves(c)'
    BY <2>1 DEF Serves
  <2>6. ~Awaits(c)
    BY <2>1 DEF Awaits
  <2> QED
    BY <1>0, <1>1, <1>2, <2>1, <2>3, <2>4, <2>5, <2>6 DEF Turn, Coming
<1>5. CASE Bridge(d)
  <2>1. /\ acceptor = [pc |-> "await", client |-> d] /\ acceptor' = Accepting
        /\ oneshot[d] = "fired" /\ oneshot' = oneshot /\ down' = [down EXCEPT ![d] = "run"]
    BY <1>5 DEF Bridge
  <2>2. /\ ~Awaits(c)' /\ (Serves(c) => c = d) /\ (Awaits(c) => c = d)
    BY <2>1 DEF Accepting, Serves, Awaits
  <2> QED
    BY <1>0, <1>1, <1>2, <2>1, <2>2 DEF Turn
<1> QED
  BY <1>1, <1>2, <1>3, <1>4, <1>5

\* The question goes from the channel to the wire, and the answer to the other.
LEMMA FlowWrite ==
    ASSUME TypeOK, Flow, ~mishap, ~mishap', [Next]_vars, NEW c \in Clients, Write
    PROVE  Turn(c)' /\ ConfirmedBefore(c)'
<1> DEFINE e == Head(events)
<1>0. /\ events \in Seq(AnyEvent) /\ events # <<>> /\ e \in AnyEvent
      /\ toDevice \in Seq(Datagrams(EventKind)) /\ Turn(c) /\ ConfirmedBefore(c)
  BY WriteForms DEF Flow, TypeOK
<1>1. UNCHANGED <<acceptor, oneshot, down, device, toRelay, reader>> /\ events' = Tail(events)
  BY DEF Write, client, remote, inward
<1>2. \/ e = Heartbeat /\ toDevice' = toDevice
      \/ e \in Datagrams(EventKind) /\ toDevice' = Append(toDevice, e)
  <2>1. e # Heartbeat => toDevice' = Append(toDevice, e)
    BY NoMishap DEF Write
  <2>2. e = Heartbeat => toDevice' = toDevice
    BY DEF Write
  <2> QED
    BY <1>0, <2>1, <2>2 DEF AnyEvent
<1>3. /\ e # Heartbeat => Holds(toDevice', e)
      /\ Holds(toDevice, Event("connect", c)) => Holds(toDevice', Event("connect", c))
  <2> HIDE DEF e
  <2>1. CASE e \in Datagrams(EventKind) /\ toDevice' = Append(toDevice, e)
    <3>1. /\ Holds(Append(toDevice, e), e)
          /\ \A d : Holds(toDevice, d) => Holds(Append(toDevice, e), d)
      BY <1>0, <2>1, HoldsPut
    <3> QED
      BY <2>1, <3>1
  <2> QED
    BY <1>2, <2>1
<1>4. Holds(events, Event("connect", c))
        => Holds(events', Event("connect", c)) \/ Holds(toDevice', Event("connect", c))
  <2>1. CASE e = Event("connect", c)
    BY <1>3, <2>1, EventsDiffer
  <2>2. CASE e # Event("connect", c)
    BY <1>0, <1>1, <2>2, HoldsTaken
  <2> QED
    BY <2>1, <2>2
<1>5. Coming(c) => Coming(c)'
  BY <1>1, <1>3, <1>4 DEF Coming, Passed, Dispatches, Holds
<1> QED
  BY <1>0, <1>1, <1>5 DEF Turn, ConfirmedBefore, Awaits, Serves, Passed, Dispatches, Holds

\* The wire from the device gets a datagram more.
LEMMA FlowWire ==
    ASSUME TypeOK, NEW c \in Clients, ConfirmedBefore(c), NEW p \in Datagrams(PacketKind),
           toRelay' = Append(toRelay, p), UNCHANGED <<oneshot, reader>>,
           device'[c] = "connected" => device[c] = "connected" \/ p = Event("conn", c),
           p = Event("data", c) => device[c] = "connected"
    PROVE  ConfirmedBefore(c)' /\ (Holds(toRelay, Event("conn", c)) => Holds(toRelay, Event("conn", c))')
<1>0. toRelay \in Seq(Datagrams(PacketKind))
  BY DEF TypeOK
<1>1. Holds(toRelay', p) /\ \A d : Holds(toRelay, d) => Holds(toRelay', d)
  BY <1>0, HoldsPut
<1>2. /\ Len(toRelay) \in Nat /\ Len(toRelay') = Len(toRelay) + 1
      /\ \A i \in 1..Len(toRelay) : toRelay'[i] = toRelay[i]
      /\ toRelay'[Len(toRelay) + 1] = p
  BY <1>0, QueuePut
<1>3. Passed(c)' <=> Passed(c)
  BY DEF Passed, Dispatches
<1>4. device'[c] = "connected" => Holds(toRelay', Event("conn", c)) \/ Passed(c)'
  BY <1>1, <1>3 DEF ConfirmedBefore
<1>5. ASSUME NEW i \in 1..Len(toRelay'), toRelay'[i] = Event("data", c), ~Passed(c)
      PROVE  \E j \in 1..(i - 1) : toRelay'[j] = Event("conn", c)
  <2>1. CASE i \in 1..Len(toRelay)
    <3>1. PICK j \in 1..(i - 1) : toRelay[j] = Event("conn", c)
      BY <1>2, <1>5, <2>1 DEF ConfirmedBefore
    <3>2. j \in 1..Len(toRelay)
      BY <1>2, <2>1, <3>1
    <3> QED
      BY <1>2, <3>1, <3>2
  <2>2. CASE i = Len(toRelay) + 1
    <3>1. Holds(toRelay, Event("conn", c))
      BY <1>2, <1>5, <2>2 DEF ConfirmedBefore
    <3>2. PICK j \in 1..Len(toRelay) : toRelay[j] = Event("conn", c)
      BY <3>1 DEF Holds
    <3>3. j \in 1..(i - 1)
      BY <1>2, <2>2, <3>2
    <3> QED
      BY <1>2, <3>2, <3>3
  <2> QED
    BY <1>2, <2>1, <2>2
<1>6. Dispatches("data", c)' => oneshot'[c] = "fired"
  BY DEF ConfirmedBefore, Dispatches
<1> QED
  BY <1>1, <1>3, <1>4, <1>5, <1>6 DEF ConfirmedBefore, Holds

\* The device answers a question, or takes what needs no answer.
LEMMA FlowAnswer ==
    ASSUME TypeOK, Flow, ~mishap, ~mishap', [Next]_vars, NEW c \in Clients, Answer
    PROVE  Turn(c)' /\ ConfirmedBefore(c)'
<1> DEFINE e == Head(toDevice)
<1>0. /\ toDevice \in Seq(Datagrams(EventKind)) /\ toDevice # <<>>
      /\ toRelay \in Seq(Datagrams(PacketKind))
      /\ device \in [Clients -> {"none", "connected", "closed"}]
      /\ Turn(c) /\ ConfirmedBefore(c)
  BY DEF TypeOK, Answer, Flow
<1>1. /\ UNCHANGED <<acceptor, oneshot, down, events, reader>> /\ toDevice' = Tail(toDevice)
  BY DEF Answer, client
<1>2. /\ e \in Datagrams(EventKind) /\ e = Event(e.kind, e.realm) /\ e.realm \in Clients
  <2>1. e \in Datagrams(EventKind)
    BY <1>0, QueueEnds
  <2> QED
    BY <2>1 DEF Datagrams, Event
<1>3. \/ /\ e.kind = "connect" /\ device' = [device EXCEPT ![e.realm] = "connected"]
         /\ toRelay' = Append(toRelay, Event("conn", e.realm))
      \/ /\ e.kind # "connect" /\ toRelay' = toRelay
         /\ device' = device \/ device' = [device EXCEPT ![e.realm] = "closed"]
  BY NoMishap DEF Answer
<1>4. /\ ConfirmedBefore(c)'
      /\ Holds(toRelay, Event("conn", c)) => Holds(toRelay, Event("conn", c))'
  <2>1. CASE e.kind = "connect"
    <3> DEFINE p == Event("conn", e.realm)
    <3>1. p \in Datagrams(PacketKind)
      BY <1>2, EventForms DEF PacketKind
    <3>2. toRelay' = Append(toRelay, p)
      BY <1>3, <2>1
    <3>3. device'[c] = "connected" => device[c] = "connected" \/ p = Event("conn", c)
      BY <1>0, <1>2, <1>3, <2>1
    <3>4. p # Event("data", c)
      BY EventsDiffer
    <3> HIDE DEF p
    <3> QED
      BY <1>0, <1>1, <3>1, <3>2, <3>3, <3>4, FlowWire
  <2>2. CASE e.kind # "connect"
    <3>1. toRelay' = toRelay /\ (device'[c] = "connected" => device[c] = "connected")
      BY <1>0, <1>2, <1>3, <2>2
    <3> QED
      BY <1>0, <1>1, <3>1 DEF ConfirmedBefore, Passed, Dispatches, Holds
  <2> QED
    BY <2>1, <2>2
<1>5. Holds(toDevice, Event("connect", c))
        => Holds(toDevice', Event("connect", c)) \/ Holds(toRelay', Event("conn", c))
  <2>1. CASE e = Event("connect", c)
    <3>1. e.kind = "connect" /\ e.realm = c
      BY <1>2, <2>1, EventsDiffer
    <3>2. toRelay' = Append(toRelay, Event("conn", c)) /\ Event("conn", c) \in Datagrams(PacketKind)
      BY <1>3, <3>1, EventForms DEF PacketKind
    <3>3. Holds(Append(toRelay, Event("conn", c)), Event("conn", c))
      BY <1>0, <3>2, HoldsPut
    <3> QED
      BY <3>2, <3>3
  <2>2. CASE e # Event("connect", c)
    BY <1>0, <1>1, <2>2, HoldsTaken
  <2> QED
    BY <2>1, <2>2
<1>6. Coming(c) => Coming(c)'
  BY <1>1, <1>4, <1>5 DEF Coming, Passed, Dispatches, Holds
<1> QED
  BY <1>0, <1>1, <1>4, <1>6 DEF Turn, Awaits, Serves

\* The device sends a chunk on a realm that it has confirmed.
LEMMA FlowStream ==
    ASSUME TypeOK, Flow, ~mishap, ~mishap', [Next]_vars, NEW c \in Clients, NEW d \in Clients,
           Stream(d)
    PROVE  Turn(c)' /\ ConfirmedBefore(c)'
<1>1. /\ UNCHANGED <<acceptor, oneshot, down, events, toDevice, device, reader>>
      /\ device[d] = "connected" /\ toRelay' = Append(toRelay, Event("data", d))
  BY NoMishap DEF Stream, client, outward
<1>2. Event("data", d) \in Datagrams(PacketKind)
  BY EventForms DEF PacketKind
<1>3. /\ Event("data", d) = Event("data", c) => device[c] = "connected"
      /\ Turn(c) /\ ConfirmedBefore(c)
  BY <1>1, EventsDiffer DEF Flow
<1>4. /\ ConfirmedBefore(c)'
      /\ Holds(toRelay, Event("conn", c)) => Holds(toRelay, Event("conn", c))'
  BY <1>1, <1>2, <1>3, FlowWire
<1>5. Coming(c) => Coming(c)'
  BY <1>1, <1>4 DEF Coming, Passed, Dispatches, Holds
<1> QED
  BY <1>1, <1>3, <1>4, <1>5 DEF Turn, Awaits, Serves

\* dh_reader takes the next datagram off the wire.
LEMMA FlowRead ==
    ASSUME TypeOK, Flow, ~mishap, NEW c \in Clients, Read
    PROVE  Turn(c)' /\ ConfirmedBefore(c)'
<1>0. /\ toRelay \in Seq(Datagrams(PacketKind)) /\ toRelay # <<>> /\ reader = Reading
      /\ Turn(c) /\ ConfirmedBefore(c)
  BY DEF TypeOK, Read, Flow
<1>1. /\ UNCHANGED <<acceptor, oneshot, down, events, toDevice, device>>
      /\ toRelay' = Tail(toRelay)
      /\ reader' = [pc |-> "dispatch", packet |-> Head(toRelay)]
  BY DEF Read, client, outward, remote
<1>2. /\ Head(toRelay) = toRelay[1] /\ Len(toRelay) \in Nat \ {0}
      /\ Len(toRelay') = Len(toRelay) - 1
      /\ \A i \in 1..Len(toRelay') : i + 1 \in 2..Len(toRelay) /\ toRelay'[i] = toRelay[i + 1]
  BY <1>0, <1>1, QueueTaken
<1>3. /\ \A k : ~Dispatches(k, c)
      /\ \A k : Dispatches(k, c)' <=> toRelay[1] = Event(k, c)
  BY <1>0, <1>1, <1>2 DEF Dispatches, Reading
<1>4. Passed(c) => Passed(c)'
  BY <1>1, <1>3 DEF Passed
<1>5. Holds(toRelay, Event("conn", c)) => Holds(toRelay', Event("conn", c)) \/ Passed(c)'
  <2>1. CASE Head(toRelay) = Event("conn", c)
    BY <1>2, <1>3, <2>1 DEF Passed
  <2>2. CASE Head(toRelay) # Event("conn", c)
    BY <1>0, <1>1, <2>2, HoldsTaken
  <2> QED
    BY <2>1, <2>2
<1>6. ASSUME NEW i \in 1..Len(toRelay'), toRelay'[i] = Event("data", c), ~Passed(c)'
      PROVE  \E j \in 1..(i - 1) : toRelay'[j] = Event("conn", c)
  <2>1. i + 1 \in 1..Len(toRelay) /\ toRelay[i + 1] = Event("data", c) /\ ~Passed(c)
    BY <1>2, <1>4, <1>6
  <2>2. PICK k \in 1..((i + 1) - 1) : toRelay[k] = Event("conn", c)
    BY <1>0, <2>1 DEF ConfirmedBefore
  <2>3. k # 1
    BY <1>3, <1>6, <2>2 DEF Passed
  <2>4. k - 1 \in 1..(i - 1) /\ k - 1 \in 1..Len(toRelay') /\ (k - 1) + 1 = k
    BY <1>2, <2>1, <2>2, <2>3
  <2> QED
    BY <1>2, <2>2, <2>4
<1>7. Dispatches("data", c)' => oneshot'[c] = "fired"
  <2> SUFFICES ASSUME Dispatches("data", c)' PROVE oneshot[c] = "fired"
    BY <1>1
  <2>1. 1 \in 1..Len(toRelay) /\ toRelay[1] = Event("data", c) /\ 1..(1 - 1) = {}
    BY <1>2, <1>3
  <2>2. Passed(c)
    BY <1>0, <2>1 DEF ConfirmedBefore
  <2> QED
    BY <1>3, <2>2 DEF Passed
<1>8. Coming(c) => Coming(c)'
  BY <1>1, <1>4, <1>5 DEF Coming, Holds
<1>9. Turn(c)'
  BY <1>0, <1>1, <1>8 DEF Turn, Awaits, Serves
<1>10. ConfirmedBefore(c)'
  BY <1>0, <1>1, <1>4, <1>5, <1>6, <1>7 DEF ConfirmedBefore
<1> QED
  BY <1>9, <1>10

\* The confirmation finds its realm registered, and the accept loop at its await.
LEMMA FlowConfirm ==
    ASSUME TypeOK, ServedOnce, UplinkInv, Flow, ~mishap, NEW c \in Clients, Confirm,
           reader.packet.kind = "conn"
    PROVE  Turn(c)' /\ ConfirmedBefore(c)'
<1> DEFINE d == reader.packet.realm
<1>0. /\ oneshot \in [Clients -> {"none", "registered", "fired"}]
      /\ Turn(c) /\ ConfirmedBefore(c) /\ Served(c) /\ Unannounced(c) /\ Heard(c)
  BY DEF TypeOK, Flow, ServedOnce, UplinkInv, Uplink
<1>1. /\ UNCHANGED <<acceptor, down, events, toDevice, device, toRelay>> /\ reader' = Reading
      /\ oneshot' = IF oneshot[d] = "registered" THEN [oneshot EXCEPT ![d] = "fired"] ELSE oneshot
      /\ reader.pc = "dispatch" /\ reader.packet.kind = "conn"
  BY DEF Confirm, outward, remote
<1>2. \A k : ~Dispatches(k, c)'
  BY <1>1 DEF Dispatches, Reading
<1>3. d \in Clients /\ (Dispatches("conn", c) <=> d = c)
  BY <1>1, InHandType DEF Dispatches, Datagrams, Event
<1>4. d = c => oneshot[c] # "none" /\ acceptor # [pc |-> "connect", client |-> c]
  BY <1>0, <1>1 DEF Heard, Unannounced
<1>5. Passed(c) <=> Passed(c)'
  BY <1>0, <1>1, <1>2, <1>3, <1>4 DEF Passed
<1>6. Coming(c) => Coming(c)'
  BY <1>1, <1>5 DEF Coming, Holds
<1>7. oneshot'[c] = "registered" => oneshot[c] = "registered"
  BY <1>0, <1>1, <1>3
<1>8. oneshot'[c] = "fired" /\ down[c] = "none" => Awaits(c)
  <2>1. oneshot'[c] = "fired" => oneshot[c] = "fired" \/ (d = c /\ oneshot[c] = "registered")
    BY <1>0, <1>1, <1>3
  <2> HIDE DEF d
  <2> QED
    BY <1>0, <1>4, <2>1 DEF Turn, Serves, Awaits
<1>9. Turn(c)'
  BY <1>0, <1>1, <1>6, <1>7, <1>8 DEF Turn, Awaits, Serves
<1>10. ConfirmedBefore(c)'
  BY <1>0, <1>1, <1>2, <1>5 DEF ConfirmedBefore, Holds
<1> QED
  BY <1>9, <1>10

\* A refusal changes nothing.
LEMMA FlowRefused ==
    ASSUME TypeOK, Flow, ~mishap, NEW c \in Clients, Confirm,
           reader.packet.kind = "refused"
    PROVE  Turn(c)' /\ ConfirmedBefore(c)'
<1>0. Turn(c) /\ ConfirmedBefore(c)
  BY DEF Flow
<1>1. /\ UNCHANGED <<acceptor, oneshot, down, events, toDevice, device, toRelay>>
      /\ reader' = Reading
  BY DEF Confirm, outward, remote
<1>2. ~Dispatches("conn", c) /\ \A k : ~Dispatches(k, c)'
  BY <1>1 DEF Dispatches, Reading, Event
<1>3. Passed(c) <=> Passed(c)'
  BY <1>1, <1>2 DEF Passed
<1> QED
  BY <1>0, <1>1, <1>2, <1>3 DEF Turn, ConfirmedBefore, Coming, Awaits, Serves, Holds

\* The other steps leave the confirmations alone.
LEMMA FlowRest ==
    ASSUME TypeOK, Flow, ~mishap, NEW c \in Clients,
           \/ Forward \/ Beat \/ UNCHANGED vars
           \/ \E d \in Clients : \/ ReadChunk(d) \/ ReadEnd(d) \/ Push(d)
                                 \/ Deliver(d) \/ DeliverFails(d)
    PROVE  writer' = writer /\ reader'.pc # "stopped" /\ Turn(c)' /\ ConfirmedBefore(c)'
<1>0. /\ events \in Seq(AnyEvent) /\ down \in [Clients -> {"none", "run", "ended"}]
      /\ up \in [Clients -> {"none", "read", "data", "disconnect", "ended"}]
      /\ writer = "run" /\ reader.pc # "stopped" /\ Turn(c) /\ ConfirmedBefore(c)
  BY DEF TypeOK, Flow, AnyEvent
<1>1. CASE Forward
  <2>1. UNCHANGED <<acceptor, oneshot, down, events, writer, toDevice, device, toRelay>>
    BY <1>1 DEF Forward, client, outward, remote
  <2>2. Passed(c) <=> Passed(c)'
    BY <1>1, <2>1 DEF Forward, Passed, Dispatches, Reading, Event
  <2>3. ~Dispatches("data", c)' /\ reader'.pc = "read"
    BY <1>1 DEF Forward, Dispatches, Reading
  <2> QED
    BY <1>0, <2>1, <2>2, <2>3 DEF Turn, ConfirmedBefore, Coming, Awaits, Serves, Holds
<1>2. ASSUME NEW d \in Clients, DeliverFails(d)
      PROVE  writer' = writer /\ reader' = reader /\ Turn(c)' /\ ConfirmedBefore(c)'
  <2>1. /\ UNCHANGED <<acceptor, oneshot, events, writer, toDevice, device, toRelay, reader>>
        /\ down'[c] = "none" => down[c] = "none"
    BY <1>0, <1>2 DEF DeliverFails, client, outward, remote
  <2> QED
    BY <1>0, <2>1 DEF Turn, ConfirmedBefore, Coming, Passed, Dispatches, Awaits, Serves, Holds
<1>3. ASSUME NEW d \in Clients, ReadChunk(d) \/ ReadEnd(d) \/ Deliver(d)
      PROVE  UNCHANGED Scene /\ events' = events
  BY <1>3 DEF ReadChunk, ReadEnd, Deliver, Scene, client, outward, remote, inward
<1>4. CASE UNCHANGED vars
  BY <1>0, <1>4, FlowEvents DEF vars, Scene, client, outward, remote, inward
<1>5. ASSUME NEW e \in AnyEvent, events' = Append(events, e)
      PROVE  Holds(events, Event("connect", c)) => Holds(events', Event("connect", c))
  BY <1>0, <1>5, HoldsPut
<1>6. CASE Beat
  <2>1. UNCHANGED Scene /\ events' = Append(events, Heartbeat) /\ Heartbeat \in AnyEvent
    BY <1>6 DEF Beat, Scene, client, remote, inward, AnyEvent
  <2> QED
    BY <1>0, <1>5, <2>1, FlowEvents DEF Scene
<1>7. ASSUME NEW d \in Clients, Push(d)
      PROVE  UNCHANGED Scene /\ \E e \in AnyEvent : events' = Append(events, e)
  <2>1. Event(up[d], d) \in AnyEvent
    BY <1>7, EventForms DEF Push, EventKind, AnyEvent
  <2> QED
    BY <1>0, <1>7, <2>1 DEF Push, Scene, remote, inward
<1> QED
  BY <1>0, <1>1, <1>2, <1>3, <1>4, <1>5, <1>6, <1>7, FlowEvents DEF Scene

\* Every step keeps the order of the confirmations and whose turn it is.
LEMMA FlowStep == TypeOK /\ ServedOnce /\ UplinkInv /\ Flow /\ [Next]_vars => Flow'
<1> SUFFICES ASSUME TypeOK, ServedOnce, UplinkInv, Flow, [Next]_vars, ~mishap', NEW c \in Clients
             PROVE  writer' = "run" /\ reader'.pc # "stopped" /\ Turn(c)' /\ ConfirmedBefore(c)'
  BY DEF Flow
<1>1. ~mishap /\ ~AcceptFails /\ ~WriteFails /\ ~ReadFails
  BY NoMishap
<1>2. writer = "run" /\ reader.pc # "stopped"
  BY <1>1 DEF Flow
<1>3. ASSUME NEW d \in Clients, Accept(d) \/ SendConnect(d) \/ Bridge(d)
      PROVE  writer' = "run" /\ reader'.pc # "stopped" /\ Turn(c)' /\ ConfirmedBefore(c)'
  BY <1>1, <1>2, <1>3, FlowAcceptor
<1>4. CASE Write
  BY <1>1, <1>2, <1>4, FlowWrite DEF Write, inward
<1>5. CASE Answer
  BY <1>1, <1>2, <1>5, FlowAnswer DEF Answer
<1>6. ASSUME NEW d \in Clients, Stream(d)
      PROVE  writer' = "run" /\ reader'.pc # "stopped" /\ Turn(c)' /\ ConfirmedBefore(c)'
  BY <1>1, <1>2, <1>6, FlowStream DEF Stream, outward
<1>7. CASE Read
  BY <1>1, <1>2, <1>7, FlowRead DEF Read, outward
<1>8. CASE Confirm
  BY <1>1, <1>2, <1>8, FlowConfirm, FlowRefused DEF Confirm, outward, Reading
<1> QED
  BY <1>1, <1>2, <1>3, <1>4, <1>5, <1>6, <1>7, <1>8, FlowRest DEF Next

\* They hold in every state.
LEMMA FlowAlways == Spec => []Flow
<1>1. Init => Flow
  <2> SUFFICES ASSUME Init, NEW c \in Clients
               PROVE  writer = "run" /\ reader.pc # "stopped" /\ Turn(c) /\ ConfirmedBefore(c)
    BY DEF Flow
  <2>1. /\ toRelay = <<>> /\ Len(toRelay) = 0 /\ acceptor = Accepting /\ reader = Reading
        /\ oneshot[c] = "none" /\ device[c] = "none" /\ writer = "run"
    BY EmptySeq DEF Init
  <2>2. Turn(c)
    BY <2>1 DEF Turn, Awaits, Accepting
  <2>3. ConfirmedBefore(c)
    BY <2>1 DEF ConfirmedBefore, Dispatches, Reading
  <2> QED
    BY <2>1, <2>2, <2>3 DEF Reading
<1>2. RelayInv => TypeOK /\ ServedOnce
  BY DEF RelayInv
<1> QED
  BY <1>1, <1>2, FlowStep, RelayInvariant, UplinkAlways, PTL DEF Spec

\* What the accept loop waits for is always on its way, and through tasks that run:
\* the question in the event channel or on the wire, or the answer on the wire, in
\* hand or given.  AwaitEnds adds only that each of them is moved on.
AwaitIsAnswered ==
    ~mishap => \A c \in Clients :
        Awaits(c) => writer = "run" /\ reader.pc # "stopped" /\ Coming(c)

\* However other clients fill the channels, the confirmation of an accepted client is
\* never out of the system while the accept loop waits for it.
THEOREM AwaitAnswered == Spec => []AwaitIsAnswered
<1>1. Flow => AwaitIsAnswered
  BY DEF Flow, Turn, AwaitIsAnswered
<1> QED
  BY <1>1, FlowAlways, PTL

\* When dh_reader waits for room in the channel of a client, that client has a
\* writer that runs and has a chunk to write, or will get it from the accept loop,
\* which waits for nothing: there is no circle of tasks that wait for each other.
BlockedReaderIsFreed ==
    ~mishap => \A c \in Clients :
        Dispatches("data", c) /\ Len(channel[c]) = ChannelCap =>
            \/ down[c] = "ended"
            \/ down[c] = "run" /\ channel[c] # <<>>
            \/ Awaits(c) /\ oneshot[c] = "fired"

\* The full channel of one client stops dh_reader only while a task can empty it.
THEOREM BlockedReaderFreed == Spec => []BlockedReaderIsFreed
<1>1. TypeOK /\ Flow => BlockedReaderIsFreed
  <2> SUFFICES ASSUME TypeOK, Flow, ~mishap, NEW c \in Clients,
                      Dispatches("data", c), Len(channel[c]) = ChannelCap
               PROVE  \/ down[c] = "ended"
                      \/ (down[c] = "run" /\ channel[c] # <<>>)
                      \/ (Awaits(c) /\ oneshot[c] = "fired")
    BY DEF BlockedReaderIsFreed
  <2>1. channel[c] # <<>>
    BY EmptySeq
  <2>2. down[c] \in {"none", "run", "ended"}
    BY DEF TypeOK
  <2>3. oneshot[c] = "fired"
    BY DEF Flow, ConfirmedBefore
  <2> QED
    BY <2>1, <2>2, <2>3 DEF Flow, Turn
<1>2. RelayInv => TypeOK
  BY DEF RelayInv
<1> QED
  BY <1>1, <1>2, FlowAlways, RelayInvariant, PTL
===============================================================================
