----------------------- MODULE RtmpConnection_proofs -----------------------
(***************************************************************************)
(* RtmpConnection.tla: its types, what a call leaves behind, and that it   *)
(* implements the ladder of RtmpPublisher.tla, for any number of sessions, *)
(* frames and requests of the server.                                      *)
(*                                                                         *)
(* Inv says why a late answer does no harm: while the receiver reads, an   *)
(* answer that climbs a rung can only be under way if the client stands on *)
(* the rung below (Climbing), and between two sessions nobody reads        *)
(* (Settled).                                                              *)
(***************************************************************************)
EXTENDS RtmpConnection, TLAPS

Has(s, x) == \E i \in 1..Len(s) : s[i] = x

\* What is left to send, and whether the caller may go on afterwards.
Agenda ==
  \/ todo = <<"connect">> /\ ~up
  \/ todo \in {<<"releaseStream", "FCPublish", "createStream">>,
               <<"FCPublish", "createStream">>, <<"createStream">>} /\ up
  \/ todo = <<"data">> /\ up
  \/ todo = <<"closeStream">> /\ ~up

Working == at \in {"write", "register", "flush"} => Agenda

Rungs == (up => connected) /\ (stream => connected) /\ (permitted => stream)

Settled ==
  /\ at = "idle" /\ ~up => rx \in {"none", "dead"} /\ socket \in {"null", "new"} /\ ~connected /\ ~cause
  /\ at = "handshake" =>
       /\ ~up /\ ~connected /\ ~cause /\ rx \in {"none", "dead"} /\ socket = "new"
       /\ buffer = <<>> /\ wire = <<>> /\ inbox = <<>> /\ invoked = {}
  /\ at \in {"shutdown", "join"} => ~up

Reading == rx = "read" => socket \in {"up", "shut"}

Climbing ==
  rx = "read" =>
    /\ "createStream" \in invoked \/ Has(buffer, "createStream") \/ Has(wire, "createStream")
         \/ Has(inbox, "createStream") => connected
    /\ Has(buffer, "publish") \/ Has(wire, "publish") \/ Has(inbox, "start") => stream

Inv == TypeOK /\ Working /\ Rungs /\ Settled /\ Reading /\ Climbing
-----------------------------------------------------------------------------
(* What holds of the queues.                                               *)

LEMMA HasAppend ==
  ASSUME NEW S, NEW s \in Seq(S), NEW e \in S, NEW x
  PROVE  Has(Append(s, e), x) <=> Has(s, x) \/ e = x
<1>1. Len(Append(s, e)) = Len(s) + 1 /\ Append(s, e)[Len(s) + 1] = e
  OBVIOUS
<1>2. \A i \in 1..Len(s) : Append(s, e)[i] = s[i]
  OBVIOUS
<1>3. Len(s) \in Nat
  OBVIOUS
<1> QED
  BY <1>1, <1>2, <1>3 DEF Has

LEMMA HasConcat ==
  ASSUME NEW S, NEW s \in Seq(S), NEW t \in Seq(S), NEW x
  PROVE  Has(s \o t, x) <=> Has(s, x) \/ Has(t, x)
<1>1. Len(s) \in Nat /\ Len(t) \in Nat /\ Len(s \o t) = Len(s) + Len(t)
  OBVIOUS
<1>2. \A i \in 1..Len(s) : (s \o t)[i] = s[i]
  OBVIOUS
<1>3. \A i \in 1..Len(t) : (s \o t)[Len(s) + i] = t[i]
  OBVIOUS
<1>4. ASSUME Has(s \o t, x) PROVE Has(s, x) \/ Has(t, x)
  <2>1. PICK i \in 1..(Len(s) + Len(t)) : (s \o t)[i] = x
    BY <1>1, <1>4 DEF Has
  <2>2. CASE i \in 1..Len(s)
    BY <1>2, <2>1, <2>2 DEF Has
  <2>3. CASE i \notin 1..Len(s)
    <3>1. i - Len(s) \in 1..Len(t) /\ Len(s) + (i - Len(s)) = i
      BY <1>1, <2>3
    <3> QED
      BY <1>3, <2>1, <3>1 DEF Has
  <2> QED
    BY <2>2, <2>3
<1>5. ASSUME Has(s, x) PROVE Has(s \o t, x)
  BY <1>1, <1>2, <1>5 DEF Has
<1>6. ASSUME Has(t, x) PROVE Has(s \o t, x)
  <2>1. PICK i \in 1..Len(t) : t[i] = x
    BY <1>6 DEF Has
  <2>2. Len(s) + i \in 1..Len(s \o t) /\ (s \o t)[Len(s) + i] = x
    BY <1>1, <1>3, <2>1
  <2> QED
    BY <2>2 DEF Has
<1> QED
  BY <1>4, <1>5, <1>6

LEMMA HasTail ==
  ASSUME NEW S, NEW s \in Seq(S), s # <<>>
  PROVE  /\ Has(s, Head(s)) /\ Head(s) \in S /\ Tail(s) \in Seq(S)
         /\ \A x : Has(Tail(s), x) => Has(s, x)
<1>1. Len(s) \in Nat \ {0} /\ Head(s) = s[1]
  OBVIOUS
<1>2. Len(Tail(s)) = Len(s) - 1 /\ \A i \in 1..Len(Tail(s)) : Tail(s)[i] = s[i + 1]
  OBVIOUS
<1>3. Has(s, Head(s))
  BY <1>1 DEF Has
<1>4. ASSUME NEW x, Has(Tail(s), x) PROVE Has(s, x)
  <2>1. PICK i \in 1..Len(Tail(s)) : Tail(s)[i] = x
    BY <1>4 DEF Has
  <2>2. i + 1 \in 1..Len(s) /\ s[i + 1] = x
    BY <1>1, <1>2, <2>1
  <2> QED
    BY <2>2 DEF Has
<1> QED
  BY <1>1, <1>3, <1>4

LEMMA HasNothing == ASSUME NEW x PROVE ~Has(<<>>, x)
BY DEF Has

\* The agenda: what is sent next, and what remains.
LEMMA AgendaHead ==
  ASSUME Agenda
  PROVE  /\ Head(todo) \in Packet \ {"publish"} /\ Tail(todo) \in Seq(Packet)
         /\ Head(todo) \in {"createStream", "data"} => up
         /\ Head(todo) \in {"connect", "closeStream"} => ~up
<1> DEFINE a == "releaseStream"
           b == "FCPublish"
           c == "createStream"
<1>1. /\ Head(<<a, b, c>>) = a /\ Tail(<<a, b, c>>) = <<b, c>>
      /\ Head(<<b, c>>) = b /\ Tail(<<b, c>>) = <<c>>
      /\ \A p : Head(<<p>>) = p /\ Tail(<<p>>) = <<>>
  OBVIOUS
<1>2. <<b, c>> \in Seq(Packet) /\ <<c>> \in Seq(Packet) /\ <<>> \in Seq(Packet)
  BY DEF Packet, Command, Invoked
<1> QED
  BY <1>1, <1>2 DEF Agenda, Packet, Command, Invoked

LEMMA AgendaTail ==
  ASSUME Agenda, After(Head(todo)) = "write", todo' = Tail(todo), up' = up
  PROVE  Agenda'
<1>1. todo \in {<<"releaseStream", "FCPublish", "createStream">>,
               <<"FCPublish", "createStream">>} /\ up
  BY DEF Agenda, After
<1>2. /\ Tail(<<"releaseStream", "FCPublish", "createStream">>) = <<"FCPublish", "createStream">>
      /\ Tail(<<"FCPublish", "createStream">>) = <<"createStream">>
  OBVIOUS
<1>3. todo' \in {<<"FCPublish", "createStream">>, <<"createStream">>}
  BY <1>1, <1>2, Zenon
<1> QED
  BY <1>1, <1>3 DEF Agenda
-----------------------------------------------------------------------------
(* The invariant.                                                          *)

LEMMA InvInit == ConnectionConstants /\ Init => Inv
<1> SUFFICES ASSUME ConnectionConstants, Init PROVE Inv
  OBVIOUS
<1>1. FlagsOK
  BY Zenon DEF Init, FlagsOK
<1>2. DataOK
  BY DEF Init, DataOK, ConnectionConstants
<1>3. Working /\ Rungs /\ Settled /\ Reading /\ Climbing
  BY DEF Init, Working, Rungs, Settled, Reading, Climbing
<1> QED
  BY <1>1, <1>2, <1>3 DEF Inv, TypeOK

LEMMA FlagsNext == FlagsOK /\ [Next]_vars => FlagsOK'
<1> SUFFICES ASSUME FlagsOK, [Next]_vars PROVE FlagsOK'
  OBVIOUS
<1> USE DEF FlagsOK, clientVars, stateVars, sendVars, netVars
<1>1. CASE Call
  BY <1>1, Zenon DEF Call, Connect, Publish, PublishFrame, Close
<1>2. CASE Client
  <2>1. CASE HandshakeFails \/ Handshake \/ Write \/ Register \/ Shutdown \/ Reset
    BY <2>1, Zenon DEF HandshakeFails, Handshake, Write, Register, Shutdown, Reset, ResetFlags
  <2>2. CASE ClientFlushes
    BY <2>2, Zenon DEF ClientFlushes, Flush
  <2>3. CASE AwaitedConnect \/ AwaitedPublish
    BY <2>3, Zenon DEF AwaitedConnect, AwaitedPublish
  <2> QED
    BY <1>2, <2>1, <2>2, <2>3, Zenon DEF Client
<1>3. CASE Receiver
  <2> USE DEF Receive, Silent, Send, Flush
  <2>1. CASE ConnectResult
    BY <2>1, Zenon DEF ConnectResult
  <2>2. CASE CreateStreamResult
    BY <2>2, Zenon DEF CreateStreamResult
  <2>3. CASE OtherResult
    BY <2>3, Zenon DEF OtherResult
  <2>4. CASE UnknownResult
    BY <2>4, Zenon DEF UnknownResult
  <2>5. CASE PublishStart
    BY <2>5, Zenon DEF PublishStart
  <2>6. CASE Ping
    BY <2>6, Zenon DEF Ping
  <2>7. CASE ReceiverEnds
    BY <2>7, Zenon DEF ReceiverEnds
  <2> QED
    BY <1>3, <2>1, <2>2, <2>3, <2>4, <2>5, <2>6, <2>7, Zenon DEF Receiver
<1>4. CASE Server
  BY <1>4, Zenon DEF Server, Answer, Ask, Leave
<1>5. CASE UNCHANGED vars
  BY <1>5, Zenon DEF vars
<1> QED
  BY <1>1, <1>2, <1>3, <1>4, <1>5, Zenon DEF Next

\* What Flush does to the packets under way.
LEMMA Flushed ==
  ASSUME DataOK, NEW packets \in Seq(Packet), Flush(packets)
  PROVE  /\ buffer' = <<>> /\ buffer' \in Seq(Packet)
         /\ wire' \in Seq(Packet)
         /\ \A x : Has(wire', x) => Has(wire, x) \/ Has(packets, x)
<1>1. buffer' = <<>> /\ wire' \in {wire, wire \o packets}
  BY DEF Flush
<1>2. wire \in Seq(Packet) /\ wire \o packets \in Seq(Packet) /\ <<>> \in Seq(Packet)
  BY DEF DataOK
<1>4. \A x : Has(wire \o packets, x) => Has(wire, x) \/ Has(packets, x)
  BY <1>2, HasConcat
<1>5. \A x : Has(wire', x) => Has(wire, x) \/ Has(packets, x)
  <2>1. CASE wire' = wire
    BY <2>1 DEF Has
  <2>2. CASE wire' = wire \o packets
    BY <1>4, <2>2, Zenon DEF Has
  <2> QED
    BY <1>1, <2>1, <2>2
<1>6. buffer' \in Seq(Packet) /\ wire' \in Seq(Packet)
  BY <1>1, <1>2
<1> QED
  BY <1>1, <1>5, <1>6

\* What the receiver takes from its inbox.
LEMMA Received ==
  ASSUME DataOK, NEW message, Receive(message)
  PROVE  /\ rx = "read" /\ Has(inbox, message) /\ message \in Message
         /\ inbox' \in Seq(Message) /\ \A x : Has(inbox', x) => Has(inbox, x)
         /\ UNCHANGED <<clientVars, socket, peer, pings>>
<1>1. inbox \in Seq(Message) /\ inbox # <<>>
  BY DEF DataOK, Receive
<1> QED
  BY <1>1, HasTail DEF Receive

\* A packet of the receiver's own.
LEMMA Sent ==
  ASSUME DataOK, NEW packet \in Packet, Send(packet)
  PROVE  /\ buffer' = <<>> /\ buffer' \in Seq(Packet)
         /\ wire' \in Seq(Packet)
         /\ \A x : Has(wire', x) => Has(wire, x) \/ Has(buffer, x) \/ x = packet
<1>1. buffer \in Seq(Packet) /\ Append(buffer, packet) \in Seq(Packet)
  BY DEF DataOK
<1>2. \A x : Has(Append(buffer, packet), x) => Has(buffer, x) \/ x = packet
  BY <1>1, HasAppend
<1> QED
  BY <1>1, <1>2, Flushed DEF Send
LEMMA DataNext == ConnectionConstants /\ DataOK /\ Working /\ [Next]_vars => DataOK'
<1> SUFFICES ASSUME ConnectionConstants, DataOK, Working, [Next]_vars PROVE DataOK'
  OBVIOUS
<1> USE DEF ConnectionConstants, clientVars, stateVars, sendVars, netVars
<1>c. Command \in SUBSET Packet /\ Invoked \in SUBSET Command /\ Invoked \in SUBSET Message
      /\ "publish" \in Packet /\ "data" \in Packet /\ "ping" \in Message /\ "start" \in Message
  BY DEF Packet, Command, Message, Invoked
<1>1. CASE Call
  <2>1. /\ <<"releaseStream", "FCPublish", "createStream">> \in Seq(Packet)
        /\ <<"data">> \in Seq(Packet) /\ <<"closeStream">> \in Seq(Packet)
    BY DEF Packet, Command, Invoked
  <2>2. CASE Connect
    BY <2>2 DEF Connect, DataOK
  <2>3. CASE Publish
    BY <2>1, <2>3 DEF Publish, DataOK
  <2>4. CASE PublishFrame
    BY <2>1, <2>4 DEF PublishFrame, DataOK
  <2>5. CASE Close
    BY <2>1, <2>5 DEF Close, DataOK
  <2> QED
    BY <1>1, <2>2, <2>3, <2>4, <2>5 DEF Call
<1>2. CASE Client
  <2>a. at \in {"write", "register", "flush"} =>
          Head(todo) \in Packet /\ Tail(todo) \in Seq(Packet)
    BY AgendaHead DEF Working
  <2>1. CASE HandshakeFails
    BY <2>1 DEF HandshakeFails, DataOK
  <2>2. CASE Handshake
    <3>1. <<"connect">> \in Seq(Packet)
      BY DEF Packet, Command, Invoked
    <3> QED
      BY <2>2, <3>1 DEF Handshake, DataOK
  <2>3. CASE Write
    BY <2>a, <2>3 DEF Write, DataOK
  <2>4. CASE Register
    BY <2>4 DEF Register, Registered, DataOK
  <2>5. CASE ClientFlushes
    <3>1. at' \in {"write", "awaitConnect", "awaitPublish", "shutdown", "idle"}
      BY <2>5 DEF ClientFlushes, After
    <3>2. buffer' \in Seq(Packet) /\ wire' \in Seq(Packet)
      BY <2>5, Flushed DEF ClientFlushes, DataOK
    <3> QED
      BY <2>5, <2>a, <3>1, <3>2 DEF ClientFlushes, DataOK
  <2>6. CASE AwaitedConnect \/ AwaitedPublish
    BY <2>6 DEF AwaitedConnect, AwaitedPublish, DataOK
  <2>7. CASE Shutdown \/ Reset
    BY <2>7 DEF Shutdown, Reset, DataOK
  <2> QED
    BY <1>2, <2>1, <2>2, <2>3, <2>4, <2>5, <2>6, <2>7 DEF Client
<1>3. CASE Receiver
  <2>1. ASSUME NEW message, Receive(message), Silent,
               invoked' \in SUBSET invoked, rx' \in {rx, "crashed"}
        PROVE  DataOK'
    <3>1. inbox' \in Seq(Message) /\ UNCHANGED <<clientVars, socket, peer, pings>>
      BY <2>1, Received
    <3> QED
      BY <2>1, <3>1 DEF Silent, DataOK
  <2>2. ASSUME NEW message, Receive(message), NEW packet \in Packet, Send(packet),
               invoked' \in SUBSET Command, rx' = rx
        PROVE  DataOK'
    <3>1. inbox' \in Seq(Message) /\ UNCHANGED <<clientVars, socket, peer, pings>>
      BY <2>2, Received
    <3>2. buffer' \in Seq(Packet) /\ wire' \in Seq(Packet)
      BY <2>2, Sent
    <3> QED
      BY <2>2, <3>1, <3>2 DEF DataOK
  <2>3. CASE ConnectResult \/ OtherResult \/ UnknownResult
    BY <2>1, <2>3 DEF ConnectResult, OtherResult, UnknownResult
  <2>4. CASE CreateStreamResult
    <3>1. CASE connected
      <4>1. invoked' \in SUBSET Command
        BY <2>4, <3>1 DEF CreateStreamResult, DataOK, Command
      <4> QED
        BY <1>c, <2>2, <2>4, <3>1, <4>1 DEF CreateStreamResult
    <3>2. CASE ~connected
      BY <2>1, <2>4, <3>2 DEF CreateStreamResult
    <3> QED
      BY <3>1, <3>2
  <2>5. CASE PublishStart \/ Ping
    <3>1. invoked' \in SUBSET Command /\ invoked' \in SUBSET invoked
      BY <2>5 DEF PublishStart, Ping, DataOK
    <3>2. /\ \E message : Receive(message)
          /\ Send("data") \/ Silent
          /\ rx' = rx
      BY <2>5 DEF PublishStart, Ping
    <3> QED
      BY <1>c, <2>1, <2>2, <3>1, <3>2
  <2>6. CASE ReceiverEnds
    BY <2>6 DEF ReceiverEnds, DataOK
  <2> QED
    BY <1>3, <2>3, <2>4, <2>5, <2>6 DEF Receiver
<1>4. CASE Server
  <2>1. CASE Answer
    <3>1. wire' \in Seq(Packet)
      BY <2>1, HasTail DEF Answer, DataOK
    <3>2. \E m \in Message : inbox' \in {inbox, Append(inbox, m)}
      BY <1>c, <2>1 DEF Answer
    <3>3. inbox' \in Seq(Message)
      <4>1. PICK m \in Message : inbox' \in {inbox, Append(inbox, m)}
        BY <3>2
      <4>2. inbox \in Seq(Message) /\ Append(inbox, m) \in Seq(Message)
        BY DEF DataOK
      <4> QED
        BY <4>1, <4>2
    <3> QED
      BY <2>1, <3>1, <3>3 DEF Answer, DataOK
  <2>2. CASE Ask
    BY <1>c, <2>2 DEF Ask, DataOK
  <2>3. CASE Leave
    BY <2>3 DEF Leave, DataOK
  <2> QED
    BY <1>4, <2>1, <2>2, <2>3 DEF Server
<1>5. CASE UNCHANGED vars
  BY <1>5 DEF vars, DataOK
<1> QED
  BY <1>1, <1>2, <1>3, <1>4, <1>5 DEF Next
LEMMA WorkingNext == Working /\ Settled /\ [Next]_vars => Working'
<1> SUFFICES ASSUME Working, Settled, [Next]_vars PROVE Working'
  OBVIOUS
<1> USE DEF Working, clientVars, netVars
<1>1. CASE Connect \/ HandshakeFails \/ AwaitedConnect \/ AwaitedPublish \/ Shutdown \/ Reset
  BY <1>1 DEF Connect, HandshakeFails, AwaitedConnect, AwaitedPublish, Shutdown, Reset
<1>2. CASE Handshake
  BY <1>2 DEF Handshake, Agenda, Settled
<1>3. CASE Publish \/ PublishFrame \/ Close
  BY <1>3 DEF Publish, PublishFrame, Close, Agenda
<1>4. CASE Write \/ Register
  BY <1>4 DEF Write, Register, Agenda
<1>5. CASE ClientFlushes
  <2>1. at' = "write" => After(Head(todo)) = "write" /\ Agenda
    BY <1>5 DEF ClientFlushes
  <2>2. at' \notin {"register", "flush"}
    BY <1>5 DEF ClientFlushes, After
  <2> QED
    BY <1>5, <2>1, <2>2, AgendaTail DEF ClientFlushes
<1>6. CASE Receiver \/ Server \/ UNCHANGED vars
  <2>1. UNCHANGED clientVars
    BY <1>6 DEF Receiver, ConnectResult, CreateStreamResult, OtherResult, UnknownResult,
                PublishStart, Ping, ReceiverEnds, Receive, Server, Answer,
                Ask, Leave, vars
  <2> QED
    BY <2>1 DEF Agenda
<1> QED
  BY <1>1, <1>2, <1>3, <1>4, <1>5, <1>6 DEF Next, Call, Client

LEMMA RungsNext == Inv /\ [Next]_vars => Rungs'
<1> SUFFICES ASSUME Inv, [Next]_vars PROVE Rungs'
  OBVIOUS
<1> USE DEF Rungs, clientVars, stateVars
<1>r. Rungs
  BY DEF Inv
<1>1. CASE Call
  BY <1>r, <1>1 DEF Call, Connect, Publish, PublishFrame, Close
<1>2. CASE Client
  <2>1. CASE Reset
    BY <2>1 DEF Reset, ResetFlags, Inv, Settled
  <2>2. CASE AwaitedConnect \/ AwaitedPublish
    <3>1. UNCHANGED <<connected, permitted, stream>>
      BY <2>2 DEF AwaitedConnect, AwaitedPublish
    <3>2. up' = connected \/ up' = permitted
      BY <2>2, Zenon DEF AwaitedConnect, AwaitedPublish
    <3> QED
      BY <1>r, <3>1, <3>2
  <2>3. CASE HandshakeFails \/ Handshake \/ Write \/ Register \/ ClientFlushes \/ Shutdown
    BY <1>r, <2>3 DEF HandshakeFails, Handshake, Write, Register, ClientFlushes, Shutdown
  <2> QED
    BY <1>2, <2>1, <2>2, <2>3 DEF Client
<1>3. CASE Receiver
  <2>1. CASE ConnectResult
    BY <1>r, <2>1 DEF ConnectResult, Receive
  <2>2. CASE CreateStreamResult
    <3>1. connected
      BY <2>2 DEF CreateStreamResult, Receive, Inv, Climbing
    <3> QED
      BY <1>r, <2>2, <3>1 DEF CreateStreamResult, Receive
  <2>3. CASE PublishStart
    <3>1. stream
      BY <2>3, Received DEF PublishStart, Inv, TypeOK, Climbing
    <3> QED
      BY <1>r, <2>3, <3>1 DEF PublishStart, Receive
  <2>4. CASE OtherResult \/ UnknownResult \/ Ping \/ ReceiverEnds
    BY <1>r, <2>4 DEF OtherResult, UnknownResult, Ping, ReceiverEnds, Receive
  <2> QED
    BY <1>3, <2>1, <2>2, <2>3, <2>4 DEF Receiver
<1>4. CASE Server \/ UNCHANGED vars
  BY <1>r, <1>4 DEF Server, Answer, Ask, Leave, vars
<1> QED
  BY <1>1, <1>2, <1>3, <1>4 DEF Next

LEMMA SettledNext == Inv /\ [Next]_vars => Settled'
<1> SUFFICES ASSUME Inv, [Next]_vars PROVE Settled'
  OBVIOUS
<1> USE DEF Inv, Settled, clientVars, stateVars, sendVars, netVars
<1>1. CASE Call
  BY <1>1 DEF Call, Connect, Publish, PublishFrame, Close
<1>2. CASE Client
  <2>1. CASE HandshakeFails \/ Handshake \/ Write \/ Register \/ Shutdown
    BY <2>1 DEF HandshakeFails, Handshake, Write, Register, Shutdown
  <2>2. CASE ClientFlushes
    <3>1. Agenda
      BY <2>2 DEF ClientFlushes, Working
    <3>2. at' = "idle" => up
      BY <2>2, <3>1, AgendaHead DEF ClientFlushes, After
    <3>3. at' = "shutdown" => ~up
      BY <2>2, <3>1, AgendaHead DEF ClientFlushes, After
    <3>4. at' \notin {"handshake", "join"}
      BY <2>2 DEF ClientFlushes, After
    <3> QED
      BY <2>2, <3>2, <3>3, <3>4 DEF ClientFlushes
  <2>3. CASE AwaitedConnect
    <3>1. at' = "idle" => up'
      BY <2>3, Zenon DEF AwaitedConnect
    <3>2. at' = "shutdown" => ~up'
      BY <2>3, Zenon DEF AwaitedConnect
    <3> QED
      BY <2>3, <3>1, <3>2 DEF AwaitedConnect
  <2>4. CASE AwaitedPublish
    <3>1. at' = "idle" => up'
      BY <2>4, Zenon DEF AwaitedPublish
    <3>2. at' = "shutdown" => ~up'
      BY <2>4, Zenon DEF AwaitedPublish
    <3> QED
      BY <2>4, <3>1, <3>2 DEF AwaitedPublish
  <2>5. CASE Reset
    BY <2>5 DEF Reset, ReceiverJoined, ResetFlags
  <2> QED
    BY <1>2, <2>1, <2>2, <2>3, <2>4, <2>5 DEF Client
<1>3. CASE Receiver
  <2>1. rx = "read" /\ UNCHANGED <<clientVars, socket>>
    BY <1>3 DEF Receiver, ConnectResult, CreateStreamResult, OtherResult, UnknownResult,
                PublishStart, Ping, ReceiverEnds, Receive
  <2> QED
    BY <2>1
<1>4. CASE Server \/ UNCHANGED vars
  BY <1>4 DEF Server, Answer, Ask, Leave, vars
<1> QED
  BY <1>1, <1>2, <1>3, <1>4 DEF Next

LEMMA ReadingNext == Inv /\ [Next]_vars => Reading'
<1> SUFFICES ASSUME Inv, [Next]_vars PROVE Reading'
  OBVIOUS
<1> USE DEF Inv, Reading, clientVars
<1>1. CASE Call
  BY <1>1 DEF Call, Connect, Publish, PublishFrame, Close, Settled
<1>2. CASE Client
  BY <1>2 DEF Client, HandshakeFails, Handshake, Write, Register, ClientFlushes,
              AwaitedConnect, AwaitedPublish, Shutdown, Reset, ReceiverJoined
<1>3. CASE Receiver
  BY <1>3 DEF Receiver, ConnectResult, CreateStreamResult, OtherResult, UnknownResult,
              PublishStart, Ping, ReceiverEnds, Receive
<1>4. CASE Server \/ UNCHANGED vars
  BY <1>4 DEF Server, Answer, Ask, Leave, vars
<1> QED
  BY <1>1, <1>2, <1>3, <1>4 DEF Next
LEMMA ClimbingNext == Inv /\ [Next]_vars => Climbing'
<1> SUFFICES ASSUME Inv, [Next]_vars PROVE Climbing'
  OBVIOUS
<1> USE DEF clientVars, stateVars, sendVars, netVars
<1>i. DataOK /\ Working /\ Rungs /\ Climbing
  BY DEF Inv, TypeOK
<1>0. ASSUME UNCHANGED <<rx, stateVars, invoked, buffer, wire, inbox>> PROVE Climbing'
  BY <1>0, <1>i DEF Climbing, Has
<1>1. CASE Connect \/ HandshakeFails \/ Handshake
  <2>1. ASSUME rx' = "read" PROVE Climbing'
    <3>1. buffer' = <<>> /\ wire' = <<>> /\ inbox' = <<>> /\ invoked' = {}
      BY <1>1, <2>1 DEF Connect, HandshakeFails, Handshake, Inv, Settled
    <3> QED
      BY <3>1, HasNothing DEF Climbing
  <2> QED
    BY <2>1 DEF Climbing
<1>2. CASE Publish \/ PublishFrame \/ Close \/ AwaitedConnect \/ AwaitedPublish \/ Shutdown
  BY <1>0, <1>2 DEF Publish, PublishFrame, Close, AwaitedConnect, AwaitedPublish, Shutdown
<1>3. CASE Reset
  BY <1>3 DEF Reset, ReceiverJoined, Climbing
<1>4. CASE Write
  <2>1. Agenda /\ Head(todo) \in Packet /\ Head(todo) # "publish"
        /\ (Head(todo) = "createStream" => connected)
    BY <1>4, <1>i, AgendaHead DEF Write, Working, Rungs
  <2>2. \A x : Has(buffer', x) <=> Has(buffer, x) \/ Head(todo) = x
    BY <1>4, <1>i, <2>1, HasAppend DEF Write, DataOK
  <2>3. UNCHANGED <<rx, stateVars, invoked, wire, inbox>>
    BY <1>4 DEF Write
  <2>4. \A x : (Has(wire', x) <=> Has(wire, x)) /\ (Has(inbox', x) <=> Has(inbox, x))
    BY <2>3 DEF Has
  <2> QED
    BY <1>i, <2>1, <2>2, <2>3, <2>4 DEF Climbing
<1>5. CASE Register
  <2>1. Agenda /\ (Head(todo) = "createStream" => connected)
    BY <1>5, <1>i, AgendaHead DEF Register, Working, Rungs
  <2>2. UNCHANGED <<rx, connected, permitted, stream, buffer, wire, inbox>>
    BY <1>5 DEF Register
  <2>3. "createStream" \in invoked' => "createStream" \in invoked \/ Head(todo) = "createStream"
    BY <1>5 DEF Register, Registered
  <2>4. \A x : (Has(buffer', x) <=> Has(buffer, x)) /\ (Has(wire', x) <=> Has(wire, x))
               /\ (Has(inbox', x) <=> Has(inbox, x))
    BY <2>2 DEF Has
  <2>5. "createStream" \in invoked' => "createStream" \in invoked \/ connected
    BY <2>1, <2>3
  <2> QED
    BY <1>i, <2>2, <2>4, <2>5 DEF Climbing
<1>6. CASE ClientFlushes
  <2>1. Flush(buffer) /\ buffer \in Seq(Packet)
    BY <1>6, <1>i DEF ClientFlushes, DataOK
  <2>2. buffer' = <<>> /\ \A x : Has(wire', x) => Has(wire, x) \/ Has(buffer, x)
    BY <1>i, <2>1, Flushed
  <2>3. UNCHANGED <<rx, stateVars, invoked, inbox>>
    BY <1>6 DEF ClientFlushes
  <2>4. \A x : ~Has(buffer', x) /\ (Has(inbox', x) <=> Has(inbox, x))
    BY <2>2, <2>3, HasNothing DEF Has
  <2> QED
    BY <1>i, <2>2, <2>3, <2>4 DEF Climbing
<1>7. CASE Receiver
  <2>1. ASSUME NEW message, Receive(message), Silent,
               invoked' \in SUBSET invoked, connected => connected', stream => stream'
        PROVE  Climbing'
    <3>1. rx = "read" /\ \A x : Has(inbox', x) => Has(inbox, x)
      BY <1>i, <2>1, Received
    <3>2. \A x : (Has(buffer', x) <=> Has(buffer, x)) /\ (Has(wire', x) <=> Has(wire, x))
      BY <2>1 DEF Silent, Has
    <3> QED
      BY <1>i, <2>1, <3>1, <3>2 DEF Climbing
  <2>2. ASSUME NEW message, Receive(message), NEW packet \in Packet, Send(packet),
               invoked' \in SUBSET (invoked \cup {"publish"}), packet # "createStream",
               packet = "publish" => stream', connected => connected', stream => stream'
        PROVE  Climbing'
    <3>1. rx = "read" /\ \A x : Has(inbox', x) => Has(inbox, x)
      BY <1>i, <2>2, Received
    <3>2. buffer' = <<>> /\ \A x : Has(wire', x) => Has(wire, x) \/ Has(buffer, x) \/ x = packet
      BY <1>i, <2>2, Sent
    <3>3. \A x : ~Has(buffer', x)
      BY <3>2, HasNothing
    <3>4. "createStream" \in invoked' => "createStream" \in invoked
      BY <2>2
    <3> QED
      BY <1>i, <2>2, <3>1, <3>2, <3>3, <3>4 DEF Climbing
  <2>3. CASE ConnectResult \/ OtherResult \/ UnknownResult
    BY <2>1, <2>3 DEF ConnectResult, OtherResult, UnknownResult
  <2>4. CASE CreateStreamResult
    <3>1. Receive("createStream") /\ stream' /\ UNCHANGED connected
      BY <2>4 DEF CreateStreamResult
    <3>2. CASE connected
      <4>1. Send("publish") /\ invoked' \in SUBSET (invoked \cup {"publish"})
            /\ "publish" \in Packet
        BY <2>4, <3>2 DEF CreateStreamResult, Packet, Command
      <4> QED
        BY <2>2, <3>1, <4>1
    <3>3. CASE ~connected
      BY <2>1, <2>4, <3>3 DEF CreateStreamResult
    <3> QED
      BY <3>2, <3>3
  <2>5. CASE PublishStart \/ Ping
    <3>1. /\ \E message : Receive(message)
          /\ Send("data") \/ Silent
          /\ UNCHANGED <<connected, stream, invoked>> /\ "data" \in Packet
      BY <2>5 DEF PublishStart, Ping, Packet
    <3> QED
      BY <2>1, <2>2, <3>1
  <2>6. CASE ReceiverEnds
    BY <2>6 DEF ReceiverEnds, Climbing
  <2> QED
    BY <1>7, <2>3, <2>4, <2>5, <2>6 DEF Receiver
<1>8. CASE Answer
  <2>1. wire \in Seq(Packet) /\ wire # <<>> /\ inbox \in Seq(Message) /\ wire' = Tail(wire)
        /\ UNCHANGED <<rx, stateVars, invoked, buffer>>
    BY <1>8, <1>i DEF Answer, DataOK
  <2>2. Has(wire, Head(wire)) /\ \A x : Has(wire', x) => Has(wire, x)
    BY <2>1, HasTail
  <2>3. PICK m \in Message :
          /\ inbox' \in {inbox, Append(inbox, m)}
          /\ m = "createStream" => Head(wire) = "createStream"
          /\ m = "start" => Head(wire) = "publish" \/ inbox' = inbox
    BY <1>8 DEF Answer, Message, Invoked
  <2>4. \A x : Has(Append(inbox, m), x) <=> Has(inbox, x) \/ m = x
    BY <2>1, HasAppend
  <2>5. /\ Has(inbox', "createStream") => Has(inbox, "createStream") \/ Has(wire, "createStream")
        /\ Has(inbox', "start") => Has(inbox, "start") \/ Has(wire, "publish")
    <3>1. CASE inbox' = inbox
      BY <3>1 DEF Has
    <3>2. CASE inbox' = Append(inbox, m) /\ inbox' # inbox
      <4>1. \A x : Has(inbox', x) <=> Has(inbox, x) \/ m = x
        BY <2>4, <3>2, Zenon
      <4> QED
        BY <2>2, <2>3, <3>2, <4>1
    <3> QED
      BY <2>3, <3>1, <3>2
  <2>6. \A x : Has(buffer', x) <=> Has(buffer, x)
    BY <2>1 DEF Has
  <2> QED
    BY <1>i, <2>1, <2>2, <2>5, <2>6 DEF Climbing
<1>9. CASE Ask
  <2>1. inbox \in Seq(Message) /\ "ping" \in Message /\ inbox' = Append(inbox, "ping")
        /\ UNCHANGED <<rx, stateVars, invoked, buffer, wire>>
    BY <1>9, <1>i DEF Ask, DataOK, Message
  <2>2. \A x : Has(inbox', x) <=> Has(inbox, x) \/ "ping" = x
    BY <2>1, HasAppend
  <2>3. \A x : (Has(buffer', x) <=> Has(buffer, x)) /\ (Has(wire', x) <=> Has(wire, x))
    BY <2>1 DEF Has
  <2> QED
    BY <1>i, <2>1, <2>2, <2>3 DEF Climbing
<1>10. CASE Leave \/ UNCHANGED vars
  BY <1>0, <1>10 DEF Leave, vars
<1> QED
  BY <1>1, <1>2, <1>3, <1>4, <1>5, <1>6, <1>7, <1>8, <1>9, <1>10
     DEF Next, Call, Client, Server

LEMMA InvNext == ConnectionConstants /\ Inv /\ [Next]_vars => Inv'
BY FlagsNext, DataNext, WorkingNext, RungsNext, SettledNext, ReadingNext, ClimbingNext
   DEF Inv, TypeOK

LEMMA InvHolds == Spec => []Inv
BY InvInit, InvNext, ConnectionConstants, PTL DEF Spec

-----------------------------------------------------------------------------
(* The theorems.                                                           *)

\* Every variable has its type in every state of RtmpConnection.java.
THEOREM TypeCorrect == Spec => []TypeOK
BY InvHolds, PTL DEF Inv

\* A call of RtmpConnection.java that returned false, and close(), leave
\* neither a receiver nor a flag of the session behind.
THEOREM NothingIsLeft == Spec => []NothingLeft
<1>1. Inv => NothingLeft
  BY DEF Inv, Settled, Rungs, NothingLeft
<1> QED
  BY <1>1, InvHolds, PTL

\* One step of the connection is one rung of the ladder, a reset, or none.
LEMMA Step == Inv /\ Rungs' /\ [Next]_vars => [Pub!Next]_conn
<1> SUFFICES ASSUME Inv, Rungs', [Next]_vars PROVE [Pub!Next]_conn
  OBVIOUS
<1> USE DEF conn, Pub!Next, clientVars, stateVars
<1>i. DataOK /\ Rungs /\ Settled /\ Climbing /\ Reading
  BY DEF Inv, TypeOK
<1>0. ASSUME UNCHANGED <<socket, stateVars>> PROVE UNCHANGED conn
  BY <1>0
<1>1. CASE Connect
  BY <1>1, <1>i DEF Connect, Settled, Pub!OpenFails
<1>2. CASE Handshake
  <2>1. conn = "dead" /\ conn' = "open"
    BY <1>2, <1>i DEF Handshake, Settled
  <2> QED
    BY <2>1 DEF Pub!Open
<1>3. CASE Shutdown
  BY <1>3 DEF Shutdown
<1>4. CASE Reset
  BY <1>4 DEF Reset, Pub!Reset
<1>5. CASE ConnectResult
  <2>1. socket \in {"up", "shut"} /\ UNCHANGED <<socket, permitted, stream>> /\ connected'
    BY <1>5, <1>i DEF ConnectResult, Receive, Reading
  <2>2. CASE connected
    BY <2>1, <2>2
  <2>3. CASE ~connected
    <3>1. conn = "open" /\ conn' = "connected"
      BY <1>i, <2>1, <2>3 DEF Rungs
    <3> QED
      BY <3>1 DEF Pub!Accept
  <2> QED
    BY <2>2, <2>3
<1>6. CASE CreateStreamResult
  <2>1. socket \in {"up", "shut"} /\ UNCHANGED <<socket, permitted, connected>> /\ stream'
    BY <1>6, <1>i DEF CreateStreamResult, Receive, Reading
  <2>2. connected
    BY <1>i, <1>6 DEF CreateStreamResult, Receive, Climbing
  <2>3. CASE stream
    BY <2>1, <2>2, <2>3
  <2>4. CASE ~stream
    <3>1. conn = "connected" /\ conn' = "created"
      BY <1>i, <2>1, <2>2, <2>4 DEF Rungs
    <3> QED
      BY <3>1 DEF Pub!StreamCreated
  <2> QED
    BY <2>3, <2>4
<1>7. CASE PublishStart
  <2>1. socket \in {"up", "shut"} /\ UNCHANGED <<socket, stream, connected>> /\ permitted'
    BY <1>7, <1>i DEF PublishStart, Receive, Reading
  <2>2. stream /\ connected
    BY <1>i, <1>7, Received DEF PublishStart, Climbing, Rungs
  <2>3. conn \in {"created", "permitted"} /\ conn' = "permitted"
    BY <2>1, <2>2
  <2> QED
    BY <2>3 DEF Pub!Permit
<1>8. CASE HandshakeFails \/ Write \/ Register \/ ClientFlushes \/ AwaitedConnect \/ AwaitedPublish
  BY <1>0, <1>8 DEF HandshakeFails, Write, Register, ClientFlushes, AwaitedConnect, AwaitedPublish
<1>9. CASE Publish \/ PublishFrame \/ Close
  BY <1>0, <1>9 DEF Publish, PublishFrame, Close
<1>10. CASE OtherResult \/ UnknownResult \/ Ping \/ ReceiverEnds
  BY <1>0, <1>10 DEF OtherResult, UnknownResult, Ping, ReceiverEnds, Receive
<1>11. CASE Server \/ UNCHANGED vars
  BY <1>0, <1>11 DEF Server, Answer, Ask, Leave, vars
<1> QED
  BY <1>1, <1>2, <1>3, <1>4, <1>5, <1>6, <1>7, <1>8, <1>9, <1>10, <1>11
     DEF Next, Call, Client, Receiver

\* RtmpConnection.java climbs the ladder of RtmpPublisher.tla, whatever answers
\* come late, twice or never.
THEOREM ConnectionImplements == Spec => Implements
<1>1. Init => Pub!Init
  BY DEF Init, Pub!Init, conn
<1>2. Inv => Rungs
  BY DEF Inv
<1> QED
  BY <1>1, <1>2, InvHolds, Step, PTL DEF Spec, Implements, Pub!Spec
=============================================================================
