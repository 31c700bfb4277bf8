-------------------------- MODULE RtmpConnection --------------------------
(***************************************************************************)
(* RtmpConnection.java: one RTMP connection, used by a client that calls   *)
(* connect(), then publish(), publishVideoData() or publishAudioData(),    *)
(* and close(), one call at a time (the worker of SrsFlvMuxer.java, and    *)
(* the closer after it).  Beside the client run the receiver thread        *)
(* (rxPacketHandler), which sends packets too, and the server.             *)
(*                                                                         *)
(* Commands and messages are known by their names; a transaction id stands *)
(* for the same name in every session, since reset() restarts the counter. *)
(* Spec implements RtmpPublisher.tla.                                      *)
(***************************************************************************)
EXTENDS Naturals, Sequences

CONSTANTS
  MaxSessions,  \* calls of connect()
  MaxPings,     \* requests of the server that the receiver answers by itself
  MaxFrames     \* frames published

ASSUME ConnectionConstants == MaxSessions \in Nat /\ MaxPings \in Nat /\ MaxFrames \in Nat

Invoked == {"connect", "releaseStream", "FCPublish", "createStream"}
Command == Invoked \cup {"publish", "closeStream"}
Packet == Command \cup {"data"}             \* data: any packet that is no command
Message == Invoked \cup {"start", "ping"}   \* a _result goes by its command's name

VARIABLES
  at,        \* where the client is
  todo,      \* packets its call has yet to send
  up,        \* the last call of connect() or publish() returned true
  sessions,  \* calls of connect() so far
  frames,    \* frames published so far
  socket,    \* "null", "new" (no handshake), "up", "shut"
  connected, permitted, stream,  \* connected, publishPermitted, currentStreamId # 0
  invoked,   \* invokedMethods
  buffer,    \* written to outputStream and not flushed
  rx,        \* the receiver: "none", "read", "dead", or "crashed"
  cause,     \* socketExceptionCause is set
  wire,      \* packets on their way to the server
  inbox,     \* messages on their way to the client
  peer,      \* the server's end: "up", "closed" or "reset"
  pings      \* requests of the server so far

clientVars == <<at, todo, up, sessions, frames>>
stateVars  == <<connected, permitted, stream>>
sendVars   == <<invoked, buffer>>
netVars    == <<wire, inbox, peer, pings>>
vars == <<clientVars, socket, stateVars, sendVars, rx, cause, netVars>>

Init ==
  /\ at = "idle" /\ todo = <<>> /\ up = FALSE /\ sessions = 0 /\ frames = 0
  /\ socket = "null" /\ connected = FALSE /\ permitted = FALSE /\ stream = FALSE
  /\ invoked = {} /\ buffer = <<>> /\ rx = "none" /\ cause = FALSE
  /\ wire = <<>> /\ inbox = <<>> /\ peer = "up" /\ pings = 0

-----------------------------------------------------------------------------
(* The client.                                                             *)

\* connect(): a new session and a new socket, to be connected. Its caller has
\* no connection from an earlier call.
Connect ==
  /\ at = "idle" /\ ~up /\ sessions < MaxSessions
  /\ sessions' = sessions + 1 /\ at' = "handshake"
  /\ socket' = "new" /\ invoked' = {} /\ buffer' = <<>>
  /\ wire' = <<>> /\ inbox' = <<>> /\ peer' = "up"
  /\ UNCHANGED <<todo, up, frames, stateVars, rx, cause, pings>>

\* connect(): IOException; the socket stays, and nothing is reset.
HandshakeFails ==
  /\ at = "handshake" /\ at' = "idle"
  /\ UNCHANGED <<todo, up, sessions, frames, socket, stateVars, sendVars, rx, cause, netVars>>

\* connect(): the receiver starts; rtmpConnect() sends "connect", or is false
\* because the client is connected already.
Handshake ==
  /\ at = "handshake"
  /\ socket' = "up" /\ rx' = "read"
  /\ IF connected THEN at' = "idle" /\ UNCHANGED todo
                  ELSE at' = "write" /\ todo' = <<"connect">>
  /\ UNCHANGED <<up, sessions, frames, stateVars, sendVars, cause, netVars>>

\* publish() of a client that connect() told true: createStream() sends three
\* commands. Without a connection, or with a stream, it would be false.
Publish ==
  /\ at = "idle" /\ up /\ connected /\ ~stream
  /\ at' = "write" /\ todo' = <<"releaseStream", "FCPublish", "createStream">>
  /\ UNCHANGED <<up, sessions, frames, socket, stateVars, sendVars, rx, cause, netVars>>

\* publishVideoData(), publishAudioData().
PublishFrame ==
  /\ at = "idle" /\ up /\ connected /\ stream /\ permitted /\ frames < MaxFrames
  /\ frames' = frames + 1
  /\ at' = "write" /\ todo' = <<"data">>
  /\ UNCHANGED <<up, sessions, socket, stateVars, sendVars, rx, cause, netVars>>

\* close(): closeStream() if a stream is being published, then shutdown().
Close ==
  /\ at = "idle"
  /\ up' = FALSE
  /\ IF socket # "null" /\ connected /\ stream /\ permitted
       THEN at' = "write" /\ todo' = <<"closeStream">>
       ELSE at' = "shutdown" /\ UNCHANGED todo
  /\ UNCHANGED <<sessions, frames, socket, stateVars, sendVars, rx, cause, netVars>>

\* sendRtmpPacket(): writeTo(outputStream).
Write ==
  /\ at = "write" /\ at' = "register"
  /\ buffer' = Append(buffer, Head(todo))
  /\ UNCHANGED <<todo, up, sessions, frames, socket, stateVars, invoked, rx, cause, netVars>>

\* Mutant: whatever is sent is registered.
Any(packet) == {packet}

\* Only a command has a transaction id.
Registered(packet) == {packet} \cap Command

\* sendRtmpPacket(): addInvokedCommand().
Register ==
  /\ at = "register" /\ at' = "flush"
  /\ invoked' = invoked \cup Registered(Head(todo))
  /\ UNCHANGED <<todo, up, sessions, frames, socket, stateVars, buffer, rx, cause, netVars>>

\* What a call does after a packet: it sends the next one, waits, or ends.
After(packet) ==
  CASE packet = "connect" -> "awaitConnect"
    [] packet = "createStream" -> "awaitPublish"
    [] packet = "closeStream" -> "shutdown"
    [] packet = "data" -> "idle"
    [] OTHER -> "write"

\* The packets go out, or the connection is lost or shut: an exception says so
\* sooner or later, and is remembered as the one reported last.
Flush(packets) ==
  /\ buffer' = <<>>
  /\ IF peer = "up" /\ socket = "up"
       THEN wire' = wire \o packets /\ UNCHANGED cause
       ELSE UNCHANGED wire /\ cause' \in {cause, TRUE}

\* sendRtmpPacket(): flush().
ClientFlushes ==
  /\ at = "flush" /\ at' = After(Head(todo))
  /\ todo' = Tail(todo)
  /\ Flush(buffer)
  /\ UNCHANGED <<up, sessions, frames, socket, stateVars, invoked, rx, inbox, peer, pings>>

\* connectingLock.wait(5000) ends, for whatever reason: connect() returns
\* connected, after shutdown() if it is false.
AwaitedConnect ==
  /\ at = "awaitConnect"
  /\ up' = connected
  /\ at' = IF connected THEN "idle" ELSE "shutdown"
  /\ UNCHANGED <<todo, sessions, frames, socket, stateVars, sendVars, rx, cause, netVars>>

\* The same for publishLock, publish() and publishPermitted.
AwaitedPublish ==
  /\ at = "awaitPublish"
  /\ up' = permitted
  /\ at' = IF permitted THEN "idle" ELSE "shutdown"
  /\ UNCHANGED <<todo, sessions, frames, socket, stateVars, sendVars, rx, cause, netVars>>

\* shutdown(): the socket's streams are shut, the receiver is interrupted.
Shutdown ==
  /\ at = "shutdown"
  /\ socket' = IF socket = "up" THEN "shut" ELSE socket
  /\ at' = "join"
  /\ UNCHANGED <<todo, up, sessions, frames, stateVars, sendVars, rx, cause, netVars>>

\* Mutant: shutdown() does not wait for the receiver.
ReceiverForgotten == TRUE

\* shutdown(): the receiver has ended, if there was one.
ReceiverJoined == rx \in {"none", "dead"}

\* Mutant: the client stays connected.
ResetStream == connected' = connected /\ permitted' = FALSE /\ stream' = FALSE

ResetFlags == connected' = FALSE /\ permitted' = FALSE /\ stream' = FALSE

\* shutdown(): the receiver is joined, the socket closed, and reset().
Reset ==
  /\ at = "join" /\ ReceiverJoined
  /\ at' = "idle" /\ socket' = "null"
  /\ ResetFlags /\ cause' = FALSE /\ invoked' = {}
  /\ UNCHANGED <<todo, up, sessions, frames, buffer, rx, netVars>>

Client ==
  \/ HandshakeFails \/ Handshake \/ Write \/ Register \/ ClientFlushes
  \/ AwaitedConnect \/ AwaitedPublish \/ Shutdown \/ Reset

-----------------------------------------------------------------------------
(* The receiver: handleRxPacketLoop().                                     *)

\* A packet is read and handled by Handle.
Receive(message) ==
  /\ rx = "read" /\ inbox # <<>> /\ Head(inbox) = message
  /\ inbox' = Tail(inbox)
  /\ UNCHANGED <<clientVars, socket, peer, pings>>

\* The receiver sends a packet of its own through the same outputStream.
Send(packet) == Flush(Append(buffer, packet))

\* It sends nothing.
Silent == UNCHANGED <<buffer, wire, cause>>

\* _result of a command we invoked: "connect" ...
ConnectResult ==
  /\ Receive("connect") /\ "connect" \in invoked
  /\ invoked' = invoked \ {"connect"}
  /\ connected' = TRUE
  /\ Silent
  /\ UNCHANGED <<permitted, stream, rx>>

\* ... "createStream": fmlePublish() sends "publish" ...
CreateStreamResult ==
  /\ Receive("createStream") /\ "createStream" \in invoked
  /\ stream' = TRUE
  /\ IF connected
       THEN Send("publish") /\ invoked' = (invoked \ {"createStream"}) \cup {"publish"}
       ELSE Silent /\ invoked' = invoked \ {"createStream"}
  /\ UNCHANGED <<connected, permitted, rx>>

\* ... and the others, of which nothing follows.
OtherResult ==
  /\ \E name \in {"releaseStream", "FCPublish"} :
       Receive(name) /\ name \in invoked /\ invoked' = invoked \ {name}
  /\ Silent
  /\ UNCHANGED <<stateVars, rx>>

\* The command is not known (yet): "createStream".contains(null) throws.
UnknownResult ==
  /\ \E name \in Invoked : Receive(name) /\ name \notin invoked
  /\ rx' = "crashed"
  /\ Silent
  /\ UNCHANGED <<stateVars, invoked>>

\* onStatus with the code NetStream.Publish.Start: onMetaData() is sent.
PublishStart ==
  /\ Receive("start")
  /\ permitted' = TRUE
  /\ IF connected /\ stream THEN Send("data") ELSE Silent
  /\ UNCHANGED <<connected, stream, invoked, rx>>

\* PING_REQUEST or SET_PEER_BANDWIDTH: answered at once.
Ping ==
  /\ Receive("ping")
  /\ Send("data")
  /\ UNCHANGED <<stateVars, invoked, rx>>


\* EOFException, or the interrupt that follows shutdownInput(). After a
\* SocketException the loop goes on, and nothing but the report shows it.
InputEnded == socket = "shut" \/ (peer = "closed" /\ inbox = <<>>)

ReceiverEnds ==
  /\ rx = "read" /\ InputEnded
  /\ rx' = "dead"
  /\ UNCHANGED <<clientVars, socket, stateVars, sendVars, cause, netVars>>

Receiver ==
  \/ ConnectResult \/ CreateStreamResult \/ OtherResult \/ UnknownResult
  \/ PublishStart \/ Ping \/ ReceiverEnds

-----------------------------------------------------------------------------
(* The server, as the receiver knows it.                                   *)

\* A command arrives; it may go unanswered.
Answer ==
  /\ wire # <<>> /\ peer = "up"
  /\ wire' = Tail(wire)
  /\ inbox' \in
       {inbox} \cup IF Head(wire) \in Invoked THEN {Append(inbox, Head(wire))}
                    ELSE IF Head(wire) = "publish" THEN {Append(inbox, "start")} ELSE {}
  /\ UNCHANGED <<clientVars, socket, stateVars, sendVars, rx, cause, peer, pings>>

\* It asks for something by itself.
Ask ==
  /\ peer = "up" /\ socket = "up" /\ pings < MaxPings
  /\ pings' = pings + 1 /\ inbox' = Append(inbox, "ping")
  /\ UNCHANGED <<clientVars, socket, stateVars, sendVars, rx, cause, wire, peer>>

\* It closes the connection, or the connection is lost.
Leave ==
  /\ peer = "up" /\ socket = "up"
  /\ peer' \in {"closed", "reset"}
  /\ UNCHANGED <<clientVars, socket, stateVars, sendVars, rx, cause, wire, inbox, pings>>

Server == Answer \/ Ask \/ Leave

-----------------------------------------------------------------------------
Call == Connect \/ Publish \/ PublishFrame \/ Close

Next ==
  /\ rx # "crashed"
  /\ Call \/ Client \/ Receiver \/ Server

Spec == Init /\ [][Next]_vars

\* The threads are scheduled and wait(5000) ends; the server and the caller owe
\* nothing.
FairSpec == Spec /\ WF_vars(rx # "crashed" /\ Client) /\ WF_vars(Receiver)

-----------------------------------------------------------------------------
(* Properties.                                                             *)

FlagsOK ==
  /\ up \in BOOLEAN /\ connected \in BOOLEAN /\ permitted \in BOOLEAN
  /\ stream \in BOOLEAN /\ cause \in BOOLEAN

DataOK ==
  /\ at \in {"idle", "handshake", "write", "register", "flush", "awaitConnect",
             "awaitPublish", "shutdown", "join"}
  /\ todo \in Seq(Packet) /\ sessions \in 0..MaxSessions /\ frames \in 0..MaxFrames
  /\ socket \in {"null", "new", "up", "shut"}
  /\ invoked \in SUBSET Command /\ buffer \in Seq(Packet)
  /\ rx \in {"none", "read", "dead", "crashed"}
  /\ wire \in Seq(Packet) /\ inbox \in Seq(Message)
  /\ peer \in {"up", "closed", "reset"} /\ pings \in 0..MaxPings

\* Every variable has a value of its kind; what was invoked is a command.
TypeOK == FlagsOK /\ DataOK

\* The connection as the muxer sees it.
conn ==
  CASE socket = "null" -> "null"
    [] socket = "new" -> "dead"
    [] socket \in {"up", "shut"} ->
         IF ~connected THEN "open"
         ELSE IF ~stream THEN "connected"
         ELSE IF ~permitted THEN "created" ELSE "permitted"

Pub == INSTANCE RtmpPublisher WITH conn <- conn

\* Every step is one of the ladder of RtmpPublisher.tla or leaves it alone:
\* whatever answer arrives late, in the middle of a shutdown() or after a
\* timeout, and whatever is lost.
Implements == Pub!Spec

\* A call that returned false, and close(), leave no receiver and no state
\* behind that the next connect() could take for its own.
NothingLeft ==
  at = "idle" /\ ~up =>
    /\ rx \in {"none", "dead"} /\ socket \in {"null", "new"}
    /\ ~connected /\ ~permitted /\ ~stream /\ ~cause


\* A _result that is not known is reported as such (RtmpConnection.java:609,
\* "'_result' message received for unknown method").
ReceiverSurvives == rx # "crashed"
=============================================================================
