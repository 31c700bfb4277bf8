---------------------------- MODULE RtmpPublisher ----------------------------
(***************************************************************************)
(* What a client of the interface RtmpPublisher.java sees of the RTMP      *)
(* connection, as one variable that walks up a ladder:                     *)
(*                                                                         *)
(*   "null"       no socket (initially, and after reset())                 *)
(*   "dead"       connect() failed with an IOException: the socket object  *)
(*                is there, no receiver thread runs, nothing was reset     *)
(*   "open"       the handshake is done, the receiver thread runs          *)
(*   "connected"  the server accepted it           (connected = true)      *)
(*   "created"    it also gave out a stream        (currentStreamId # 0)   *)
(*   "permitted"  it also permits publishing       (publishPermitted)      *)
(*                                                                         *)
(* RtmpConnection.tla is shown to implement Spec; SrsFlvMuxer.tla uses the *)
(* same actions for the connection its worker talks to.                    *)
(***************************************************************************)

VARIABLE conn

ConnStates == {"null", "dead", "open", "connected", "created", "permitted"}

IsConnected == conn \in {"connected", "created", "permitted"}

Init == conn = "null"

\* connect(): the socket cannot be opened, or the handshake fails.
OpenFails == conn \in {"null", "dead"} /\ conn' = "dead"

\* connect(): the handshake is done, the "connect" command follows.
Open == conn \in {"null", "dead"} /\ conn' = "open"

\* The server's _result for "connect".
Accept == conn = "open" /\ conn' = "connected"

\* The server's _result for "createStream".
StreamCreated == conn = "connected" /\ conn' = "created"

\* The server's onStatus NetStream.Publish.Start.
Permit == conn = "created" /\ conn' = "permitted"

\* shutdown() and reset(): by close(), or by a connect() or publish() that
\* gives up.
Reset == conn' = "null"

Next == OpenFails \/ Open \/ Accept \/ StreamCreated \/ Permit \/ Reset

Spec == Init /\ [][Next]_conn
=============================================================================
