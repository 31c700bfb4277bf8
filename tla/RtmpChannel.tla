---------------------------- MODULE RtmpChannel ----------------------------
(***************************************************************************)
(* What the chunk layer of RTMP promises: on every chunk stream, messages  *)
(* are received as they were sent and in the order in which they were      *)
(* begun, except for one that the sender abandons. RtmpChunk.tla is shown  *)
(* to implement Spec.                                                      *)
(***************************************************************************)
EXTENDS Naturals, Sequences

CONSTANTS Cids, Msg

VARIABLES
  pipe,     \* per chunk stream: messages that were begun, and not received
  received  \* the last message received, and where

Nothing == [cid |-> "none"]

Init == pipe = [c \in Cids |-> <<>>] /\ received = Nothing

Begin(c, m) == pipe' = [pipe EXCEPT ![c] = Append(@, m)] /\ UNCHANGED received

\* The message begun last will not be finished.
Abandon(c) ==
  /\ pipe[c] # <<>>
  /\ pipe' = [pipe EXCEPT ![c] = SubSeq(@, 1, Len(@) - 1)]
  /\ UNCHANGED received

Receive(c) ==
  /\ pipe[c] # <<>>
  /\ received' = [cid |-> c, msg |-> Head(pipe[c])]
  /\ pipe' = [pipe EXCEPT ![c] = Tail(@)]

Next == \E c \in Cids : (\E m \in Msg : Begin(c, m)) \/ Abandon(c) \/ Receive(c)

Spec == Init /\ [][Next]_<<pipe, received>>
=============================================================================
