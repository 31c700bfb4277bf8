----------------------------- MODULE RtmpChunk -----------------------------
(***************************************************************************)
(* The chunks of RTMP: RtmpPacket.writeTo() cuts a message into a chunk of *)
(* type 0 and chunks of type 3 with the headers of RtmpHeader.writeTo();   *)
(* RtmpDecoder.readPacket() puts messages together again, with the headers *)
(* of readHeaderImpl() and the bytes stored in ChunkStreamInfo.java.       *)
(*                                                                         *)
(* The reader hears a peer, which may also do what this writer never does: *)
(* mix chunks of several chunk streams, begin a message with a header of   *)
(* type 1 or 2, change the size of chunks, and abandon a message. The peer *)
(* is external, and limited to what the reader copes with: see Absolute,   *)
(* Relative and Resize.                                                    *)
(*                                                                         *)
(* A message is its length and its time. The wire is a sequence of chunks: *)
(* the reader is lost when it expects other bytes than a chunk has.        *)
(***************************************************************************)
EXTENDS Integers, Sequences

CONSTANTS
  Cids,         \* chunk streams of messages
  MaxMessages, MaxResizes, MaxAborts,
  MaxWire,      \* chunks under way
  MaxLen,       \* of a message
  Times,        \* times of messages
  Full,         \* 0xffffff: from here on, times are in the extended field
  LongExtended, \* messages of several chunks may have such times
  Sizes, Default  \* sizes of chunks, and the first of them

ASSUME ChunkConstants ==
  /\ MaxMessages \in Nat /\ MaxResizes \in Nat /\ MaxAborts \in Nat
  /\ MaxWire \in Nat /\ MaxLen \in Nat \ {0}
  /\ Times \subseteq Nat /\ Full \in Nat \ {0} /\ LongExtended \in BOOLEAN
  /\ Sizes \subseteq Nat \ {0} /\ Default \in Sizes

Msg == [len : 1..MaxLen, time : Times]

NoHeader == [time |-> -1, delta |-> 0, len |-> 0]

VARIABLES
  messages, resizes, aborts,
  tx,       \* the writer's txChunkSize
  sent,     \* per chunk stream: the message that was begun last
  left,     \* per chunk stream: its bytes that are not written
  wire,
  rx,       \* rxChunkSize
  prev,     \* per chunk stream: prevHeaderRx
  stored,   \* per chunk stream: the number of bytes in baos
  lost,     \* the reader takes other bytes for a header
  pipe, received  \* history: see RtmpChannel.tla

writerVars == <<messages, resizes, aborts, tx, sent, left>>
readerVars == <<rx, prev, stored, lost>>
vars == <<writerVars, wire, readerVars, pipe, received>>

Channel == INSTANCE RtmpChannel WITH pipe <- pipe, received <- received

Init ==
  /\ messages = 0 /\ resizes = 0 /\ aborts = 0
  /\ tx = Default /\ sent = [c \in Cids |-> NoHeader] /\ left = [c \in Cids |-> 0]
  /\ wire = <<>>
  /\ rx = Default /\ prev = [c \in Cids |-> NoHeader] /\ stored = [c \in Cids |-> 0]
  /\ lost = FALSE
  /\ Channel!Init

-----------------------------------------------------------------------------
(* The writer.                                                             *)

Smaller(a, b) == IF a < b THEN a ELSE b

\* Mutant: chunks are always full.
WholeChunk(n) == tx

\* Bytes of the next chunk, of n that are left.
Portion(n) == Smaller(n, tx)

\* The extended timestamp of a message's chunks, or 0.
Extended(m) == IF m.time >= Full THEN m.time ELSE 0

\* A chunk; "field" is the timestamp of its header, absolute or relative.
Chunk(c, type, field, m, bytes) ==
  [kind |-> "chunk", cid |-> c, type |-> type, field |-> Smaller(field, Full),
   ext |-> Extended(m), len |-> m.len, bytes |-> bytes]

Put(chunk) == Len(wire) < MaxWire /\ wire' = Append(wire, chunk)

Write(c, m, n, chunk) ==
  /\ Put(chunk)
  /\ left' = [left EXCEPT ![c] = n - chunk.bytes]
  /\ sent' = [sent EXCEPT ![c] = m]

Fresh(c, m) ==
  /\ left[c] = 0 /\ messages < MaxMessages
  /\ messages' = messages + 1
  /\ Channel!Begin(c, m)
  /\ UNCHANGED <<resizes, aborts, tx, readerVars>>

\* A message begins with a full header. If its time is extended, writeTo() repeats
\* it in each chunk of type 3, where the reader takes it for data, because its
\* timestampDelta is that of the full header: with LongExtended FALSE, such a
\* message has a single chunk.
Absolute(c, m) ==
  /\ Fresh(c, m)
  /\ m.time >= Full /\ ~LongExtended => m.len <= tx
  /\ Write(c, m, m.len, Chunk(c, 0, m.time, m, Portion(m.len)))

\* The peer begins a message with its time from the last one. It needs a single
\* chunk, or the reader would add the time from the last one for each chunk.
Relative(c, m) ==
  /\ Fresh(c, m)
  /\ sent[c] # NoHeader /\ sent[c].time <= m.time /\ m.len <= tx /\ m.time < Full
  /\ \E type \in {1, 2} :
       /\ type = 2 => m.len = sent[c].len
       /\ Write(c, m, m.len, Chunk(c, type, m.time - sent[c].time, m, m.len))

\* The next chunk of a message.
Continue(c) ==
  /\ left[c] > 0
  /\ Write(c, sent[c], left[c], Chunk(c, 3, 0, sent[c], Portion(left[c])))
  /\ UNCHANGED <<messages, resizes, aborts, tx, readerVars, pipe, received>>

\* The peer announces another size of chunks; not one that a message it has
\* begun would fit into (the reader would not look at the stored bytes).
Resize(size) ==
  /\ resizes < MaxResizes /\ size # tx
  /\ \A c \in Cids : left[c] > 0 => sent[c].len > size
  /\ resizes' = resizes + 1
  /\ tx' = size /\ Put([kind |-> "resize", size |-> size])
  /\ UNCHANGED <<messages, aborts, sent, left, readerVars, pipe, received>>

\* The peer abandons a message.
Abort(c) ==
  /\ aborts < MaxAborts /\ left[c] > 0
  /\ aborts' = aborts + 1
  /\ left' = [left EXCEPT ![c] = 0]
  /\ Put([kind |-> "abort", cid |-> c])
  /\ Channel!Abandon(c)
  /\ UNCHANGED <<messages, resizes, tx, sent, readerVars>>

Peer ==
  \/ \E c \in Cids, m \in Msg : Absolute(c, m) \/ Relative(c, m)
  \/ \E size \in Sizes : Resize(size)
  \/ \E c \in Cids : Abort(c)

-----------------------------------------------------------------------------
(* The reader.                                                             *)

\* readHeaderImpl() reads an extended timestamp.
ReadsExtended(k) == (IF k.type = 3 THEN prev[k.cid].delta ELSE k.field) >= Full

\* Mutant: a full header leaves timestampDelta alone.
LastDelta(k) == prev[k.cid].delta

AfterFull(k) == 0

\* readHeaderImpl(): the time from the last message, the length, and the time.
Delta(k) ==
  CASE k.type = 0 -> AfterFull(k)
    [] k.type \in {1, 2} -> k.field
    [] k.type = 3 -> IF ReadsExtended(k) THEN Full ELSE prev[k.cid].delta

Length(k) == IF k.type \in {0, 1} THEN k.len ELSE prev[k.cid].len

Time(k) ==
  IF ReadsExtended(k) THEN k.ext
  ELSE IF k.type = 0 THEN k.field
  ELSE IF k.type = 1 /\ prev[k.cid] = NoHeader THEN k.field
  ELSE prev[k.cid].time + Delta(k)

\* readPacket(): a message that does not fit into a chunk is stored.
Stores(k) == Length(k) > rx

Expected(k) == IF Stores(k) THEN Smaller(Length(k) - stored[k.cid], rx) ELSE Length(k)

\* The reader reads just the bytes of the chunk.
InStep(k) ==
  /\ k.type \in {2, 3} => prev[k.cid] # NoHeader
  /\ ReadsExtended(k) <=> k.ext # 0
  /\ Expected(k) = k.bytes

\* Mutant: baos is not reset.
KeptStore(n) == n

\* getStoredPacketInputStream() empties the store.
TakenStore(n) == 0

\* A chunk is read; the message is handed on if it is complete.
ReadChunk(k) ==
  /\ prev' = [prev EXCEPT ![k.cid] = [time |-> Time(k), delta |-> Delta(k), len |-> Length(k)]]
  /\ LET c == k.cid
         n == IF Stores(k) THEN stored[c] + k.bytes ELSE k.bytes
     IN  IF n < Length(k)
           THEN stored' = [stored EXCEPT ![c] = n] /\ UNCHANGED <<pipe, received>>
           ELSE /\ stored' = [stored EXCEPT ![c] = IF Stores(k) THEN TakenStore(n) ELSE @]
                /\ received' = [cid |-> c, msg |-> [len |-> Length(k), time |-> Time(k)]]
                /\ pipe' = [pipe EXCEPT ![c] = SubSeq(@, 2, Len(@))]
  /\ UNCHANGED <<rx, lost>>

\* Mutant: ABORT is ignored, too.
StoreAfterAbort(c) == stored[c]

\* clearStoredChunks().
ClearedStore(c) == 0

Read ==
  /\ wire # <<>> /\ ~lost
  /\ wire' = Tail(wire)
  /\ LET k == Head(wire)
     IN  \/ k.kind = "chunk" /\ InStep(k) /\ ReadChunk(k)
         \/ /\ k.kind = "chunk" /\ ~InStep(k)
            /\ lost' = TRUE /\ UNCHANGED <<rx, prev, stored, pipe, received>>
         \/ /\ k.kind = "resize"
            /\ rx' = k.size /\ UNCHANGED <<prev, stored, lost, pipe, received>>
         \/ /\ k.kind = "abort"
            /\ stored' = [stored EXCEPT ![k.cid] = ClearedStore(k.cid)]
            /\ UNCHANGED <<rx, prev, lost, pipe, received>>
  /\ UNCHANGED writerVars

-----------------------------------------------------------------------------
Writer == \E c \in Cids : Continue(c)

Next == Peer \/ Writer \/ Read

Spec == Init /\ [][Next]_vars

\* A message that was begun is written, unless it is abandoned, and read.
FairSpec == Spec /\ (\A c \in Cids : WF_vars(Continue(c))) /\ WF_vars(Read)

-----------------------------------------------------------------------------
(* Properties.                                                             *)

\* Every variable has a value of its kind.
TypeOK ==
  /\ messages \in Nat /\ resizes \in Nat /\ aborts \in Nat
  /\ tx \in Sizes /\ rx \in Sizes
  /\ sent \in [Cids -> Msg \cup {NoHeader}] /\ left \in [Cids -> 0..MaxLen]
  /\ stored \in [Cids -> 0..MaxLen] /\ lost \in BOOLEAN

\* A chunk of type 3 is a "Relative 1-byte RTMP chunk header" (RtmpHeader.java:175)
\* and data: behind a full header the reader reads just that, and never takes part
\* of a message for a header, or of a header for data.
ReaderInStep == ~lost

\* The chunk layer keeps the promise of RtmpChannel: messages come out as they
\* went in, in order, whatever chunks of other streams, sizes and abandoned
\* messages come in between.
Implements == Channel!Spec

\* A message that is not abandoned is received: none stays incomplete in its
\* store.
AllArrive == \A c \in Cids : pipe[c] # <<>> ~> pipe[c] = <<>>
=============================================================================
