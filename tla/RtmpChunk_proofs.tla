-------------------------- MODULE RtmpChunk_proofs --------------------------
(* Theorems about RtmpChunk, for every value of its constants.            *)
EXTENDS RtmpChunk, SequenceTheorems, TLAPS

ChunkOK(k) ==
  /\ k.cid \in Cids /\ k.type \in 0..3 /\ k.len \in 1..MaxLen /\ k.bytes \in Nat

\* What may be on the wire.
PacketOK(k) ==
  \/ k.kind = "chunk" /\ ChunkOK(k)
  \/ k.kind = "resize" /\ k.size \in Sizes
  \/ k.kind = "abort" /\ k.cid \in Cids

\* The strengthening: packets have their kinds, prevHeaderRx has a length that
\* some message has, and what is left to write is left of a message.
Typed ==
  /\ TypeOK
  /\ \E S : wire \in Seq(S)
  /\ \A i \in DOMAIN wire : PacketOK(wire[i])
  /\ DOMAIN prev = Cids /\ \A c \in Cids : prev[c].len \in 0..MaxLen
  /\ \A c \in Cids : left[c] > 0 => sent[c] \in Msg

LEMMA PortionOf ==
  ASSUME tx \in Nat, NEW n \in Nat
  PROVE  Portion(n) \in 0..n
<1> DEFINE size == tx
<1>1. size \in Nat /\ Portion(n) = (IF n < size THEN n ELSE size)
  BY DEF Portion, Smaller
<1> HIDE DEF size
<1>2. CASE n < size
  BY <1>1, <1>2
<1>3. CASE ~(n < size)
  BY <1>1, <1>3
<1> QED
  BY <1>2, <1>3

\* A packet is put on the wire.
LEMMA PutTyped ==
  ASSUME NEW S, wire \in Seq(S), \A i \in DOMAIN wire : PacketOK(wire[i]),
         NEW k, PacketOK(k), Put(k)
  PROVE  (\E T : wire' \in Seq(T)) /\ \A i \in DOMAIN wire' : PacketOK(wire'[i])
<1>1. wire' = Append(wire, k)
  BY DEF Put
<1>2. wire \in Seq(S \cup {k}) /\ k \in S \cup {k}
  OBVIOUS
<1>3. wire' \in Seq(S \cup {k})
  BY <1>1, <1>2
<1>4. \A i \in DOMAIN wire' : (i \in DOMAIN wire /\ wire'[i] = wire[i]) \/ wire'[i] = k
  BY <1>1, <1>2
<1> QED
  BY <1>3, <1>4

\* Bytes of a message are written.
LEMMA WriteTyped ==
  ASSUME ChunkConstants, Typed, NEW c \in Cids, NEW m \in Msg, NEW n \in 1..MaxLen,
         NEW type \in 0..3, NEW field, NEW bytes \in 0..n,
         Write(c, m, n, Chunk(c, type, field, m, bytes))
  PROVE  /\ sent' \in [Cids -> Msg \cup {NoHeader}] /\ left' \in [Cids -> 0..MaxLen]
         /\ (\E T : wire' \in Seq(T)) /\ \A i \in DOMAIN wire' : PacketOK(wire'[i])
         /\ \A d \in Cids : left'[d] > 0 => sent'[d] \in Msg
<1> DEFINE k == Chunk(c, type, field, m, bytes)
<1>1. PacketOK(k) /\ k.bytes = bytes
  BY DEF Chunk, PacketOK, ChunkOK, Msg
<1>2. Put(k) /\ left' = [left EXCEPT ![c] = n - k.bytes] /\ sent' = [sent EXCEPT ![c] = m]
  BY DEF Write
<1> HIDE DEF k
<1>3. n - bytes \in 0..MaxLen
  BY DEF ChunkConstants
<1>4. sent' \in [Cids -> Msg \cup {NoHeader}] /\ left' \in [Cids -> 0..MaxLen]
  BY <1>1, <1>2, <1>3 DEF Typed, TypeOK
<1>5. \A d \in Cids : left'[d] > 0 => sent'[d] \in Msg
  BY <1>1, <1>2, <1>3 DEF Typed, TypeOK
<1> QED
  BY <1>1, <1>2, <1>4, <1>5, PutTyped DEF Typed

LEMMA PeerTyped ==
  ASSUME ChunkConstants, Typed, Peer
  PROVE  Typed'
<1>1. ASSUME NEW c \in Cids, NEW m \in Msg, Absolute(c, m) \/ Relative(c, m)
      PROVE  Typed'
  <2>1. m.len \in 1..MaxLen /\ tx \in Nat
    BY DEF Msg, Typed, TypeOK, ChunkConstants
  <2>2. messages' \in Nat /\ UNCHANGED <<resizes, aborts, tx, rx, prev, stored, lost>>
    BY <1>1 DEF Absolute, Relative, Fresh, readerVars, Typed, TypeOK
  <2>3. \E type \in 0..3, bytes \in 0..m.len : \E field :
          Write(c, m, m.len, Chunk(c, type, field, m, bytes))
    <3>1. CASE Absolute(c, m)
      <4>1. Portion(m.len) \in 0..m.len
        BY <2>1, PortionOf
      <4> QED
        BY <3>1, <4>1 DEF Absolute
    <3>2. CASE Relative(c, m)
      BY <2>1, <3>2 DEF Relative
    <3> QED
      BY <1>1, <3>1, <3>2
  <2>4. /\ sent' \in [Cids -> Msg \cup {NoHeader}] /\ left' \in [Cids -> 0..MaxLen]
        /\ (\E T : wire' \in Seq(T)) /\ \A i \in DOMAIN wire' : PacketOK(wire'[i])
        /\ \A d \in Cids : left'[d] > 0 => sent'[d] \in Msg
    BY <2>1, <2>3, WriteTyped
  <2> QED
    BY <2>2, <2>4 DEF Typed, TypeOK
<1>2. ASSUME NEW size \in Sizes, Resize(size) PROVE Typed'
  <2>1. PacketOK([kind |-> "resize", size |-> size])
    BY DEF PacketOK
  <2>2. (\E T : wire' \in Seq(T)) /\ \A i \in DOMAIN wire' : PacketOK(wire'[i])
    BY <1>2, <2>1, PutTyped DEF Resize, Typed
  <2> QED
    BY <1>2, <2>2 DEF Resize, readerVars, Typed, TypeOK
<1>3. ASSUME NEW c \in Cids, Abort(c) PROVE Typed'
  <2>1. PacketOK([kind |-> "abort", cid |-> c])
    BY DEF PacketOK
  <2>2. (\E T : wire' \in Seq(T)) /\ \A i \in DOMAIN wire' : PacketOK(wire'[i])
    BY <1>3, <2>1, PutTyped DEF Abort, Typed
  <2>3. left' \in [Cids -> 0..MaxLen] /\ \A d \in Cids : left'[d] > 0 => left[d] > 0
    BY <1>3 DEF Abort, Typed, TypeOK, ChunkConstants
  <2> QED
    BY <1>3, <2>2, <2>3 DEF Abort, readerVars, Typed, TypeOK
<1> QED
  BY <1>1, <1>2, <1>3 DEF Peer

LEMMA ContinueTyped ==
  ASSUME ChunkConstants, Typed, NEW c \in Cids, Continue(c)
  PROVE  Typed'
<1>1. left[c] \in 1..MaxLen /\ sent[c] \in Msg /\ tx \in Nat
  <2>1. left[c] > 0 /\ left[c] \in 0..MaxLen /\ tx \in Nat
    BY DEF Continue, Typed, TypeOK, ChunkConstants
  <2>2. sent[c] \in Msg
    BY <2>1 DEF Typed
  <2> QED
    BY <2>1, <2>2
<1>2. Portion(left[c]) \in 0..left[c]
  BY <1>1, PortionOf
<1>3. Write(c, sent[c], left[c], Chunk(c, 3, 0, sent[c], Portion(left[c])))
  BY DEF Continue
<1>4. /\ sent' \in [Cids -> Msg \cup {NoHeader}] /\ left' \in [Cids -> 0..MaxLen]
      /\ (\E T : wire' \in Seq(T)) /\ \A i \in DOMAIN wire' : PacketOK(wire'[i])
      /\ \A d \in Cids : left'[d] > 0 => sent'[d] \in Msg
  BY <1>1, <1>2, <1>3, WriteTyped
<1>5. UNCHANGED <<messages, resizes, aborts, tx, rx, prev, stored, lost>>
  BY DEF Continue, readerVars
<1> QED
  BY <1>4, <1>5 DEF Typed, TypeOK

LEMMA ReadTyped ==
  ASSUME ChunkConstants, Typed, Read
  PROVE  Typed'
<1> DEFINE k == Head(wire)
<1>1. PICK S : wire \in Seq(S)
  BY DEF Typed
<1>2. wire # <<>> /\ wire' = Tail(wire)
  BY DEF Read
<1>3. /\ PacketOK(k) /\ wire' \in Seq(S) /\ \A i \in DOMAIN wire' : PacketOK(wire'[i])
  BY <1>1, <1>2 DEF Typed
<1>4. /\ rx' \in Sizes /\ lost' \in BOOLEAN /\ stored' \in [Cids -> 0..MaxLen]
      /\ DOMAIN prev' = Cids /\ \A c \in Cids : prev'[c].len \in 0..MaxLen
  <2>1. CASE k.kind = "chunk" /\ InStep(k) /\ ReadChunk(k)
    <3>1. ChunkOK(k)
      BY <1>3, <2>1 DEF PacketOK
    <3> HIDE DEF k
    <3>2. Length(k) \in 0..MaxLen
      BY <3>1 DEF Length, ChunkOK, Typed, ChunkConstants
    <3>3. /\ prev' = [prev EXCEPT ![k.cid] = [time |-> Time(k), delta |-> Delta(k),
                                              len |-> Length(k)]]
          /\ rx' = rx /\ lost' = lost
      BY <2>1 DEF ReadChunk
    <3>4. DOMAIN prev' = Cids /\ \A c \in Cids : prev'[c].len \in 0..MaxLen
      BY <3>1, <3>2, <3>3 DEF Typed, ChunkOK
    <3>5. stored' \in [Cids -> 0..MaxLen]
      <4> DEFINE n == IF Stores(k) THEN stored[k.cid] + k.bytes ELSE k.bytes
      <4>1. n \in Nat
        BY <3>1 DEF ChunkOK, Typed, TypeOK, ChunkConstants
      <4>2. \/ n < Length(k) /\ stored' = [stored EXCEPT ![k.cid] = n]
            \/ stored' = [stored EXCEPT ![k.cid] = IF Stores(k) THEN 0 ELSE stored[k.cid]]
        BY <2>1 DEF ReadChunk, TakenStore
      <4> HIDE DEF n
      <4>3. CASE n < Length(k) /\ stored' = [stored EXCEPT ![k.cid] = n]
        <5>1. n \in 0..MaxLen
          BY <3>2, <4>1, <4>3 DEF ChunkConstants
        <5> QED
          BY <4>3, <5>1 DEF Typed, TypeOK
      <4>4. CASE stored' = [stored EXCEPT ![k.cid] = IF Stores(k) THEN 0 ELSE stored[k.cid]]
        <5>1. (IF Stores(k) THEN 0 ELSE stored[k.cid]) \in 0..MaxLen
          BY <3>1 DEF ChunkOK, Typed, TypeOK, ChunkConstants
        <5> QED
          BY <4>4, <5>1 DEF Typed, TypeOK
      <4> QED
        BY <4>2, <4>3, <4>4
    <3> QED
      BY <3>3, <3>4, <3>5 DEF Typed, TypeOK
  <2>2. CASE lost' = TRUE /\ UNCHANGED <<rx, prev, stored>>
    BY <2>2, Zenon DEF Typed, TypeOK
  <2>3. CASE k.kind = "resize" /\ rx' = k.size /\ UNCHANGED <<prev, stored, lost>>
    BY <1>3, <2>3 DEF PacketOK, Typed, TypeOK
  <2>4. CASE /\ stored' = [stored EXCEPT ![k.cid] = ClearedStore(k.cid)]
             /\ UNCHANGED <<rx, prev, lost>>
    <3> HIDE DEF k
    <3>1. stored \in [Cids -> 0..MaxLen] /\ 0 \in 0..MaxLen
      BY DEF Typed, TypeOK, ChunkConstants
    <3>2. stored' \in [Cids -> 0..MaxLen]
      BY <2>4, <3>1 DEF ClearedStore
    <3>3. rx' \in Sizes /\ lost' \in BOOLEAN
      BY <2>4, Zenon DEF Typed, TypeOK
    <3>4. DOMAIN prev' = Cids /\ \A c \in Cids : prev'[c].len \in 0..MaxLen
      BY <2>4 DEF Typed
    <3> QED
      BY <3>2, <3>3, <3>4
  <2> QED
    BY <2>1, <2>2, <2>3, <2>4 DEF Read
<1>5. UNCHANGED <<messages, resizes, aborts, tx, sent, left>>
  BY DEF Read, writerVars
<1> QED
  BY <1>3, <1>4, <1>5 DEF Typed, TypeOK

LEMMA InitTyped ==
  ASSUME ChunkConstants, Init
  PROVE  Typed
<1>1. wire \in Seq({}) /\ DOMAIN wire = {}
  BY DEF Init
<1>2. TypeOK
  <2>1. lost \in BOOLEAN
    BY Zenon DEF Init
  <2>2. /\ messages = 0 /\ resizes = 0 /\ aborts = 0 /\ tx = Default /\ rx = Default
        /\ sent = [c \in Cids |-> NoHeader] /\ left = [c \in Cids |-> 0]
        /\ stored = [c \in Cids |-> 0]
    BY DEF Init
  <2>3. Default \in Sizes /\ 0 \in 0..MaxLen /\ 0 \in Nat
    BY ChunkConstants DEF ChunkConstants
  <2>4. /\ sent \in [Cids -> Msg \cup {NoHeader}] /\ left \in [Cids -> 0..MaxLen]
        /\ stored \in [Cids -> 0..MaxLen]
    BY <2>2, <2>3
  <2> QED
    BY <2>1, <2>2, <2>3, <2>4, Zenon DEF TypeOK
<1>3. DOMAIN prev = Cids /\ \A c \in Cids : prev[c].len \in 0..MaxLen /\ left[c] = 0
  BY ChunkConstants DEF Init, NoHeader, ChunkConstants
<1> QED
  BY <1>1, <1>2, <1>3 DEF Typed

LEMMA NextTyped ==
  ASSUME ChunkConstants, Typed, [Next]_vars
  PROVE  Typed'
<1>1. CASE Next
  BY <1>1, PeerTyped, ContinueTyped, ReadTyped DEF Next, Writer
<1>2. CASE UNCHANGED vars
  BY <1>2 DEF vars, writerVars, readerVars, Typed, TypeOK
<1> QED
  BY <1>1, <1>2

\* TypeOK is an invariant: whatever a peer sends of the kinds modelled, and even
\* when the reader is lost, ChunkStreamInfo never stores more than a message.
THEOREM TypeCorrect == Spec => []TypeOK
<1>1. Init => Typed
  BY ChunkConstants, InitTyped
<1>2. Typed /\ [Next]_vars => Typed'
  BY ChunkConstants, NextTyped
<1>3. Typed => TypeOK
  BY DEF Typed
<1> QED
  BY <1>1, <1>2, <1>3, PTL DEF Spec
-----------------------------------------------------------------------------
(* What the reader will have read.                                         *)

\* The reader as it will be when it has read a part of the wire; "done" counts
\* the messages of each chunk stream that it will have received by then.
Header == [time : Int, delta : Int, len : Nat]
View == [rx : Sizes, prev : [Cids -> Header], stored : [Cids -> Nat], done : [Cids -> Nat]]

\* The reader's operators, of a header h that was read last, of r and s bytes
\* for rx and stored.
ExtendedIn(h, k) == (IF k.type = 3 THEN h.delta ELSE k.field) >= Full

DeltaIn(h, k) ==
  CASE k.type = 0 -> 0
    [] k.type \in {1, 2} -> k.field
    [] k.type = 3 -> IF ExtendedIn(h, k) THEN Full ELSE h.delta

LengthIn(h, k) == IF k.type \in {0, 1} THEN k.len ELSE h.len

TimeIn(h, k) ==
  IF ExtendedIn(h, k) THEN k.ext
  ELSE IF k.type = 0 THEN k.field
  ELSE IF k.type = 1 /\ h = NoHeader THEN k.field
  ELSE h.time + DeltaIn(h, k)

HeaderIn(h, k) == [time |-> TimeIn(h, k), delta |-> DeltaIn(h, k), len |-> LengthIn(h, k)]

ExpectedIn(r, s, n) == IF n > r THEN Smaller(n - s, r) ELSE n

InStepWith(r, h, s, k) ==
  /\ k.type \in {2, 3} => h # NoHeader
  /\ ExtendedIn(h, k) <=> k.ext # 0
  /\ ExpectedIn(r, s, LengthIn(h, k)) = k.bytes

\* The bytes of a message of n bytes that are there behind a chunk.
BytesThere(r, s, n, k) == IF n > r THEN s + k.bytes ELSE k.bytes

\* A chunk of c takes the reader from v to w, in step; p is the pipe.
Partly(p, c, v, k, w, n) ==
  /\ BytesThere(v.rx, v.stored[c], n, k) < n
  /\ w.stored = [v.stored EXCEPT ![c] = BytesThere(v.rx, v.stored[c], n, k)]
  /\ w.done = v.done

Fully(p, c, v, k, w, n) ==
  /\ ~(BytesThere(v.rx, v.stored[c], n, k) < n)
  /\ w.stored = [v.stored EXCEPT ![c] = IF n > v.rx THEN 0 ELSE v.stored[c]]
  /\ w.done = [v.done EXCEPT ![c] = v.done[c] + 1]
  /\ w.done[c] \in 1..Len(p[c])
  /\ p[c][w.done[c]] = [len |-> n, time |-> TimeIn(v.prev[c], k)]

ChunkRead(p, c, v, k, w) ==
  /\ InStepWith(v.rx, v.prev[c], v.stored[c], k)
  /\ w.rx = v.rx
  /\ w.prev = [v.prev EXCEPT ![c] = HeaderIn(v.prev[c], k)]
  /\ \/ Partly(p, c, v, k, w, LengthIn(v.prev[c], k))
     \/ Fully(p, c, v, k, w, LengthIn(v.prev[c], k))

Follows(p, v, k, w) ==
  \/ k.kind = "chunk" /\ k.cid \in Cids /\ ChunkRead(p, k.cid, v, k, w)
  \/ /\ k.kind = "resize"
     /\ w.rx = k.size /\ w.prev = v.prev /\ w.stored = v.stored /\ w.done = v.done
  \/ /\ k.kind = "abort" /\ k.cid \in Cids
     /\ w.stored = [v.stored EXCEPT ![k.cid] = 0]
     /\ w.rx = v.rx /\ w.prev = v.prev /\ w.done = v.done

\* At the end of the wire, the reader has caught up with the writer.
CaughtUp(c, v) ==
  IF left[c] > 0
    THEN /\ sent[c].len > tx /\ sent[c].time < Full
         /\ v.prev[c] = [time |-> sent[c].time, delta |-> 0, len |-> sent[c].len]
         /\ v.stored[c] = sent[c].len - left[c]
         /\ Len(pipe[c]) = v.done[c] + 1 /\ pipe[c][Len(pipe[c])] = sent[c]
    ELSE /\ sent[c] # NoHeader =>
              v.prev[c] # NoHeader /\ v.prev[c].time = sent[c].time /\ v.prev[c].len = sent[c].len
         /\ v.stored[c] = 0
         /\ Len(pipe[c]) = v.done[c]

Caught(v) == v.rx = tx /\ \A c \in Cids : CaughtUp(c, v)

Now == [rx |-> rx, prev |-> prev, stored |-> stored, done |-> [c \in Cids |-> 0]]

DoneGrows(v, w) == \A c \in Cids : v.done[c] <= w.done[c]

\* R foresees the reader: from the present, over each packet of the wire, to
\* where it has caught up.
Foresees(R) ==
  /\ R \in [0..Len(wire) -> View]
  /\ R[0] = Now
  /\ \A i \in 1..Len(wire) : Follows(pipe, R[i - 1], wire[i], R[i])
  /\ \A i, j \in 0..Len(wire) : i <= j => DoneGrows(R[i], R[j])
  /\ Caught(R[Len(wire)])

\* The inductive invariant.
InTouch ==
  /\ Typed /\ pipe \in [Cids -> Seq(Msg)] /\ ~lost
  /\ \E R : Foresees(R)

\* The operators of a view are those of the reader.
LEMMA SameReader ==
  ASSUME NEW k
  PROVE  /\ InStep(k) <=> InStepWith(rx, prev[k.cid], stored[k.cid], k)
         /\ Time(k) = TimeIn(prev[k.cid], k) /\ Delta(k) = DeltaIn(prev[k.cid], k)
         /\ Length(k) = LengthIn(prev[k.cid], k) /\ Stores(k) = (Length(k) > rx)
BY Zenon DEF InStep, InStepWith, Expected, ExpectedIn, Stores, Time, TimeIn, Delta, DeltaIn, Length,
   LengthIn, ReadsExtended, ExtendedIn, AfterFull

\* Views that are d messages of each chunk stream nearer.
Nearer(v, d) ==
  [rx |-> v.rx, prev |-> v.prev, stored |-> v.stored, done |-> [c \in Cids |-> v.done[c] - d[c]]]

\* q is what p has behind the first d messages.
Behind(q, p, d) ==
  \A c \in Cids : /\ Len(q[c]) = Len(p[c]) - d[c]
                  /\ \A i \in 1..Len(q[c]) : q[c][i] = p[c][i + d[c]]

\* The same steps lead over the wire when the first messages were received.
LEMMA FollowsBehind ==
  ASSUME NEW p \in [Cids -> Seq(Msg)], NEW q \in [Cids -> Seq(Msg)], NEW d \in [Cids -> Nat],
         Behind(q, p, d), NEW v \in View, NEW w \in View, NEW k,
         \A c \in Cids : d[c] <= v.done[c], Follows(p, v, k, w)
  PROVE  Nearer(v, d) \in View /\ Follows(q, Nearer(v, d), k, Nearer(w, d))
<1> DEFINE x == Nearer(v, d)
           y == Nearer(w, d)
<1>1. /\ x.rx = v.rx /\ x.prev = v.prev /\ x.stored = v.stored
      /\ x.done = [c \in Cids |-> v.done[c] - d[c]]
      /\ y.rx = w.rx /\ y.prev = w.prev /\ y.stored = w.stored
      /\ y.done = [c \in Cids |-> w.done[c] - d[c]]
  BY DEF Nearer
<1>2. x \in View
  BY DEF View, Nearer
<1>3. CASE k.kind = "chunk" /\ k.cid \in Cids /\ ChunkRead(p, k.cid, v, k, w)
  <2> DEFINE c == k.cid
             n == LengthIn(v.prev[c], k)
  <2>1. c \in Cids /\ ChunkRead(p, c, v, k, w)
    BY <1>3
  <2> HIDE DEF x, y, c
  <2>2. /\ InStepWith(x.rx, x.prev[c], x.stored[c], k) /\ y.rx = x.rx
        /\ y.prev = [x.prev EXCEPT ![c] = HeaderIn(x.prev[c], k)]
        /\ n = LengthIn(x.prev[c], k)
    BY <1>1, <2>1, Zenon DEF ChunkRead
  <2>3. ASSUME Partly(p, c, v, k, w, n) PROVE Partly(q, c, x, k, y, n)
    <3> HIDE DEF n
    <3> QED
      BY <1>1, <2>3, Zenon DEF Partly
  <2>4. ASSUME Fully(p, c, v, k, w, n) PROVE Fully(q, c, x, k, y, n)
    <3> HIDE DEF n
    <3>1. /\ ~(BytesThere(x.rx, x.stored[c], n, k) < n)
          /\ y.stored = [x.stored EXCEPT ![c] = IF n > x.rx THEN 0 ELSE x.stored[c]]
      BY <1>1, <2>4, Zenon DEF Fully
    <3>2. /\ w.done = [v.done EXCEPT ![c] = v.done[c] + 1]
          /\ w.done[c] \in 1..Len(p[c])
          /\ p[c][w.done[c]] = [len |-> n, time |-> TimeIn(v.prev[c], k)]
      BY <2>4 DEF Fully
    <3>3. v.done \in [Cids -> Nat] /\ w.done[c] = v.done[c] + 1
      BY <2>1, <3>2 DEF View
    <3>4. y.done = [x.done EXCEPT ![c] = x.done[c] + 1]
      <4>1. DOMAIN y.done = Cids /\ DOMAIN x.done = Cids
        BY <1>1
      <4>2. \A e \in Cids : y.done[e] = IF e = c THEN x.done[c] + 1 ELSE x.done[e]
        <5>1. \A e \in Cids : w.done[e] = IF e = c THEN v.done[c] + 1 ELSE v.done[e]
          BY <2>1, <3>2, <3>3
        <5>2. ASSUME NEW e \in Cids, e # c PROVE y.done[e] = x.done[e]
          BY <1>1, <5>1, <5>2
        <5>3. v.done[c] \in Int /\ d[c] \in Int /\ w.done[c] = v.done[c] + 1
          BY <2>1, <3>3
        <5>4. y.done[c] = w.done[c] - d[c] /\ x.done[c] = v.done[c] - d[c]
          BY <1>1, <2>1
        <5>5. y.done[c] = x.done[c] + 1
          BY <5>3, <5>4
        <5> QED
          BY <5>2, <5>5
      <4>3. y.done = [e \in Cids |-> y.done[e]] /\ x.done = [e \in Cids |-> x.done[e]]
        BY <1>1
      <4> HIDE DEF x, y
      <4> QED
        BY <2>1, <4>1, <4>2, <4>3
    <3>5. y.done[c] \in 1..Len(q[c])
      BY <1>1, <2>1, <3>2, <3>3 DEF Behind
    <3>6. q[c][y.done[c]] = p[c][w.done[c]]
      <4>1. y.done[c] + d[c] = w.done[c]
        BY <1>1, <2>1, <3>3
      <4> QED
        BY <2>1, <3>5, <4>1 DEF Behind
    <3> QED
      BY <1>1, <3>1, <3>2, <3>4, <3>5, <3>6, Zenon DEF Fully
  <2>5. ChunkRead(q, c, x, k, y)
    BY <1>1, <2>1, <2>2, <2>3, <2>4, Zenon DEF ChunkRead
  <2> QED
    BY <1>2, <1>3, <2>5 DEF Follows, c, x, y
<1>4. CASE ~(k.kind = "chunk" /\ k.cid \in Cids /\ ChunkRead(p, k.cid, v, k, w))
  <2> HIDE DEF x, y
  <2> QED
    BY <1>1, <1>2, <1>4, Zenon DEF Follows, x, y
<1> QED
  BY <1>3, <1>4

\* And when later messages were begun or abandoned.
Agree(p, q, w) ==
  \A c \in Cids : \A i \in 1..w.done[c] :
    i \in 1..Len(p[c]) => i \in 1..Len(q[c]) /\ q[c][i] = p[c][i]

LEMMA FollowsAgree ==
  ASSUME NEW p, NEW q, NEW v \in View, NEW w \in View, NEW k, Follows(p, v, k, w),
         Agree(p, q, w)
  PROVE  Follows(q, v, k, w)
<1>1. ASSUME NEW c \in Cids, NEW n, Fully(p, c, v, k, w, n) PROVE Fully(q, c, v, k, w, n)
  <2>1. w.done[c] \in 1..Len(p[c]) /\ w.done \in [Cids -> Nat]
    BY <1>1 DEF Fully, View
  <2>2. w.done[c] \in 1..w.done[c]
    <3>1. w.done[c] \in Nat /\ w.done[c] >= 1
      BY <2>1
    <3> QED
      BY <3>1
  <2>3. w.done[c] \in 1..Len(q[c]) /\ q[c][w.done[c]] = p[c][w.done[c]]
    BY <2>1, <2>2 DEF Agree
  <2> QED
    BY <1>1, <2>3, Zenon DEF Fully
<1>2. ASSUME k.cid \in Cids, ChunkRead(p, k.cid, v, k, w) PROVE ChunkRead(q, k.cid, v, k, w)
  BY <1>1, <1>2, Zenon DEF ChunkRead, Partly
<1> QED
  BY <1>2, Zenon DEF Follows

\* What is foreseen of the first packet is what Read does: the reader is not
\* lost, and the message that it receives is the first of the pipe.
LEMMA FirstView ==
  ASSUME Typed, pipe \in [Cids -> Seq(Msg)], ~lost, Read,
         NEW w \in View, Follows(pipe, Now, Head(wire), w)
  PROVE  /\ rx' = w.rx /\ prev' = w.prev /\ stored' = w.stored /\ ~lost'
         /\ pipe' \in [Cids -> Seq(Msg)] /\ Behind(pipe', pipe, w.done)
         /\ Channel!Next \/ UNCHANGED <<pipe, received>>
<1> DEFINE k == Head(wire)
<1>1. /\ Now.rx = rx /\ Now.prev = prev /\ Now.stored = stored
      /\ Now.done = [c \in Cids |-> 0]
  BY DEF Now
<1>2. ASSUME w.done = Now.done, UNCHANGED <<pipe, received>>
      PROVE  /\ pipe' \in [Cids -> Seq(Msg)] /\ Behind(pipe', pipe, w.done)
             /\ Channel!Next \/ UNCHANGED <<pipe, received>>
  <2>1. \A c \in Cids : w.done[c] = 0 /\ pipe[c] \in Seq(Msg) /\ pipe' = pipe
    BY <1>1, <1>2
  <2> QED
    BY <1>2, <2>1 DEF Behind
<1>3. CASE k.kind = "chunk"
  <2> DEFINE c == k.cid
  <2>1. c \in Cids /\ ChunkRead(pipe, c, Now, k, w)
    BY <1>3 DEF Follows
  <2> HIDE DEF k
  <2>2. InStep(k)
    BY <1>1, <2>1, SameReader, Zenon DEF ChunkRead
  <2>3. ReadChunk(k)
    <3> USE DEF k
    <3> QED
      BY <1>3, <2>2, Zenon DEF Read
  <2> DEFINE n == LengthIn(prev[c], k)
             b == BytesThere(rx, stored[c], n, k)
  <2>4. /\ w.rx = rx /\ w.prev = [prev EXCEPT ![c] = HeaderIn(prev[c], k)]
        /\ Partly(pipe, c, Now, k, w, n) \/ Fully(pipe, c, Now, k, w, n)
    BY <1>1, <2>1, Zenon DEF ChunkRead
  <2>5. /\ Length(k) = n /\ Time(k) = TimeIn(prev[c], k) /\ Delta(k) = DeltaIn(prev[c], k)
        /\ Stores(k) = (n > rx)
    BY SameReader, Zenon
  <2>6. (IF Stores(k) THEN stored[c] + k.bytes ELSE k.bytes) = b
    BY <2>5, Zenon DEF BytesThere
  <2>7. /\ prev' = [prev EXCEPT ![c] = HeaderIn(prev[c], k)] /\ rx' = rx /\ lost' = lost
        /\ IF b < n
             THEN stored' = [stored EXCEPT ![c] = b] /\ UNCHANGED <<pipe, received>>
             ELSE /\ stored' = [stored EXCEPT ![c] = IF n > rx THEN 0 ELSE stored[c]]
                  /\ received' = [cid |-> c, msg |-> [len |-> n, time |-> TimeIn(prev[c], k)]]
                  /\ pipe' = [pipe EXCEPT ![c] = SubSeq(pipe[c], 2, Len(pipe[c]))]
    BY <2>3, <2>5, <2>6, Zenon DEF ReadChunk, HeaderIn, TakenStore
  <2> HIDE DEF c
  <2>8. CASE b < n
    <3>1. w.done = Now.done /\ w.stored = stored' /\ UNCHANGED <<pipe, received>>
      BY <1>1, <2>4, <2>7, <2>8, Zenon DEF Partly, Fully
    <3> QED
      BY <1>2, <2>4, <2>7, <3>1, Zenon
  <2>9. CASE ~(b < n)
    <3>1. /\ w.stored = stored' /\ w.done = [Now.done EXCEPT ![c] = Now.done[c] + 1]
          /\ w.done[c] \in 1..Len(pipe[c])
          /\ pipe[c][w.done[c]] = [len |-> n, time |-> TimeIn(prev[c], k)]
      BY <1>1, <2>4, <2>7, <2>9, Zenon DEF Partly, Fully
    <3>2. \A d \in Cids : w.done[d] = IF d = c THEN 1 ELSE 0
      BY <1>1, <2>1, <3>1
    <3>3. pipe[c] \in Seq(Msg) /\ pipe[c] # <<>> /\ Head(pipe[c]) = pipe[c][1]
      BY <2>1, <3>1, <3>2
    <3>4. pipe' = [pipe EXCEPT ![c] = Tail(pipe[c])]
      BY <2>7, <2>9, <3>3, TailIsSubSeq
    <3>5. Channel!Receive(c)
      BY <2>1, <2>7, <2>9, <3>1, <3>2, <3>3, <3>4 DEF Channel!Receive
    <3>6. /\ Tail(pipe[c]) \in Seq(Msg) /\ Len(Tail(pipe[c])) = Len(pipe[c]) - 1
          /\ \A i \in 1..Len(Tail(pipe[c])) : Tail(pipe[c])[i] = pipe[c][i + 1]
      BY <3>3, HeadTailProperties
    <3>7. pipe' \in [Cids -> Seq(Msg)]
      BY <3>4, <3>6
    <3>8. ASSUME NEW d \in Cids
          PROVE  /\ Len(pipe'[d]) = Len(pipe[d]) - w.done[d]
                 /\ \A i \in 1..Len(pipe'[d]) : pipe'[d][i] = pipe[d][i + w.done[d]]
      <4>1. CASE d = c
        BY <2>1, <3>2, <3>4, <3>6, <4>1
      <4>2. CASE d # c
        <5>1. pipe'[d] = pipe[d] /\ w.done[d] = 0 /\ pipe[d] \in Seq(Msg)
          BY <3>2, <3>4, <4>2
        <5> QED
          BY <5>1
      <4> QED
        BY <4>1, <4>2
    <3>9. Channel!Next
      BY <2>1, <3>5, Zenon DEF Channel!Next
    <3> QED
      BY <2>4, <2>7, <3>1, <3>7, <3>8, <3>9, Zenon DEF Behind
  <2> QED
    BY <2>8, <2>9
<1>4. CASE k.kind = "resize"
  <2>1. w.rx = k.size /\ w.prev = prev /\ w.stored = stored /\ w.done = Now.done
    BY <1>1, <1>4 DEF Follows
  <2>2. rx' = k.size /\ UNCHANGED <<prev, stored, lost, pipe, received>>
    BY <1>4 DEF Read
  <2> QED
    BY <1>2, <2>1, <2>2
<1>5. CASE k.kind = "abort"
  <2>1. /\ w.rx = rx /\ w.prev = prev /\ w.done = Now.done
        /\ w.stored = [stored EXCEPT ![k.cid] = 0]
    BY <1>1, <1>5 DEF Follows
  <2>2. stored' = [stored EXCEPT ![k.cid] = 0] /\ UNCHANGED <<rx, prev, lost, pipe, received>>
    BY <1>5 DEF Read, ClearedStore
  <2> QED
    BY <1>2, <2>1, <2>2
<1> QED
  BY <1>3, <1>4, <1>5 DEF Follows

LEMMA ReadInTouch ==
  ASSUME ChunkConstants, InTouch, Read
  PROVE  InTouch' /\ (Channel!Next \/ UNCHANGED <<pipe, received>>)
<1>1. PICK S : wire \in Seq(S)
  BY DEF InTouch, Typed
<1>2. PICK R : Foresees(R)
  BY DEF InTouch
<1>3. /\ wire # <<>> /\ wire' = Tail(wire) /\ Len(wire) \in Nat /\ Len(wire) >= 1
      /\ Len(wire') = Len(wire) - 1 /\ Head(wire) = wire[1]
      /\ \A i \in 1..Len(wire') : wire'[i] = wire[i + 1]
  BY <1>1, HeadTailProperties DEF Read
<1>4. /\ R \in [0..Len(wire) -> View] /\ R[0] = Now /\ Follows(pipe, R[0], wire[1], R[1])
      /\ \A i \in 1..Len(wire) : Follows(pipe, R[i - 1], wire[i], R[i])
      /\ \A i, j \in 0..Len(wire) : i <= j => DoneGrows(R[i], R[j])
      /\ Caught(R[Len(wire)])
  BY <1>2, <1>3 DEF Foresees
<1> DEFINE d == R[1].done
<1>q. PICK Q : Q = [i \in 0..Len(wire') |-> Nearer(R[i + 1], d)]
  OBVIOUS
<1>e. PICK end : end = Len(wire')
  OBVIOUS
<1>5. R[1] \in View /\ d \in [Cids -> Nat]
  BY <1>3, <1>4 DEF View
<1>6. /\ rx' = R[1].rx /\ prev' = R[1].prev /\ stored' = R[1].stored /\ ~lost'
      /\ pipe \in [Cids -> Seq(Msg)] /\ pipe' \in [Cids -> Seq(Msg)]
      /\ Behind(pipe', pipe, d)
      /\ Channel!Next \/ UNCHANGED <<pipe, received>>
  BY <1>3, <1>4, <1>5, FirstView DEF InTouch
<1>7. \A i \in 0..Len(wire') :
        i + 1 \in 0..Len(wire) /\ R[i + 1] \in View /\ \A c \in Cids : d[c] <= R[i + 1].done[c]
  <2>1. ASSUME NEW i \in 0..Len(wire') PROVE i + 1 \in 0..Len(wire) /\ 1 \in 0..Len(wire) /\ 1 <= i + 1
    BY <1>3
  <2> QED
    BY <1>4, <2>1 DEF DoneGrows
<1>8. Q \in [0..Len(wire') -> View]
  <2>1. ASSUME NEW v \in View, \A c \in Cids : d[c] <= v.done[c] PROVE Nearer(v, d) \in View
    BY <1>5, <2>1 DEF View, Nearer
  <2> QED
    BY <1>7, <1>q, <2>1
<1>9. Q[0] = Now'
  <2>1. Q[0] = Nearer(R[1], d)
    BY <1>3, <1>q
  <2>2. \A c \in Cids : d[c] - d[c] = 0
    BY <1>5
  <2>3. [c \in Cids |-> d[c] - d[c]] = [c \in Cids |-> 0]
    BY <2>2
  <2> QED
    BY <1>6, <2>1, <2>3 DEF Nearer, Now
<1>10. ASSUME NEW i \in 1..Len(wire')
       PROVE  Follows(pipe', Q[i - 1], wire'[i], Q[i])
  <2>1. /\ i - 1 \in 0..Len(wire') /\ i \in 0..Len(wire') /\ i + 1 \in 1..Len(wire)
        /\ (i - 1) + 1 = i /\ (i + 1) - 1 = i
    BY <1>3
  <2>2. Follows(pipe, R[i], wire[i + 1], R[i + 1])
    BY <1>4, <2>1
  <2>3. Q[i - 1] = Nearer(R[i], d) /\ Q[i] = Nearer(R[i + 1], d) /\ wire'[i] = wire[i + 1]
    BY <1>3, <1>q, <2>1
  <2>4. R[i] \in View /\ R[i + 1] \in View /\ \A c \in Cids : d[c] <= R[i].done[c]
    BY <1>7, <2>1
  <2> HIDE DEF d
  <2>5. Follows(pipe', Nearer(R[i], d), wire[i + 1], Nearer(R[i + 1], d))
    BY <1>5, <1>6, <2>2, <2>4, FollowsBehind
  <2> QED
    BY <2>3, <2>5
<1>11. ASSUME NEW i \in 0..Len(wire'), NEW j \in 0..Len(wire'), i <= j
       PROVE  DoneGrows(Q[i], Q[j])
  <2>1. i + 1 \in 0..Len(wire) /\ j + 1 \in 0..Len(wire) /\ i + 1 <= j + 1
    BY <1>7, <1>11
  <2>2. ASSUME NEW c \in Cids PROVE Q[i].done[c] <= Q[j].done[c]
    <3>1. /\ R[i + 1].done[c] <= R[j + 1].done[c]
          /\ R[i + 1].done[c] \in Nat /\ R[j + 1].done[c] \in Nat /\ d[c] \in Nat
      BY <1>4, <1>5, <1>7, <2>1 DEF DoneGrows, View
    <3>2. Q[i].done[c] = R[i + 1].done[c] - d[c] /\ Q[j].done[c] = R[j + 1].done[c] - d[c]
      BY <1>q DEF Nearer
    <3> QED
      BY <3>1, <3>2
  <2> QED
    BY <2>2 DEF DoneGrows
<1>12. Caught(Q[end])'
  <2> DEFINE v == R[Len(wire)]
             w == Q[end]
  <2>1. /\ w = Nearer(v, d) /\ v \in View /\ Caught(v)
        /\ \A c \in Cids : d[c] <= v.done[c]
    <3>1. end \in 0..Len(wire') /\ end + 1 = Len(wire)
      BY <1>3, <1>e
    <3>2. Q[end] = Nearer(R[end + 1], d)
      BY <1>q, <3>1, Zenon
    <3>3. R[end + 1] \in View /\ \A c \in Cids : d[c] <= R[end + 1].done[c]
      BY <1>7, <3>1, Zenon
    <3> QED
      BY <1>4, <3>1, <3>2, <3>3, Zenon
  <2>2. w.rx = v.rx /\ w.prev = v.prev /\ w.stored = v.stored
        /\ w.done = [c \in Cids |-> v.done[c] - d[c]]
    BY <2>1 DEF Nearer
  <2>3. UNCHANGED <<tx, sent, left>>
    BY DEF Read, writerVars
  <2> HIDE DEF v, w
  <2>4. ASSUME NEW c \in Cids PROVE CaughtUp(c, w)'
    <3>1. /\ Len(pipe'[c]) = Len(pipe[c]) - d[c] /\ Len(pipe[c]) \in Nat
          /\ \A i \in 1..Len(pipe'[c]) : pipe'[c][i] = pipe[c][i + d[c]]
          /\ d[c] \in Nat /\ v.done[c] \in Nat /\ d[c] <= v.done[c]
          /\ Len(pipe'[c]) \in Nat /\ w.done[c] = v.done[c] - d[c]
      BY <1>5, <1>6, <2>1, <2>2 DEF Behind, View
    <3>2. CaughtUp(c, v)
      BY <2>1 DEF Caught
    <3> HIDE DEF d
    <3>3. CASE left[c] > 0
      <4>1. Len(pipe[c]) = v.done[c] + 1 /\ pipe[c][Len(pipe[c])] = sent[c]
        BY <3>2, <3>3 DEF CaughtUp
      <4>2. Len(pipe'[c]) = w.done[c] + 1 /\ Len(pipe'[c]) + d[c] = Len(pipe[c])
            /\ Len(pipe'[c]) \in 1..Len(pipe'[c])
        BY <3>1, <4>1, SMTT(30)
      <4>3. pipe'[c][Len(pipe'[c])] = sent[c]
        BY <3>1, <4>1, <4>2
      <4> QED
        BY <2>2, <2>3, <3>2, <3>3, <4>2, <4>3 DEF CaughtUp
    <3>4. CASE ~(left[c] > 0)
      <4>1. Len(pipe'[c]) = w.done[c]
        BY <3>1, <3>2, <3>4 DEF CaughtUp
      <4> QED
        BY <2>2, <2>3, <3>2, <3>4, <4>1 DEF CaughtUp
    <3> QED
      BY <3>3, <3>4
  <2>5. w.rx = tx'
    BY <2>1, <2>2, <2>3 DEF Caught
  <2> QED
    BY <2>4, <2>5, Zenon DEF Caught, w
<1>13. Foresees(Q)'
  <2> QED
    BY <1>8, <1>9, <1>10, <1>11, <1>12, <1>e DEF Foresees
<1>14. Typed'
  BY ReadTyped DEF InTouch
<1> QED
  <2> QED
    BY <1>6, <1>13, <1>14, Zenon DEF InTouch

\* A packet that is put on the wire is foreseen if the reader that has caught
\* up with the writer can follow.
LEMMA PutInTouch ==
  ASSUME InTouch, Typed', NEW k, wire' = Append(wire, k), UNCHANGED readerVars,
         pipe' \in [Cids -> Seq(Msg)],
         ASSUME NEW v \in View, Caught(v)
         PROVE  /\ Agree(pipe, pipe', v)
                /\ \E w \in View : Follows(pipe', v, k, w) /\ DoneGrows(v, w) /\ Caught(w)'
  PROVE  InTouch'
<1>1. PICK S : wire \in Seq(S)
  BY DEF InTouch, Typed
<1>2. PICK R : Foresees(R)
  BY DEF InTouch
<1>3. /\ Len(wire) \in Nat /\ Len(wire') = Len(wire) + 1 /\ wire'[Len(wire) + 1] = k
      /\ \A i \in 1..Len(wire) : wire'[i] = wire[i]
  <2>1. wire \in Seq(S \cup {k}) /\ k \in S \cup {k}
    BY <1>1
  <2> QED
    BY <2>1, AppendProperties
<1>4. /\ R \in [0..Len(wire) -> View] /\ R[0] = Now
      /\ \A i \in 1..Len(wire) : Follows(pipe, R[i - 1], wire[i], R[i])
      /\ \A i, j \in 0..Len(wire) : i <= j => DoneGrows(R[i], R[j])
      /\ Caught(R[Len(wire)])
  BY <1>2, Zenon DEF Foresees
<1>n. PICK n : n = Len(wire)
  OBVIOUS
<1>5. n \in Nat /\ R[n] \in View /\ Caught(R[n])
  BY <1>3, <1>4, <1>n
<1>6. PICK w \in View : Follows(pipe', R[n], k, w) /\ DoneGrows(R[n], w) /\ Caught(w)'
  BY <1>5
<1>q. PICK Q : Q = [i \in 0..(n + 1) |-> IF i = n + 1 THEN w ELSE R[i]]
  OBVIOUS
<1>7. \A i \in 0..n : Q[i] = R[i] /\ R[i] \in View
  BY <1>3, <1>4, <1>n, <1>q
<1>8. Q[n + 1] = w
  BY <1>5, <1>q
<1>9. Q \in [0..(n + 1) -> View]
  <2>1. \A i \in 0..(n + 1) : i \in 0..n \/ i = n + 1
    BY <1>5
  <2> QED
    BY <1>7, <1>8, <1>q, <2>1
<1>10. Q[0] = Now'
  <2>1. 0 \in 0..n
    BY <1>5
  <2> QED
    BY <1>4, <1>7, <2>1 DEF Now, readerVars
<1>11. ASSUME NEW i \in 1..(n + 1) PROVE Follows(pipe', Q[i - 1], wire'[i], Q[i])
  <2>1. CASE i = n + 1
    BY <1>3, <1>5, <1>6, <1>7, <1>8, <1>n, <2>1
  <2>2. CASE i # n + 1
    <3>1. i \in 1..n /\ i - 1 \in 0..n /\ i \in 0..n
      BY <1>5, <2>2
    <3>2. /\ Q[i - 1] = R[i - 1] /\ Q[i] = R[i] /\ wire'[i] = wire[i]
          /\ Q[i - 1] \in View /\ Q[i] \in View /\ Follows(pipe, Q[i - 1], wire[i], Q[i])
      BY <1>3, <1>4, <1>7, <1>n, <3>1
    <3>3. Agree(pipe, pipe', Q[i])
      <4>1. Agree(pipe, pipe', R[n]) /\ DoneGrows(R[i], R[n])
        BY <1>4, <1>5, <1>n, <3>1
      <4>2. \A c \in Cids : \A j \in 1..Q[i].done[c] : j \in 1..R[n].done[c]
        <5>1. \A c \in Cids : Q[i].done[c] \in Nat /\ R[n].done[c] \in Nat
          BY <1>5, <3>2 DEF View
        <5> QED
          BY <3>2, <4>1, <5>1 DEF DoneGrows
      <4> QED
        BY <4>1, <4>2, Zenon DEF Agree
    <3> QED
      BY <3>2, <3>3, FollowsAgree, Zenon
  <2> QED
    BY <2>1, <2>2
<1>12. ASSUME NEW i \in 0..(n + 1), NEW j \in 0..(n + 1), i <= j PROVE DoneGrows(Q[i], Q[j])
  <2>1. CASE j \in 0..n
    <3>1. i \in 0..n
      BY <1>5, <1>12, <2>1
    <3> QED
      BY <1>4, <1>7, <1>12, <1>n, <2>1, <3>1
  <2>2. CASE j = n + 1 /\ i \in 0..n
    <3>1. DoneGrows(R[i], R[n]) /\ Q[i] = R[i] /\ Q[j] = w /\ R[i] \in View
      BY <1>4, <1>5, <1>7, <1>8, <1>n, <2>2
    <3>2. \A c \in Cids : R[i].done[c] \in Nat /\ R[n].done[c] \in Nat /\ w.done[c] \in Nat
      BY <1>5, <3>1 DEF View
    <3> QED
      BY <1>6, <3>1, <3>2 DEF DoneGrows
  <2>3. CASE j = n + 1 /\ i = n + 1
    BY <1>8, <2>3 DEF DoneGrows, View
  <2> QED
    BY <1>5, <2>1, <2>2, <2>3
<1>13. Foresees(Q)'
  BY <1>3, <1>6, <1>8, <1>9, <1>10, <1>11, <1>12, <1>n DEF Foresees
<1> QED
  BY <1>13, Zenon DEF InTouch, readerVars

\* After a chunk of c with the header h, b bytes of its message are there.
Landed(c, h, b, v, w) ==
  /\ w.rx = v.rx /\ w.prev = [v.prev EXCEPT ![c] = h]
  /\ w.stored = [v.stored EXCEPT ![c] = IF b < h.len THEN b
                                        ELSE IF h.len > v.rx THEN 0 ELSE v.stored[c]]
  /\ w.done = [v.done EXCEPT ![c] = IF b < h.len THEN v.done[c] ELSE v.done[c] + 1]

\* A chunk takes the reader that has caught up to where it has caught up again.
LEMMA ChunkFollows ==
  ASSUME NEW p, NEW v \in View, NEW c \in Cids, NEW k, k.kind = "chunk", k.cid = c,
         NEW h \in Header, HeaderIn(v.prev[c], k) = h,
         InStepWith(v.rx, v.prev[c], v.stored[c], k),
         NEW b \in Nat, BytesThere(v.rx, v.stored[c], h.len, k) = b,
         b >= h.len => /\ v.done[c] + 1 \in 1..Len(p[c])
                       /\ p[c][v.done[c] + 1] = [len |-> h.len, time |-> h.time]
  PROVE  \E w \in View :
           Follows(p, v, k, w) /\ DoneGrows(v, w) /\ Landed(c, h, b, v, w)
<1>p. PICK prev1 : prev1 = [v.prev EXCEPT ![c] = h]
  OBVIOUS
<1>s. PICK stored1 : stored1 = [v.stored EXCEPT ![c] = IF b < h.len THEN b
                                               ELSE IF h.len > v.rx THEN 0 ELSE v.stored[c]]
  OBVIOUS
<1>d. PICK done1 : done1 = [v.done EXCEPT ![c] = IF b < h.len THEN v.done[c] ELSE v.done[c] + 1]
  OBVIOUS
<1>w. PICK w : w = [rx |-> v.rx, prev |-> prev1, stored |-> stored1, done |-> done1]
  OBVIOUS
<1>1. w.rx = v.rx /\ w.prev = prev1 /\ w.stored = stored1 /\ w.done = done1
  BY <1>w
<1>2. /\ v.rx \in Sizes /\ v.prev \in [Cids -> Header]
      /\ v.stored \in [Cids -> Nat] /\ v.done \in [Cids -> Nat] /\ h.len \in Nat
  BY DEF View, Header
<1>3. prev1 \in [Cids -> Header]
  BY <1>2, <1>p
<1>4. stored1 \in [Cids -> Nat]
  <2>1. (IF b < h.len THEN b ELSE IF h.len > v.rx THEN 0 ELSE v.stored[c]) \in Nat
    BY <1>2
  <2> QED
    BY <1>2, <1>s, <2>1
<1>5. done1 \in [Cids -> Nat] /\ \A e \in Cids : v.done[e] <= done1[e]
  BY <1>2, <1>d
<1>6. w \in View
  BY <1>2, <1>3, <1>4, <1>5, <1>w DEF View
<1>7. LengthIn(v.prev[c], k) = h.len /\ TimeIn(v.prev[c], k) = h.time
  BY DEF HeaderIn
<1>8. CASE b < h.len
  <2>1. v.done = done1
    BY <1>2, <1>8, <1>d
  <2>2. Partly(p, c, v, k, w, h.len)
    BY <1>1, <1>8, <1>s, <2>1, Zenon DEF Partly
  <2>3. Follows(p, v, k, w)
    BY <1>1, <1>7, <1>p, <2>2, Zenon DEF Follows, ChunkRead
  <2> QED
    BY <1>1, <1>5, <1>6, <1>p, <1>s, <1>d, <2>3, Zenon DEF DoneGrows, Landed
<1>9. CASE ~(b < h.len)
  <2>1. done1[c] = v.done[c] + 1 /\ done1 = [v.done EXCEPT ![c] = v.done[c] + 1]
    BY <1>2, <1>9, <1>d
  <2>2. stored1 = [v.stored EXCEPT ![c] = IF h.len > v.rx THEN 0 ELSE v.stored[c]]
    BY <1>9, <1>s
  <2>3. b >= h.len
    BY <1>2, <1>9
  <2>4. Fully(p, c, v, k, w, h.len)
    BY <1>1, <1>7, <1>9, <2>1, <2>2, <2>3, Zenon DEF Fully
  <2>5. Follows(p, v, k, w)
    BY <1>1, <1>7, <1>p, <2>4, Zenon DEF Follows, ChunkRead
  <2> QED
    BY <1>1, <1>5, <1>6, <1>p, <1>s, <1>d, <2>5, Zenon DEF DoneGrows, Landed
<1> QED
  BY <1>8, <1>9

\* A chunk of m, with n bytes of m left, is read as it is meant.
Readable(v, c, k, m, n) ==
  /\ InStepWith(v.rx, v.prev[c], v.stored[c], k)
  /\ \E delta \in Int :
       /\ HeaderIn(v.prev[c], k) = [time |-> m.time, delta |-> delta, len |-> m.len]
       /\ k.bytes < n => delta = 0
  /\ v.stored[c] = m.len - n

\* The pipe becomes q, with m behind the messages of c that are done.
Becomes(p, q, v, c, m) ==
  /\ Len(q[c]) = v.done[c] + 1 /\ q[c][v.done[c] + 1] = m
  /\ \A i \in 1..v.done[c] : i \in 1..Len(p[c]) => q[c][i] = p[c][i]

\* Bytes of m are written: n of its bytes were left, and k.bytes are in the chunk.
LEMMA WrittenInTouch ==
  ASSUME ChunkConstants, InTouch, Typed', NEW c \in Cids, NEW m \in Msg, NEW n \in 1..m.len,
         NEW k, k.kind = "chunk", k.cid = c, k.bytes \in 1..n, Write(c, m, n, k),
         UNCHANGED <<tx, readerVars>>,
         pipe' \in [Cids -> Seq(Msg)], \A d \in Cids : d # c => pipe'[d] = pipe[d],
         k.bytes < n => m.len > tx /\ m.time < Full,
         m.len > tx \/ (n = m.len /\ k.bytes = m.len),
         \A v \in View : Caught(v) => Readable(v, c, k, m, n) /\ Becomes(pipe, pipe', v, c, m)
  PROVE  InTouch'
<1>1. /\ wire' = Append(wire, k) /\ sent' = [sent EXCEPT ![c] = m]
      /\ left' = [left EXCEPT ![c] = n - k.bytes]
  BY DEF Write, Put
<1>2. PICK bytes \in 1..n : k.bytes = bytes /\ (bytes < n => m.len > tx /\ m.time < Full)
  OBVIOUS
<1>3. /\ m.len \in 1..MaxLen /\ m.time \in Nat /\ m = [len |-> m.len, time |-> m.time]
      /\ tx \in Nat /\ tx > 0 /\ MaxLen \in Nat
      /\ sent \in [Cids -> Msg \cup {NoHeader}] /\ left \in [Cids -> 0..MaxLen]
  <2>1. /\ tx \in Sizes /\ sent \in [Cids -> Msg \cup {NoHeader}]
        /\ left \in [Cids -> 0..MaxLen]
    BY Zenon DEF InTouch, Typed, TypeOK
  <2>2. m.len \in 1..MaxLen /\ m.time \in Nat /\ m = [len |-> m.len, time |-> m.time]
    BY DEF Msg, ChunkConstants
  <2> QED
    BY <2>1, <2>2 DEF ChunkConstants
<1>len. m.len \in Nat /\ m.len > 0 /\ m.time \in Nat
  BY <1>3
<1>4. ASSUME NEW v \in View, Caught(v)
      PROVE  /\ Agree(pipe, pipe', v)
             /\ \E w \in View : Follows(pipe', v, k, w) /\ DoneGrows(v, w) /\ Caught(w)'
  <2>1. PICK delta \in Int :
          /\ HeaderIn(v.prev[c], k) = [time |-> m.time, delta |-> delta, len |-> m.len]
          /\ bytes < n => delta = 0
    BY <1>2, <1>4 DEF Readable
  <2>2. /\ InStepWith(v.rx, v.prev[c], v.stored[c], k) /\ v.stored[c] = m.len - n
        /\ Len(pipe'[c]) = v.done[c] + 1 /\ pipe'[c][v.done[c] + 1] = m
        /\ \A i \in 1..v.done[c] : i \in 1..Len(pipe[c]) => pipe'[c][i] = pipe[c][i]
    BY <1>4 DEF Readable, Becomes
  <2>h. PICK h : h = [time |-> m.time, delta |-> delta, len |-> m.len]
    OBVIOUS
  <2>3. h \in Header /\ h.time = m.time /\ h.len = m.len /\ h.delta = delta
    BY <1>3, <2>h DEF Header
  <2>4. v.rx = tx /\ v.done \in [Cids -> Nat] /\ v.stored \in [Cids -> Nat]
        /\ v.prev \in [Cids -> Header]
    <3>1. v.rx = tx
      BY <1>4, Zenon DEF Caught
    <3>2. v \in View
      BY <1>4, Zenon
    <3> QED
      BY <3>1, <3>2, SMTT(30) DEF View
  <2>b. PICK b \in Nat : b = m.len - n + bytes
    BY <1>len, SMTT(30)
  <2>5. BytesThere(v.rx, v.stored[c], h.len, k) = b
    BY <1>2, <1>3, <2>2, <2>3, <2>4, <2>b, SMTT(30) DEF BytesThere
  <2>6. (b < h.len <=> bytes < n) /\ (bytes = n => b = m.len)
    BY <1>len, <2>3, <2>b, SMTT(30)
  <2>7. v.done[c] + 1 \in 1..Len(pipe'[c])
    BY <2>2, <2>4
  <2>8. PICK w \in View :
           Follows(pipe', v, k, w) /\ DoneGrows(v, w) /\ Landed(c, h, b, v, w)
    <3>1. pipe'[c][v.done[c] + 1] = [len |-> h.len, time |-> h.time]
      BY <1>3, <2>2, <2>3
    <3>2. HeaderIn(v.prev[c], k) = h
      BY <2>1, <2>h
    <3>3. b >= h.len => /\ v.done[c] + 1 \in 1..Len(pipe'[c])
                        /\ pipe'[c][v.done[c] + 1] = [len |-> h.len, time |-> h.time]
      BY <2>7, <3>1
    <3> QED
      BY <1>2, <2>2, <2>3, <2>5, <3>2, <3>3, ChunkFollows, Zenon
  <2>9. ASSUME NEW d \in Cids PROVE CaughtUp(d, w)'
    <3>1. CASE d # c
      <4>1. /\ w.prev[d] = v.prev[d] /\ w.stored[d] = v.stored[d] /\ w.done[d] = v.done[d]
            /\ sent'[d] = sent[d] /\ left'[d] = left[d] /\ pipe'[d] = pipe[d] /\ tx' = tx
        BY <1>1, <1>3, <2>4, <2>8, <3>1 DEF Landed
      <4>2. CaughtUp(d, v)
        BY <1>4 DEF Caught
      <4> QED
        BY <4>1, <4>2 DEF CaughtUp
    <3>2. CASE d = c /\ bytes < n
      <4>1. /\ w.prev[c] = h /\ w.stored[c] = b /\ w.done[c] = v.done[c]
            /\ sent'[c] = m /\ left'[c] = n - bytes /\ tx' = tx
        BY <1>1, <1>2, <1>3, <2>4, <2>6, <2>8, <3>2 DEF Landed
      <4>2. h = [time |-> m.time, delta |-> 0, len |-> m.len] /\ b = m.len - (n - bytes)
            /\ n - bytes > 0 /\ m.len > tx /\ m.time < Full
        BY <1>2, <1>3, <2>1, <2>b, <2>h, <3>2
      <4> QED
        BY <2>2, <3>2, <4>1, <4>2 DEF CaughtUp
    <3>3. CASE d = c /\ bytes = n
      <4>1. /\ w.prev[c] = h /\ w.stored[c] = IF m.len > tx THEN 0 ELSE v.stored[c]
        BY <1>3, <2>3, <2>4, <2>6, <2>8, <3>3 DEF Landed
      <4>2. w.stored[c] = 0
        BY <1>3, <2>2, <4>1
      <4>3. /\ w.done[c] = v.done[c] + 1
            /\ sent'[c] = m /\ left'[c] = 0 /\ tx' = tx
        BY <1>1, <1>2, <1>3, <2>4, <2>6, <2>8, <3>3 DEF Landed
      <4>4. h # NoHeader
        <5>1. h.len # 0
          BY <1>len, <2>3
        <5>2. NoHeader.len = 0
          BY DEF NoHeader
        <5> QED
          BY <5>1, <5>2, Zenon
      <4> QED
        BY <2>2, <2>3, <3>3, <4>1, <4>2, <4>3, <4>4, SMTT(30) DEF CaughtUp
    <3> QED
      BY <3>1, <3>2, <3>3
  <2>10. Agree(pipe, pipe', v)
    <3>1. ASSUME NEW d \in Cids, NEW i \in 1..v.done[d], i \in 1..Len(pipe[d])
          PROVE  i \in 1..Len(pipe'[d]) /\ pipe'[d][i] = pipe[d][i]
      <4>1. CASE d = c
        BY <2>2, <2>4, <3>1, <4>1
      <4>2. CASE d # c
        BY <3>1, <4>2
      <4> QED
        BY <4>1, <4>2
    <3> QED
      BY <3>1, Zenon DEF Agree
  <2>11. w.rx = tx'
    BY <2>4, <2>8 DEF Landed
  <2>12. Caught(w)'
    BY <2>9, <2>11, Zenon DEF Caught
  <2> QED
    BY <2>8, <2>10, <2>12
<1> QED
  BY <1>1, <1>4, PutInTouch

\* A message of c enters the pipe.
LEMMA BeginPipe ==
  ASSUME NEW c \in Cids, NEW m \in Msg, pipe \in [Cids -> Seq(Msg)], Channel!Begin(c, m)
  PROVE  /\ pipe' \in [Cids -> Seq(Msg)] /\ \A d \in Cids : d # c => pipe'[d] = pipe[d]
         /\ Len(pipe'[c]) = Len(pipe[c]) + 1 /\ pipe'[c][Len(pipe[c]) + 1] = m
         /\ \A i \in 1..Len(pipe[c]) : pipe'[c][i] = pipe[c][i]
         /\ Channel!Next
<1>1. pipe' = [pipe EXCEPT ![c] = Append(pipe[c], m)] /\ pipe[c] \in Seq(Msg)
  BY DEF Channel!Begin
<1>2. /\ Append(pipe[c], m) \in Seq(Msg) /\ Len(Append(pipe[c], m)) = Len(pipe[c]) + 1
      /\ Append(pipe[c], m)[Len(pipe[c]) + 1] = m
      /\ \A i \in 1..Len(pipe[c]) : Append(pipe[c], m)[i] = pipe[c][i]
  BY <1>1, AppendProperties
<1>3. Channel!Next
  BY Zenon DEF Channel!Next
<1> QED
  BY <1>1, <1>2, <1>3

\* What is known of a view that has caught up before a message begins.
LEMMA CaughtIdle ==
  ASSUME NEW v \in View, Caught(v), NEW c \in Cids, left[c] = 0
  PROVE  /\ v.stored[c] = 0 /\ v.rx = tx /\ Len(pipe[c]) = v.done[c]
         /\ sent[c] # NoHeader =>
              v.prev[c] # NoHeader /\ v.prev[c].time = sent[c].time /\ v.prev[c].len = sent[c].len
<1>1. ~(left[c] > 0)
  OBVIOUS
<1> QED
  BY <1>1 DEF Caught, CaughtUp

LEMMA AbsoluteInTouch ==
  ASSUME ChunkConstants, ~LongExtended, InTouch, Typed',
         NEW c \in Cids, NEW m \in Msg, Absolute(c, m)
  PROVE  InTouch' /\ Channel!Next
<1>1. /\ m.len \in Nat /\ m.len > 0 /\ m.time \in Nat /\ Full \in Nat /\ Full > 0
      /\ tx \in Nat /\ tx > 0
  <2>1. tx \in Sizes
    BY Zenon DEF InTouch, Typed, TypeOK
  <2>2. m.len \in 1..MaxLen /\ m.time \in Times
    BY DEF Msg
  <2>3. MaxLen \in Nat /\ m.time \in Nat /\ Full \in Nat /\ Full # 0 /\ tx \in Nat /\ tx # 0
    BY <2>1, <2>2 DEF ChunkConstants
  <2> QED
    BY <2>2, <2>3
<1>2. /\ left[c] = 0 /\ Channel!Begin(c, m) /\ UNCHANGED <<tx, readerVars>>
      /\ m.time >= Full => m.len <= tx
  BY DEF Absolute, Fresh
<1>b. PICK bytes : bytes = Portion(m.len)
  OBVIOUS
<1>3. /\ bytes \in 1..m.len /\ (bytes < m.len => m.len > tx)
      /\ bytes = (IF m.len > tx THEN tx ELSE m.len)
  BY <1>1, <1>b DEF Portion, Smaller
<1>k. PICK k : k = Chunk(c, 0, m.time, m, bytes)
  OBVIOUS
<1>0. k.kind = "chunk" /\ k.cid = c /\ k.bytes = bytes
  BY <1>k DEF Chunk
<1>4. Write(c, m, m.len, k)
  BY <1>b, <1>k DEF Absolute
<1>5. /\ pipe \in [Cids -> Seq(Msg)]
      /\ pipe' \in [Cids -> Seq(Msg)] /\ \A d \in Cids : d # c => pipe'[d] = pipe[d]
      /\ Len(pipe'[c]) = Len(pipe[c]) + 1 /\ pipe'[c][Len(pipe[c]) + 1] = m
      /\ \A i \in 1..Len(pipe[c]) : pipe'[c][i] = pipe[c][i]
      /\ Channel!Next
  BY <1>2, BeginPipe DEF InTouch
<1>6. ASSUME NEW v \in View, Caught(v)
      PROVE  /\ InStepWith(v.rx, v.prev[c], v.stored[c], k)
             /\ HeaderIn(v.prev[c], k) = [time |-> m.time, delta |-> 0, len |-> m.len]
             /\ v.stored[c] = 0 /\ Len(pipe[c]) = v.done[c]
  <2>1. v.stored[c] = 0 /\ v.rx = tx /\ Len(pipe[c]) = v.done[c]
    BY <1>2, <1>6, CaughtIdle
  <2>h. PICK h : h = v.prev[c]
    OBVIOUS
  <2>2. /\ k.type = 0 /\ k.len = m.len /\ k.bytes = bytes
        /\ k.field = (IF m.time < Full THEN m.time ELSE Full)
        /\ k.ext = (IF m.time >= Full THEN m.time ELSE 0)
    BY <1>k DEF Chunk, Smaller, Extended
  <2>3. LengthIn(h, k) = m.len /\ DeltaIn(h, k) = 0 /\ (ExtendedIn(h, k) <=> m.time >= Full)
    BY <1>1, <2>2 DEF LengthIn, DeltaIn, ExtendedIn
  <2>4. TimeIn(h, k) = m.time
    BY <1>1, <2>2, <2>3 DEF TimeIn
  <2>5. ExpectedIn(tx, 0, m.len) = bytes
    BY <1>1, <1>3 DEF ExpectedIn, Smaller
  <2>6. InStepWith(tx, h, 0, k)
    BY <1>1, <2>2, <2>3, <2>5 DEF InStepWith
  <2> QED
    BY <2>1, <2>3, <2>4, <2>6, <2>h DEF HeaderIn
<1>7. /\ m.len \in 1..m.len /\ k.bytes \in 1..m.len
      /\ k.bytes < m.len => m.len > tx /\ m.time < Full
      /\ m.len > tx \/ (m.len = m.len /\ k.bytes = m.len)
  BY <1>0, <1>1, <1>2, <1>3
<1>9. ASSUME NEW v \in View, Caught(v)
      PROVE  Readable(v, c, k, m, m.len) /\ Becomes(pipe, pipe', v, c, m)
  <2>1. /\ InStepWith(v.rx, v.prev[c], v.stored[c], k)
        /\ HeaderIn(v.prev[c], k) = [time |-> m.time, delta |-> 0, len |-> m.len]
        /\ v.stored[c] = 0 /\ Len(pipe[c]) = v.done[c]
    BY <1>6, <1>9
  <2>2. m.len - m.len = 0 /\ 0 \in Int
    BY <1>1
  <2>3. Readable(v, c, k, m, m.len)
    BY <2>1, <2>2, Zenon DEF Readable
  <2>4. Becomes(pipe, pipe', v, c, m)
    BY <1>5, <2>1, Zenon DEF Becomes
  <2> QED
    BY <2>3, <2>4
<1>10. InTouch'
  BY <1>0, <1>2, <1>4, <1>5, <1>7, <1>9, WrittenInTouch, ZenonT(30)
<1> QED
  BY <1>5, <1>10

LEMMA RelativeInTouch ==
  ASSUME ChunkConstants, InTouch, Typed', NEW c \in Cids, NEW m \in Msg, Relative(c, m)
  PROVE  InTouch' /\ Channel!Next
<1>1. /\ m.len \in Nat /\ m.len > 0 /\ m.time \in Nat /\ Full \in Nat /\ Full > 0
      /\ tx \in Nat /\ tx > 0
  <2>1. tx \in Sizes
    BY Zenon DEF InTouch, Typed, TypeOK
  <2>2. m.len \in 1..MaxLen /\ m.time \in Times
    BY DEF Msg
  <2>3. MaxLen \in Nat /\ m.time \in Nat /\ Full \in Nat /\ Full # 0 /\ tx \in Nat /\ tx # 0
    BY <2>1, <2>2 DEF ChunkConstants
  <2> QED
    BY <2>2, <2>3
<1>2. /\ left[c] = 0 /\ Channel!Begin(c, m) /\ UNCHANGED <<tx, readerVars>>
      /\ sent[c] # NoHeader /\ sent[c].time <= m.time /\ m.len <= tx /\ m.time < Full
  BY DEF Relative, Fresh
<1>3. sent[c].time \in Nat
  <2>1. sent \in [Cids -> Msg \cup {NoHeader}]
    BY Zenon DEF InTouch, Typed, TypeOK
  <2>2. sent[c] \in Msg
    BY <1>2, <2>1
  <2> QED
    BY <2>2 DEF Msg, ChunkConstants
<1>f. PICK field \in Nat : field = m.time - sent[c].time /\ field < Full
  BY <1>1, <1>2, <1>3
<1>4. PICK type \in {1, 2} : /\ type = 2 => m.len = sent[c].len
                             /\ Write(c, m, m.len, Chunk(c, type, field, m, m.len))
  BY <1>f DEF Relative
<1>k. PICK k : k = Chunk(c, type, field, m, m.len)
  OBVIOUS
<1>0. /\ k.kind = "chunk" /\ k.cid = c /\ k.bytes = m.len /\ k.type = type /\ k.len = m.len
      /\ k.field = field /\ k.ext = 0
  BY <1>1, <1>2, <1>f, <1>k DEF Chunk, Smaller, Extended
<1>5. /\ pipe \in [Cids -> Seq(Msg)]
      /\ pipe' \in [Cids -> Seq(Msg)] /\ \A d \in Cids : d # c => pipe'[d] = pipe[d]
      /\ Len(pipe'[c]) = Len(pipe[c]) + 1 /\ pipe'[c][Len(pipe[c]) + 1] = m
      /\ \A i \in 1..Len(pipe[c]) : pipe'[c][i] = pipe[c][i]
      /\ Channel!Next
  BY <1>2, BeginPipe DEF InTouch
<1>6. ASSUME NEW v \in View, Caught(v)
      PROVE  Readable(v, c, k, m, m.len) /\ Becomes(pipe, pipe', v, c, m)
  <2>1. v.stored[c] = 0 /\ v.rx = tx /\ Len(pipe[c]) = v.done[c]
    BY <1>2, <1>6, CaughtIdle
  <2>h. PICK h : h = v.prev[c]
    OBVIOUS
  <2>2. h # NoHeader /\ h.time = sent[c].time /\ h.len = sent[c].len
    BY <1>2, <1>6, <2>h, CaughtIdle
  <2>3. LengthIn(h, k) = m.len /\ DeltaIn(h, k) = field /\ ~ExtendedIn(h, k)
    BY <1>0, <1>1, <1>4, <1>f, <2>2 DEF LengthIn, DeltaIn, ExtendedIn
  <2>4. TimeIn(h, k) = m.time
    BY <1>0, <1>1, <1>3, <1>4, <1>f, <2>2, <2>3 DEF TimeIn
  <2>5. ExpectedIn(tx, 0, m.len) = m.len
    BY <1>1, <1>2 DEF ExpectedIn
  <2>6. InStepWith(tx, h, 0, k)
    BY <1>0, <2>2, <2>3, <2>5 DEF InStepWith
  <2>7. m.len - m.len = 0 /\ ~(m.len < m.len) /\ field \in Int
    BY <1>1
  <2>8. HeaderIn(h, k) = [time |-> m.time, delta |-> field, len |-> m.len]
    BY <2>3, <2>4 DEF HeaderIn
  <2>9. Readable(v, c, k, m, m.len)
    BY <1>0, <2>1, <2>6, <2>7, <2>8, <2>h, Zenon DEF Readable
  <2>10. Becomes(pipe, pipe', v, c, m)
    BY <1>5, <2>1, Zenon DEF Becomes
  <2> QED
    BY <2>9, <2>10
<1>7. /\ m.len \in 1..m.len /\ k.bytes \in 1..m.len
      /\ k.bytes < m.len => m.len > tx /\ m.time < Full
      /\ m.len > tx \/ (m.len = m.len /\ k.bytes = m.len)
  BY <1>0, <1>1
<1>8. InTouch'
  BY <1>0, <1>2, <1>4, <1>5, <1>6, <1>7, <1>k, WrittenInTouch, ZenonT(30)
<1> QED
  BY <1>5, <1>8

LEMMA ContinueInTouch ==
  ASSUME ChunkConstants, InTouch, Typed', NEW c \in Cids, Continue(c)
  PROVE  InTouch' /\ UNCHANGED <<pipe, received>>
<1>m. PICK m : m = sent[c]
  OBVIOUS
<1>n. PICK n : n = left[c]
  OBVIOUS
<1>1. m \in Msg /\ n \in Nat /\ n > 0 /\ left[c] > 0
  <2>1. left[c] > 0 /\ left \in [Cids -> 0..MaxLen] /\ \A d \in Cids : left[d] > 0 => sent[d] \in Msg
    BY Zenon DEF Continue, InTouch, Typed, TypeOK
  <2>2. left[c] \in Nat
    BY <2>1 DEF ChunkConstants
  <2> QED
    BY <1>m, <1>n, <2>1, <2>2
<1>2. /\ m.len \in Nat /\ m.len > 0 /\ m.time \in Nat /\ Full \in Nat /\ Full > 0
      /\ tx \in Nat /\ tx > 0
  <2>1. tx \in Sizes
    BY Zenon DEF InTouch, Typed, TypeOK
  <2>2. m.len \in 1..MaxLen /\ m.time \in Times
    BY <1>1 DEF Msg
  <2>3. MaxLen \in Nat /\ m.time \in Nat /\ Full \in Nat /\ Full # 0 /\ tx \in Nat /\ tx # 0
    BY <2>1, <2>2 DEF ChunkConstants
  <2> QED
    BY <2>2, <2>3
<1>k. PICK k : k = Chunk(c, 3, 0, m, Portion(n))
  OBVIOUS
<1>3. Write(c, m, n, k) /\ UNCHANGED <<tx, readerVars, pipe, received>>
  BY <1>k, <1>m, <1>n DEF Continue
<1>4. /\ k.kind = "chunk" /\ k.cid = c /\ k.type = 3 /\ k.len = m.len
      /\ k.bytes = (IF n < tx THEN n ELSE tx)
      /\ k.ext = (IF m.time >= Full THEN m.time ELSE 0)
  BY <1>k DEF Chunk, Extended, Portion, Smaller
<1>5. ASSUME NEW v \in View, Caught(v)
      PROVE  /\ m.len > tx /\ m.time < Full /\ v.rx = tx
             /\ v.prev[c] = [time |-> m.time, delta |-> 0, len |-> m.len]
             /\ v.stored[c] = m.len - n /\ v.stored[c] \in Nat
             /\ Len(pipe[c]) = v.done[c] + 1 /\ pipe[c][Len(pipe[c])] = m
  BY <1>1, <1>5, <1>m, <1>n DEF Caught, CaughtUp, View
<1>6. \E v \in View : Caught(v)
  <2>1. PICK R : Foresees(R)
    BY DEF InTouch
  <2>2. \E S : wire \in Seq(S)
    BY DEF InTouch, Typed
  <2>3. Len(wire) \in 0..Len(wire)
    BY <2>2
  <2> QED
    BY <2>1, <2>3, Zenon DEF Foresees
<1>7. n \in 1..m.len /\ m.len > tx /\ m.time < Full /\ k.bytes \in 1..n
  BY <1>1, <1>2, <1>4, <1>5, <1>6
<1>8. ASSUME NEW v \in View, Caught(v)
      PROVE  Readable(v, c, k, m, n) /\ Becomes(pipe, pipe', v, c, m)
  <2>h. PICK h : h = v.prev[c]
    OBVIOUS
  <2>1. h = [time |-> m.time, delta |-> 0, len |-> m.len] /\ v.stored[c] = m.len - n /\ v.rx = tx
        /\ Len(pipe[c]) = v.done[c] + 1 /\ pipe[c][Len(pipe[c])] = m
    BY <1>5, <1>8, <2>h
  <2>2. h.time = m.time /\ h.delta = 0 /\ h.len = m.len /\ h # NoHeader
    BY <1>2, <2>1 DEF NoHeader
  <2>3. LengthIn(h, k) = m.len /\ DeltaIn(h, k) = 0 /\ ~ExtendedIn(h, k)
    BY <1>2, <1>4, <2>2 DEF LengthIn, DeltaIn, ExtendedIn
  <2>4. TimeIn(h, k) = m.time
    BY <1>2, <1>4, <2>2, <2>3 DEF TimeIn
  <2>5. ExpectedIn(tx, m.len - n, m.len) = k.bytes
    BY <1>1, <1>2, <1>4, <1>7 DEF ExpectedIn, Smaller
  <2>6. k.ext = 0
    BY <1>2, <1>4, <1>7
  <2>7. InStepWith(tx, h, m.len - n, k)
    BY <2>2, <2>3, <2>5, <2>6 DEF InStepWith
  <2>8. HeaderIn(h, k) = [time |-> m.time, delta |-> 0, len |-> m.len] /\ 0 \in Int
    BY <2>3, <2>4 DEF HeaderIn
  <2>9. Readable(v, c, k, m, n)
    BY <2>1, <2>7, <2>8, <2>h, Zenon DEF Readable
  <2>10. Becomes(pipe, pipe', v, c, m)
    BY <1>3, <2>1 DEF Becomes
  <2> QED
    BY <2>9, <2>10
<1>9. pipe' \in [Cids -> Seq(Msg)] /\ \A d \in Cids : d # c => pipe'[d] = pipe[d]
  BY <1>3 DEF InTouch
<1>10. InTouch'
  BY <1>1, <1>3, <1>4, <1>7, <1>8, <1>9, WrittenInTouch, Zenon
<1> QED
  BY <1>3, <1>10

LEMMA ResizeInTouch ==
  ASSUME ChunkConstants, InTouch, Typed', NEW size \in Sizes, Resize(size)
  PROVE  InTouch' /\ UNCHANGED <<pipe, received>>
<1>k. PICK k : k = [kind |-> "resize", size |-> size]
  OBVIOUS
<1>1. /\ wire' = Append(wire, k) /\ tx' = size /\ UNCHANGED readerVars
      /\ UNCHANGED <<sent, left, pipe, received>>
      /\ \A c \in Cids : left[c] > 0 => sent[c].len > size
  BY <1>k, Zenon DEF Resize, Put
<1>2. k.kind = "resize" /\ k.size = size
  BY <1>k
<1>3. ASSUME NEW v \in View, Caught(v)
      PROVE  /\ Agree(pipe, pipe', v)
             /\ \E w \in View : Follows(pipe', v, k, w) /\ DoneGrows(v, w) /\ Caught(w)'
  <2>w. PICK w : w = [rx |-> size, prev |-> v.prev, stored |-> v.stored, done |-> v.done]
    OBVIOUS
  <2>1. w \in View /\ w.rx = size /\ w.prev = v.prev /\ w.stored = v.stored /\ w.done = v.done
    BY <2>w DEF View
  <2>2. Follows(pipe', v, k, w)
    BY <1>2, <2>1, Zenon DEF Follows
  <2>3. DoneGrows(v, w)
    BY <2>1 DEF DoneGrows, View
  <2>4. ASSUME NEW c \in Cids PROVE CaughtUp(c, w)'
    <3>1. CaughtUp(c, v)
      BY <1>3 DEF Caught
    <3> QED
      BY <1>1, <2>1, <3>1 DEF CaughtUp
  <2>5. Caught(w)'
    BY <1>1, <2>1, <2>4, Zenon DEF Caught
  <2>6. Agree(pipe, pipe', v)
    BY <1>1, Zenon DEF Agree
  <2> QED
    BY <2>1, <2>2, <2>3, <2>5, <2>6
<1>4. pipe' \in [Cids -> Seq(Msg)]
  BY <1>1 DEF InTouch
<1>5. InTouch'
  BY <1>1, <1>3, <1>4, PutInTouch
<1> QED
  BY <1>1, <1>5

LEMMA AbortInTouch ==
  ASSUME ChunkConstants, InTouch, Typed', NEW c \in Cids, Abort(c)
  PROVE  InTouch' /\ Channel!Next
<1>k. PICK k : k = [kind |-> "abort", cid |-> c]
  OBVIOUS
<1>1. /\ wire' = Append(wire, k) /\ left[c] > 0 /\ left' = [left EXCEPT ![c] = 0]
      /\ Channel!Abandon(c) /\ UNCHANGED readerVars /\ UNCHANGED <<tx, sent>>
  BY <1>k, Zenon DEF Abort, Put
<1>2. k.kind = "abort" /\ k.cid = c
  BY <1>k
<1>3. left \in [Cids -> 0..MaxLen] /\ pipe \in [Cids -> Seq(Msg)]
  BY Zenon DEF InTouch, Typed, TypeOK
<1>4. /\ pipe' = [pipe EXCEPT ![c] = SubSeq(pipe[c], 1, Len(pipe[c]) - 1)]
      /\ pipe[c] \in Seq(Msg) /\ Len(pipe[c]) \in Nat /\ Len(pipe[c]) > 0
  BY <1>1, <1>3 DEF Channel!Abandon
<1>5. /\ SubSeq(pipe[c], 1, Len(pipe[c]) - 1) \in Seq(Msg)
      /\ Len(SubSeq(pipe[c], 1, Len(pipe[c]) - 1)) = Len(pipe[c]) - 1
      /\ \A i \in 1..Len(pipe[c]) - 1 : SubSeq(pipe[c], 1, Len(pipe[c]) - 1)[i] = pipe[c][i]
  BY <1>4
<1>6. /\ pipe' \in [Cids -> Seq(Msg)] /\ \A d \in Cids : d # c => pipe'[d] = pipe[d]
      /\ Len(pipe'[c]) = Len(pipe[c]) - 1
      /\ \A i \in 1..Len(pipe[c]) - 1 : pipe'[c][i] = pipe[c][i]
  BY <1>3, <1>4, <1>5
<1>7. ASSUME NEW v \in View, Caught(v)
      PROVE  /\ Agree(pipe, pipe', v)
             /\ \E w \in View : Follows(pipe', v, k, w) /\ DoneGrows(v, w) /\ Caught(w)'
  <2>s. PICK stored1 : stored1 = [v.stored EXCEPT ![c] = 0]
    OBVIOUS
  <2>w. PICK w : w = [rx |-> v.rx, prev |-> v.prev, stored |-> stored1, done |-> v.done]
    OBVIOUS
  <2>1. v.stored \in [Cids -> Nat] /\ v.done \in [Cids -> Nat]
    BY DEF View
  <2>2. /\ stored1 \in [Cids -> Nat] /\ stored1[c] = 0
        /\ \A d \in Cids : d # c => stored1[d] = v.stored[d]
    BY <2>1, <2>s
  <2>3. w \in View /\ w.rx = v.rx /\ w.prev = v.prev /\ w.stored = stored1 /\ w.done = v.done
    BY <2>2, <2>w DEF View
  <2>4. Follows(pipe', v, k, w)
    BY <1>2, <2>3, <2>s, Zenon DEF Follows
  <2>5. DoneGrows(v, w)
    BY <2>1, <2>3 DEF DoneGrows
  <2>6. /\ v.prev[c] = [time |-> sent[c].time, delta |-> 0, len |-> sent[c].len]
        /\ Len(pipe[c]) = v.done[c] + 1 /\ sent[c] \in Msg
    <3>1. CaughtUp(c, v) /\ sent[c] \in Msg
      BY <1>1, <1>7 DEF Caught, InTouch, Typed
    <3> QED
      BY <1>1, <3>1 DEF CaughtUp
  <2>7. ASSUME NEW d \in Cids PROVE CaughtUp(d, w)'
    <3>1. CASE d # c
      <4>1. CaughtUp(d, v) /\ left'[d] = left[d] /\ pipe'[d] = pipe[d] /\ sent' = sent /\ tx' = tx
        BY <1>1, <1>3, <1>6, <1>7, <3>1 DEF Caught
      <4> QED
        BY <2>2, <2>3, <3>1, <4>1 DEF CaughtUp
    <3>2. CASE d = c
      <4>1. left'[c] = 0 /\ Len(pipe'[c]) = w.done[c] /\ w.stored[c] = 0
        BY <1>1, <1>3, <1>6, <2>1, <2>2, <2>3, <2>6
      <4>2. w.prev[c] # NoHeader /\ w.prev[c].time = sent'[c].time /\ w.prev[c].len = sent'[c].len
        <5>1. sent[c].time \in Nat
          BY <2>6 DEF Msg, ChunkConstants
        <5>2. w.prev[c].time = sent[c].time /\ w.prev[c].len = sent[c].len /\ sent' = sent
          BY <1>1, <2>3, <2>6
        <5>3. NoHeader.time = -1
          BY DEF NoHeader
        <5>4. w.prev[c].time # NoHeader.time
          BY <5>1, <5>2, <5>3
        <5> QED
          BY <5>2, <5>4
      <4>3. ~(left'[c] > 0)
        BY <4>1
      <4> QED
        BY <3>2, <4>1, <4>2, <4>3, Zenon DEF CaughtUp
    <3> QED
      BY <3>1, <3>2
  <2>8. w.rx = tx'
    BY <1>1, <1>7, <2>3 DEF Caught
  <2>9. Caught(w)'
    BY <2>7, <2>8, Zenon DEF Caught
  <2>10. Agree(pipe, pipe', v)
    <3>1. ASSUME NEW d \in Cids, NEW i \in 1..v.done[d], i \in 1..Len(pipe[d])
          PROVE  i \in 1..Len(pipe'[d]) /\ pipe'[d][i] = pipe[d][i]
      <4>1. CASE d = c
        BY <1>4, <1>6, <2>1, <2>6, <4>1
      <4>2. CASE d # c
        BY <1>6, <3>1, <4>2
      <4> QED
        BY <4>1, <4>2
    <3> QED
      BY <3>1, Zenon DEF Agree
  <2> QED
    BY <2>3, <2>4, <2>5, <2>9, <2>10
<1>8. InTouch'
  BY <1>1, <1>6, <1>7, PutInTouch
<1>9. Channel!Next
  BY <1>1, Zenon DEF Channel!Next
<1> QED
  BY <1>8, <1>9

LEMMA InitInTouch ==
  ASSUME ChunkConstants, Init, Typed
  PROVE  InTouch
<1>1. /\ wire = <<>> /\ ~lost /\ pipe = [c \in Cids |-> <<>>]
      /\ tx = Default /\ rx = Default
      /\ sent = [c \in Cids |-> NoHeader] /\ left = [c \in Cids |-> 0]
      /\ prev = [c \in Cids |-> NoHeader] /\ stored = [c \in Cids |-> 0]
  BY DEF Init, Channel!Init
<1>2. Now \in View
  BY <1>1 DEF Now, View, Header, NoHeader, ChunkConstants
<1>3. Caught(Now)
  <2>1. ASSUME NEW c \in Cids PROVE CaughtUp(c, Now)
    BY <1>1 DEF CaughtUp, Now
  <2> QED
    BY <1>1, <2>1 DEF Caught, Now
<1>4. Len(wire) = 0 /\ 0..0 = {0} /\ 1..0 = {}
  BY <1>1
<1>5. DoneGrows(Now, Now)
  BY <1>2 DEF DoneGrows, View
<1>r. PICK R : R = [i \in {0} |-> Now]
  OBVIOUS
<1>6. R[0] = Now /\ R \in [{0} -> View]
  BY <1>2, <1>r
<1>7. Foresees(R)
  BY <1>3, <1>4, <1>5, <1>6 DEF Foresees
<1>8. pipe \in [Cids -> Seq(Msg)]
  BY <1>1
<1> QED
  BY <1>1, <1>7, <1>8, Zenon DEF InTouch

\* Every step keeps the reader in touch, and is a step of the channel or none.
LEMMA NextInTouch ==
  ASSUME ChunkConstants, ~LongExtended, InTouch, [Next]_vars
  PROVE  InTouch' /\ [Channel!Next]_<<pipe, received>>
<1>1. Typed'
  BY NextTyped DEF InTouch
<1>2. ASSUME NEW c \in Cids, NEW m \in Msg, Absolute(c, m) \/ Relative(c, m)
      PROVE  InTouch' /\ Channel!Next
  BY <1>1, <1>2, AbsoluteInTouch, RelativeInTouch
<1>3. ASSUME NEW size \in Sizes, Resize(size)
      PROVE  InTouch' /\ UNCHANGED <<pipe, received>>
  BY <1>1, <1>3, ResizeInTouch
<1>4. ASSUME NEW c \in Cids, Abort(c) PROVE InTouch' /\ Channel!Next
  BY <1>1, <1>4, AbortInTouch
<1>5. ASSUME NEW c \in Cids, Continue(c) PROVE InTouch' /\ UNCHANGED <<pipe, received>>
  BY <1>1, <1>5, ContinueInTouch
<1>6. ASSUME Read PROVE InTouch' /\ (Channel!Next \/ UNCHANGED <<pipe, received>>)
  BY <1>6, ReadInTouch
<1>7. ASSUME UNCHANGED vars PROVE InTouch' /\ UNCHANGED <<pipe, received>>
  <2>1. /\ UNCHANGED <<wire, pipe, received, lost, rx, prev, stored, tx, sent, left>>
    BY <1>7 DEF vars, writerVars, readerVars
  <2>2. PICK R : Foresees(R)
    BY DEF InTouch
  <2>3. \A v : Caught(v) => Caught(v)'
    BY <2>1 DEF Caught, CaughtUp
  <2>4. Foresees(R)'
    BY <2>1, <2>2, <2>3 DEF Foresees, Now
  <2> QED
    BY <1>1, <2>1, <2>4, Zenon DEF InTouch
<1> QED
  BY <1>2, <1>3, <1>4, <1>5, <1>6, <1>7 DEF Next, Peer, Writer

\* The reader never takes part of a message for a header: whatever the sizes of
\* chunks and of messages, the chunk streams that are mixed and the messages
\* that are abandoned, it reads just the bytes that RtmpPacket.writeTo() wrote,
\* if no message of several chunks has an extended time.
THEOREM InStepAlways ==
  ASSUME ~LongExtended
  PROVE  Spec => []ReaderInStep
<1>1. Init => InTouch
  BY ChunkConstants, InitTyped, InitInTouch
<1>2. InTouch /\ [Next]_vars => InTouch'
  BY ChunkConstants, NextInTouch
<1>3. InTouch => ReaderInStep
  BY DEF InTouch, ReaderInStep
<1> QED
  BY <1>1, <1>2, <1>3, PTL DEF Spec

\* The chunk layer implements the channel: readPacket() hands on the messages of
\* each chunk stream as they went in, in the order in which they were begun, under
\* the same assumption.
THEOREM ChunksImplement ==
  ASSUME ~LongExtended
  PROVE  Spec => Implements
<1>1. Init => InTouch /\ Channel!Init
  BY ChunkConstants, InitTyped, InitInTouch DEF Init
<1>2. InTouch /\ [Next]_vars => InTouch' /\ [Channel!Next]_<<pipe, received>>
  BY ChunkConstants, NextInTouch
<1> QED
  BY <1>1, <1>2, PTL DEF Spec, Implements, Channel!Spec
=============================================================================
