----------------------------- MODULE Mp4Tables -----------------------------
(***************************************************************************)
(* The sample tables that SrsMp4Muxer.java writes into the movie box of a  *)
(* track, as functions of the track's samples (createStsc(), createStco()  *)
(* and createStsz()), and a reader of these tables as ISO/IEC 14496-12     *)
(* defines them, to check that they say where the samples are.             *)
(*                                                                         *)
(* A sample is a record with at least an offset and a size. Neighbours in  *)
(* a track that are also neighbours in the file form a chunk.              *)
(***************************************************************************)
EXTENDS Integers, Sequences

\* Mutant: neighbours in the track are neighbours in the file.
EndsTrack(samples, i) == i = Len(samples)

\* Sample i is the last one of its chunk.
EndsChunk(samples, i) ==
  \/ i = Len(samples)
  \/ samples[i].offset + samples[i].size # samples[i + 1].offset

\* The samples that begin a chunk.
BeginsChunk(samples, i) == i = 1 \/ EndsChunk(samples, i - 1)

\* The loop's body of createStco() for sample i.
StcoStep(samples, stco, i) ==
  IF BeginsChunk(samples, i) THEN Append(stco, samples[i].offset) ELSE stco

StcoLoop(samples) ==
  LET stco[i \in 0..Len(samples)] ==
        IF i = 0 THEN <<>> ELSE StcoStep(samples, stco[i - 1], i)
  IN  stco

\* createStco(): the offsets of the chunks.
Stco(samples) == StcoLoop(samples)[Len(samples)]

\* createStsz(): the sizes of the samples.
Stsz(samples) == [i \in DOMAIN samples |-> samples[i].size]

\* What the loop of createStsc() remembers from one sample to the next.
StscStart == [entries |-> <<>>, chunk |-> 1, count |-> 0, previous |-> -1]

\* An entry is written only if the chunk has not as many samples as the last.
NewCount(s) == s.previous # s.count + 1

\* The loop's body of createStsc() for sample i.
StscStep(samples, s, i) ==
  IF EndsChunk(samples, i)
    THEN [entries |-> IF NewCount(s)
                        THEN Append(s.entries, [first |-> s.chunk, samples |-> s.count + 1])
                        ELSE s.entries,
          chunk |-> s.chunk + 1, count |-> 0, previous |-> s.count + 1]
    ELSE [s EXCEPT !.count = @ + 1]

StscLoop(samples) ==
  LET s[i \in 0..Len(samples)] ==
        IF i = 0 THEN StscStart ELSE StscStep(samples, s[i - 1], i)
  IN  s

\* createStsc(): how many samples the chunks have, as runs of equal counts.
Stsc(samples) == StscLoop(samples)[Len(samples)].entries

-----------------------------------------------------------------------------
(* A player.                                                               *)

\* The number of samples in chunk c.
CountIn(stsc, c) ==
  LET runs == {k \in DOMAIN stsc : stsc[k].first <= c}
  IN  stsc[CHOOSE k \in runs : \A j \in runs : j <= k].samples

\* It takes the next sample from behind the last one of the chunk, or, when the
\* chunk is used up, from the beginning of the next chunk.
PlayerStep(stsc, stco, p, size) ==
  IF p.left > 0
    THEN [p EXCEPT !.left = @ - 1, !.at = @ + size, !.found = Append(@, p.at)]
    ELSE [chunk |-> p.chunk + 1, left |-> CountIn(stsc, p.chunk + 1) - 1,
          at |-> stco[p.chunk + 1] + size, found |-> Append(p.found, stco[p.chunk + 1])]

PlayerStart == [chunk |-> 0, left |-> 0, at |-> 0, found |-> <<>>]

PlayerLoop(stsc, stco, stsz) ==
  LET p[i \in 0..Len(stsz)] ==
        IF i = 0 THEN PlayerStart ELSE PlayerStep(stsc, stco, p[i - 1], stsz[i])
  IN  p

\* The offsets at which a player finds the samples.
Player(stsc, stco, stsz) == PlayerLoop(stsc, stco, stsz)[Len(stsz)].found

\* The tables of a track lead a player to its samples.
TablesFind(samples) ==
  Player(Stsc(samples), Stco(samples), Stsz(samples))
    = [i \in DOMAIN samples |-> samples[i].offset]
=============================================================================
