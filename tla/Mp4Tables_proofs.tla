-------------------------- MODULE Mp4Tables_proofs --------------------------
(* The tables of a track lead a player to its samples: for every track.    *)
EXTENDS Mp4Tables, SequenceTheorems, WellFoundedInduction, TLAPS

-----------------------------------------------------------------------------
(* Induction, as a fact about a set of natural numbers.                    *)

LEMMA Least ==
  ASSUME NEW T, T \subseteq Nat, T # {}
  PROVE  \E x \in T : \A y \in T : x <= y
<1> DEFINE R == OpToRel(<, Nat)
<1>1. IsWellFoundedOn(R, Nat)
  BY NatLessThanWellFounded
<1>2. \A x, y \in Nat : y < x => <<y, x>> \in R
  BY DEF OpToRel
<1> HIDE DEF R
<1>3. PICK x \in T : \A y \in T : ~(<<y, x>> \in R)
  BY <1>1, WFMin
<1>4. ASSUME NEW y \in T PROVE x <= y
  <2>1. x \in Nat /\ y \in Nat
    OBVIOUS
  <2>2. ~(y < x)
    BY <1>2, <1>3, <2>1
  <2> QED
    BY <2>1, <2>2
<1> QED
  BY <1>4

LEMMA Induction ==
  ASSUME NEW S, 0 \in S, \A n \in S : n \in Nat => n + 1 \in S
  PROVE  Nat \subseteq S
<1> SUFFICES ASSUME Nat \ S # {} PROVE FALSE
  OBVIOUS
<1>1. PICK x \in Nat \ S : \A y \in Nat \ S : x <= y
  BY Least
<1>2. x - 1 \in Nat /\ (x - 1) + 1 = x /\ ~(x <= x - 1)
  BY <1>1
<1>3. x - 1 \in S
  BY <1>1, <1>2
<1> QED
  BY <1>1, <1>2, <1>3

-----------------------------------------------------------------------------
(* The loops run: each is a function of the number of samples.             *)

LEMMA StscRuns ==
  ASSUME NEW samples, Len(samples) \in Nat
  PROVE  /\ StscLoop(samples)[0] = StscStart
         /\ \A i \in 1..Len(samples) :
              StscLoop(samples)[i] = StscStep(samples, StscLoop(samples)[i - 1], i)
<1> DEFINE Runs(f, n) == f = [i \in 0..n |-> IF i = 0 THEN StscStart
                                             ELSE StscStep(samples, f[i - 1], i)]
           S == {n \in Nat : \E f : Runs(f, n)}
<1>1. 0 \in S
  <2>1. PICK f : f = [i \in 0..0 |-> StscStart]
    OBVIOUS
  <2>2. Runs(f, 0)
    BY <2>1
  <2> QED
    BY <2>2
<1>2. ASSUME NEW n \in S, n \in Nat PROVE n + 1 \in S
  <2>1. PICK f : Runs(f, n)
    BY <1>2
  <2>2. PICK g : g = [i \in 0..(n + 1) |-> IF i = 0 THEN StscStart
                                           ELSE StscStep(samples, f[i - 1], i)]
    OBVIOUS
  <2>3. \A i \in 0..n : g[i] = f[i]
    <3>1. ASSUME NEW i \in 0..n PROVE g[i] = f[i]
      <4>1. i \in 0..(n + 1)
        BY <1>2
      <4> QED
        BY <2>1, <2>2, <4>1
    <3> QED
      BY <3>1
  <2>4. \A i \in 0..(n + 1) : i # 0 => g[i - 1] = f[i - 1]
    BY <1>2, <2>3
  <2>5. Runs(g, n + 1)
    BY <2>2, <2>4
  <2>6. n + 1 \in Nat
    BY <1>2
  <2> HIDE DEF Runs
  <2> QED
    BY <2>5, <2>6
<1> HIDE DEF S
<1>3. Len(samples) \in S
  BY <1>1, <1>2, Induction
<1>4. Runs(StscLoop(samples), Len(samples))
  <2>1. \E f : Runs(f, Len(samples))
    BY <1>3 DEF S
  <2> QED
    BY <2>1 DEF StscLoop
<1> QED
  BY <1>4

LEMMA StcoRuns ==
  ASSUME NEW samples, Len(samples) \in Nat
  PROVE  /\ StcoLoop(samples)[0] = <<>>
         /\ \A i \in 1..Len(samples) :
              StcoLoop(samples)[i] = StcoStep(samples, StcoLoop(samples)[i - 1], i)
<1> DEFINE Runs(f, n) == f = [i \in 0..n |-> IF i = 0 THEN <<>>
                                             ELSE StcoStep(samples, f[i - 1], i)]
           S == {n \in Nat : \E f : Runs(f, n)}
<1>1. 0 \in S
  <2>1. PICK f : f = [i \in 0..0 |-> <<>>]
    OBVIOUS
  <2>2. Runs(f, 0)
    BY <2>1
  <2> QED
    BY <2>2
<1>2. ASSUME NEW n \in S, n \in Nat PROVE n + 1 \in S
  <2>1. PICK f : Runs(f, n)
    BY <1>2
  <2>2. PICK g : g = [i \in 0..(n + 1) |-> IF i = 0 THEN <<>>
                                           ELSE StcoStep(samples, f[i - 1], i)]
    OBVIOUS
  <2>3. \A i \in 0..n : g[i] = f[i]
    <3>1. ASSUME NEW i \in 0..n PROVE g[i] = f[i]
      <4>1. i \in 0..(n + 1)
        BY <1>2
      <4> QED
        BY <2>1, <2>2, <4>1
    <3> QED
      BY <3>1
  <2>4. \A i \in 0..(n + 1) : i # 0 => g[i - 1] = f[i - 1]
    BY <1>2, <2>3
  <2>5. Runs(g, n + 1)
    BY <2>2, <2>4
  <2>6. n + 1 \in Nat
    BY <1>2
  <2> HIDE DEF Runs
  <2> QED
    BY <2>5, <2>6
<1> HIDE DEF S
<1>3. Len(samples) \in S
  BY <1>1, <1>2, Induction
<1>4. Runs(StcoLoop(samples), Len(samples))
  <2>1. \E f : Runs(f, Len(samples))
    BY <1>3 DEF S
  <2> QED
    BY <2>1 DEF StcoLoop
<1> QED
  BY <1>4

LEMMA PlayerRuns ==
  ASSUME NEW stsc, NEW stco, NEW stsz, Len(stsz) \in Nat
  PROVE  /\ PlayerLoop(stsc, stco, stsz)[0] = PlayerStart
         /\ \A i \in 1..Len(stsz) :
              PlayerLoop(stsc, stco, stsz)[i] =
                PlayerStep(stsc, stco, PlayerLoop(stsc, stco, stsz)[i - 1], stsz[i])
<1> DEFINE Runs(f, n) == f = [i \in 0..n |-> IF i = 0 THEN PlayerStart
                                             ELSE PlayerStep(stsc, stco, f[i - 1], stsz[i])]
           S == {n \in Nat : \E f : Runs(f, n)}
<1>1. 0 \in S
  <2>1. PICK f : f = [i \in 0..0 |-> PlayerStart]
    OBVIOUS
  <2>2. Runs(f, 0)
    BY <2>1
  <2> QED
    BY <2>2
<1>2. ASSUME NEW n \in S, n \in Nat PROVE n + 1 \in S
  <2>1. PICK f : Runs(f, n)
    BY <1>2
  <2>2. PICK g : g = [i \in 0..(n + 1) |-> IF i = 0 THEN PlayerStart
                                           ELSE PlayerStep(stsc, stco, f[i - 1], stsz[i])]
    OBVIOUS
  <2>3. \A i \in 0..n : g[i] = f[i]
    <3>1. ASSUME NEW i \in 0..n PROVE g[i] = f[i]
      <4>1. i \in 0..(n + 1)
        BY <1>2
      <4> QED
        BY <2>1, <2>2, <4>1
    <3> QED
      BY <3>1
  <2>4. \A i \in 0..(n + 1) : i # 0 => g[i - 1] = f[i - 1]
    BY <1>2, <2>3
  <2>5. Runs(g, n + 1)
    BY <2>2, <2>4
  <2>6. n + 1 \in Nat
    BY <1>2
  <2> HIDE DEF Runs
  <2> QED
    BY <2>5, <2>6
<1> HIDE DEF S
<1>3. Len(stsz) \in S
  BY <1>1, <1>2, Induction
<1>4. Runs(PlayerLoop(stsc, stco, stsz), Len(stsz))
  <2>1. \E f : Runs(f, Len(stsz))
    BY <1>3 DEF S
  <2> QED
    BY <2>1 DEF PlayerLoop
<1> QED
  BY <1>4

-----------------------------------------------------------------------------
(* createStsc(): every chunk has as many samples as the runs say.          *)

\* What the tables rely on of a track's samples.
Sampled(samples) ==
  /\ Len(samples) \in Nat /\ DOMAIN samples = 1..Len(samples)
  /\ \A i \in DOMAIN samples : samples[i].offset \in Int /\ samples[i].size \in Int

Run == [first : Nat, samples : Nat]

\* The last run that begins at chunk c or before is one of n samples.
Says(entries, c, n) ==
  \E k \in DOMAIN entries :
    /\ entries[k].samples = n /\ entries[k].first <= c
    /\ \A j \in DOMAIN entries : j > k => entries[j].first > c

LEMMA SaysCount ==
  ASSUME NEW entries \in Seq(Run), NEW c \in Nat, NEW n, Says(entries, c, n)
  PROVE  CountIn(entries, c) = n
<1> DEFINE runs == {k \in DOMAIN entries : entries[k].first <= c}
           Last(k) == k \in runs /\ \A j \in runs : j <= k
<1>1. PICK k \in DOMAIN entries :
        /\ entries[k].samples = n /\ entries[k].first <= c
        /\ \A j \in DOMAIN entries : j > k => entries[j].first > c
  BY DEF Says
<1>2. \A j \in DOMAIN entries : j \in Int /\ entries[j].first \in Int
  <2>1. \A j \in DOMAIN entries : j \in Int /\ entries[j] \in Run
    OBVIOUS
  <2>2. \A r \in Run : r.first \in Int
    BY DEF Run
  <2> QED
    BY <2>1, <2>2
<1>3. Last(k)
  BY <1>1, <1>2
<1>4. \A j : Last(j) => j = k
  <2>1. ASSUME NEW j, Last(j) PROVE j = k
    <3>1. j \in runs /\ k \in runs /\ j <= k /\ k <= j
      BY <1>3, <2>1
    <3> QED
      BY <1>2, <3>1
  <2> QED
    BY <2>1
<1>5. (CHOOSE j \in runs : \A i \in runs : i <= j) = k
  <2>1. Last(CHOOSE j \in runs : \A i \in runs : i <= j)
    BY <1>3
  <2> HIDE DEF Last
  <2> QED
    BY <1>4, <2>1
<1> QED
  BY <1>1, <1>5 DEF CountIn

LEMMA SaysAppend ==
  ASSUME NEW entries \in Seq(Run), NEW c \in Nat, NEW n, NEW e \in Run, e.first > c,
         Says(entries, c, n)
  PROVE  Says(Append(entries, e), c, n)
<1>1. PICK k \in DOMAIN entries :
        /\ entries[k].samples = n /\ entries[k].first <= c
        /\ \A j \in DOMAIN entries : j > k => entries[j].first > c
  BY DEF Says
<1>2. /\ DOMAIN entries = 1..Len(entries) /\ Len(entries) \in Nat
      /\ DOMAIN Append(entries, e) = 1..Len(entries) + 1
      /\ Append(entries, e)[Len(entries) + 1] = e
      /\ \A j \in 1..Len(entries) : Append(entries, e)[j] = entries[j]
  OBVIOUS
<1>3. \A j \in 1..Len(entries) + 1 : j > k => Append(entries, e)[j].first > c
  <2>1. ASSUME NEW j \in 1..Len(entries) + 1, j > k PROVE Append(entries, e)[j].first > c
    <3>1. CASE j \in 1..Len(entries)
      BY <1>1, <1>2, <2>1, <3>1
    <3>2. CASE j = Len(entries) + 1
      BY <1>2, <3>2
    <3> QED
      BY <1>2, <3>1, <3>2
  <2> QED
    BY <2>1
<1>4. k \in DOMAIN Append(entries, e) /\ Append(entries, e)[k] = entries[k]
  BY <1>1, <1>2
<1> QED
  BY <1>1, <1>2, <1>3, <1>4 DEF Says

\* What the loop remembers: the last entry is of the count of the last chunk.
StscOK(s) ==
  /\ s.entries \in Seq(Run) /\ s.chunk \in Nat /\ s.chunk >= 1 /\ s.count \in Nat
  /\ \/ s.previous = -1
     \/ /\ Len(s.entries) > 0
        /\ s.entries[Len(s.entries)].samples = s.previous
        /\ s.entries[Len(s.entries)].first < s.chunk

\* After i samples, the runs tell of every chunk that has ended; S[j - 1].chunk
\* is the chunk of sample j, of which S[j - 1].count come before it.
Told(samples, S, i) ==
  /\ StscOK(S[i])
  /\ \A j \in 1..i :
       /\ S[j - 1].chunk \in 1..S[i].chunk
       /\ EndsChunk(samples, j) =>
            /\ S[j - 1].chunk < S[i].chunk
            /\ Says(S[i].entries, S[j - 1].chunk, S[j - 1].count + 1)

\* One sample more that ends a chunk: its count is told, by a new entry or by
\* the last one, and what was told before still is.
LEMMA ChunkTold ==
  ASSUME NEW s, StscOK(s),
         NEW t, t = IF NewCount(s)
                      THEN Append(s.entries, [first |-> s.chunk, samples |-> s.count + 1])
                      ELSE s.entries
  PROVE  /\ t \in Seq(Run) /\ Len(t) > 0
         /\ t[Len(t)].samples = s.count + 1 /\ t[Len(t)].first <= s.chunk
         /\ Says(t, s.chunk, s.count + 1)
         /\ \A c \in Nat : \A n : c < s.chunk /\ Says(s.entries, c, n) => Says(t, c, n)
<1>e. PICK e : e = [first |-> s.chunk, samples |-> s.count + 1]
  OBVIOUS
<1>n. PICK entries : entries = s.entries
  OBVIOUS
<1>1. /\ e \in Run /\ e.first = s.chunk /\ e.samples = s.count + 1
      /\ entries \in Seq(Run) /\ s.chunk \in Nat /\ s.count \in Nat
  BY <1>e, <1>n DEF StscOK, Run
<1>2. CASE NewCount(s)
  <2>1. t = Append(entries, e)
    BY <1>2, <1>e, <1>n
  <2>2. t \in Seq(Run) /\ Len(t) \in Nat /\ Len(t) > 0 /\ t[Len(t)] = e
    <3>1. /\ Append(entries, e) \in Seq(Run) /\ Len(Append(entries, e)) = Len(entries) + 1
          /\ Append(entries, e)[Len(entries) + 1] = e
      BY <1>1, AppendProperties
    <3>2. Len(entries) \in Nat
      BY <1>1
    <3>3. t \in Seq(Run) /\ Len(t) = Len(entries) + 1 /\ t[Len(entries) + 1] = e
      BY <2>1, <3>1, Zenon
    <3> QED
      BY <3>2, <3>3
  <2>3. Len(t) \in DOMAIN t /\ \A j \in DOMAIN t : ~(j > Len(t))
    BY <2>2
  <2>4. e.first <= s.chunk
    BY <1>1
  <2>5. Says(t, s.chunk, s.count + 1)
    BY <1>1, <2>2, <2>3, <2>4 DEF Says
  <2>6. \A c \in Nat : \A n : c < s.chunk /\ Says(entries, c, n) => Says(t, c, n)
    BY <1>1, <2>1, SaysAppend
  <2> QED
    BY <1>1, <1>n, <2>2, <2>4, <2>5, <2>6
<1>3. CASE ~NewCount(s)
  <2>1. t = entries /\ s.previous = s.count + 1
    BY <1>3, <1>n DEF NewCount
  <2>2. /\ Len(t) > 0 /\ Len(t) \in Nat /\ t[Len(t)].samples = s.count + 1
        /\ t[Len(t)].first < s.chunk
    BY <1>1, <1>n, <2>1 DEF StscOK
  <2>3. Len(t) \in DOMAIN t /\ \A j \in DOMAIN t : ~(j > Len(t))
    BY <1>1, <2>1, <2>2
  <2>4. t[Len(t)].first <= s.chunk
    <3>1. t[Len(t)] \in Run
      BY <1>1, <2>1, <2>3
    <3>2. t[Len(t)].first \in Nat
      BY <3>1 DEF Run
    <3> QED
      BY <1>1, <2>2, <3>2
  <2>5. Says(t, s.chunk, s.count + 1)
    BY <2>2, <2>3, <2>4 DEF Says
  <2> QED
    BY <1>1, <1>n, <2>1, <2>2, <2>4, <2>5
<1> QED
  BY <1>2, <1>3

\* The states of the loop are records with these fields.
StscState(s) ==
  s = [entries |-> s.entries, chunk |-> s.chunk, count |-> s.count, previous |-> s.previous]

LEMMA StscIsState ==
  ASSUME NEW samples, Len(samples) \in Nat
  PROVE  \A i \in 0..Len(samples) : StscState(StscLoop(samples)[i])
<1> DEFINE S == StscLoop(samples)
           Holds == {i \in Nat : i <= Len(samples) => StscState(S[i])}
<1>1. 0 \in Holds
  <2>1. S[0] = StscStart
    BY StscRuns
  <2> QED
    BY <2>1 DEF StscState, StscStart
<1>2. ASSUME NEW n \in Holds, n \in Nat PROVE n + 1 \in Holds
  <2>1. CASE n + 1 <= Len(samples)
    <3>1. n + 1 \in 1..Len(samples) /\ (n + 1) - 1 = n /\ StscState(S[n])
      BY <1>2, <2>1
    <3>2. S[n + 1] = StscStep(samples, S[n], n + 1)
      BY <3>1, StscRuns
    <3> HIDE DEF S
    <3>3. StscState(StscStep(samples, S[n], n + 1))
      BY <3>1 DEF StscStep, StscState
    <3> QED
      BY <1>2, <3>2, <3>3
  <2>2. CASE ~(n + 1 <= Len(samples))
    BY <1>2, <2>2
  <2> QED
    BY <2>1, <2>2
<1> HIDE DEF Holds
<1>3. Nat \subseteq Holds
  BY <1>1, <1>2, Induction
<1> QED
  BY <1>3 DEF Holds

\* A sample that does not end a chunk leaves all but the count.
LEMMA StscStays ==
  ASSUME NEW samples, Len(samples) \in Nat, NEW i \in 1..Len(samples),
         NEW s, s = StscLoop(samples)[i - 1], NEW t, t = StscLoop(samples)[i],
         ~EndsChunk(samples, i)
  PROVE  /\ t.chunk = s.chunk /\ t.count = s.count + 1 /\ t.previous = s.previous
         /\ t.entries = s.entries
<1>1. t = [s EXCEPT !.count = @ + 1]
  <2>1. t = StscStep(samples, s, i)
    BY StscRuns
  <2> QED
    BY <2>1 DEF StscStep
<1>2. StscState(s)
  <2>1. i - 1 \in 0..Len(samples)
    OBVIOUS
  <2> QED
    BY <2>1, StscIsState
<1> QED
  BY <1>1, <1>2 DEF StscState

LEMMA StscCounts ==
  ASSUME NEW samples, Len(samples) \in Nat, NEW S, S = StscLoop(samples),
         NEW i \in 1..Len(samples)
  PROVE  /\ EndsChunk(samples, i) => S[i].chunk = S[i - 1].chunk + 1 /\ S[i].count = 0
         /\ ~EndsChunk(samples, i) =>
              S[i].chunk = S[i - 1].chunk /\ S[i].count = S[i - 1].count + 1
<1>1. S[i] = StscStep(samples, S[i - 1], i)
  BY StscRuns
<1>2. CASE EndsChunk(samples, i)
  BY <1>1, <1>2 DEF StscStep
<1>3. CASE ~EndsChunk(samples, i)
  <2>1. StscState(S[i - 1])
    <3>1. i - 1 \in 0..Len(samples)
      OBVIOUS
    <3> QED
      BY <3>1, StscIsState
  <2> QED
    BY <1>1, <1>3, <2>1 DEF StscStep, StscState
<1> QED
  BY <1>2, <1>3

LEMMA StscTells ==
  ASSUME NEW samples, Len(samples) \in Nat
  PROVE  \A i \in 0..Len(samples) : Told(samples, StscLoop(samples), i)
<1>S. PICK S : S = StscLoop(samples)
  OBVIOUS
<1> DEFINE Holds == {i \in Nat : i <= Len(samples) => Told(samples, S, i)}
<1>1. 0 \in Holds
  <2>1. S[0] = StscStart
    BY <1>S, StscRuns
  <2>2. StscOK(StscStart)
    <3>1. <<>> \in Seq(Run)
      OBVIOUS
    <3> QED
      BY <3>1 DEF StscOK, StscStart
  <2>3. Told(samples, S, 0)
    BY <2>1, <2>2 DEF Told
  <2> QED
    BY <2>3
<1>2. ASSUME NEW n \in Holds, n \in Nat PROVE n + 1 \in Holds
  <2>0. SUFFICES ASSUME n + 1 <= Len(samples) PROVE Told(samples, S, n + 1)
    BY <1>2
  <2>i. PICK i \in 1..Len(samples) : i = n + 1 /\ n = i - 1
    BY <1>2, <2>0
  <2>s. PICK s : s = S[n]
    OBVIOUS
  <2>t. PICK t : t = S[i]
    OBVIOUS
  <2>1. Told(samples, S, n)
    BY <1>2, <2>i
  <2> HIDE DEF Holds
  <2>2. /\ StscOK(s)
        /\ \A j \in 1..n :
             /\ S[j - 1].chunk \in 1..s.chunk
             /\ EndsChunk(samples, j) =>
                  /\ S[j - 1].chunk < s.chunk
                  /\ Says(s.entries, S[j - 1].chunk, S[j - 1].count + 1)
    BY <2>1, <2>s, Zenon DEF Told
  <2>3. s.entries \in Seq(Run) /\ s.chunk \in Nat /\ s.chunk >= 1 /\ s.count \in Nat
    BY <2>2, Zenon DEF StscOK
  <2>4. \A j \in 1..i : j \in 1..n \/ (j = i /\ S[j - 1] = s)
    BY <1>2, <2>i, <2>s
  <2>5. CASE EndsChunk(samples, i)
    <3>1. /\ t.chunk = s.chunk + 1 /\ t.count = 0 /\ t.previous = s.count + 1
          /\ t.entries = IF NewCount(s)
                           THEN Append(s.entries, [first |-> s.chunk, samples |-> s.count + 1])
                           ELSE s.entries
      <4>1. t = StscStep(samples, s, i)
        <5>1. S[i] = StscStep(samples, S[i - 1], i)
          BY <1>S, StscRuns, Zenon
        <5> QED
          BY <2>i, <2>s, <2>t, <5>1, Zenon
      <4>2. t = [entries |-> IF NewCount(s)
                               THEN Append(s.entries, [first |-> s.chunk,
                                                       samples |-> s.count + 1])
                               ELSE s.entries,
                 chunk |-> s.chunk + 1, count |-> 0, previous |-> s.count + 1]
        BY <2>5, <4>1, Zenon DEF StscStep
      <4> QED
        BY <4>2
    <3>2. /\ t.entries \in Seq(Run) /\ Len(t.entries) > 0
          /\ t.entries[Len(t.entries)].samples = s.count + 1
          /\ t.entries[Len(t.entries)].first <= s.chunk
          /\ Says(t.entries, s.chunk, s.count + 1)
          /\ \A c \in Nat : \A m : c < s.chunk /\ Says(s.entries, c, m) => Says(t.entries, c, m)
      BY <2>2, <3>1, ChunkTold, Zenon
    <3>3. t.entries[Len(t.entries)].first < t.chunk
      <4>1. Len(t.entries) \in DOMAIN t.entries
        BY <3>2
      <4>2. t.entries[Len(t.entries)] \in Run
        BY <3>2, <4>1
      <4>3. t.entries[Len(t.entries)].first \in Nat
        BY <4>2 DEF Run
      <4> QED
        BY <2>3, <3>1, <3>2, <4>3
    <3>4. StscOK(t)
      <4>1. t.chunk \in Nat /\ t.chunk >= 1 /\ t.count \in Nat
        BY <2>3, <3>1
      <4> QED
        BY <3>1, <3>2, <3>3, <4>1, Zenon DEF StscOK
    <3>5. ASSUME NEW j \in 1..i
          PROVE  /\ S[j - 1].chunk \in 1..t.chunk
                 /\ EndsChunk(samples, j) =>
                      /\ S[j - 1].chunk < t.chunk
                      /\ Says(t.entries, S[j - 1].chunk, S[j - 1].count + 1)
      <4>1. CASE j \in 1..n
        <5>1. S[j - 1].chunk \in Nat /\ S[j - 1].chunk \in 1..t.chunk /\ S[j - 1].chunk < t.chunk
          BY <2>2, <2>3, <3>1, <4>1
        <5> QED
          BY <2>2, <3>2, <4>1, <5>1, Zenon
      <4>2. CASE S[j - 1] = s
        <5>1. s.chunk \in 1..t.chunk /\ s.chunk < t.chunk
          BY <2>3, <3>1
        <5> QED
          BY <3>2, <4>2, <5>1
      <4> QED
        BY <2>4, <4>1, <4>2
    <3> QED
      BY <2>i, <2>t, <3>4, <3>5, Zenon DEF Told
  <2>6. CASE ~EndsChunk(samples, i)
    <3>1. /\ t.chunk = s.chunk /\ t.count = s.count + 1 /\ t.previous = s.previous
          /\ t.entries = s.entries
      BY <1>S, <2>6, <2>i, <2>s, <2>t, StscStays
    <3>2. StscOK(t)
      <4>1. t.count \in Nat
        BY <2>3, <3>1
      <4> QED
        BY <2>2, <3>1, <4>1, Zenon DEF StscOK
    <3>3. s.chunk \in 1..t.chunk
      BY <2>3, <3>1
    <3>4. ASSUME NEW j \in 1..i
          PROVE  /\ S[j - 1].chunk \in 1..t.chunk
                 /\ EndsChunk(samples, j) =>
                      /\ S[j - 1].chunk < t.chunk
                      /\ Says(t.entries, S[j - 1].chunk, S[j - 1].count + 1)
      <4>1. CASE j \in 1..n
        BY <2>2, <3>1, <4>1, Zenon
      <4>2. CASE j = i
        BY <2>6, <2>4, <3>3, <4>2, <2>i, <2>s
      <4> QED
        BY <2>4, <4>1, <4>2
    <3> QED
      BY <2>i, <2>t, <3>2, <3>4, Zenon DEF Told
  <2> QED
    BY <2>5, <2>6
<1> HIDE DEF Holds
<1>3. Nat \subseteq Holds
  BY <1>1, <1>2, Induction
<1> QED
  BY <1>3, <1>S DEF Holds

-----------------------------------------------------------------------------
(* createStco(): every chunk begins where its first sample is.             *)

LEMMA ChunkOf ==
  ASSUME NEW samples, Len(samples) \in Nat, NEW i \in 1..Len(samples), NEW j \in 1..i
  PROVE  /\ StscOK(StscLoop(samples)[i - 1])
         /\ StscLoop(samples)[j - 1].chunk \in 1..StscLoop(samples)[i - 1].chunk
<1>S. PICK S : S = StscLoop(samples)
  OBVIOUS
<1>1. Told(samples, S, i - 1)
  <2>1. i - 1 \in 0..Len(samples)
    OBVIOUS
  <2> QED
    BY <1>S, <2>1, StscTells
<1>2. StscOK(S[i - 1])
  BY <1>1 DEF Told
<1>3. CASE j = i
  <2>1. S[i - 1].chunk \in Nat /\ S[i - 1].chunk >= 1
    BY <1>2 DEF StscOK
  <2>2. S[i - 1].chunk \in 1..S[i - 1].chunk
    BY <2>1
  <2> QED
    BY <1>2, <1>3, <1>S, <2>2
<1>4. CASE j # i
  <2>1. j \in 1..(i - 1)
    BY <1>4
  <2>2. S[j - 1].chunk \in 1..S[i - 1].chunk
    BY <1>1, <2>1, Zenon DEF Told
  <2> QED
    BY <1>2, <1>S, <2>2
<1> QED
  BY <1>3, <1>4

\* After i samples, stco has the offsets of the chunks up to that of sample i.
Begun(samples, T, i) ==
  /\ T \in Seq(Int) /\ Len(T) = StscLoop(samples)[i - 1].chunk
  /\ \A j \in 1..i :
       BeginsChunk(samples, j) => T[StscLoop(samples)[j - 1].chunk] = samples[j].offset

LEMMA StcoTells ==
  ASSUME NEW samples, Sampled(samples)
  PROVE  \A i \in 1..Len(samples) : Begun(samples, StcoLoop(samples)[i], i)
<1>S. PICK S : S = StscLoop(samples)
  OBVIOUS
<1>T. PICK T : T = StcoLoop(samples)
  OBVIOUS
<1> DEFINE Holds == {i \in Nat : i + 1 <= Len(samples) => Begun(samples, T[i + 1], i + 1)}
<1>0. Len(samples) \in Nat /\ \A i \in 1..Len(samples) : samples[i].offset \in Int
  BY DEF Sampled
<1>1. 0 \in Holds
  <2>1. ASSUME 1 <= Len(samples) PROVE Begun(samples, T[1], 1)
    <3>1. 1 \in 1..Len(samples) /\ BeginsChunk(samples, 1) /\ 1 - 1 = 0 /\ 1..1 = {1}
      BY <1>0, <2>1 DEF BeginsChunk
    <3>2. T[1] = StcoStep(samples, T[0], 1) /\ T[0] = <<>>
      BY <1>0, <1>T, <3>1, StcoRuns
    <3>3. T[1] = <<samples[1].offset>>
      BY <3>1, <3>2 DEF StcoStep
    <3>4. S[0].chunk = 1
      BY <1>0, <1>S, StscRuns DEF StscStart
    <3> QED
      BY <1>0, <1>S, <3>1, <3>3, <3>4 DEF Begun
  <2> QED
    BY <2>1
<1>2. ASSUME NEW n \in Holds, n \in Nat PROVE n + 1 \in Holds
  <2>0. SUFFICES ASSUME (n + 1) + 1 <= Len(samples)
                 PROVE  Begun(samples, T[(n + 1) + 1], (n + 1) + 1)
    BY <1>2
  <2>i. PICK i \in 1..Len(samples) : i = n + 1 /\ i + 1 \in 1..Len(samples)
    BY <1>0, <1>2, <2>0
  <2>k. PICK k \in 1..Len(samples) : k = i + 1 /\ k - 1 = i /\ k # 1
    BY <1>0, <2>i
  <2>1. Begun(samples, T[i], i)
    BY <1>0, <1>2, <2>i
  <2> HIDE DEF Holds
  <2>a. PICK a : a = T[i]
    OBVIOUS
  <2>o. PICK o : o = samples[k].offset
    OBVIOUS
  <2>2. /\ a \in Seq(Int) /\ Len(a) = S[i - 1].chunk
        /\ \A j \in 1..i : BeginsChunk(samples, j) => a[S[j - 1].chunk] = samples[j].offset
    BY <1>S, <2>1, <2>a, Zenon DEF Begun
  <2>3. \A j \in 1..i : S[j - 1].chunk \in 1..Len(a)
    BY <1>0, <1>S, <2>2, ChunkOf
  <2>4. T[k] = StcoStep(samples, a, k) /\ o \in Int
    BY <1>0, <1>T, <2>a, <2>k, <2>o, StcoRuns
  <2>5. BeginsChunk(samples, k) <=> EndsChunk(samples, i)
    BY <2>k DEF BeginsChunk
  <2>6. \A j \in 1..k : j \in 1..i \/ j = k
    BY <1>0, <2>k
  <2>7. CASE EndsChunk(samples, i)
    <3>1. T[k] = Append(a, o)
      BY <2>4, <2>5, <2>7, <2>o DEF StcoStep
    <3>2. S[k - 1].chunk = S[i - 1].chunk + 1
      BY <1>0, <1>S, <2>7, <2>k, StscCounts
    <3>3. /\ T[k] \in Seq(Int) /\ Len(T[k]) = S[k - 1].chunk /\ T[k][S[k - 1].chunk] = o
          /\ \A j \in 1..Len(a) : T[k][j] = a[j]
      <4>1. /\ Append(a, o) \in Seq(Int) /\ Len(Append(a, o)) = Len(a) + 1
            /\ Append(a, o)[Len(a) + 1] = o
            /\ \A j \in 1..Len(a) : Append(a, o)[j] = a[j]
        <5>1. a \in Seq(Int) /\ o \in Int
          BY <2>2, <2>4, Zenon
        <5> QED
          BY <5>1
      <4>2. Len(a) + 1 = S[k - 1].chunk
        BY <2>2, <3>2, Zenon
      <4> QED
        BY <3>1, <4>1, <4>2, Zenon
    <3>4. \A j \in 1..i : BeginsChunk(samples, j) => T[k][S[j - 1].chunk] = samples[j].offset
      BY <2>2, <2>3, <3>3
    <3>5. \A j \in 1..k : BeginsChunk(samples, j) => T[k][S[j - 1].chunk] = samples[j].offset
      BY <2>6, <2>o, <3>3, <3>4
    <3>6. Begun(samples, T[k], k)
      BY <1>S, <3>3, <3>5, Zenon DEF Begun
    <3> QED
      BY <2>i, <2>k, <3>6
  <2>8. CASE ~EndsChunk(samples, i)
    <3>1. T[k] = a
      BY <2>4, <2>5, <2>8 DEF StcoStep
    <3>2. S[k - 1].chunk = S[i - 1].chunk
      BY <1>0, <1>S, <2>8, <2>k, StscCounts
    <3>3. \A j \in 1..k : BeginsChunk(samples, j) => T[k][S[j - 1].chunk] = samples[j].offset
      BY <2>2, <2>5, <2>6, <2>8, <3>1
    <3>4. Begun(samples, T[k], k)
      BY <1>S, <2>2, <3>1, <3>2, <3>3, Zenon DEF Begun
    <3> QED
      BY <2>i, <2>k, <3>4
  <2> QED
    BY <2>7, <2>8
<1> HIDE DEF Holds
<1>3. Nat \subseteq Holds
  BY <1>1, <1>2, Induction
<1>4. ASSUME NEW i \in 1..Len(samples) PROVE Begun(samples, T[i], i)
  <2>1. i - 1 \in Nat /\ (i - 1) + 1 = i /\ i <= Len(samples)
    BY <1>0
  <2>2. i - 1 \in Holds
    BY <1>3, <2>1
  <2> QED
    BY <2>1, <2>2 DEF Holds
<1> QED
  BY <1>4, <1>T

-----------------------------------------------------------------------------
(* The player follows.                                                     *)

\* The count of sample i's chunk, which Stsc tells, is that of the samples up to
\* i in the chunk, and more as long as i does not end it.
Counted(samples, S, i) ==
  LET count == CountIn(Stsc(samples), S[i - 1].chunk)
  IN  /\ count \in Nat /\ count >= S[i - 1].count + 1
      /\ EndsChunk(samples, i) <=> count = S[i - 1].count + 1

LEMMA StscCounted ==
  ASSUME NEW samples, Len(samples) \in Nat, NEW S, S = StscLoop(samples)
  PROVE  \A i \in 1..Len(samples) : Counted(samples, S, i)
<1>n. PICK n : n = Len(samples)
  OBVIOUS
<1> DEFINE Holds == {m \in Nat : m < n => Counted(samples, S, n - m)}
<1>0. ASSUME NEW i \in 1..n
      PROVE  S[i - 1].chunk \in Nat /\ S[i - 1].count \in Nat /\ n \in Nat
  BY <1>0, <1>n, ChunkOf DEF StscOK
<1>1. ASSUME NEW i \in 1..n, EndsChunk(samples, i) PROVE Counted(samples, S, i)
  <2>1. Told(samples, S, n)
    <3>1. n \in 0..n
      BY <1>0
    <3> QED
      BY <1>n, <3>1, StscTells
  <2>2. /\ S[n].entries \in Seq(Run)
        /\ Says(S[n].entries, S[i - 1].chunk, S[i - 1].count + 1)
    BY <1>1, <2>1, Zenon DEF Told, StscOK
  <2>3. Stsc(samples) = S[n].entries
    BY <1>n DEF Stsc
  <2>4. CountIn(Stsc(samples), S[i - 1].chunk) = S[i - 1].count + 1
    BY <1>0, <2>2, <2>3, SaysCount
  <2>5. S[i - 1].count + 1 \in Nat /\ S[i - 1].count + 1 >= S[i - 1].count + 1
    BY <1>0
  <2> QED
    BY <1>1, <2>4, <2>5 DEF Counted
<1>2. 0 \in Holds
  <2>1. ASSUME 0 < n PROVE Counted(samples, S, n)
    <3>1. n \in 1..n /\ EndsChunk(samples, n)
      BY <1>n, <2>1 DEF EndsChunk
    <3> QED
      BY <1>1, <3>1
  <2>2. n - 0 = n
    BY <1>n
  <2> QED
    BY <2>1, <2>2
<1>3. ASSUME NEW m \in Holds, m \in Nat PROVE m + 1 \in Holds
  <2>0. SUFFICES ASSUME m + 1 < n PROVE Counted(samples, S, n - (m + 1))
    BY <1>3
  <2>i. PICK i \in 1..n : i = n - (m + 1) /\ i + 1 = n - m /\ i + 1 \in 1..n /\ i # n
    BY <1>3, <1>n, <2>0
  <2>1. Counted(samples, S, i + 1)
    BY <1>3, <1>n, <2>0, <2>i
  <2> HIDE DEF Holds
  <2>2. CASE EndsChunk(samples, i)
    BY <1>1, <2>2, <2>i
  <2>3. CASE ~EndsChunk(samples, i)
    <3>1. /\ S[i].chunk = S[i - 1].chunk /\ S[i].count = S[i - 1].count + 1
          /\ S[i - 1].count \in Nat
      BY <1>0, <1>n, <2>3, StscCounts
    <3>2. (i + 1) - 1 = i
      BY <1>n, <2>i
    <3>c. PICK count : count = CountIn(Stsc(samples), S[i - 1].chunk)
      OBVIOUS
    <3>3. count \in Nat /\ count >= (S[i - 1].count + 1) + 1
      BY <2>1, <3>1, <3>2, <3>c DEF Counted
    <3>4. count >= S[i - 1].count + 1 /\ count # S[i - 1].count + 1
      BY <3>1, <3>3
    <3>5. Counted(samples, S, i)
      BY <2>3, <3>3, <3>4, <3>c DEF Counted
    <3> QED
      BY <2>i, <3>5
  <2> QED
    BY <2>2, <2>3
<1> HIDE DEF Holds
<1>4. Nat \subseteq Holds
  BY <1>2, <1>3, Induction
<1>5. ASSUME NEW i \in 1..n PROVE Counted(samples, S, i)
  <2>1. n - i \in Nat /\ n - i < n /\ n - (n - i) = i
    BY <1>n
  <2>2. n - i \in Holds
    BY <1>4, <2>1
  <2> QED
    BY <2>1, <2>2 DEF Holds
<1> QED
  BY <1>5, <1>n

\* What the player has after sample i: the offsets of the first i samples, and
\* what is left of the chunk of sample i.
Played(samples, p, i) ==
  /\ p = [chunk |-> p.chunk, left |-> p.left, at |-> p.at, found |-> p.found]
  /\ p.chunk = StscLoop(samples)[i - 1].chunk
  /\ p.left = CountIn(Stsc(samples), p.chunk) - (StscLoop(samples)[i - 1].count + 1)
  /\ p.at = samples[i].offset + samples[i].size
  /\ p.found \in Seq(Int) /\ Len(p.found) = i
  /\ \A j \in 1..i : p.found[j] = samples[j].offset

\* The player begins a chunk.
LEMMA ChunkPlayed ==
  ASSUME NEW samples, Sampled(samples), NEW i \in 1..Len(samples), BeginsChunk(samples, i),
         NEW p, p.found \in Seq(Int), Len(p.found) = i - 1,
         \A j \in 1..(i - 1) : p.found[j] = samples[j].offset,
         ~(p.left > 0), p.chunk + 1 = StscLoop(samples)[i - 1].chunk,
         StscLoop(samples)[i - 1].count = 0
  PROVE  Played(samples, PlayerStep(Stsc(samples), Stco(samples), p, samples[i].size), i)
<1>S. PICK S : S = StscLoop(samples)
  OBVIOUS
<1>0. /\ Len(samples) \in Nat /\ \A j \in 1..Len(samples) : samples[j].offset \in Int
      /\ samples[i].size \in Int /\ Len(samples) \in 1..Len(samples)
  <2>1. Len(samples) \in Nat
    BY Zenon DEF Sampled
  <2>2. \A j \in 1..Len(samples) : samples[j].offset \in Int /\ samples[j].size \in Int
    BY Zenon DEF Sampled
  <2>3. Len(samples) \in 1..Len(samples)
    BY <2>1
  <2> QED
    BY <2>1, <2>2, <2>3, Zenon
<1>1. Stco(samples)[S[i - 1].chunk] = samples[i].offset
  <2>1. Begun(samples, Stco(samples), Len(samples))
    BY <1>0, StcoTells DEF Stco
  <2> QED
    BY <1>S, <2>1 DEF Begun
<1>c. PICK c : c = p.chunk + 1
  OBVIOUS
<1>o. PICK o : o = samples[i].offset
  OBVIOUS
<1>f. PICK found : found = Append(p.found, o)
  OBVIOUS
<1>q. PICK q : q = PlayerStep(Stsc(samples), Stco(samples), p, samples[i].size)
  OBVIOUS
<1>2. q = [chunk |-> c, left |-> CountIn(Stsc(samples), c) - 1, at |-> o + samples[i].size,
           found |-> found]
  BY <1>1, <1>S, <1>c, <1>f, <1>o, <1>q, Zenon DEF PlayerStep
<1>3. /\ q.chunk = c /\ q.left = CountIn(Stsc(samples), c) - 1
      /\ q.at = o + samples[i].size /\ q.found = found
  BY <1>2
<1>4. q = [chunk |-> q.chunk, left |-> q.left, at |-> q.at, found |-> q.found]
  BY <1>2, <1>3, Zenon
<1>5. o \in Int
  BY <1>0, <1>o
<1>6. /\ found \in Seq(Int) /\ Len(found) = (i - 1) + 1
      /\ found[(i - 1) + 1] = o /\ \A j \in 1..(i - 1) : found[j] = p.found[j]
  BY <1>5, <1>f, AppendProperties
<1>7. Len(found) = i /\ \A j \in 1..i : found[j] = samples[j].offset
  <2>1. (i - 1) + 1 = i /\ \A j \in 1..i : j \in 1..(i - 1) \/ j = i
    BY <1>0
  <2> QED
    BY <1>6, <1>o, <2>1
<1>8. q.left = CountIn(Stsc(samples), q.chunk) - (S[i - 1].count + 1)
  <2>1. S[i - 1].count + 1 = 1
    BY <1>S
  <2> QED
    BY <1>3, <2>1
<1> QED
  BY <1>3, <1>4, <1>6, <1>7, <1>8, <1>S, <1>c, <1>o, <1>q, Zenon DEF Played

\* The player goes on in a chunk.
LEMMA OnPlayed ==
  ASSUME NEW samples, Sampled(samples), NEW i \in 1..Len(samples), i + 1 \in 1..Len(samples),
         ~EndsChunk(samples, i), NEW p, Played(samples, p, i)
  PROVE  Played(samples, PlayerStep(Stsc(samples), Stco(samples), p, samples[i + 1].size), i + 1)
<1>S. PICK S : S = StscLoop(samples)
  OBVIOUS
<1>k. PICK k \in 1..Len(samples) : k = i + 1 /\ k - 1 = i
  BY DEF Sampled
<1>o. PICK o : o = samples[k].offset
  OBVIOUS
<1>0. Len(samples) \in Nat /\ o \in Int /\ samples[k].size \in Int
  BY <1>k, <1>o DEF Sampled
<1>1. Counted(samples, S, i)
  BY <1>0, <1>S, StscCounted
<1>2. S[i].chunk = S[i - 1].chunk /\ S[i].count = S[i - 1].count + 1
  BY <1>0, <1>S, StscCounts
<1>3. /\ p.chunk = S[i - 1].chunk
      /\ p.left = CountIn(Stsc(samples), p.chunk) - (S[i - 1].count + 1)
      /\ p.found \in Seq(Int) /\ Len(p.found) = i
      /\ \A j \in 1..i : p.found[j] = samples[j].offset
      /\ p = [chunk |-> p.chunk, left |-> p.left, at |-> p.at, found |-> p.found]
  BY <1>S, Zenon DEF Played
<1>4. p.at = o
  <2>1. samples[i].offset + samples[i].size = samples[i + 1].offset
    BY DEF EndsChunk
  <2> QED
    BY <1>k, <1>o, <2>1 DEF Played
<1>5. S[i - 1].count \in Nat
  BY <1>0, <1>S, ChunkOf DEF StscOK
<1>6. p.left > 0 /\ p.left - 1 = CountIn(Stsc(samples), p.chunk) - (S[i].count + 1)
  <2>c. PICK c : c = CountIn(Stsc(samples), p.chunk)
    OBVIOUS
  <2>1. /\ c \in Nat /\ c >= S[i - 1].count + 1
        /\ EndsChunk(samples, i) <=> c = S[i - 1].count + 1
    <3>1. CountIn(Stsc(samples), S[i - 1].chunk) = c
      BY <1>3, <2>c, Zenon
    <3> QED
      BY <1>1, <3>1, Zenon DEF Counted
  <2>2. p.left = c - (S[i - 1].count + 1) /\ p.chunk = S[i - 1].chunk
    BY <1>3, <2>c, Zenon
  <2> QED
    BY <1>2, <1>5, <2>1, <2>2, <2>c
<1>f. PICK found : found = Append(p.found, o)
  OBVIOUS
<1>q. PICK q : q = PlayerStep(Stsc(samples), Stco(samples), p, samples[k].size)
  OBVIOUS
<1>7. q = [chunk |-> p.chunk, left |-> p.left - 1, at |-> o + samples[k].size, found |-> found]
  <2>1. q = [p EXCEPT !.left = p.left - 1, !.at = p.at + samples[k].size,
                      !.found = Append(p.found, p.at)]
    BY <1>6, <1>q DEF PlayerStep
  <2> QED
    BY <1>3, <1>4, <1>f, <2>1
<1>8. /\ q.chunk = p.chunk /\ q.left = p.left - 1 /\ q.at = o + samples[k].size
      /\ q.found = found
  BY <1>7
<1>9. q = [chunk |-> q.chunk, left |-> q.left, at |-> q.at, found |-> q.found]
  BY <1>7, <1>8, Zenon
<1>10. /\ found \in Seq(Int) /\ Len(found) = i + 1
       /\ found[i + 1] = o /\ \A j \in 1..i : found[j] = p.found[j]
  BY <1>0, <1>3, <1>f, AppendProperties
<1>11. Len(found) = k /\ \A j \in 1..k : found[j] = samples[j].offset
  <2>1. \A j \in 1..k : j \in 1..i \/ j = k
    BY <1>0, <1>k
  <2> QED
    BY <1>3, <1>10, <1>k, <1>o, <2>1
<1>12. Played(samples, q, k)
  BY <1>2, <1>3, <1>6, <1>8, <1>9, <1>10, <1>11, <1>S, <1>k, <1>o, Zenon DEF Played
<1> QED
  BY <1>12, <1>k, <1>q

LEMMA AllPlayed ==
  ASSUME NEW samples, Sampled(samples)
  PROVE  \A i \in 1..Len(samples) :
           Played(samples, PlayerLoop(Stsc(samples), Stco(samples), Stsz(samples))[i], i)
<1>S. PICK S : S = StscLoop(samples)
  OBVIOUS
<1>z. PICK stsz : stsz = Stsz(samples)
  OBVIOUS
<1>P. PICK P : P = PlayerLoop(Stsc(samples), Stco(samples), stsz)
  OBVIOUS
<1>n. PICK n : n = Len(samples)
  OBVIOUS
<1>0. /\ n \in Nat /\ DOMAIN samples = 1..n
      /\ \A i \in 1..n : samples[i].offset \in Int /\ samples[i].size \in Int
  BY <1>n DEF Sampled
<1>1. Len(stsz) = n /\ \A i \in 1..n : stsz[i] = samples[i].size
  <2>1. stsz = [i \in 1..n |-> samples[i].size]
    BY <1>0, <1>z DEF Stsz
  <2>2. stsz \in Seq(Int)
    BY <1>0, <2>1
  <2> QED
    BY <1>0, <2>1, <2>2
<1>2. /\ P[0] = PlayerStart
      /\ \A i \in 1..n : P[i] = PlayerStep(Stsc(samples), Stco(samples), P[i - 1], stsz[i])
  BY <1>0, <1>1, <1>P, PlayerRuns
<1> DEFINE Holds == {m \in Nat : m + 1 <= n => Played(samples, P[m + 1], m + 1)}
<1>3. 0 \in Holds
  <2>1. ASSUME 1 <= n PROVE Played(samples, P[1], 1)
    <3>i. PICK i \in 1..Len(samples) : i = 1 /\ i - 1 = 0 /\ i \in 1..n
      BY <1>0, <1>n, <2>1
    <3>p. PICK p : p = PlayerStart
      OBVIOUS
    <3>1. p.found = <<>> /\ p.left = 0 /\ p.chunk = 0
      BY <3>p DEF PlayerStart
    <3>2. /\ p.found \in Seq(Int) /\ Len(p.found) = i - 1
          /\ \A j \in 1..(i - 1) : p.found[j] = samples[j].offset
          /\ ~(p.left > 0)
      BY <3>1, <3>i
    <3>3. S[i - 1].chunk = 1 /\ S[i - 1].count = 0
      BY <1>0, <1>S, <1>n, <3>i, StscRuns DEF StscStart
    <3>4. BeginsChunk(samples, i) /\ p.chunk + 1 = S[i - 1].chunk
      BY <3>1, <3>3, <3>i DEF BeginsChunk
    <3>5. Played(samples, PlayerStep(Stsc(samples), Stco(samples), p, samples[i].size), i)
      BY <1>S, <3>2, <3>3, <3>4, ChunkPlayed
    <3>6. P[i] = PlayerStep(Stsc(samples), Stco(samples), p, samples[i].size)
      BY <1>1, <1>2, <3>i, <3>p
    <3> QED
      BY <3>5, <3>6, <3>i
  <2> QED
    BY <2>1
<1>4. ASSUME NEW m \in Holds, m \in Nat PROVE m + 1 \in Holds
  <2>0. SUFFICES ASSUME (m + 1) + 1 <= n PROVE Played(samples, P[(m + 1) + 1], (m + 1) + 1)
    BY <1>4
  <2>i. PICK i \in 1..Len(samples) : i = m + 1 /\ i \in Nat /\ i <= n
    BY <1>0, <1>4, <1>n, <2>0
  <2>k. PICK k \in 1..Len(samples) : k = i + 1 /\ k - 1 = i /\ i + 1 \in 1..n /\ k # 1
    BY <1>0, <1>n, <2>0, <2>i
  <2>p. PICK p : p = P[i]
    OBVIOUS
  <2>1. Played(samples, p, i)
    BY <1>4, <2>i, <2>p
  <2> HIDE DEF Holds
  <2>2. P[k] = PlayerStep(Stsc(samples), Stco(samples), p, samples[k].size)
    BY <1>1, <1>2, <1>n, <2>k, <2>p
  <2>3. CASE EndsChunk(samples, i)
    <3>1. S[k - 1].chunk = S[i - 1].chunk + 1 /\ S[k - 1].count = 0
      BY <1>0, <1>S, <1>n, <2>3, <2>k, StscCounts
    <3>2. Counted(samples, S, i)
      BY <1>0, <1>S, <1>n, StscCounted
    <3>3. /\ p.chunk = S[i - 1].chunk
          /\ p.left = CountIn(Stsc(samples), p.chunk) - (S[i - 1].count + 1)
          /\ p.found \in Seq(Int) /\ Len(p.found) = i
          /\ \A j \in 1..i : p.found[j] = samples[j].offset
      BY <1>S, <2>1, Zenon DEF Played
    <3>4. ~(p.left > 0)
      <4>1. p.left = CountIn(Stsc(samples), p.chunk) - CountIn(Stsc(samples), p.chunk)
            /\ CountIn(Stsc(samples), p.chunk) \in Nat
        BY <2>3, <3>2, <3>3 DEF Counted
      <4> QED
        BY <4>1
    <3>5. BeginsChunk(samples, k)
      BY <2>3, <2>k DEF BeginsChunk
    <3>6. /\ Len(p.found) = k - 1 /\ \A j \in 1..(k - 1) : p.found[j] = samples[j].offset
          /\ p.chunk + 1 = S[k - 1].chunk
      BY <2>k, <3>1, <3>3
    <3>7. Played(samples, P[k], k)
      BY <1>S, <2>2, <3>1, <3>3, <3>4, <3>5, <3>6, ChunkPlayed
    <3> QED
      BY <2>i, <2>k, <3>7
  <2>4. CASE ~EndsChunk(samples, i)
    <3>1. Played(samples, PlayerStep(Stsc(samples), Stco(samples), p, samples[i + 1].size), i + 1)
      BY <1>n, <2>1, <2>4, <2>k, OnPlayed
    <3> QED
      BY <2>2, <2>i, <2>k, <3>1
  <2> QED
    BY <2>3, <2>4
<1> HIDE DEF Holds
<1>5. Nat \subseteq Holds
  BY <1>3, <1>4, Induction
<1>6. ASSUME NEW i \in 1..n PROVE Played(samples, P[i], i)
  <2>1. i - 1 \in Nat /\ (i - 1) + 1 = i /\ i <= n
    BY <1>0
  <2>2. i - 1 \in Holds
    BY <1>5, <2>1
  <2> QED
    BY <2>1, <2>2 DEF Holds
<1> QED
  BY <1>6, <1>P, <1>n, <1>z

\* The tables that createStsc(), createStco() and createStsz() write lead a
\* player to every sample, whatever the samples of the track.
THEOREM TablesFindAll ==
  ASSUME NEW samples, Sampled(samples)
  PROVE  TablesFind(samples)
<1>n. PICK n : n = Len(samples)
  OBVIOUS
<1>0. /\ n \in Nat /\ DOMAIN samples = 1..n
      /\ \A i \in 1..n : samples[i].offset \in Int /\ samples[i].size \in Int
  BY <1>n DEF Sampled
<1>1. Len(Stsz(samples)) = n
  <2>1. Stsz(samples) = [i \in 1..n |-> samples[i].size]
    BY <1>0 DEF Stsz
  <2>2. Stsz(samples) \in Seq(Int)
    BY <1>0, <2>1
  <2> QED
    BY <1>0, <2>1, <2>2
<1>p. PICK found : found = Player(Stsc(samples), Stco(samples), Stsz(samples))
  OBVIOUS
<1>2. found = PlayerLoop(Stsc(samples), Stco(samples), Stsz(samples))[n].found
  BY <1>1, <1>p DEF Player
<1>3. CASE n = 0
  <2>1. found = <<>>
    BY <1>0, <1>1, <1>2, <1>3, PlayerRuns DEF PlayerStart
  <2>2. [i \in DOMAIN samples |-> samples[i].offset] = <<>>
    <3>1. DOMAIN samples = {}
      BY <1>0, <1>3
    <3> QED
      BY <3>1
  <2> QED
    BY <1>p, <2>1, <2>2 DEF TablesFind
<1>4. CASE n # 0
  <2>1. /\ found \in Seq(Int) /\ Len(found) = n
        /\ \A j \in 1..n : found[j] = samples[j].offset
    <3>1. n \in 1..n
      BY <1>0, <1>4
    <3>2. Played(samples, PlayerLoop(Stsc(samples), Stco(samples), Stsz(samples))[n], n)
      BY <1>n, <3>1, AllPlayed
    <3> QED
      BY <1>2, <3>2, Zenon DEF Played
  <2>2. found = [i \in 1..n |-> samples[i].offset]
    <3>1. found = [i \in 1..n |-> found[i]]
      BY <1>0, <2>1
    <3> QED
      BY <2>1, <3>1
  <2> QED
    BY <1>0, <1>p, <2>2 DEF TablesFind
<1> QED
  BY <1>3, <1>4
=============================================================================
